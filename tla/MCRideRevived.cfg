SPECIFICATION Spec
CONSTANTS
    Riders = {r1}
    Drivers = {d1}
    Places = {here}
    Tasks = {t1, t2}
    Calls = {c1}
    MaxRides = 1
    MaxTime = 1
    FreshWindow = 1
    DaysAhead = 1
    NearbyRadius = 1
    Distance <- MCDistance
    Faults = FALSE
    Worker = FALSE
    Null = Null
    r1 = r1
    r2 = r2
    d1 = d1
    d2 = d2
    here = here
    near = near
    far = far
CHECK_DEADLOCK FALSE
PROPERTY EndedIsFinal
