SPECIFICATION Spec
CONSTANTS
    Riders = {r1, r2}
    Drivers = {d1, d2}
    Places = {here}
    Tasks = {t1, t2, t3}
    Calls = {c1}
    MaxRides = 1
    MaxTime = 1
    FreshWindow = 0
    DaysAhead = 1
    NearbyRadius = 1
    Distance <- MCDistance
    Faults = TRUE
    Worker = TRUE
    Null = Null
    r1 = r1
    r2 = r2
    d1 = d1
    d2 = d2
    here = here
    near = near
    far = far
CHECK_DEADLOCK FALSE
SYMMETRY MCSymmetry
INVARIANTS
    TypeOK
    MilestonesInOrder
    PaidOnlyAfterCompletion
    DriverIffAssigned
    OwnershipHoldsAtWrite
    ScheduledRideIsNeverServed
PROPERTIES
    OnlineDriverFixed
