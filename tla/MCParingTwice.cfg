SPECIFICATION Spec
CONSTANTS
    Riders = {r1}
    Drivers = {d1, d2}
    Places = {}
    Null = Null
    Codes = {c1, c2}
    Tasks = {t1, t2}
    ExpiryTime = 1
    MaxParings = 2
    MaxTime = 2
    Faults = FALSE
INVARIANT ParingUsedOnce
CHECK_DEADLOCK FALSE
