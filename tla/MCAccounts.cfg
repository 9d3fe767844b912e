SPECIFICATION LoginSpec
CONSTANTS
    Mobiles = {m1, m2}
    Emails = {e1}
    NoEmail = NoEmail
    Null = Null
    Tasks = {t1, t2}
    Visitors = {v1}
    MaxUsers = 3
    OtpExpiry = 1
    JwtExpiry = 1
    MaxTime = 1
    Faults = TRUE
SYMMETRY MCSymmetry
INVARIANTS
    TypeOK
    DriverUsersHaveRow
    DuplicatesNeedOverlap
    LoginTypeOK
    RefusedOnlyIfShared
    DriverNeverMissing
    NobodyIsBoth
    OtpProvedInTime
CHECK_DEADLOCK FALSE
