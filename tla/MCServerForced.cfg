SPECIFICATION Spec
CONSTANTS
    Conns = {c1}
    Startup = Startup
    MaxStatements = 2
    APP_FORCE_SHUTDOWN_SECOND = 1
    Second = 2
    MaxTime = 2
INVARIANTS
    ForcedExitWaits
CHECK_DEADLOCK FALSE
