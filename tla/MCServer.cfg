SPECIFICATION FairSpec
CONSTANTS
    Conns = {c1, c2}
    Startup = Startup
    MaxStatements = 3
    APP_FORCE_SHUTDOWN_SECOND = 1
    Second = 2
    MaxTime = 3
INVARIANTS
    TypeOK
    OnlyForceCutsOff
    NoHandlerBeforeSchema
PROPERTIES
    ShutdownEnds
    RoutesOrExit
CHECK_DEADLOCK FALSE
