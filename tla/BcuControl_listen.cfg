SPECIFICATION Spec
CONSTANTS
    Pages <- ListenPages
    Keys <- LiveKey
    Packages <- ListenPackages
    Capacity = 2
    CommandsMayWait = FALSE
INVARIANTS
    TypeOK
    MicHeldInSession
    FlagsTellSessions
