SPECIFICATION Spec
CONSTANTS
    Pages <- DriverPages
    Keys <- DriverKey
    Packages <- AllPackages
    Capacity = 1
    CommandsMayWait = TRUE
INVARIANTS
    RequestEndsWithSession
