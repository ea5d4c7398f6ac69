SPECIFICATION FairSpec
CONSTANTS
    Pages <- CallPages
    Keys <- CallKey
    Packages <- AnnouncePackage
    Capacity = 1
    CommandsMayWait = FALSE
PROPERTIES
    LiveOffObeyed
    CallOffObeyed
    ControlGoesOn
