SPECIFICATION ToneSpec
CONSTANTS
    Size = 4
    Bytes = {0, 1}
    MaxCall = 2
    ClearModulus = 2
    SwitchAtWrap = FALSE
    ClearInCall = FALSE
    Sessions = {"d2p", "d2d", "monitor"}
    MaxCalls = 1
    MaxWakes = 1
    Tone = 4
    Chunk = 3
    Border = 2
    AlarmSize = 6
INVARIANTS
    ToneTypeOK
    HeapIsListed
    PointersAgree
    DriverCallHearsNoTone
PROPERTIES
    IsTape
    ToneStops
CHECK_DEADLOCK FALSE
