SPECIFICATION Spec
CONSTANTS
    Sessions = {"d2p", "d2d", "monitor"}
    MaxCalls = 1
    MaxWakes = 1
    Tone = 4
    Chunk = 3
    Border = 2
    Size = 6
INVARIANT
    ToneSounds
