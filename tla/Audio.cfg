SPECIFICATION FairSpec
CONSTANTS
    Chunk = 2
    Droppable = 2
    RecvSize = 6
    SendSize = 2
    Settled = 2
    PerTurn = 3
INVARIANTS
    TypeOK
    AtMostOneOldWrite
    PlayStartsFilled
    AtMostOneOldSample
PROPERTIES
    StaysWorkedOff
    HeardInTheEnd
