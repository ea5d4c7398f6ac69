SPECIFICATION LinesSpec
CONSTANTS
    total_items = 4
    Messages = {m1, m2}
    NoMessage = NoMessage
    CounterModulus = 2
    Lines = {"cmd", "common", "heart", "send common"}
    RoomOfLine = 1
    Arriving = {"speaker", "busy"}
    Items_ = 3
INVARIANTS
    LinesTypeOK
    SlotOwnership
    AllRegistered
    TakenOnce
PROPERTIES
    ImplementsFairMailbox
    RoomAgain
