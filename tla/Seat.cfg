SPECIFICATION SeatSpec
CONSTANTS
    Cars = {c1, c2}
    SendPlaces = 1
    RecvPlaces = 1
    Length = 3
    Cap = 3
INVARIANTS
    SeatTypeOK
    MarksAreOffered
    ConfirmedOnce
    PagesTellState
    CallIsAsLoudAsChosen
    PressGivesOneEvent
    KeepsWorking
    NothingIsEarly
PROPERTY
    HeldKeyIsNoticed
