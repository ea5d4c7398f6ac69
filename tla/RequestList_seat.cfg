SPECIFICATION Spec
CONSTANTS
    PcuCalls <- OneCall
    BcuCalls <- NoCalls
    Seats <- TwoSeats
    Garbage <- AnyCount
    ConfiguredSeat = 2
    PcuRows = 1
    BcuRows = 1
INVARIANT
    SeatIsConfigured
