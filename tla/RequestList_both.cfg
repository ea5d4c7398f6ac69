SPECIFICATION Spec
CONSTANTS
    PcuCalls <- OneCall
    BcuCalls <- OneCall
    Seats <- TwoSeats
    Garbage <- AnyCount
    ConfiguredSeat = 2
    PcuRows = 1
    BcuRows = 1
INVARIANT
    RowsShowRequests
