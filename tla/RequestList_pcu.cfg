SPECIFICATION FairSpec
CONSTANTS
    PcuCalls <- TwoCalls
    BcuCalls <- NoCalls
    Seats <- TwoSeats
    Garbage <- AnyCount
    ConfiguredSeat = 2
    PcuRows = 1
    BcuRows = 1
INVARIANTS
    TypeOK
    NoDuplicates
    CountsTellLength
    ButtonFollowsCount
PROPERTY
    CallsAreShown
