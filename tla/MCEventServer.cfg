SPECIFICATION FairSpec
CONSTANTS
    completed = completed
    redeemed = redeemed
    AnyType = AnyType
    Empty = Empty
    Types = {completed, redeemed}
    Limits <- SomeLimits
    MaxEvents = 5
    MaxSize = 3
    MaxInFlight = 2
INVARIANTS
    TypeOK
    RetainsLatest
    NewestKept
    ReplyInOrder
PROPERTIES
    ImplementsLog
