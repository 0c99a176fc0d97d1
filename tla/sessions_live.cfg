CONSTANTS
    Ids = {a}
    NoInstance = NoInstance
    Omitted = Omitted
    DefaultInstance = a
    Calls = {c1}
    NoCall = NoCall
    Ops <- LiveOps
    Payloads <- LiveReplies
    Cap = 1
    OutCap = 1
    Breakable = {}
    Observed = {}
    MaxToken = 2
    MaxCorr = 1
    MaxItems = 2
SPECIFICATION FairSpec
CHECK_DEADLOCK FALSE
INVARIANTS
    ReplyBelongsToCall
PROPERTIES
    ImplementsRequest
    CallsEnd
    StreamsEnd
