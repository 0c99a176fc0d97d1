CONSTANTS
    Ids = {a, b}
    NoInstance = NoInstance
    Omitted = Omitted
    DefaultInstance = a
    Calls = {c1}
    NoCall = NoCall
    Ops <- StreamOps
    Payloads <- StreamItems
    Cap = 2
    OutCap = 1
    Breakable = {1}
    Observed = {a}
    MaxToken = 2
    MaxCorr = 1
    MaxItems = 2
SPECIFICATION Spec
CHECK_DEADLOCK FALSE
INVARIANTS
    TypeOK
    RegisteredHasReader
    Isolation
    StoredViewWasSent
PROPERTIES
    OnlyOwnerUnregisters
    ImplementsRequest
