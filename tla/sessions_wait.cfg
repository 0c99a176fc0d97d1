CONSTANTS
    Ids = {a}
    NoInstance = NoInstance
    Omitted = Omitted
    DefaultInstance = a
    Calls = {c1, c2}
    NoCall = NoCall
    Ops <- PaintWaits
    Payloads <- PaintReplies
    Cap = 1
    OutCap = 2
    Breakable = {}
    Observed = {}
    MaxToken = 2
    MaxCorr = 2
    MaxItems = 2
SPECIFICATION Spec
CHECK_DEADLOCK FALSE
SYMMETRY CallSymmetry
INVARIANTS
    ReplyBelongsToCall
    NoWaiterLeak
    NotStranded
    ReplyCanStillArrive
