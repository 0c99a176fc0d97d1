CONSTANTS
    Ids = {a}
    NoInstance = NoInstance
    Omitted = Omitted
    DefaultInstance = a
    Calls = {c1}
    NoCall = NoCall
    Ops <- PaintWaits
    Payloads <- PaintReplies
    Cap = 1
    OutCap = 1
    Breakable = {}
    Observed = {}
    MaxToken = 2
    MaxCorr = 1
    MaxItems = 0
SPECIFICATION Spec
CHECK_DEADLOCK FALSE
INVARIANT DisconnectedMeansGone
