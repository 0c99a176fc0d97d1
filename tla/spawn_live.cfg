CONSTANTS
    Ids = {a}
    Starts = {s1, s2}
    Shutdowns = {d1}
    ReapAlls = {}
    MaxPid = 2
SPECIFICATION FairSpec
INVARIANTS
    NoOrphan
    FailedStartLeavesNothing
PROPERTIES
    CallsEnd
