CONSTANTS
    Ids = {a}
    Starts = {s1, s2}
    Shutdowns = {d1}
    ReapAlls = {}
    MaxPid = 2
SPECIFICATION Spec
INVARIANTS
    OneLiveChild
