CONSTANTS
    a = a
    b = b
    c1 = c1
    c2 = c2
    Ids = {a, b}
    NoInstance = NoInstance
    Omitted = Omitted
    DefaultInstance = a
    Calls = {c1, c2}
    Clients <- Pairs
    OutCap = 1
    MaxToken = 2
    Breakable = {1}
    MaxSteps = 2
SPECIFICATION FairSpec
CHECK_DEADLOCK FALSE
INVARIANTS
    TypeOK
    StopsOnFirstFailure
    SettledBeforeNext
    ReportIsTrue
    RightInstance
PROPERTIES
    CallsEnd
