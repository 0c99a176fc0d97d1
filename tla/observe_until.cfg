CONSTANTS
    Observers = {o1}
    Untils <- AllUntils
    Events <- AllEvents
    Names <- Activities
    MaxPage = 1
    MaxGen = 2
    MaxPushes = 1
    MaxNoise = 1
    MaxSessions = 2
SPECIFICATION FairSpec
CHECK_DEADLOCK FALSE
INVARIANTS
    EchoCoversMatch
PROPERTIES
    ObserveEnds
