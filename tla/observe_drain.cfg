CONSTANTS
    Observers = {o1, o2}
    Untils <- DrainUntils
    Events <- DrainEvents
    Names <- NoNames
    MaxPage = 0
    MaxGen = 0
    MaxPushes = 2
    MaxNoise = 0
    MaxSessions = 2
SPECIFICATION Spec
CHECK_DEADLOCK FALSE
SYMMETRY ObserverSymmetry
INVARIANTS
    TypeOK
    EventsOnceInOrder
