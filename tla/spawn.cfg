CONSTANTS
    Ids = {a, b}
    Starts = {s1, s2}
    Shutdowns = {}
    ReapAlls = {r1}
    MaxPid = 2
SPECIFICATION Spec
SYMMETRY SpawnSymmetry
INVARIANTS
    TypeOK
    NoStuckReservation
    ReapAllKillsListed
