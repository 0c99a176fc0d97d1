CONSTANTS
    Payloads <- MCPayloads
    Cap = 3
    MaxPush = 6
SPECIFICATION Spec
CHECK_DEADLOCK FALSE
INVARIANTS
    TypeOK
PROPERTIES
    EvictsLeastValuable
    ImplementsEventLog
