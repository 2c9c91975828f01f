CONSTANTS
    Loggers = {l1, l2}
    SystemCalls = {c1, c2}
    QueueSize = 2
    BatchSize = 2
    Chunk = 1
    AuditDays = 1
    LogDays = 0
    InsertFails = TRUE
    Crashes = TRUE
    Reconfigures = TRUE
    MaxStamp = 4
    MaxDay = 2
    None = none
SPECIFICATION Spec
SYMMETRY Symmetry
INVARIANTS ChainIntact  TailNeverMissing  FlushDelivers
CHECK_DEADLOCK FALSE
