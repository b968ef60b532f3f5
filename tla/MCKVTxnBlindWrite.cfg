\* Callers may write keys they have not marked: one reads a key with Get, then writes it.
CONSTANTS
    c1 = c1
    c2 = c2
    kc = kc
    kd = kd
    d1 = d1
    Clients <- MCClients
    CounterKeys <- MCCounterKeys
    DataKeys <- MCDataKeys
    DataVals <- MCDataVals
    Steps <- MCSteps
    MaxCounter = 2
    MaxTxns = 3
    LockBeforeWrite = FALSE
    NoVal = NoVal
    Tomb = Tomb
    NotMarked = NotMarked
SPECIFICATION Spec
PROPERTY ReadWriteConflictDetected
SYMMETRY MCSymmetry
CHECK_DEADLOCK FALSE
