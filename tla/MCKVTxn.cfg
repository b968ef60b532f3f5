\* Allocator and read-set validation under the lock-before-write discipline.
CONSTANTS
    c1 = c1
    c2 = c2
    kc = kc
    kd = kd
    d1 = d1
    Clients <- MCClients
    CounterKeys <- MCCounterKeys
    DataKeys <- MCDataKeys
    DataVals <- MCDataVals
    Steps <- MCSteps
    MaxCounter = 2
    MaxTxns = 3
    LockBeforeWrite = TRUE
    NoVal = NoVal
    Tomb = Tomb
    NotMarked = NotMarked
SPECIFICATION Spec
INVARIANT TypeOK
INVARIANT IdsUnique
PROPERTY ValidatedReadsCurrentAtWrite

SYMMETRY MCSymmetry
CHECK_DEADLOCK FALSE
