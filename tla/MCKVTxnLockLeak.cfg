\* A conflicting commit leaves the lock it took on a mismatching key held.
CONSTANTS
    c1 = c1
    c2 = c2
    kc = kc
    kd = kd
    d1 = d1
    Clients <- MCClients
    CounterKeys <- MCCounterKeys
    DataKeys <- MCDataKeys
    DataVals <- MCDataVals
    Steps <- MCSteps
    MaxCounter = 2
    MaxTxns = 3
    LockBeforeWrite = TRUE
    NoVal = NoVal
    Tomb = Tomb
    NotMarked = NotMarked
SPECIFICATION Spec
INVARIANT NoLockOutlivesCommit
SYMMETRY MCSymmetry
CHECK_DEADLOCK FALSE
