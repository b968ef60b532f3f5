CONSTANTS
    FirstVals <- MCFirstVals
    Vals <- MCVals
    Cast <- MCCast
    CastErr = castErr
    one = one
    two = two
    strOne = strOne
    junk = junk
    castErr = castErr
    Arities = {1, 2}
    MaxSrcs = 3
    MaxRows = 2
SPECIFICATION Spec
INVARIANT DistinctStepAddsNew
INVARIANT NothingLost
CHECK_DEADLOCK FALSE
