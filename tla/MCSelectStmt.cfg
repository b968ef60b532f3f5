CONSTANTS
    noAlias = noAlias
    const = const
    Const <- const
    ListsOf <- MCListsOf
    NoAlias <- noAlias
    Trees <- MCTrees
    Preds <- MCPreds
    Vals <- MCVals
    OutVals <- MCOutVals
    ToBoolOf <- MCToBool
    EqOf <- MCEq
    ToStringOf <- MCToString
    UserVars <- MCUserVars
    SysVars <- MCSysVars
    SessionSys <- MCSessionSys
    MaxRows = 2
    MaxRuns = 2

SPECIFICATION Spec

INVARIANTS
    PlanFromSound
    ClientGetsMatchingRows
    InferredFromFirstRow
    FieldsPlanSound

CHECK_DEADLOCK FALSE
