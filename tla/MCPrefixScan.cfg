CONSTANTS
    KeySpace <- MCKeySpaceAll
    ScanPrefixes <- MCPrefixesAll
    DVals <- MCDVals
    SVals <- MCSVals
    dv = dv
    sv = sv
    Tomb = Tomb
    NoVal = NoVal
SPECIFICATION Spec
INVARIANT ScanSound
INVARIANT LoopComplete
INVARIANT DelRemovesPrefix
CHECK_DEADLOCK FALSE
