CONSTANTS
    KeySpace <- MCKeySpace
    ScanPrefixes <- MCPrefixesShort
    DVals <- MCDVals
    SVals <- MCSVals
    dv = dv
    sv = sv
    Tomb = Tomb
    NoVal = NoVal
SPECIFICATION Spec
INVARIANT ScanComplete
CHECK_DEADLOCK FALSE
