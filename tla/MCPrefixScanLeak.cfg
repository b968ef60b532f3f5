CONSTANTS
    KeySpace <- MCKeySpace
    ScanPrefixes <- MCPrefixesLong
    DVals <- MCDVals
    SVals <- MCSVals
    dv = dv
    sv = sv
    Tomb = Tomb
    NoVal = NoVal
SPECIFICATION Spec
INVARIANT NoIteratorLeak
CHECK_DEADLOCK FALSE
