\* All overlays x snapshots over 4 keys and every seek key.
CONSTANTS
    dv = dv
    sv = sv
    N = 4
    DVals <- MCDVals
    SVals <- MCSVals
    Tomb = Tomb
    NoVal = NoVal
SPECIFICATION Spec
PROPERTY MergedSpec
PROPERTY ScanEnds
CHECK_DEADLOCK FALSE
