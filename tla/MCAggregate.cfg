CONSTANTS
    Values <- MCValues
    Nil = nil
    Sep = sep
    nil = nil
    sep = sep
    MaxRows = 3
    MaxArgs = 1
    Homogeneous = TRUE
SPECIFICATION Spec
INVARIANT AggregateCorrect
CHECK_DEADLOCK FALSE
