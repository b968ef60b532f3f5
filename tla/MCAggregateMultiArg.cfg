CONSTANTS
    Values <- MCValues
    Nil = nil
    Sep = sep
    nil = nil
    sep = sep
    MaxRows = 2
    MaxArgs = 2
    Homogeneous = TRUE
SPECIFICATION Spec
INVARIANT AggregateCorrect
CHECK_DEADLOCK FALSE
