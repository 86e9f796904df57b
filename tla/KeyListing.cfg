CONSTANTS
    NumObjects = 3
    BatchSizes = {1, 2}
SPECIFICATION Spec
INVARIANTS  CompleteOrError
PROPERTIES Returns
CHECK_DEADLOCK FALSE
