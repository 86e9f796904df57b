CONSTANTS
    NumObjects = 3
    BatchSizes = {1, 2}
SPECIFICATION Spec
INVARIANTS YieldsAll
CHECK_DEADLOCK FALSE
