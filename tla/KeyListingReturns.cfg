CONSTANTS
    NumObjects = 3
    BatchSizes = {1, 2}
SPECIFICATION Spec
PROPERTIES AlwaysReturns
CHECK_DEADLOCK FALSE
