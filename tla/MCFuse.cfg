SPECIFICATION Spec
CONSTANTS
    Names = {"a", "b"}
    FirstINode = 9
    MaxCreates = 3
    MaxSize = 1
    Writable = {10}
    MaxFaults = 0
    MaxCreateFaults = 1
    MaxDirUploadTasks = 1
    MaxPutFaults = 1
    MaxDirents = 2
INVARIANTS NamespaceAgrees  SizesAgree NoPanic
 CommitComplete RoundTrip ListedWhole
PROPERTY CommitEnds
CHECK_DEADLOCK FALSE
