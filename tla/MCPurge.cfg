SPECIFICATION Spec
CONSTANTS
    b1 = b1  b2 = b2  f1 = f1  f2 = f2  l1 = l1  l2 = l2  j1 = j1  j2 = j2
    Bundles = {b1, b2}
    OldBundles = {b1}
    Files = {f1, f2}
    Leaves = {l1, l2}
    FileOf <- MCFileOf
    LeavesOf <- MCLeavesOf
    Rank <- MCRank
    Jobs = {j1, j2}
    ChunkSize = 2
    MaxParallel = 1
    ReaderBuffer = 1
    MaxChunks = 5
    MaxLaunches = 3
    MaxBuilds = 2
    FaultKinds = {"attr", "delete"}
SYMMETRY MCJobs
INVARIANTS Exclusive IndexComplete
PROPERTIES OldBundlesKept RecentKept UnusedRemoved
CHECK_DEADLOCK FALSE
