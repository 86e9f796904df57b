CONSTANTS
    Splits = {"s1", "s2", "s3"}
    NoSplit = "none"
    Paths = {"p1", "p2", "p3"}
    Hashes = {"h1", "h2", "h3"}
    Times = {1, 2, 3}
    MaxEntries = 5
    Inputs <- MCInputs
    Concurrency = 2
    Capacity = 2
    EntriesPerFile = 2
    MaxFaults = 2
SPECIFICATION PipeSpec
INVARIANTS NothingLost ConflictDetected LatestOfDistinctWins CommitWhole
PROPERTY PipelineEnds
CHECK_DEADLOCK FALSE
