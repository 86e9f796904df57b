SPECIFICATION Spec
CONSTANTS
    Jobs = {"a", "b"}
    Plans <- MCPlans
    Archive <- MCArchive
    Labels <- MCLabels
    Home = "r"
    Bare = {"q"}
    PerFile = 2
    MaxUploads = 2
    Generated = {".datamon/3"}
    MaxFaults = 1
    MaxRestarts = 1
    MaxLists = 2
    MaxDownloads = 2
    MaxDeletes = 3
    Names <- MCNames
    BatchSize = 2
    ConcurrentList = 2
INVARIANTS
    BundleWhole
    TransferRight
    RenameKeeps
    
    
    ListingRight
PROPERTY JobsEnd
CHECK_DEADLOCK FALSE
