SPECIFICATION Spec
CONSTANTS
  Puts = {"p1", "p2"}
  Src <- MCSrc
  LeafSize = 3
  Pieces = {2, 3}
  MaxFlushes = 2
  MaxFaults = 1
  Root = "p1"
  Readers = {"r1", "r2"}
  Requests <- MCRequests
  CacheBuffers = 1
  Spare = 3
  ReadSizes = {2}
  MaxWrites = 2
  Trees <- MCTrees
  TopDir = "/"
  Settings <- MCSettings
  Included = {1, 3}
  OldFiles = {1, 2}
  ToolFaults = 1
INVARIANTS
  PutKeys
  
  ReadRight
  BuffersOwned
  MigrationNotStuck

  
CHECK_DEADLOCK FALSE
