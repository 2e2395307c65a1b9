SPECIFICATION FairSpec
CONSTANTS
  root = root
  sub = sub
  n = n
  m = m
  Dirs <- MCDirs
  ROOT <- root
  Names <- MCNames
  Volumes <- MCVolumes
  Paths <- MCPaths
  ClusterSizes = {4, 8}
  EntrySize = 2
  DataSectors = {6, 7}
INVARIANTS TypeOK LookupExact NothingKept
PROPERTY LookupEnds
CHECK_DEADLOCK FALSE
