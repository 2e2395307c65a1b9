SPECIFICATION Spec
CONSTANTS
  root = root
  sub = sub
  n = n
  m = m
  Dirs <- MCDirs
  ROOT <- root
  Names <- MCNames
  Volumes <- MCFullRoot
  Paths <- MCPaths
  ClusterSizes = {65536}
  EntrySize = 32
  DataSectors = {716}
INVARIANT FindsWhatIsThere
CHECK_DEADLOCK FALSE
