SPECIFICATION Spec
CONSTANTS
  f1 = f1
  f2 = f2
  d1 = d1
  d2 = d2
  Files <- MCFiles
  Descriptors <- MCDescriptors
  Requests <- MCRequests
  WordSize = 16
  SectorSize = 2
  SectorsPerCluster = 2
  ReservedSectors = 1
  DataSector = 10
  MaxCluster = 5
  Layouts <- MCLayouts
  Sizes <- MCSizes
INVARIANTS TypeOK ContentExact EndsExact
PROPERTY CountExact
SYMMETRY MCSymmetry
