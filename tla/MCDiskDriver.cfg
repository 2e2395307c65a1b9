SPECIFICATION DiskSpec
CONSTANTS
  Base = 4
  HeadValues = 2
  WordsPerSector = 3
  Lbas <- MCLbas
  Counts = {1, 2, 4}
INVARIANT ReadsSafe
PROPERTY ReadEnds
