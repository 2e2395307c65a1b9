SPECIFICATION FairSpec
CONSTANTS
  TableLen = 5
  BlockSize = 2
  Sizes <- MCSizes
  SizeMod = 8
  MaxSpill = 1
INVARIANTS TypeOK TableExact BumpRegime
PROPERTIES AllocatorSpec SearchEndsInBumpRegime
