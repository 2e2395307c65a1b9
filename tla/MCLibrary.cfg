SPECIFICATION LibrarySpec
CONSTANTS
  MAX_PATH_LEN = 8
  Paths <- MCPaths
  MaxMemory = 7
  NameLen = 2
  ExtLen = 1
  Letters = {65, 66}
  Nibble = 2
  IntHalf = 128
  Old <- MCOld
  Source <- MCSource
  Texts <- MCTexts
  Numbers <- MCNumbers
  Bases <- MCBases
  Limits <- MCLimits
INVARIANTS PathsExact NothingKept NamesResolve CallsExact
