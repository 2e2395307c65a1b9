SPECIFICATION Spec
CONSTANTS
  Entries = 53
  CodeIndex = 1
  StackIndex = 2
  KernelIndex = 4
  BootFrame = 1
  HeapFrame = 2
  MaxProcs = 5
  CodeSizes <- MCCodeSizes
INVARIANTS TypeOK KernelAlwaysMapped TranslationExact ProgramsApart
PROPERTY KernelTablesFrozen
CHECK_DEADLOCK FALSE
