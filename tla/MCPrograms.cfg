SPECIFICATION ProgramSpec
CONSTANTS
  n1 = n1
  n2 = n2
  n3 = n3
  n4 = n4
  NULL = NULL
  Nodes <- MCNodes
  BUFFER_SIZE = 3
  Values = {7, 8}
INVARIANT StructuresSound
PROPERTIES ListSpec QueueSpec
