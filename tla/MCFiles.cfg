SPECIFICATION Spec
CONSTANTS
  a1 = a1
  a2 = a2
  a3 = a3
  a4 = a4
  a5 = a5
  MaxOpenFiles = 3
  Addresses <- MCAddresses
INVARIANTS TypeOK FilesSound LoaderSound
CHECK_DEADLOCK FALSE
