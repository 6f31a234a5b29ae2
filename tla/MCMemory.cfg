SPECIFICATION Spec

CONSTANTS
  Procs = {1, 2}
  NoProc = 0
  NumVmas = 8
  Programs <- TwoPrograms
  PageSize = 4
  UHeapStart = 24
  UHeapLimit = 32
  UStackLimit = 36
  UStackTop = 44
  Sizes = {1, 3}
  NumNodes = 3
  SharedNodes = 1

INVARIANTS
  TypeOK
  VmasApart
  OwnBytesServed
  BlocksApart

PROPERTIES
  StoresKept

CHECK_DEADLOCK FALSE
