SPECIFICATION FairSpec

CONSTANTS
  Byte = {"a", "b"}
  Size = 5
  Wrap = 1
  Messages <- Short
  Counts = {1, 2, 5, 8}
  Patient = TRUE

INVARIANTS
  TypeOK
  NoWildCopy

PROPERTIES
  ImplementsByteQueue
  ReaderFinishes
