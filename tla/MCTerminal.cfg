SPECIFICATION FairSpec

CONSTANTS
  Procs = {1, 2}
  NoProc = 0
  Letters = {"a"}
  asciiShift <- Shifted
  MaxTyped = 4
  Patient = TRUE

INVARIANT
  TypeOK

PROPERTIES
  ImplementsLineQueue
  ReaderServed
