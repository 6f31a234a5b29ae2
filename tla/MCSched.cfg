SPECIFICATION FairSpec

CONSTANTS
  NumPcbs = 4
  Naps = {1}
  SleepRoom = 1
  WaitRoom = 1
  Calls <- Families

INVARIANTS
  NoFault
  RunQueueSound
  WaitersHaveACause

PROPERTIES
  RunnableRuns
