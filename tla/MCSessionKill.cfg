SPECIFICATION SessionSpec

CONSTANTS
  NumPcbs = 5
  Naps = {1}
  SleepRoom = 1
  WaitRoom = 5
  Calls <- AllCalls
  Jobs <- MixedJobs
  Commands = {"kill"}
  BackgroundCommands = {"kill"}
  Prompt = TRUE
  Quiet = FALSE

INVARIANTS
  NoFault
