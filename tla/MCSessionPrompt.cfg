SPECIFICATION FairSession

CONSTANTS
  NumPcbs = 5
  Naps = {1}
  SleepRoom = 1
  WaitRoom = 5
  Calls <- AllCalls
  Jobs = {"lookup"}
  Commands = {}
  BackgroundCommands = {}
  Prompt = FALSE
  Quiet = FALSE

PROPERTIES
  ShellComesBack
