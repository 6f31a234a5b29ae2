SPECIFICATION FairSession

CONSTANTS
  NumPcbs = 7
  Naps = {1}
  SleepRoom = 1
  WaitRoom = 7
  Calls <- AllCalls
  Jobs <- Lines
  Commands <- JobControl
  BackgroundCommands = {"read"}
  Prompt = TRUE
  Quiet = TRUE

INVARIANTS
  TypeOK
  EveryQueueProper
  HeadsTrue
  NothingLost
  OneForeground
  ReaderIsForeground

PROPERTIES
  WakeHasCause
  ImplementsRoundRobin
  ShellComesBack
  SleeperWakes
