SPECIFICATION Spec
CHECK_DEADLOCK FALSE
CONSTANTS
  NoPage = NoPage
  Page = {f1, f2, f3, f4, f5, f6, f7, f8, f9, f10, f11, f12}
  Proc = {1, 2, 3}
  Boot = {1}
  MaxLive = 3
  Text <- MCText
  Data <- MCData
  HeapStart = 4
  HeapMax = 1
  StackVA = 6
  VA <- MCVA
  Table = {"low", "high"}
  Path <- MCPath
  KHeapPages = 3
PROPERTY InPlaceMeansSole
