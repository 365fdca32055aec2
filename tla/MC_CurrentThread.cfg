CONSTANTS
  Task = {a, b}
  Remote = {r1}
  GlobalInterval = 2
  EventInterval = 2
  ShutdownOnPanic = TRUE
  Main = Main
  NoTask = NoTask
SPECIFICATION FairSpec
INVARIANTS
  LoopInv
  ExitsExact
  DownClean
PROPERTIES
  CallbackOrder
  RemoteServed
  MainPolled
  DeferServed
CHECK_DEADLOCK FALSE
