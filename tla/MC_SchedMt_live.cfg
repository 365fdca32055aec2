CONSTANTS
  Worker = {w1, w2}
  Remote = {r1}
  Task = {a}
  InfraTask = {}
  IoTask = {a}
  Prio <- MCPrio
  EventInterval = 1
  MayClose = TRUE
  NoTask = NoTask
  NoWorker = NoWorker
SPECIFICATION FairSpec
PROPERTIES
  WorkTakenUp
  WakeKept
  ShutdownEnds
CHECK_DEADLOCK FALSE
