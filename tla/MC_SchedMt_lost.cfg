CONSTANTS
  Worker = {w1, w2}
  Remote = {r1}
  Task = {a}
  InfraTask = {}
  IoTask = {}
  Prio <- MCPrio
  EventInterval = 2
  MayClose = FALSE
  NoTask = NoTask
  NoWorker = NoWorker
SPECIFICATION Spec
INVARIANT NoStrandedWork
CHECK_DEADLOCK FALSE
