CONSTANTS
  Worker = {w1, w2}
  Remote = {r1}
  Task = {a, b}
  InfraTask = {a}
  IoTask = {b}
  Prio <- MCPrio
  EventInterval = 2
  MayClose = FALSE
  NoTask = NoTask
  NoWorker = NoWorker
SYMMETRY Symmetry
SPECIFICATION Spec
INVARIANTS
  SchedInv
  WokenHasToken
  OneHolder
CHECK_DEADLOCK FALSE
