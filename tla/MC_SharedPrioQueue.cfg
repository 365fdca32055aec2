CONSTANTS
  Thread = {t1, t2, t3}
  InfraTask = {i1, i2, i3}
  UserTask = {u1, u2}
  Prio <- MCPrio
  Free = Free
  NoTask = NoTask
SYMMETRY Symmetry
SPECIFICATION Spec
INVARIANTS
  QueueInv
  InfraFirst
  EmptyComplete
PROPERTIES
  LaneAtomic
