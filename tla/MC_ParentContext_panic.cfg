CONSTANTS
  Thread = {h1, h2}
  Req = {r1, r2}
  Job = {j1, j2}
  NoReq = NoReq
  NoTask = NoTask
SYMMETRY Symmetry
SPECIFICATION Spec
INVARIANT ContextReset
CHECK_DEADLOCK FALSE
