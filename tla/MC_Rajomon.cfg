CONSTANTS
  Rpc = {r1}
  Parent = {"p"}
  Callee = {"x", "y"}
  Edge <- MCEdge
  Tokens = {0, 2, 3}
  Price = {0, 2}
  Latency = {0, 3}
  Threshold = 2
  PriceStepUp = 1
  Unit = 1
  InitPrice = 1
  Top = 3
  None = None
SPECIFICATION RajomonFairSpec
INVARIANTS
  TableInv
PROPERTIES
  AdmittedCovers
  PricesDecay
CHECK_DEADLOCK FALSE
