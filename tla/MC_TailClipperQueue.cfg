CONSTANTS
  Task = {t1, t2, t3, t4}
  Meta = {0, 1, 2}
  Infra = 0
  UseInfra = TRUE
  C = 2
SPECIFICATION FairSpec
INVARIANTS
  WindowOldest
  IInv
PROPERTIES
  FullAfterPush
  NeverMovesBack
  ImplementsLimitedSharing
  CallsEnd
