CONSTANTS
  Thread = {t1, t2}
  Item = {a, b}
  Urgent = {a}
  N = 3
  Rank <- MCRank
  Free = Free
  NoItem = NoItem
SPECIFICATION FairSpec
INVARIANTS
  QueueInv
  ScansComplete
PROPERTIES
  LocksReleased
