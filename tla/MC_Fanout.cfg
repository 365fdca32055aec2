CONSTANTS
  Child = {a, b, c}
  Inline = {a, b}
  K = 3
  Est = 2
  Request = Request
  Free = Free
SPECIFICATION FanoutFairSpec
INVARIANTS
  StackInv
  ToldOnce
  Nested
  FinalizedOnce
  GroupsAreComponents
  BaseIsLowerBound
  PrefixAsRecorded
PROPERTIES
  Finishes
CHECK_DEADLOCK FALSE
