CONSTANTS
  MaxTools = 2
  MaxEvents = 5
  Pairs <- AllPairs
SPECIFICATION Spec
INVARIANTS RightBlock
CHECK_DEADLOCK FALSE
