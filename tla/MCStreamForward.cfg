CONSTANTS
  MaxTools = 2
  MaxEvents = 5
  Pairs <- AllPairs
SPECIFICATION FairSpec
INVARIANTS TypeOK WellFormed TruthfulEnd AllArrives 
PROPERTIES Returns
CHECK_DEADLOCK FALSE
