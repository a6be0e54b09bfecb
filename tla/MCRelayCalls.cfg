\* Refinement of CircuitBreaker, and the end of every request: two requests
\* that compete for one channel; no symmetry, because a liveness property is
\* checked.
CONSTANTS
  c1 = c1
  c2 = c2
  Channels = {c1}
  Requests = {r1, r2}
  CandidateLists <- Single
  MaxCandidates = 1
  BaseWait = 2
  MaxWait = 4
  ProbeTimeout = 1
  Horizon = 2
SPECIFICATION FairSpec
PROPERTIES CallingSpec RequestEnds
CHECK_DEADLOCK FALSE
