\* Safety: two interchangeable requests that compete for two channels.
CONSTANTS
  c1 = c1
  c2 = c2
  Channels = {c1, c2}
  Requests = {r1, r2}
  CandidateLists <- ByPriority
  MaxCandidates = 2
  BaseWait = 2
  MaxWait = 4
  ProbeTimeout = 1
  Horizon = 3
SPECIFICATION Spec
SYMMETRY RequestSymmetry
INVARIANTS TypeOK OneResponse UnavailableIsHonest
PROPERTIES NoReplay
CHECK_DEADLOCK FALSE
