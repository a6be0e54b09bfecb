\* Two overlapping calls; StopReturns is expected to fail.
CONSTANTS
  Callers = {k1, k2}
  MaxStarts = 2
SPECIFICATION FairSpec
PROPERTIES StopReturns
CHECK_DEADLOCK FALSE
