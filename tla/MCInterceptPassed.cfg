\* One request on the connection; PassedWhole is expected to fail.
CONSTANTS
  Channels = {c1}
  MaxRows = 1
  MaxRequests = 1
SPECIFICATION Spec
INVARIANTS PassedWhole
CHECK_DEADLOCK FALSE
