\* No administrator at all; ExhaustedIsRefused is expected to fail.
CONSTANTS
  Keys = {k1}
  Requests = {r1, r2, r3}
  Admins = {}
  Balances = {0, 1}
SPECIFICATION Spec
PROPERTIES ExhaustedIsRefused
CHECK_DEADLOCK FALSE
