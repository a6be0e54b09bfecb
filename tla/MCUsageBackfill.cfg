\* A start of the program on tables that agree.
CONSTANTS
  r1 = r1
  r2 = r2
  r3 = r3
  k1 = k1
  NoKey = NoKey
  Records = {r1, r2, r3}
  Keys = {k1}
  KeyOf <- MCKeyOf
  Capacity = 1
  BatchSize = 2
  MaxStarts = 2
  LastDay = 2
SPECIFICATION Spec
PROPERTIES MigrationIsIdempotent
CHECK_DEADLOCK FALSE
