\* Three records, a channel of one, batches of two, two starts and a midnight.
CONSTANTS
  r1 = r1
  r2 = r2
  r3 = r3
  k1 = k1
  NoKey = NoKey
  Records = {r1, r2, r3}
  Keys = {k1}
  KeyOf <- MCKeyOf
  Capacity = 1
  BatchSize = 2
  MaxStarts = 2
  LastDay = 2
SPECIFICATION FairSpec
INVARIANTS TypeOK AccountedFor DailyAgrees
PROPERTIES BufferDrains
CHECK_DEADLOCK FALSE
