\* Five calls on one channel (channels do not interact), probes shorter than the
\* first cooldown, the four lengths 2, 4, 8 and 13 of a cooldown and time for them.
\* No symmetry, because a liveness property is checked.
CONSTANTS
  Channels = {c1}
  Calls = {k1, k2, k3, k4, k5}
  BaseWait = 2
  MaxWait = 13
  ProbeTimeout = 1
  Horizon = 14
SPECIFICATION FairSpec
INVARIANTS TypeOK OneProbe ReservationHasOwner
PROPERTIES CooldownNeverShrinks GateSpec ReservationReleased
CHECK_DEADLOCK FALSE
