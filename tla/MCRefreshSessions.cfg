SPECIFICATION Spec
CONSTANTS
  Calls = {c1, c2}
  Grace = 2
  Ttl = 3
  MaxCalls = 4
  MaxTime = 4
SYMMETRY Symmetry
INVARIANTS
  RotatedOnce
  RefusedForAReason
  LogoutIsFinal
  DisabledGetsNothing
CHECK_DEADLOCK FALSE
