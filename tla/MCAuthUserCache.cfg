SPECIFICATION Spec
CONSTANTS
  Users = {u1, u2}
  Requests = {r1, r2}
  Ttl = 1
  MaxEntries = 1
  Delay = 1
  MaxTime = 3
  MaxEdits = 1
SYMMETRY Symmetry
INVARIANTS
  OwnEditSeen
  OffWithinTtl
CHECK_DEADLOCK FALSE
