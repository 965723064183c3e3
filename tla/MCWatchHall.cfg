CONSTANTS
  u1 = u1
  u2 = u2
  s1 = s1
  Users = {u1, u2}
  Sockets = {s1, s2, s3}
  Owner <- MCOwner
  NoUser = NoUser
  None = None
  MaxOpens = 2
  MaxMoves = 1
  MaxWrites = 1
  MaxFaults = 0
SPECIFICATION Spec
SYMMETRY Symmetry
CHECK_DEADLOCK FALSE
INVARIANTS HandoverPending HostSavedUnlessOverlap PresentUnlessStale
