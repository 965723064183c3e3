CONSTANTS
  u1 = u1
  u2 = u2
  s1 = s1
  Users = {u1, u2}
  Sockets = {s1, s2}
  Owner <- MCOwner
  NoUser = NoUser
  None = None
  MaxOpens = 2
  MaxMoves = 1
  MaxWrites = 0
  MaxFaults = 1
SPECIFICATION FairSpec
CHECK_DEADLOCK FALSE
INVARIANT GhostOnlyByRace
PROPERTY HandoverHappens
