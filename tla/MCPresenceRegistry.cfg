CONSTANTS
  u1 = u1
  Users = {u1}
  Sockets = {s1, s2}
  Owner <- MCOwner
  AwayAfter = 1
  BeatEvery = 1
  Debounce = 1
  MinInterval = 1
  MaxFaults = 1
SPECIFICATION Spec
CHECK_DEADLOCK FALSE
INVARIANTS OnlineExplained NoGhost LastSeenTrue SavedUnlessLost GraceBounded
