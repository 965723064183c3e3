SPECIFICATION ViewSpec
CONSTANTS
  Keys = {k1, k2}
  Events = {e1, e2}
  Ttl = 1
  MaxEntries = 1
  MaxTime = 1
  MaxChanges = 1
  Socks = {s1, s2}
  Key = k1
  None = None
  MaxMoves = 3
INVARIANTS
  StaleOnlyByRace
  NobodyForgotten
  ViewsExplained
CHECK_DEADLOCK FALSE
SYMMETRY Symmetry
