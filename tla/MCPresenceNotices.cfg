CONSTANTS
  Slots = {c1, c2}
  MaxPairs = 2
  MaxNotices = 2
  MaxTurns = 7
  MaxFailures = 1
SPECIFICATION NoticesSpec
SYMMETRY Symmetry
CHECK_DEADLOCK FALSE
INVARIANTS LastLineTrue
