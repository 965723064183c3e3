CONSTANTS
  p1 = p1
  t1 = t1
  t2 = t2
  Elsewhere = Elsewhere
  Pages = {p1}
  Moderators = {p1, Elsewhere}
  Texts = {t1, t2}
  Old = t2
  Author <- MCAuthor
  Skew <- MCSkew
  Window = 1
  MaxSends = 2
  MaxChanges = 1
  MaxFaults = 1
SPECIFICATION Spec
CHECK_DEADLOCK FALSE
INVARIANTS ShowsTheRoom TextKept BubbleIsUnsent
