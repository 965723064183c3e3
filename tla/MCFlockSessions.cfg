CONSTANTS
  u1 = u1
  u2 = u2
  s1 = s1
  s2 = s2
  s3 = s3
  n1 = n1
  n2 = n2
  o1 = o1
  k1 = k1
  Users = {u1, u2}
  Conns = {s1, s2, s3}
  Bodies = {b1, b2, b3}
  Arenas = {n1, n2, o1, k1}
  None = None
  MaxAsks = 1
  Owner <- MCOwner
  Mode <- MCMode
  Cap <- MCCap
  MaxArenas <- MCMaxArenas
SPECIFICATION Spec
SYMMETRY Symmetry
CHECK_DEADLOCK FALSE
INVARIANTS SessionsAgree RoomKept PausedIsSafe LifeCountedOnce
