SPECIFICATION Spec
CONSTANTS
  u1 = u1
  u2 = u2
  u3 = u3
  u4 = u4
  p1 = p1
  p2 = p2
  main = main
  s1 = s1
  s2 = s2
  User = {u1, u2, u3, u4}
  Pool = {p1}
  Thread = {main, s1, s2}
  Arbiter = main
  PodSize = 2
  NoPool = NoPool
  MaxSeeks = 2
  Patient = TRUE
SYMMETRY Symmetry
INVARIANTS
  TypeOK
  PodUsersWait
  QueueIsComplete
  MatchesPerSeek
CHECK_DEADLOCK FALSE
