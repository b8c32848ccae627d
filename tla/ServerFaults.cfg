SPECIFICATION Spec
CONSTANTS
  u1 = u1
  u2 = u2
  u3 = u3
  g1 = g1
  g2 = g2
  t1 = t1
  t2 = t2
  t3 = t3
  aw = aw
  ab = ab
  User = {u1, u2}
  Guest = {}
  GameID = {g1}
  Task = {t1, t2}
  Seat = {aw, ab}
  HostSeat = aw
  NoUser = NoUser
  NoGame = NoGame
  Requests = {"form", "sit", "vacate", "seek", "move", "offline"}
  Faults = {"db", "mailbox"}
  RatingCap = 1
SYMMETRY Symmetry
INVARIANTS
  TypeOK
  RemovedIsRecorded
PROPERTIES
  ImplementsGames
  RowWritesAreCurrent
  StartedRowMatches
CHECK_DEADLOCK FALSE
