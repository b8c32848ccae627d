SPECIFICATION Spec
CONSTANTS
  u1 = u1
  u2 = u2
  u3 = u3
  g1 = g1
  g2 = g2
  aw = aw
  ab = ab
  User = {u1, u2, u3}
  Guest = {u3}
  GameID = {g1, g2}
  Seat = {aw, ab}
  HostSeat = aw
  NoUser = NoUser
  NoGame = NoGame
SYMMETRY Symmetry
INVARIANTS
  TypeOK
  LinkedIsSeated
  OneSeatPerTable
PROPERTIES
  ResultIsFinal
  SeatsFallEmptyFirst
CHECK_DEADLOCK FALSE
