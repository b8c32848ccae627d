SPECIFICATION FairSpec
CONSTANTS
  u1 = u1
  u2 = u2
  c1 = c1
  c2 = c2
  c3 = c3
  c4 = c4
  User = {u1, u2}
  Conn = {c1, c2, c3, c4}
  NoUser = NoUser
  Owner <- MCOwner
  Patient = TRUE
  Settled = TRUE
  Viewer = {c4}
  MailboxSize = 2
INVARIANTS
  TypeOK
  MapsAgree
  ListIsCurrent
PROPERTIES
  AbsenceIsReported
CHECK_DEADLOCK FALSE
