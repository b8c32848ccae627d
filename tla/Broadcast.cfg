CONSTANTS
  u1 = u1
  u2 = u2
  c1 = c1
  c2 = c2
  NoUser = NoUser
  NoGame = NoGame
  User <- MCUser
  Conn <- MCConn
  GameID = {g1}
  Future = {f1}
  Owner <- MCOwner
  MailboxSize = 2
  MaxVersion = 3
SPECIFICATION Spec
INVARIANTS TypeOK SeatsInOrder NobodyIsForgotten ObserverIsNotified
PROPERTY ImplementsObservers
CHECK_DEADLOCK FALSE
