----------------------------- MODULE UsersProofs -----------------------------
(***************************************************************************)
(* Proofs about what the server knows of its users: the connections that   *)
(* they have (Connections) and the accounts that are behind them           *)
(* (Accounts). Each module is by itself; a login passes through Accounts   *)
(* before add_conn, and nothing of the one is read or written by the other *)
(* but the id of the user.                                                 *)
(*                                                                         *)
(* The first part holds for any users and connections, any viewers and any *)
(* size of their mailboxes: the two maps agree, and the lists that clients *)
(* show are right. Clients are patient and settled, as for TLC.            *)
(*                                                                         *)
(* The second part holds for any number of firebase ids, users, handles    *)
(* and requests in flight, with queries that fail and restarts anywhere.   *)
(* That handles are registered holds of whatever requests; the other two   *)
(* theorems are about careful ones, and false without care (README,        *)
(* Preconditions on clients).                                              *)
(***************************************************************************)
EXTENDS Connections, Accounts, FiniteSetTheorems, TLAPS

-----------------------------------------------------------------------------
(* Connections *)

\* Where a connection stands in the maps, by its login and its socket.
Filed(c) ==
  /\ login[c] = "none" => conns[c] = NoUser /\ c \notin userConns[Owner[c]]
  /\ login[c] = "asked" => /\ Open(c)
                           /\ conns[c] = NoUser /\ c \notin userConns[Owner[c]]
  /\ login[c] = "adding" => /\ Open(c)
                            /\ conns[c] # NoUser /\ c \notin userConns[Owner[c]]
  /\ login[c] = "done" =>
       /\ Owner[c] \in known
       /\ Open(c) => conns[c] # NoUser /\ c \in userConns[Owner[c]]
  /\ socket[c] = "listing" => login[c] = "done"
  /\ socket[c] = "removing" => login[c] = "done" /\ conns[c] # NoUser
  /\ socket[c] = "removed" => login[c] = "done" /\ conns[c] = NoUser
  /\ socket[c] = "closed" => conns[c] = NoUser /\ c \notin userConns[Owner[c]]

\* To show u as online, or not, is right.
Right(u, shown) == /\ Online(u) => shown
                   /\ shown => Online(u) \/ Dropped(u)

Mentioned(c, u) == \E i \in 1 .. Len(mailbox[c]) : mailbox[c][i].user = u

\* What the mailbox says last of a user is right, and so is the list as to
\* the users of whom the mailbox says nothing.
Told(c) ==
  /\ \A i \in 1 .. Len(mailbox[c]) :
       (\A j \in i + 1 .. Len(mailbox[c]) : mailbox[c][j].user # mailbox[c][i].user)
         => Right(mailbox[c][i].user, mailbox[c][i].online)
  /\ socket[c] # "listing" =>
       \A u \in User : ~Mentioned(c, u) => Right(u, u \in list[c])

\* The inductive invariant.
CInv == /\ TypeOK
        /\ ~panicked
        /\ \A c \in Conn : Filed(c)
        /\ \A c \in subs : Told(c)

-----------------------------------------------------------------------------
\* Where sockets are patient, all invariants of the run follow from CInv.
LEMMA CInvImplies == CInv => MapsAgree /\ ListIsCurrent
<1>1. CInv => MapsAgree
  BY DEF CInv, TypeOK, Filed, MapsAgree, Open
<1>2. ASSUME CInv, NEW c \in subs, socket[c] = "open", mailbox[c] = <<>>, NEW u \in User
      PROVE  /\ Online(u) => u \in list[c]
             /\ u \in list[c] => Online(u) \/ Dropped(u)
  <2>1. ~Mentioned(c, u)
    BY <1>2 DEF Mentioned
  <2> QED
    BY <1>2, <2>1 DEF CInv, Told, Right
<1> QED
  BY <1>1, <1>2 DEF ListIsCurrent

\* The server starts without connections.
LEMMA CInvInit == Init => CInv
<1> SUFFICES ASSUME Init PROVE CInv
  OBVIOUS
<1>1. TypeOK
  <2>1. mailbox \in [Conn -> Seq(Change)]
    BY DEF Init
  <2>2. list \in [Conn -> SUBSET User]
    BY DEF Init
  <2>3. /\ userConns \in [User -> SUBSET Conn]
        /\ \A u \in User : userConns[u] = {}
    BY DEF Init
  <2> QED
    BY <2>1, <2>2, <2>3 DEF Init, TypeOK
<1>2. \A c \in Conn : Filed(c)
  BY ConnectionsAssumption DEF Init, Filed, Open
<1> QED
  BY <1>1, <1>2 DEF Init, CInv

-----------------------------------------------------------------------------
(* Types and maps *)

\* A change appended to the mailboxes of subscribers leaves changes there.
LEMMA NotifyType ==
  ASSUME TypeOK, NEW u \in User, NEW online \in BOOLEAN, NotifyOnlineSubs(u, online)
  PROVE  /\ subs' \subseteq Viewer /\ subs' \subseteq subs
         /\ \A c \in subs' : Open(c)
         /\ mailbox' \in [Conn -> Seq(Change)]
         /\ list' = list
<1> DEFINE told == {c \in subs : Open(c) /\ Len(mailbox[c]) < MailboxSize}
           new == [user |-> u, online |-> online]
<1>1. new \in Change
  BY DEF Change
<1>2. \A c \in Conn : Append(mailbox[c], new) \in Seq(Change)
  BY <1>1 DEF TypeOK
<1>3. mailbox' = [c \in Conn |-> IF c \in told THEN Append(mailbox[c], new)
                                                ELSE mailbox[c]]
  BY DEF NotifyOnlineSubs
<1>4. subs' = told /\ list' = list
  BY DEF NotifyOnlineSubs
<1>5. mailbox' \in [Conn -> Seq(Change)]
  BY <1>2, <1>3 DEF TypeOK
<1> QED
  BY <1>4, <1>5 DEF TypeOK

\* Every step keeps the types.
LEMMA TypeStep ==
  ASSUME CInv, [Next]_vars
  PROVE  TypeOK'
<1> USE ConnectionsAssumption DEF CInv
<1>1. ASSUME NEW c \in Conn, Auth(c) PROVE TypeOK'
  BY <1>1 DEF Auth, TypeOK, listVars
<1>2. ASSUME NEW c \in Conn, AddConn(c) PROVE TypeOK'
  BY <1>2 DEF AddConn, TypeOK, listVars
<1>3. ASSUME NEW c \in Conn, AddUserConn(c) PROVE TypeOK'
  <2>1. Owner[c] \in User
    OBVIOUS
  <2>2. /\ subs' \subseteq Viewer
        /\ mailbox' \in [Conn -> Seq(Change)]
        /\ list' \in [Conn -> SUBSET User]
    <3>1. CASE UNCHANGED listVars
      BY <3>1 DEF TypeOK, listVars
    <3>2. CASE NotifyOnlineSubs(Owner[c], TRUE)
      BY <2>1, <3>2, NotifyType DEF TypeOK
    <3> QED
      BY <1>3, <3>1, <3>2 DEF AddUserConn
  <2>3. /\ login' = [login EXCEPT ![c] = "done"]
        /\ userConns' = [userConns EXCEPT ![Owner[c]] = @ \cup {c}]
        /\ known' = known \cup {Owner[c]}
        /\ UNCHANGED <<socket, conns, offline, panicked>>
    BY <1>3 DEF AddUserConn
  <2> QED
    BY <2>1, <2>2, <2>3 DEF TypeOK
<1>4. ASSUME NEW c \in Conn, AuthFails(c) PROVE TypeOK'
  BY <1>4 DEF AuthFails, TypeOK, listVars
<1>5. ASSUME NEW c \in Conn, Close(c) PROVE TypeOK'
  BY <1>5 DEF Close, TypeOK, listVars
<1>6. ASSUME NEW c \in Conn, RemoveConn(c) PROVE TypeOK'
  BY <1>6 DEF RemoveConn, TypeOK, listVars
<1>7. ASSUME NEW c \in Conn, RemoveUserConn(c) PROVE TypeOK'
  <2>1. Owner[c] \in User
    OBVIOUS
  <2>2. /\ subs' \subseteq Viewer
        /\ mailbox' \in [Conn -> Seq(Change)]
        /\ list' \in [Conn -> SUBSET User]
    <3>1. CASE UNCHANGED listVars
      BY <3>1 DEF TypeOK, listVars
    <3>2. CASE NotifyOnlineSubs(Owner[c], FALSE)
      BY <2>1, <3>2, NotifyType DEF TypeOK
    <3> QED
      BY <1>7, <3>1, <3>2 DEF RemoveUserConn
  <2>3. /\ socket' = [socket EXCEPT ![c] = "closed"]
        /\ \/ userConns' = [userConns EXCEPT ![Owner[c]] = @ \ {c}]
           \/ userConns' = userConns
        /\ offline' \in {offline, offline \cup {Owner[c]}}
        /\ panicked' \in {panicked, TRUE}
        /\ UNCHANGED <<login, conns, known>>
    BY <1>7 DEF RemoveUserConn
  <2>4. /\ userConns' \in [User -> SUBSET Conn]
        /\ \A u \in User : \A d \in userConns'[u] : Owner[d] = u
    <3>1. CASE userConns' = [userConns EXCEPT ![Owner[c]] = @ \ {c}]
      BY <2>1, <3>1 DEF TypeOK
    <3>2. CASE userConns' = userConns
      BY <3>2 DEF TypeOK
    <3> QED
      BY <2>3, <3>1, <3>2
  <2>5. /\ socket' \in [Conn -> {"open", "listing", "removing", "removed", "closed"}]
        /\ offline' \subseteq User
    BY <2>1, <2>3 DEF TypeOK
  <2>6. panicked' \in BOOLEAN
    BY <2>3 DEF TypeOK
  <2> QED
    BY <2>2, <2>3, <2>4, <2>5, <2>6 DEF TypeOK
<1>8. ASSUME NEW c \in Conn, SendFails(c) PROVE TypeOK'
  BY <1>8 DEF SendFails, TypeOK, listVars
<1>9. ASSUME NEW u \in User, HandleOffline(u) PROVE TypeOK'
  BY <1>9 DEF HandleOffline, TypeOK, listVars
<1>10. ASSUME NEW c \in Viewer, Sub(c) PROVE TypeOK'
  BY <1>10 DEF Sub, TypeOK
<1>11. ASSUME NEW c \in Viewer, SubReply(c) PROVE TypeOK'
  BY <1>11 DEF SubReply, ShowOnline, TypeOK
<1>12. ASSUME NEW c \in Viewer, OnlinePlayers(c) PROVE TypeOK'
  BY <1>12 DEF OnlinePlayers, ShowOnline, TypeOK
<1>13. ASSUME NEW c \in Viewer, Unsub(c) PROVE TypeOK'
  BY <1>13 DEF Unsub, TypeOK
<1>14. ASSUME NEW c \in Viewer, Deliver(c) PROVE TypeOK'
  <2>1. mailbox[c] \in Seq(Change) /\ mailbox[c] # <<>>
    BY <1>14 DEF Deliver, TypeOK
  <2>2. Tail(mailbox[c]) \in Seq(Change) /\ Head(mailbox[c]) \in Change
    BY <2>1
  <2>3. Head(mailbox[c]).user \in User
    BY <2>2 DEF Change
  <2>4. mailbox' \in [Conn -> Seq(Change)]
    BY <1>14, <2>2 DEF Deliver, TypeOK
  <2>5. list' \in [Conn -> SUBSET User]
    <3> DEFINE new == IF Head(mailbox[c]).online THEN list[c] \cup {Head(mailbox[c]).user}
                                                ELSE list[c] \ {Head(mailbox[c]).user}
    <3>1. list' = [list EXCEPT ![c] = new]
      BY <1>14 DEF Deliver
    <3>2. new \in SUBSET User
      BY <2>3 DEF TypeOK
    <3> QED
      BY <3>1, <3>2 DEF TypeOK
  <2> QED
    BY <1>14, <2>4, <2>5 DEF Deliver, TypeOK
<1>15. CASE UNCHANGED vars
  BY <1>15 DEF vars, listVars, TypeOK
<1> QED
  BY <1>1, <1>2, <1>3, <1>4, <1>5, <1>6, <1>7, <1>8, <1>9, <1>10, <1>11, <1>12,
     <1>13, <1>14, <1>15 DEF Next, ArbiterStep, CloseStep

\* Every step keeps connections filed, if sockets are patient; in particular
\* on_close finds the user it looks for.
LEMMA FiledStep ==
  ASSUME CInv, Patient, [Next]_vars
  PROVE  ~panicked' /\ \A d \in Conn : Filed(d)'
<1> USE ConnectionsAssumption DEF CInv, TypeOK, Filed, Open
<1>1. ASSUME NEW c \in Conn, Auth(c) PROVE ~panicked' /\ \A d \in Conn : Filed(d)'
  BY <1>1 DEF Auth
<1>2. ASSUME NEW c \in Conn, AddConn(c) PROVE ~panicked' /\ \A d \in Conn : Filed(d)'
  BY <1>2 DEF AddConn
<1>3. ASSUME NEW c \in Conn, AddUserConn(c) PROVE ~panicked' /\ \A d \in Conn : Filed(d)'
  BY <1>3 DEF AddUserConn
<1>4. ASSUME NEW c \in Conn, AuthFails(c) PROVE ~panicked' /\ \A d \in Conn : Filed(d)'
  BY <1>4 DEF AuthFails
<1>5. ASSUME NEW c \in Conn, Close(c) PROVE ~panicked' /\ \A d \in Conn : Filed(d)'
  BY <1>5 DEF Close
<1>6. ASSUME NEW c \in Conn, RemoveConn(c) PROVE ~panicked' /\ \A d \in Conn : Filed(d)'
  BY <1>6 DEF RemoveConn
<1>7. ASSUME NEW c \in Conn, RemoveUserConn(c) PROVE ~panicked' /\ \A d \in Conn : Filed(d)'
  <2>1. Owner[c] \in known /\ socket[c] = "removed"
    BY <1>7 DEF RemoveUserConn
  <2>2. /\ userConns' = [userConns EXCEPT ![Owner[c]] = @ \ {c}]
        /\ socket' = [socket EXCEPT ![c] = "closed"]
        /\ UNCHANGED <<login, conns, known, panicked>>
    BY <1>7, <2>1 DEF RemoveUserConn
  <2>3. ASSUME NEW d \in Conn, d # c PROVE Filed(d)'
    <3>1. d \in userConns'[Owner[d]] <=> d \in userConns[Owner[d]]
      BY <2>2, <2>3
    <3> QED
      BY <2>2, <2>3, <3>1
  <2>4. Filed(c)'
    <3>1. c \notin userConns'[Owner[c]]
      BY <2>2
    <3>2. socket'[c] = "closed"
      BY <2>2
    <3> QED
      BY <2>1, <2>2, <3>1, <3>2
  <2> QED
    BY <2>2, <2>3, <2>4
<1>8. ASSUME NEW c \in Conn, SendFails(c) PROVE ~panicked' /\ \A d \in Conn : Filed(d)'
  BY <1>8 DEF SendFails
<1>9. ASSUME NEW u \in User, HandleOffline(u) PROVE ~panicked' /\ \A d \in Conn : Filed(d)'
  BY <1>9 DEF HandleOffline
<1>10. ASSUME NEW c \in Viewer, Sub(c) PROVE ~panicked' /\ \A d \in Conn : Filed(d)'
  BY <1>10 DEF Sub, Authed
<1>11. ASSUME NEW c \in Viewer, SubReply(c) PROVE ~panicked' /\ \A d \in Conn : Filed(d)'
  BY <1>11 DEF SubReply
<1>12. ASSUME NEW c \in Viewer, OnlinePlayers(c) PROVE ~panicked' /\ \A d \in Conn : Filed(d)'
  BY <1>12 DEF OnlinePlayers
<1>13. ASSUME NEW c \in Viewer, Unsub(c) PROVE ~panicked' /\ \A d \in Conn : Filed(d)'
  BY <1>13 DEF Unsub
<1>14. ASSUME NEW c \in Viewer, Deliver(c) PROVE ~panicked' /\ \A d \in Conn : Filed(d)'
  BY <1>14 DEF Deliver
<1>15. CASE UNCHANGED vars
  BY <1>15 DEF vars
<1> QED
  BY <1>1, <1>2, <1>3, <1>4, <1>5, <1>6, <1>7, <1>8, <1>9, <1>10, <1>11, <1>12,
     <1>13, <1>14, <1>15 DEF Next, ArbiterStep, CloseStep

-----------------------------------------------------------------------------
(* The list *)

\* What the client of c sees stays right if nothing is sent to it, nobody
\* comes online, and whoever goes offline has been dropped.
LEMMA ToldKept ==
  ASSUME TypeOK, TypeOK', NEW c \in Conn, Told(c),
         mailbox'[c] = mailbox[c], list'[c] = list[c],
         socket[c] = "listing" => socket'[c] = "listing",
         \A u \in User : /\ Online(u)' => Online(u)
                         /\ Online(u) \/ Dropped(u) => Online(u)' \/ Dropped(u)'
  PROVE  Told(c)'
<1>1. \A u \in User : \A shown \in BOOLEAN : Right(u, shown) => Right(u, shown)'
  BY Zenon DEF Right
<1>2. ASSUME NEW i \in 1 .. Len(mailbox[c])
      PROVE  mailbox[c][i].user \in User /\ mailbox[c][i].online \in BOOLEAN
  <2>1. mailbox[c] \in Seq(Change)
    BY DEF TypeOK
  <2>2. mailbox[c][i] \in Change
    BY <2>1
  <2> QED
    BY <2>2 DEF Change
<1>3. ASSUME NEW i \in 1 .. Len(mailbox'[c]),
             \A j \in i + 1 .. Len(mailbox'[c]) : mailbox'[c][j].user # mailbox'[c][i].user
      PROVE  Right(mailbox[c][i].user, mailbox[c][i].online)'
  <2> DEFINE u == mailbox[c][i].user
             b == mailbox[c][i].online
  <2>1. Right(u, b)
    BY <1>3 DEF Told
  <2>2. PICK v \in User, shown \in BOOLEAN : v = u /\ shown = b
    BY <1>2
  <2>3. Right(v, shown)'
    BY <1>1, <2>1, <2>2
  <2>4. v = u' /\ shown = b'
    BY <2>2
  <2> QED
    BY <2>3, <2>4
<1>4. ASSUME socket'[c] # "listing", NEW u \in User, ~Mentioned(c, u)'
      PROVE  Right(u, u \in list[c])'
  <2>1. Right(u, u \in list[c])
    BY <1>4 DEF Told, Mentioned
  <2> QED
    BY <2>1, <1>1, Zenon DEF Right
<1> QED
  BY <1>3, <1>4 DEF Told

\* A change appended to the mailbox is the last word on its user.
LEMMA ToldAppended ==
  ASSUME TypeOK, TypeOK', NEW c \in Conn, Told(c), NEW w \in User, NEW online \in BOOLEAN,
         mailbox'[c] = Append(mailbox[c], [user |-> w, online |-> online]),
         list'[c] = list[c], socket'[c] = socket[c], Right(w, online)',
         \A u \in User \ {w} : /\ Online(u)' => Online(u)
                               /\ Online(u) \/ Dropped(u) => Online(u)' \/ Dropped(u)'
  PROVE  Told(c)'
<1> DEFINE n == Len(mailbox[c])
<1>1. \A u \in User \ {w} : \A shown \in BOOLEAN : Right(u, shown) => Right(u, shown)'
  BY Zenon DEF Right
<1>2. mailbox[c] \in Seq(Change)
  BY DEF TypeOK
<1>3. /\ Len(mailbox'[c]) = n + 1 /\ n \in Nat
      /\ mailbox'[c][n + 1] = [user |-> w, online |-> online]
      /\ \A i \in 1 .. n : mailbox'[c][i] = mailbox[c][i]
  BY <1>2
<1>4. ASSUME NEW i \in 1 .. n
      PROVE  mailbox[c][i].user \in User /\ mailbox[c][i].online \in BOOLEAN
  <2>1. mailbox[c][i] \in Change
    BY <1>2
  <2> QED
    BY <2>1 DEF Change
<1>5. ASSUME NEW i \in 1 .. n + 1,
             \A j \in i + 1 .. n + 1 : mailbox'[c][j].user # mailbox'[c][i].user
      PROVE  \E v \in User, shown \in BOOLEAN :
               v = mailbox'[c][i].user /\ shown = mailbox'[c][i].online /\ Right(v, shown)'
  <2>1. CASE i = n + 1
    <3>1. mailbox'[c][i].user = w /\ mailbox'[c][i].online = online
      BY <1>3, <2>1
    <3> QED
      BY <3>1, Zenon
  <2>2. CASE i # n + 1
    <3>1. i \in 1 .. n /\ n + 1 \in i + 1 .. n + 1
      BY <1>3, <2>2
    <3>2. mailbox[c][i].user # w
      BY <1>3, <1>5, <3>1
    <3>3. \A j \in i + 1 .. n : mailbox[c][j].user # mailbox[c][i].user
      BY <1>3, <1>5, <3>1
    <3>4. Right(mailbox[c][i].user, mailbox[c][i].online)
      BY <3>1, <3>3 DEF Told
    <3>5. PICK v \in User, shown \in BOOLEAN : v = mailbox[c][i].user /\ shown = mailbox[c][i].online
      BY <1>4, <3>1
    <3>6. Right(v, shown)'
      BY <1>1, <3>2, <3>4, <3>5
    <3> QED
      BY <1>3, <3>1, <3>5, <3>6
  <2> QED
    BY <2>1, <2>2
<1>6. ASSUME socket'[c] # "listing", NEW u \in User, ~Mentioned(c, u)'
      PROVE  Right(u, u \in list[c])'
  <2>1. u # w
    BY <1>3, <1>6 DEF Mentioned
  <2>2. ~Mentioned(c, u)
    BY <1>3, <1>6 DEF Mentioned
  <2>3. Right(u, u \in list[c])
    BY <1>6, <2>2 DEF Told
  <2> QED
    BY <2>1, <2>3, Zenon DEF Right
<1>7. \A i \in 1 .. Len(mailbox'[c]) :
        (\A j \in i + 1 .. Len(mailbox'[c]) : mailbox'[c][j].user # mailbox'[c][i].user)
          => Right(mailbox[c][i].user, mailbox[c][i].online)'
  BY <1>3, <1>5
<1> QED
  BY <1>6, <1>7 DEF Told

\* notify_online_subs, when what it says is right.
LEMMA Notified ==
  ASSUME CInv, TypeOK', NEW w \in User, NEW online \in BOOLEAN,
         NotifyOnlineSubs(w, online), Right(w, online)',
         \A c \in subs : Open(c) => socket'[c] = socket[c],
         \A u \in User \ {w} : /\ Online(u)' => Online(u)
                               /\ Online(u) \/ Dropped(u) => Online(u)' \/ Dropped(u)'
  PROVE  \A c \in subs' : Told(c)'
<1> SUFFICES ASSUME NEW c \in subs' PROVE Told(c)'
  OBVIOUS
<1>1. /\ c \in subs /\ c \in Conn /\ Open(c) /\ list'[c] = list[c]
      /\ mailbox'[c] = Append(mailbox[c], [user |-> w, online |-> online])
  BY ConnectionsAssumption DEF NotifyOnlineSubs, CInv, TypeOK
<1>2. Told(c) /\ TypeOK
  BY <1>1 DEF CInv
<1> QED
  BY <1>1, <1>2, ToldAppended

\* The client takes the first change of its mailbox.
LEMMA ToldDelivered ==
  ASSUME TypeOK, TypeOK', NEW c \in Conn, Told(c), Deliver(c)
  PROVE  Told(c)'
<1> DEFINE n == Len(mailbox[c])
           first == mailbox[c][1]
<1>1. /\ mailbox[c] \in Seq(Change) /\ mailbox[c] # <<>>
      /\ mailbox'[c] = Tail(mailbox[c])
      /\ list'[c] = IF first.online THEN list[c] \cup {first.user}
                                    ELSE list[c] \ {first.user}
      /\ socket'[c] = "open" /\ socket[c] = "open" /\ UNCHANGED <<socket, userConns>>
  BY DEF Deliver, TypeOK
<1>2. /\ n \in Nat \ {0} /\ Len(mailbox'[c]) = n - 1
      /\ \A i \in 1 .. n - 1 : mailbox'[c][i] = mailbox[c][i + 1]
      /\ first \in Change
  BY <1>1
<1>3. \A u \in User, shown \in BOOLEAN : Right(u, shown) => Right(u, shown)'
  BY <1>1, Zenon DEF Right, Online, Dropped
<1>4. ASSUME NEW i \in 1 .. n - 1,
             \A j \in i + 1 .. n - 1 : mailbox'[c][j].user # mailbox'[c][i].user
      PROVE  Right(mailbox[c][i].user, mailbox[c][i].online)'
  <2>1. i + 1 \in 1 .. n /\ mailbox'[c][i] = mailbox[c][i + 1]
    BY <1>2
  <2>2. ASSUME NEW k \in i + 2 .. n PROVE mailbox[c][k].user # mailbox[c][i + 1].user
    <3>1. k - 1 \in i + 1 .. n - 1 /\ mailbox'[c][k - 1] = mailbox[c][k]
      BY <1>2, <2>2
    <3> QED
      BY <1>4, <2>1, <3>1
  <2>3. Right(mailbox[c][i + 1].user, mailbox[c][i + 1].online)
    BY <2>1, <2>2 DEF Told
  <2>4. mailbox[c][i + 1] \in Change
    BY <1>1, <2>1
  <2>5. PICK v \in User, shown \in BOOLEAN :
          v = mailbox[c][i + 1].user /\ shown = mailbox[c][i + 1].online
    BY <2>4 DEF Change
  <2>6. Right(v, shown)'
    BY <1>3, <2>3, <2>5
  <2> QED
    BY <2>1, <2>5, <2>6
<1>5. ASSUME NEW u \in User, ~Mentioned(c, u)'
      PROVE  Right(u, u \in list[c])'
  <2>1. \A k \in 2 .. n : mailbox[c][k].user # u
    <3> SUFFICES ASSUME NEW k \in 2 .. n PROVE mailbox[c][k].user # u
      OBVIOUS
    <3>1. k - 1 \in 1 .. Len(mailbox'[c]) /\ mailbox'[c][k - 1] = mailbox[c][k]
      BY <1>2
    <3> QED
      BY <1>5, <3>1 DEF Mentioned
  <2>2. CASE first.user = u
    <3>1. Right(first.user, first.online)
      BY <1>2, <2>1, <2>2 DEF Told
    <3>2. first.online \in BOOLEAN
      BY <1>2 DEF Change
    <3>3. u \in list'[c] <=> first.online
      BY <1>1, <2>2
    <3>4. PICK shown \in BOOLEAN : shown = first.online
      BY <3>2
    <3>5. Right(u, shown)'
      BY <1>3, <2>2, <3>1, <3>4
    <3>6. (u \in list'[c]) <=> shown
      BY <3>3, <3>4
    <3> QED
      BY <3>5, <3>6, Zenon DEF Right
  <2>3. CASE first.user # u
    <3>1. ~Mentioned(c, u)
      BY <1>2, <2>1, <2>3 DEF Mentioned
    <3>2. Right(u, u \in list[c])
      BY <1>1, <3>1 DEF Told
    <3>3. u \in list'[c] <=> u \in list[c]
      BY <1>1, <2>3
    <3>4. PICK shown \in BOOLEAN : shown <=> u \in list[c]
      OBVIOUS
    <3>5. Right(u, shown)
      BY <3>2, <3>4, Zenon DEF Right
    <3>6. Right(u, shown)'
      BY <1>3, <3>5
    <3>7. (u \in list'[c]) <=> shown
      BY <3>3, <3>4
    <3> QED
      BY <3>6, <3>7, Zenon DEF Right
  <2> QED
    BY <2>2, <2>3
<1>6. \A i \in 1 .. Len(mailbox'[c]) :
        (\A j \in i + 1 .. Len(mailbox'[c]) : mailbox'[c][j].user # mailbox'[c][i].user)
          => Right(mailbox[c][i].user, mailbox[c][i].online)'
  BY <1>2, <1>4
<1> QED
  BY <1>5, <1>6 DEF Told

\* A client that is sent the whole list is right about all users of whom its
\* mailbox says nothing.
LEMMA ToldListed ==
  ASSUME TypeOK, TypeOK', NEW c \in Conn, Told(c), ShowOnline(c),
         mailbox'[c] = mailbox[c], UNCHANGED userConns,
         \A u \in User : Dropped(u) => Dropped(u)'
  PROVE  Told(c)'
<1>1. list'[c] = {u \in User : Online(u)}
  BY DEF ShowOnline, TypeOK
<1>2. \A u \in User : Online(u)' <=> Online(u)
  BY DEF Online
<1>3. \A u \in User : \A shown \in BOOLEAN : Right(u, shown) => Right(u, shown)'
  BY <1>2, Zenon DEF Right
<1>4. ASSUME NEW i \in 1 .. Len(mailbox[c]),
             \A j \in i + 1 .. Len(mailbox[c]) : mailbox[c][j].user # mailbox[c][i].user
      PROVE  Right(mailbox[c][i].user, mailbox[c][i].online)'
  <2>1. mailbox[c] \in Seq(Change)
    BY DEF TypeOK
  <2>2. mailbox[c][i] \in Change
    BY <2>1
  <2>3. PICK v \in User, shown \in BOOLEAN : v = mailbox[c][i].user /\ shown = mailbox[c][i].online
    BY <2>2 DEF Change
  <2>4. Right(v, shown)
    BY <1>4, <2>3 DEF Told
  <2>5. Right(v, shown)'
    BY <1>3, <2>4
  <2>6. v = mailbox'[c][i].user /\ shown = mailbox'[c][i].online
    BY <2>3
  <2> QED
    BY <2>5, <2>6
<1>5. ASSUME NEW u \in User PROVE Right(u, u \in list[c])'
  <2>1. u \in list'[c] <=> Online(u)'
    BY <1>1, <1>2
  <2> QED
    BY <2>1, Zenon DEF Right
<1>6. \A i \in 1 .. Len(mailbox'[c]) :
        (\A j \in i + 1 .. Len(mailbox'[c]) : mailbox'[c][j].user # mailbox'[c][i].user)
          => Right(mailbox[c][i].user, mailbox[c][i].online)'
  BY <1>4
<1> QED
  BY <1>5, <1>6 DEF Told

\* A list that nothing is sent to stays right as long as the users it tells
\* of come and go only with a message, or are dropped.
LEMMA AllToldKept ==
  ASSUME CInv, TypeOK', UNCHANGED listVars,
         \A c \in Conn : socket[c] = "listing" => socket'[c] = "listing",
         \A u \in User : /\ Online(u)' => Online(u)
                         /\ Online(u) \/ Dropped(u) => Online(u)' \/ Dropped(u)'
  PROVE  \A c \in subs' : Told(c)'
<1> SUFFICES ASSUME NEW c \in subs' PROVE Told(c)'
  OBVIOUS
<1>1. c \in subs /\ c \in Conn /\ mailbox' = mailbox /\ list' = list
  BY ConnectionsAssumption DEF CInv, TypeOK, listVars
<1>2. Told(c) /\ TypeOK
  BY <1>1 DEF CInv
<1> QED
  BY <1>1, <1>2, ToldKept

\* Nobody goes offline or is dropped in a step that leaves user_conns and
\* the sockets that are on their way out.
LEMMA SameOnline ==
  ASSUME UNCHANGED userConns,
         \A d \in Conn : socket[d] \in {"removing", "removed"} =>
                            socket'[d] \in {"removing", "removed"}
  PROVE  \A u \in User : /\ Online(u)' <=> Online(u)
                         /\ Dropped(u) => Dropped(u)'
BY DEF Online, Dropped

\* Every step keeps what subscribers see right, if clients are settled.
LEMMA ToldStep ==
  ASSUME CInv, TypeOK', Settled, [Next]_vars
  PROVE  \A c \in subs' : Told(c)'
<1> DEFINE Steady ==
      \A u \in User : /\ Online(u)' => Online(u)
                      /\ Online(u) \/ Dropped(u) => Online(u)' \/ Dropped(u)'
<1>a. TypeOK /\ subs \subseteq Conn /\ \A c \in subs : Told(c)
  BY ConnectionsAssumption DEF CInv, TypeOK
<1>1. ASSUME NEW c \in Conn, Auth(c) \/ AddConn(c) \/ AuthFails(c)
      PROVE  \A d \in subs' : Told(d)'
  <2>1. UNCHANGED <<userConns, socket, listVars>>
    BY <1>1 DEF Auth, AddConn, AuthFails
  <2>2. Steady
    BY <2>1, SameOnline
  <2> QED
    BY <2>1, <2>2, AllToldKept
<1>2. ASSUME NEW c \in Conn, AddUserConn(c)
      PROVE  \A d \in subs' : Told(d)'
  <2> DEFINE w == Owner[c]
  <2>1. /\ w \in User /\ socket' = socket
        /\ userConns' = [userConns EXCEPT ![w] = @ \cup {c}]
    BY <1>2, ConnectionsAssumption DEF AddUserConn
  <2>2. \A u \in User \ {w} : (Online(u)' <=> Online(u)) /\ (Dropped(u) => Dropped(u)')
    BY <1>a, <2>1 DEF TypeOK, Online, Dropped
  <2>3. Online(w)'
    BY <1>a, <2>1 DEF TypeOK, Online
  <2>4. CASE Online(w)
    <3>1. Steady
      BY <2>2, <2>3, <2>4
    <3>2. UNCHANGED listVars
      BY <1>2, <2>4 DEF AddUserConn
    <3> QED
      BY <2>1, <3>1, <3>2, AllToldKept
  <2>5. CASE ~Online(w)
    <3>1. NotifyOnlineSubs(w, TRUE)
      BY <1>2, <2>5 DEF AddUserConn
    <3>2. Right(w, TRUE)'
      BY <2>3, Zenon DEF Right
    <3> QED
      BY <2>1, <2>2, <3>1, <3>2, Notified
  <2> QED
    BY <2>4, <2>5
<1>3. ASSUME NEW c \in Conn, Close(c)
      PROVE  \A d \in subs' : Told(d)'
  <2>1. /\ UNCHANGED <<userConns, listVars>>
        /\ socket[c] = "open" /\ \A d \in Conn \ {c} : socket'[d] = socket[d]
    BY <1>3, <1>a DEF Close, TypeOK
  <2>2. Steady
    BY <2>1, SameOnline
  <2> QED
    BY <2>1, <2>2, AllToldKept
<1>4. ASSUME NEW c \in Conn, RemoveConn(c)
      PROVE  \A d \in subs' : Told(d)'
  <2>1. /\ UNCHANGED <<userConns, listVars>>
        /\ socket[c] = "removing" /\ socket'[c] = "removed"
        /\ \A d \in Conn \ {c} : socket'[d] = socket[d]
    BY <1>4, <1>a DEF RemoveConn, TypeOK
  <2>2. Steady
    BY <2>1, SameOnline
  <2> QED
    BY <2>1, <2>2, AllToldKept
<1>5. ASSUME NEW c \in Conn, RemoveUserConn(c)
      PROVE  \A d \in subs' : Told(d)'
  <2> DEFINE w == Owner[c]
  <2>1. w \in User /\ w \in known /\ socket[c] = "removed"
    BY <1>5, ConnectionsAssumption DEF RemoveUserConn, CInv, Filed
  <2>2. /\ userConns' = [userConns EXCEPT ![w] = @ \ {c}]
        /\ socket' = [socket EXCEPT ![c] = "closed"]
    BY <1>5, <2>1 DEF RemoveUserConn
  <2>3. \A u \in User \ {w} : (Online(u)' <=> Online(u)) /\ (Dropped(u) => Dropped(u)')
    BY <1>a, <2>1, <2>2 DEF TypeOK, Online, Dropped
  <2>4. CASE userConns[w] \subseteq {c}
    <3>1. NotifyOnlineSubs(w, FALSE)
      BY <1>5, <2>1, <2>4 DEF RemoveUserConn
    <3>2. ~Online(w)'
      BY <1>a, <2>1, <2>2, <2>4 DEF TypeOK, Online
    <3>3. Right(w, FALSE)'
      BY <3>2, Zenon DEF Right
    <3>4. \A d \in subs : Open(d) => socket'[d] = socket[d]
      BY <1>a, <2>1, <2>2 DEF TypeOK, Open
    <3> QED
      BY <2>1, <2>3, <3>1, <3>3, <3>4, Notified
  <2>5. CASE ~(userConns[w] \subseteq {c})
    <3>1. UNCHANGED listVars
      BY <1>5, <2>1, <2>5 DEF RemoveUserConn
    <3>2. Online(w) /\ Online(w)'
      BY <1>a, <2>1, <2>2, <2>5 DEF TypeOK, Online
    <3>3. Steady
      BY <2>3, <3>2
    <3>4. \A d \in Conn : socket[d] = "listing" => socket'[d] = "listing"
      BY <1>a, <2>1, <2>2 DEF TypeOK
    <3> QED
      BY <3>1, <3>3, <3>4, AllToldKept
  <2> QED
    BY <2>4, <2>5
<1>6. ASSUME NEW c \in Conn, SendFails(c)
      PROVE  \A d \in subs' : Told(d)'
  <2> DEFINE w == Owner[c]
  <2>1. /\ UNCHANGED <<socket, listVars>>
        /\ w \in User
        /\ userConns' = [userConns EXCEPT ![w] = @ \ {c}]
        /\ socket[c] = "removing"
    BY <1>6, <1>a, ConnectionsAssumption DEF SendFails, CInv, Filed, Open, TypeOK
  <2>2. \A u \in User \ {w} : (Online(u)' <=> Online(u)) /\ (Dropped(u) => Dropped(u)')
    BY <1>a, <2>1 DEF TypeOK, Online, Dropped
  <2>3. Online(w)' \/ Dropped(w)'
    BY <2>1 DEF Dropped
  <2>4. Online(w)' => Online(w)
    BY <1>a, <2>1 DEF TypeOK, Online
  <2>5. Steady
    BY <2>2, <2>3, <2>4
  <2> QED
    BY <2>1, <2>5, AllToldKept
<1>7. ASSUME NEW u \in User, HandleOffline(u)
      PROVE  \A d \in subs' : Told(d)'
  <2>1. UNCHANGED <<userConns, socket, listVars>>
    BY <1>7 DEF HandleOffline
  <2>2. Steady
    BY <2>1, SameOnline
  <2> QED
    BY <2>1, <2>2, AllToldKept
<1>8. ASSUME NEW c \in Viewer, Sub(c)
      PROVE  \A d \in subs' : Told(d)'
  <2>1. /\ UNCHANGED <<userConns, mailbox, list>>
        /\ c \in Conn /\ subs' = subs \cup {c}
        /\ socket' = [socket EXCEPT ![c] = "listing"]
        /\ socket[c] = "open"
        /\ c \in subs \/ mailbox[c] = <<>>
    BY <1>8, ConnectionsAssumption DEF Sub, Authed
  <2>2. Steady
    BY <1>a, <2>1, SameOnline DEF TypeOK
  <2>3. ASSUME NEW d \in subs PROVE Told(d)'
    <3>1. socket[d] = "listing" => socket'[d] = "listing"
      BY <1>a, <2>1, <2>3 DEF TypeOK
    <3> QED
      BY <1>a, <2>1, <2>2, <2>3, <3>1, ToldKept
  <2>4. CASE mailbox[c] = <<>>
    <3>1. Len(mailbox'[c]) = 0 /\ socket'[c] = "listing"
      BY <1>a, <2>1, <2>4 DEF TypeOK
    <3>2. Told(c)'
      BY <3>1 DEF Told
    <3> QED
      BY <2>1, <2>3, <3>2
  <2> QED
    BY <2>1, <2>3, <2>4
<1>9. ASSUME NEW c \in Viewer, SubReply(c) \/ OnlinePlayers(c)
      PROVE  \A d \in subs' : Told(d)'
  <2>1. /\ UNCHANGED <<userConns, mailbox, subs>>
        /\ c \in Conn /\ ShowOnline(c) /\ Open(c)
        /\ \A d \in Conn \ {c} : socket'[d] = socket[d]
    BY <1>9, <1>a, ConnectionsAssumption DEF SubReply, OnlinePlayers, Open, Authed, TypeOK
  <2>2. Steady /\ \A u \in User : Dropped(u) => Dropped(u)'
    BY <2>1, SameOnline DEF Open
  <2>3. ASSUME NEW d \in subs, d # c PROVE Told(d)'
    <3>1. list'[d] = list[d]
      BY <1>a, <2>1, <2>3 DEF ShowOnline, TypeOK
    <3> QED
      BY <1>a, <2>1, <2>2, <2>3, <3>1, ToldKept
  <2>4. ASSUME c \in subs PROVE Told(c)'
    BY <1>a, <2>1, <2>2, <2>4, ToldListed
  <2> QED
    BY <2>1, <2>3, <2>4
<1>10. ASSUME NEW c \in Viewer, Unsub(c)
      PROVE  \A d \in subs' : Told(d)'
  <2>1. UNCHANGED <<userConns, socket, mailbox, list>> /\ subs' \subseteq subs
    BY <1>10 DEF Unsub
  <2>2. Steady
    BY <2>1, SameOnline
  <2>3. ASSUME NEW d \in subs' PROVE Told(d)'
    BY <1>a, <2>1, <2>2, <2>3, ToldKept
  <2> QED
    BY <2>3
<1>11. ASSUME NEW c \in Viewer, Deliver(c)
      PROVE  \A d \in subs' : Told(d)'
  <2>1. UNCHANGED <<userConns, socket, subs>> /\ c \in Conn
    BY <1>11, ConnectionsAssumption DEF Deliver
  <2>2. Steady
    BY <2>1, SameOnline
  <2>3. ASSUME NEW d \in subs, d # c PROVE Told(d)'
    <3>1. mailbox'[d] = mailbox[d] /\ list'[d] = list[d]
      BY <1>11, <1>a, <2>3 DEF Deliver, TypeOK
    <3> QED
      BY <1>a, <2>1, <2>2, <2>3, <3>1, ToldKept
  <2>4. ASSUME c \in subs PROVE Told(c)'
    BY <1>11, <1>a, <2>1, <2>4, ToldDelivered
  <2> QED
    BY <2>1, <2>3, <2>4
<1>12. CASE UNCHANGED vars
  <2>1. UNCHANGED <<userConns, socket, listVars>>
    BY <1>12 DEF vars, listVars
  <2>2. Steady
    BY <2>1, SameOnline
  <2> QED
    BY <2>1, <2>2, AllToldKept
<1> QED
  BY <1>1, <1>2, <1>3, <1>4, <1>5, <1>6, <1>7, <1>8, <1>9, <1>10, <1>11, <1>12
     DEF Next, ArbiterStep, CloseStep

-----------------------------------------------------------------------------
(* The theorems *)

\* The inductive invariant of Connections: where each connection stands in
\* the two maps, and what each mailbox leads its client to believe.
THEOREM ConnectionsInvariant ==
  ASSUME Patient, Settled
  PROVE  Spec => []CInv
<1>1. CInv /\ [Next]_vars => CInv'
  BY TypeStep, FiledStep, ToldStep DEF CInv
<1> QED
  BY CInvInit, <1>1, PTL DEF Spec

\* A connection is filed under its own user only, and only those who look at the
\* list are told of it.
THEOREM ConnectionsTypeOK ==
  ASSUME Patient, Settled
  PROVE  Spec => []TypeOK
<1>1. CInv => TypeOK
  BY DEF CInv
<1> QED
  BY <1>1, ConnectionsInvariant, PTL

\* The two maps of ConnectionMgr agree on every connection that no thread is
\* at work on.
THEOREM MapsAgreeTheorem ==
  ASSUME Patient, Settled
  PROVE  Spec => []MapsAgree
BY ConnectionsInvariant, CInvImplies, PTL

\* A client that has taken all changes shows exactly who is online, but for
\* users whom send_to_user has dropped.
THEOREM ListIsCurrentTheorem ==
  ASSUME Patient, Settled
  PROVE  Spec => []ListIsCurrent
BY ConnectionsInvariant, CInvImplies, PTL

-----------------------------------------------------------------------------
(* Accounts *)

LoginStages == {"newFid", "newHandle", "newUser", "newRating"}
HandleStages == {"setHandle", "setUser", "setMem"}

TaskState ==
  [stage : {"idle", "lookup"} \cup LoginStages \cup HandleStages,
   f : Fid \cup {NoFid}, u : Uid \cup {NoUid},
   h : Handle \cup {NoHandle}]

AccountsTyped ==
  /\ firebaseUsers \in [Fid -> Uid \cup {NoUid}]
  /\ handles \in [Handle -> Uid \cup {NoUid}]
  /\ userFid \in [Uid -> Fid \cup {NoFid}]
  /\ userHandle \in [Uid -> Handle \cup {NoHandle}]
  /\ fidUsers \in [Fid -> Uid \cup {NoUid}]
  /\ memHandle \in [Uid -> Handle \cup {NoHandle}]
  /\ task \in [Task -> TaskState]

\* A request is for a firebase id or for a user's handle.
ParametersFit(x) ==
  /\ x.stage = "idle" => x = Idle
  /\ x.stage \in {"lookup"} \cup LoginStages => x.f \in Fid
  /\ x.stage = "lookup" => x.u = NoUid
  /\ x.stage \in {"newUser", "newRating"} => x.h \in Handle
  /\ x.stage \in LoginStages \cup HandleStages => x.u \in Uid
  /\ x.stage \in HandleStages => x.f = NoFid /\ x.h \in Handle

\* What careful requests are not about: the same firebase id or user.
Distinct(x, y) ==
  /\ x.f = y.f => x.f = NoFid
  /\ x.u = y.u => x.u = NoUid

\* The database is where the request left it.
Fits(x) ==
  /\ x.stage \in {"newFid", "newHandle", "newUser"} =>
       userFid[x.u] = NoFid /\ RowsOf(x.f) = {}
  /\ x.stage = "newRating" => userFid[x.u] = x.f /\ userHandle[x.u] = x.h
  /\ x.stage = "setMem" => userHandle[x.u] = x.h
  /\ x.stage \in HandleStages => userFid[x.u] # NoFid

\* Who is cached has a row.
CachedHasRow == \A u \in Uid : memHandle[u] # NoHandle => userFid[u] # NoFid

\* A row of users has a handle.
RowHasHandle == \A u \in Uid : userFid[u] # NoFid => userHandle[u] # NoHandle

\* No two users have the same firebase id.
RowsDiffer ==
  \A u, v \in Uid : userFid[u] = userFid[v] /\ userFid[u] # NoFid => u = v

AInv ==
  /\ AccountsTyped
  /\ \A t \in Task : ParametersFit(task[t]) /\ Fits(task[t])
  /\ \A t, o \in Task : t # o => Distinct(task[t], task[o])
  /\ CachedHasRow
  /\ RowHasHandle
  /\ RowsDiffer
  /\ CacheAgrees

-----------------------------------------------------------------------------
(* Requests *)

\* Requests other than t's are as they were, and differ from t's.
Becomes(t, x) ==
  /\ x \in TaskState /\ ParametersFit(x)
  /\ task' = [task EXCEPT ![t] = x]
  /\ \A o \in Task : o # t => Distinct(x, task[o])

LEMMA IdleFits == Idle \in TaskState /\ ParametersFit(Idle)
BY DEF Idle, TaskState, ParametersFit, LoginStages, HandleStages

\* A request that ends is as distinct as can be.
LEMMA FinishBecomes ==
  ASSUME AInv, NEW t \in Task, Finish(t)
  PROVE  Becomes(t, Idle)
<1>1. \A o \in Task : Distinct(Idle, task[o])
  BY DEF Idle, Distinct
<1> QED
  BY <1>1, IdleFits DEF Finish, Becomes

\* A request that goes on is about what it was about.
LEMMA GotoBecomes ==
  ASSUME AInv, NEW t \in Task, NEW s \in LoginStages \cup HandleStages, Goto(t, s),
         task[t].stage \in LoginStages <=> s \in LoginStages,
         task[t].stage \in HandleStages <=> s \in HandleStages,
         s \in {"newUser", "newRating"} => task[t].stage = "newUser"
  PROVE  Becomes(t, [task[t] EXCEPT !.stage = s])
<1> DEFINE x == [task[t] EXCEPT !.stage = s]
<1>1. task[t] \in TaskState /\ ParametersFit(task[t])
  BY DEF AInv, AccountsTyped
<1>2. x \in TaskState /\ x.f = task[t].f /\ x.u = task[t].u /\ x.h = task[t].h /\ x.stage = s
  BY <1>1 DEF TaskState
<1>3. ParametersFit(x)
  BY <1>1, <1>2 DEF ParametersFit, LoginStages, HandleStages
<1>4. \A o \in Task : o # t => Distinct(x, task[o])
  BY <1>2 DEF AInv, Distinct
<1>5. task' = [task EXCEPT ![t] = x]
  BY <1>1 DEF Goto, AInv, AccountsTyped, TaskState
<1> QED
  BY <1>2, <1>3, <1>4, <1>5 DEF Becomes

\* What the invariant says of requests alone.
LEMMA BecomesKeeps ==
  ASSUME AInv, NEW t \in Task, NEW x, Becomes(t, x)
  PROVE  /\ task' \in [Task -> TaskState]
         /\ task'[t] = x
         /\ \A o \in Task : o # t => task'[o] = task[o]
         /\ \A o \in Task : ParametersFit(task'[o])
         /\ \A o, q \in Task : o # q => Distinct(task'[o], task'[q])
<1>1. task \in [Task -> TaskState]
  BY DEF AInv, AccountsTyped
<1>2. /\ task' \in [Task -> TaskState] /\ task'[t] = x
      /\ \A o \in Task : o # t => task'[o] = task[o]
  BY <1>1 DEF Becomes
<1>3. \A o \in Task : ParametersFit(task'[o])
  BY <1>2 DEF AInv, Becomes
<1>4. \A o, q \in Task : o # q => Distinct(task'[o], task'[q])
  BY <1>2 DEF AInv, Becomes, Distinct
<1> QED
  BY <1>2, <1>3, <1>4

\* Steps that leave the table of users alone: no request's view of it
\* changes.
LEMMA FitsKept ==
  ASSUME NEW x, Fits(x), UNCHANGED <<userFid, userHandle>>
  PROVE  Fits(x)'
<1>1. \A f : RowsOf(f)' = RowsOf(f)
  BY DEF RowsOf
<1> QED
  BY <1>1 DEF Fits, RowsOf

LEMMA QuietStep ==
  ASSUME AInv, NEW t \in Task, NEW x, Becomes(t, x), Fits(x),
         UNCHANGED <<userFid, userHandle>>,
         firebaseUsers' \in [Fid -> Uid \cup {NoUid}],
         handles' \in [Handle -> Uid \cup {NoUid}],
         fidUsers' \in [Fid -> Uid \cup {NoUid}],
         memHandle' \in [Uid -> Handle \cup {NoHandle}],
         CachedHasRow', CacheAgrees'
  PROVE  AInv'
<1>1. AccountsTyped'
  BY BecomesKeeps DEF AInv, AccountsTyped
<1>2. \A o \in Task : Fits(task'[o])
  BY BecomesKeeps DEF AInv
<1>3. \A o \in Task : Fits(task[o])'
  BY <1>2, FitsKept DEF Fits, RowsOf
<1>4. \A o \in Task : ParametersFit(task[o])'
  BY BecomesKeeps DEF ParametersFit
<1>5. \A o, q \in Task : o # q => Distinct(task[o], task[q])'
  BY BecomesKeeps DEF Distinct
<1>6. RowHasHandle' /\ RowsDiffer'
  BY DEF AInv, RowHasHandle, RowsDiffer
<1> QED
  BY <1>1, <1>3, <1>4, <1>5, <1>6 DEF AInv

\* user_from_fid.
LEMMA LoginKeeps ==
  ASSUME AInv, Careful, NEW t \in Task, NEW f \in Fid, Login(t, f)
  PROVE  AInv'
<1> DEFINE x == [Idle EXCEPT !.stage = "lookup", !.f = f]
<1>1. x \in TaskState /\ ParametersFit(x) /\ Fits(x)
  BY AccountsAssumption
  DEF Idle, TaskState, ParametersFit, Fits, LoginStages, HandleStages
<1>2. Becomes(t, x)
  BY <1>1 DEF Login, Becomes, Distinct, Idle
<1>3. CachedHasRow' /\ CacheAgrees'
  BY <1>2, BecomesKeeps DEF Login, AInv, CachedHasRow, CacheAgrees, tables, At
<1> QED
  BY <1>1, <1>2, <1>3, QuietStep DEF Login, AInv, AccountsTyped, tables

\* get_user_from_fid finds a row.
LEMMA FoundUserKeeps ==
  ASSUME AInv, Careful, NEW t \in Task, FoundUser(t)
  PROVE  AInv'
<1>1. Becomes(t, Idle) /\ Fits(Idle)
  BY FinishBecomes DEF FoundUser, Fits, Idle, LoginStages, HandleStages
<1>2. task[t].f \in Fid /\ task[t].f # NoFid
  BY AccountsAssumption DEF FoundUser, At, AInv, ParametersFit
<1>3. PICK u \in RowsOf(task[t].f) : CacheUser(u, task[t].f, userHandle[u])
  BY DEF FoundUser
<1>4. /\ fidUsers' \in [Fid -> Uid \cup {NoUid}]
      /\ memHandle' \in [Uid -> Handle \cup {NoHandle}]
  BY <1>2, <1>3 DEF CacheUser, AInv, AccountsTyped, RowsOf
<1>5. CachedHasRow'
  BY <1>2, <1>3 DEF FoundUser, tables, CacheUser, AInv, AccountsTyped, RowsOf, CachedHasRow
<1>6. CacheAgrees'
  <2> SUFFICES ASSUME NEW v \in Uid, memHandle'[v] # NoHandle
               PROVE  \/ memHandle'[v] = userHandle'[v]
                      \/ \E o \in Task : /\ At(o, "setMem")' /\ task'[o].u = v
                                         /\ task'[o].h = userHandle'[v]
    BY DEF CacheAgrees
  <2>1. CASE v = u
    BY <1>3, <2>1 DEF FoundUser, tables, CacheUser, AInv, AccountsTyped, RowsOf
  <2>2. CASE v # u
    BY <1>1, <1>3, <2>2, BecomesKeeps
    DEF FoundUser, tables, CacheUser, AInv, AccountsTyped, RowsOf, CacheAgrees, At
  <2> QED
    BY <2>1, <2>2
<1> QED
  BY <1>1, <1>4, <1>5, <1>6, QuietStep DEF FoundUser, AInv, AccountsTyped, tables

\* get_user_from_fid finds none: a new user is made.
LEMMA MakeUserKeeps ==
  ASSUME AInv, Careful, NEW t \in Task, MakeUser(t)
  PROVE  AInv'
<1>1. PICK u \in Uid : /\ Fresh(u)
                       /\ task' = [task EXCEPT ![t].stage = "newFid", ![t].u = u]
  BY DEF MakeUser
<1> DEFINE x == [task[t] EXCEPT !.stage = "newFid", !.u = u]
<1>2. task[t] \in TaskState /\ ParametersFit(task[t]) /\ task[t].stage = "lookup"
  BY DEF AInv, AccountsTyped, MakeUser, At
<1>3. /\ x.stage = "newFid" /\ x.u = u /\ x.f = task[t].f
      /\ x \in TaskState
  BY <1>2 DEF TaskState, LoginStages, ParametersFit
<1>4. ParametersFit(x)
  BY <1>2, <1>3 DEF ParametersFit, LoginStages, HandleStages
<1>5. Fits(x)
  BY <1>1, <1>3 DEF Fits, MakeUser, Fresh, HandleStages
<1>6. \A o \in Task : o # t => Distinct(x, task[o])
  BY <1>1, <1>3, AccountsAssumption DEF Distinct, Fresh, AInv
<1>7. Becomes(t, x)
  BY <1>1, <1>3, <1>4, <1>6 DEF Becomes, AInv, AccountsTyped, TaskState
<1>8. CachedHasRow' /\ CacheAgrees'
  BY <1>2, <1>7, BecomesKeeps
  DEF MakeUser, AInv, CachedHasRow, CacheAgrees, tables, At
<1> QED
  BY <1>5, <1>7, <1>8, QuietStep DEF MakeUser, AInv, AccountsTyped, tables

\* new_player_handle, first query.
LEMMA InsertFirebaseUserKeeps ==
  ASSUME AInv, Careful, NEW t \in Task, InsertFirebaseUser(t)
  PROVE  AInv'
<1> DEFINE x == [task[t] EXCEPT !.stage = "newHandle"]
<1>1. task[t] \in TaskState /\ ParametersFit(task[t]) /\ task[t].stage = "newFid"
  BY DEF AInv, AccountsTyped, InsertFirebaseUser, At
<1>2. Becomes(t, x)
  BY <1>1, GotoBecomes DEF InsertFirebaseUser, LoginStages, HandleStages
<1>3. /\ x.stage = "newHandle" /\ x.u = task[t].u /\ x.f = task[t].f
      /\ task[t].f \in Fid /\ task[t].u \in Uid
  BY <1>1 DEF TaskState, ParametersFit, LoginStages
<1>4. Fits(x)
  BY <1>1, <1>3 DEF AInv, Fits, HandleStages
<1>5. firebaseUsers' \in [Fid -> Uid \cup {NoUid}]
  BY <1>3 DEF InsertFirebaseUser, InsertNew, AInv, AccountsTyped
<1>6. CachedHasRow' /\ CacheAgrees'
  BY <1>1, <1>2, BecomesKeeps
  DEF InsertFirebaseUser, AInv, CachedHasRow, CacheAgrees, At
<1> QED
  BY <1>2, <1>4, <1>5, <1>6, QuietStep DEF InsertFirebaseUser, AInv, AccountsTyped

\* Rows of handles are users' too.
LEMMA InsertNewTyped ==
  ASSUME AccountsTyped, NEW h \in Handle, NEW u \in Uid,
         handles' = InsertNew(handles, h, u)
  PROVE  handles' \in [Handle -> Uid \cup {NoUid}]
BY DEF AccountsTyped, InsertNew

\* new_player_handle, second query.
LEMMA InsertDefaultHandleKeeps ==
  ASSUME AInv, Careful, NEW t \in Task, InsertDefaultHandle(t)
  PROVE  AInv'
<1>1. PICK h \in Handle :
        /\ handles' = InsertNew(handles, h, task[t].u)
        /\ task' = [task EXCEPT ![t].stage = "newUser", ![t].h = h]
  BY DEF InsertDefaultHandle
<1> DEFINE x == [task[t] EXCEPT !.stage = "newUser", !.h = h]
<1>2. task[t] \in TaskState /\ ParametersFit(task[t]) /\ task[t].stage = "newHandle"
  BY DEF AInv, AccountsTyped, InsertDefaultHandle, At
<1>3. /\ x \in TaskState /\ x.stage = "newUser" /\ x.h = h
      /\ x.u = task[t].u /\ x.f = task[t].f
      /\ task[t].f \in Fid /\ task[t].u \in Uid
  BY <1>2 DEF TaskState, ParametersFit, LoginStages
<1>4. ParametersFit(x)
  BY <1>3 DEF ParametersFit, LoginStages, HandleStages
<1>5. \A o \in Task : o # t => Distinct(x, task[o])
  BY <1>3 DEF AInv, Distinct
<1>6. Becomes(t, x)
  BY <1>1, <1>3, <1>4, <1>5 DEF Becomes, AInv, AccountsTyped, TaskState
<1>7. Fits(x)
  BY <1>2, <1>3 DEF AInv, Fits, HandleStages
<1>8. handles' \in [Handle -> Uid \cup {NoUid}]
  BY <1>1, <1>3, InsertNewTyped DEF AInv
<1>9. CachedHasRow' /\ CacheAgrees'
  BY <1>2, <1>6, BecomesKeeps
  DEF InsertDefaultHandle, AInv, CachedHasRow, CacheAgrees, At
<1> QED
  BY <1>6, <1>7, <1>8, <1>9, QuietStep DEF InsertDefaultHandle, AInv, AccountsTyped

\* The row of users: its user is nobody else's business yet, and the first
\* with this firebase id.
LEMMA InsertUserKeeps ==
  ASSUME AInv, Careful, NEW t \in Task, InsertUser(t)
  PROVE  AInv'
<1> DEFINE x == [task[t] EXCEPT !.stage = "newRating"]
           u == task[t].u
           f == task[t].f
           h == task[t].h
<1>1. task[t] \in TaskState /\ ParametersFit(task[t]) /\ task[t].stage = "newUser"
  BY DEF AInv, AccountsTyped, InsertUser, At
<1>2. Becomes(t, x)
  BY <1>1, GotoBecomes DEF InsertUser, LoginStages, HandleStages
<1>3. x.stage = "newRating" /\ x.u = u /\ x.f = f /\ x.h = h
      /\ f \in Fid /\ u \in Uid /\ h \in Handle
  BY <1>1 DEF TaskState, ParametersFit, LoginStages
<1>4. userFid[u] = NoFid /\ RowsOf(f) = {}
  BY <1>1 DEF AInv, Fits
<1>5. /\ userFid' \in [Uid -> Fid \cup {NoFid}] /\ userFid'[u] = f
      /\ \A v \in Uid : v # u => userFid'[v] = userFid[v]
      /\ userHandle' \in [Uid -> Handle \cup {NoHandle}]
      /\ userHandle'[u] = h
      /\ \A v \in Uid : v # u => userHandle'[v] = userHandle[v]
  BY <1>3 DEF InsertUser, AInv, AccountsTyped
<1>6. AccountsTyped'
  BY <1>2, <1>5, BecomesKeeps DEF InsertUser, AInv, AccountsTyped
<1>7. Fits(task[t])'
  <2>1. /\ task'[t].stage = "newRating" /\ task'[t].u = u /\ task'[t].f = f
        /\ task'[t].h = h
    BY <1>2, <1>3, BecomesKeeps
  <2> QED
    BY <1>5, <2>1 DEF Fits, HandleStages
<1>8. ASSUME NEW o \in Task, o # t PROVE Fits(task[o])'
  <2>1. /\ task'[o] = task[o] /\ Fits(task[o]) /\ ParametersFit(task[o])
        /\ Distinct(task[t], task[o])
    BY <1>2, <1>8, BecomesKeeps DEF AInv
  <2>2. task[o].u # u /\ task[o].f # f
    BY <1>3, <2>1, AccountsAssumption DEF Distinct
  <2>3. /\ task[o].stage \in LoginStages \cup HandleStages => task[o].u \in Uid
        /\ task[o].stage \in LoginStages => task[o].f \in Fid
    BY <2>1 DEF ParametersFit
  <2>4. \A g \in Fid : g # f => RowsOf(g)' = RowsOf(g)
    BY <1>3, <1>4, <1>5, AccountsAssumption DEF RowsOf
  <2> QED
    BY <1>5, <2>1, <2>2, <2>3, <2>4 DEF Fits, InsertUser, LoginStages, HandleStages
<1>9. /\ \A o \in Task : Fits(task[o])'
      /\ \A o \in Task : ParametersFit(task[o])'
      /\ \A o, q \in Task : o # q => Distinct(task[o], task[q])'
  BY <1>2, <1>7, <1>8, BecomesKeeps DEF ParametersFit, Distinct
<1>10. CachedHasRow' /\ RowHasHandle'
  BY <1>3, <1>5, AccountsAssumption
  DEF InsertUser, AInv, CachedHasRow, RowHasHandle
<1>11. RowsDiffer'
  BY <1>4, <1>5 DEF AInv, RowsDiffer, RowsOf
<1>12. CacheAgrees'
  <2>1. memHandle[u] = NoHandle
    BY <1>3, <1>4 DEF AInv, CachedHasRow
  <2> QED
    BY <1>1, <1>2, <1>5, <2>1, BecomesKeeps DEF InsertUser, AInv, CacheAgrees, At
<1> QED
  BY <1>6, <1>9, <1>10, <1>11, <1>12 DEF AInv

\* mk_user_for_fid is done: the caches get what the row has.
LEMMA NewUserDoneKeeps ==
  ASSUME AInv, Careful, NEW t \in Task, NewUserDone(t)
  PROVE  AInv'
<1> DEFINE u == task[t].u
           f == task[t].f
           h == task[t].h
<1>1. Becomes(t, Idle) /\ Fits(Idle)
  BY FinishBecomes DEF NewUserDone, Fits, Idle, LoginStages, HandleStages
<1>2. /\ task[t].stage = "newRating" /\ f \in Fid /\ u \in Uid
      /\ userFid[u] = f /\ userHandle[u] = h /\ h \in Handle
  BY DEF NewUserDone, At, AInv, ParametersFit, Fits, LoginStages
<1>3. /\ fidUsers' \in [Fid -> Uid \cup {NoUid}]
      /\ memHandle' \in [Uid -> Handle \cup {NoHandle}]
      /\ memHandle'[u] = h
      /\ \A v \in Uid : v # u => memHandle'[v] = memHandle[v]
  BY <1>2 DEF NewUserDone, CacheUser, AInv, AccountsTyped
<1>4. CachedHasRow'
  BY <1>2, <1>3, AccountsAssumption DEF NewUserDone, tables, AInv, CachedHasRow
<1>5. CacheAgrees'
  BY <1>1, <1>2, <1>3, BecomesKeeps DEF NewUserDone, tables, AInv, CacheAgrees, At
<1> QED
  BY <1>1, <1>3, <1>4, <1>5, QuietStep DEF NewUserDone, AInv, AccountsTyped, tables

\* queue_set_handle.
LEMMA SetHandleKeeps ==
  ASSUME AInv, Careful, NEW t \in Task, NEW u \in Uid, NEW h \in Handle,
         SetHandle(t, u, h)
  PROVE  AInv'
<1> DEFINE x == [Idle EXCEPT !.stage = "setHandle", !.u = u, !.h = h]
<1>1. x \in TaskState /\ ParametersFit(x)
  BY DEF Idle, TaskState, ParametersFit, LoginStages, HandleStages
<1>2. Fits(x)
  BY DEF Idle, Fits, SetHandle, AInv, CachedHasRow, LoginStages, HandleStages
<1>3. Becomes(t, x)
  BY <1>1 DEF SetHandle, Becomes, Distinct, Idle
<1>4. CachedHasRow' /\ CacheAgrees'
  BY <1>3, BecomesKeeps DEF SetHandle, AInv, CachedHasRow, CacheAgrees, tables, At
<1> QED
  BY <1>2, <1>3, <1>4, QuietStep DEF SetHandle, AInv, AccountsTyped, tables

\* update_handle, first query.
LEMMA RegisterHandleKeeps ==
  ASSUME AInv, Careful, NEW t \in Task, RegisterHandle(t)
  PROVE  AInv'
<1> DEFINE x == [task[t] EXCEPT !.stage = "setUser"]
<1>1. task[t] \in TaskState /\ ParametersFit(task[t]) /\ task[t].stage = "setHandle"
  BY DEF AInv, AccountsTyped, RegisterHandle, At
<1>2. Becomes(t, x)
  BY <1>1, GotoBecomes DEF RegisterHandle, LoginStages, HandleStages
<1>3. /\ x.stage = "setUser" /\ x.u = task[t].u
      /\ task[t].u \in Uid /\ task[t].h \in Handle
  BY <1>1 DEF TaskState, ParametersFit, HandleStages
<1>4. Fits(x)
  BY <1>1, <1>3 DEF AInv, Fits, HandleStages
<1>5. handles' \in [Handle -> Uid \cup {NoUid}]
  BY <1>3, InsertNewTyped DEF RegisterHandle, AInv
<1>6. CachedHasRow' /\ CacheAgrees'
  BY <1>1, <1>2, BecomesKeeps
  DEF RegisterHandle, AInv, CachedHasRow, CacheAgrees, At
<1> QED
  BY <1>2, <1>4, <1>5, <1>6, QuietStep DEF RegisterHandle, AInv, AccountsTyped

\* update_handle, second query.
LEMMA UpdateUserKeeps ==
  ASSUME AInv, Careful, NEW t \in Task, UpdateUser(t)
  PROVE  AInv'
<1> DEFINE x == [task[t] EXCEPT !.stage = "setMem"]
           u == task[t].u
           h == task[t].h
<1>1. task[t] \in TaskState /\ ParametersFit(task[t]) /\ task[t].stage = "setUser"
  BY DEF AInv, AccountsTyped, UpdateUser, At
<1>2. Becomes(t, x)
  BY <1>1, GotoBecomes DEF UpdateUser, LoginStages, HandleStages
<1>3. /\ x.stage = "setMem" /\ x.u = u /\ x.h = h /\ u \in Uid
      /\ h \in Handle
  BY <1>1 DEF TaskState, ParametersFit, HandleStages
<1>4. userFid[u] # NoFid
  BY <1>1 DEF AInv, Fits, HandleStages
<1>5. /\ userHandle' \in [Uid -> Handle \cup {NoHandle}]
      /\ userHandle'[u] = h
      /\ \A v \in Uid : v # u => userHandle'[v] = userHandle[v]
  BY <1>3 DEF UpdateUser, AInv, AccountsTyped
<1>6. AccountsTyped'
  BY <1>2, <1>5, BecomesKeeps DEF UpdateUser, AInv, AccountsTyped
<1>7. /\ task'[t] = x /\ task'[t].stage = "setMem" /\ task'[t].u = u /\ task'[t].h = h
  BY <1>2, <1>3, BecomesKeeps
<1>8. Fits(task[t])'
  BY <1>4, <1>5, <1>7 DEF Fits, HandleStages, UpdateUser
<1>9. ASSUME NEW o \in Task, o # t PROVE Fits(task[o])'
  <2>1. /\ task'[o] = task[o] /\ Fits(task[o]) /\ ParametersFit(task[o])
        /\ Distinct(task[t], task[o])
    BY <1>2, <1>9, BecomesKeeps DEF AInv
  <2>2. task[o].u # u
    BY <1>3, <2>1, AccountsAssumption DEF Distinct
  <2>3. task[o].stage \in LoginStages \cup HandleStages => task[o].u \in Uid
    BY <2>1 DEF ParametersFit
  <2>4. \A f : RowsOf(f)' = RowsOf(f)
    BY DEF UpdateUser, RowsOf
  <2> QED
    BY <1>5, <2>1, <2>2, <2>3, <2>4 DEF Fits, UpdateUser, LoginStages, HandleStages
<1>10. /\ \A o \in Task : Fits(task[o])'
       /\ \A o \in Task : ParametersFit(task[o])'
       /\ \A o, q \in Task : o # q => Distinct(task[o], task[q])'
  BY <1>2, <1>8, <1>9, BecomesKeeps DEF ParametersFit, Distinct
<1>11. CachedHasRow' /\ RowsDiffer'
  BY DEF UpdateUser, AInv, CachedHasRow, RowsDiffer
<1>12. RowHasHandle'
  BY <1>3, <1>4, <1>5, AccountsAssumption DEF UpdateUser, AInv, RowHasHandle
<1>13. CacheAgrees'
  <2> SUFFICES ASSUME NEW v \in Uid, memHandle'[v] # NoHandle
               PROVE  \/ memHandle'[v] = userHandle'[v]
                      \/ \E o \in Task : /\ task'[o].stage = "setMem" /\ task'[o].u = v
                                         /\ task'[o].h = userHandle'[v]
    BY DEF CacheAgrees, At
  <2>1. CASE v = u
    BY <1>5, <1>7, <2>1
  <2>2. CASE v # u
    <3>1. \A o \in Task : o # t => task'[o] = task[o]
      BY <1>2, BecomesKeeps
    <3> QED
      BY <1>1, <1>5, <2>2, <3>1 DEF UpdateUser, AInv, CacheAgrees, At
  <2> QED
    BY <2>1, <2>2
<1> QED
  BY <1>6, <1>10, <1>11, <1>12, <1>13 DEF AInv

\* set_handle when the database is done: memory follows.
LEMMA SetHandleDoneKeeps ==
  ASSUME AInv, Careful, NEW t \in Task, SetHandleDone(t)
  PROVE  AInv'
<1> DEFINE u == task[t].u
           h == task[t].h
<1>1. Becomes(t, Idle) /\ Fits(Idle)
  BY FinishBecomes DEF SetHandleDone, Fits, Idle, LoginStages, HandleStages
<1>2. /\ task[t].stage = "setMem" /\ u \in Uid /\ h \in Handle
      /\ userFid[u] # NoFid /\ userHandle[u] = h
  BY DEF SetHandleDone, At, AInv, ParametersFit, Fits, HandleStages
<1>3. /\ memHandle' \in [Uid -> Handle \cup {NoHandle}]
      /\ memHandle'[u] = h
      /\ \A v \in Uid : v # u => memHandle'[v] = memHandle[v]
  BY <1>2 DEF SetHandleDone, AInv, AccountsTyped
<1>4. CachedHasRow'
  BY <1>2, <1>3 DEF SetHandleDone, tables, AInv, CachedHasRow
<1>5. CacheAgrees'
  BY <1>1, <1>2, <1>3, BecomesKeeps DEF SetHandleDone, tables, AInv, CacheAgrees, At
<1> QED
  BY <1>1, <1>3, <1>4, <1>5, QuietStep DEF SetHandleDone, AInv, AccountsTyped, tables

\* A query fails.
LEMMA QueryFailsKeeps ==
  ASSUME AInv, Careful, NEW t \in Task, QueryFails(t)
  PROVE  AInv'
<1>1. Becomes(t, Idle) /\ Fits(Idle)
  BY FinishBecomes DEF QueryFails, Fits, Idle, LoginStages, HandleStages
<1>2. CachedHasRow' /\ CacheAgrees'
  BY <1>1, BecomesKeeps DEF QueryFails, AInv, CachedHasRow, CacheAgrees, tables, At
<1> QED
  BY <1>1, <1>2, QuietStep DEF QueryFails, AInv, AccountsTyped, tables

\* The server restarts: the tables alone keep what is promised.
LEMMA RestartKeeps ==
  ASSUME AInv, Restart
  PROVE  AInv'
<1>1. \A t \in Task : task'[t] = Idle
  BY DEF Restart
<1>2. AccountsTyped'
  BY IdleFits DEF Restart, AInv, AccountsTyped, tables
<1>3. /\ \A t \in Task : ParametersFit(task[t])' /\ Fits(task[t])'
      /\ \A t, o \in Task : t # o => Distinct(task[t], task[o])'
  BY <1>1, IdleFits
  DEF Idle, ParametersFit, Fits, Distinct, LoginStages, HandleStages
<1>4. CachedHasRow' /\ CacheAgrees'
  BY DEF Restart, CachedHasRow, CacheAgrees
<1>5. RowHasHandle' /\ RowsDiffer'
  BY DEF Restart, tables, AInv, RowHasHandle, RowsDiffer
<1> QED
  BY <1>2, <1>3, <1>4, <1>5 DEF AInv

-----------------------------------------------------------------------------
(* Theorems *)

LEMMA AccountsInvariant ==
  ASSUME Careful
  PROVE  AccountsSpec => []AInv
<1>1. AccountsInit => AInv
  <2> SUFFICES ASSUME AccountsInit PROVE AInv
    OBVIOUS
  <2>1. AccountsTyped
    BY IdleFits DEF AccountsInit, AccountsTyped
  <2>2. /\ \A t \in Task : ParametersFit(task[t]) /\ Fits(task[t])
        /\ \A t, o \in Task : t # o => Distinct(task[t], task[o])
    BY IdleFits
    DEF AccountsInit, Idle, ParametersFit, Fits, Distinct, LoginStages, HandleStages
  <2>3. /\ CachedHasRow /\ RowHasHandle /\ RowsDiffer
        /\ CacheAgrees
    BY DEF AccountsInit, CachedHasRow, RowHasHandle, RowsDiffer,
           CacheAgrees
  <2> QED
    BY <2>1, <2>2, <2>3 DEF AInv
<1>2. AInv /\ [AccountsNext]_accountVars => AInv'
  <2> SUFFICES ASSUME AInv, [AccountsNext]_accountVars PROVE AInv'
    OBVIOUS
  <2>1. CASE UNCHANGED accountVars
    <3>1. AccountsTyped'
      BY <2>1 DEF accountVars, AInv, AccountsTyped
    <3>2. /\ \A t \in Task : ParametersFit(task[t])'
          /\ \A t, o \in Task : t # o => Distinct(task[t], task[o])'
      BY <2>1 DEF accountVars, AInv, ParametersFit, Distinct
    <3>3. \A t \in Task : Fits(task[t])'
      <4>1. \A f : RowsOf(f)' = RowsOf(f)
        BY <2>1 DEF accountVars, RowsOf
      <4> QED
        BY <2>1, <4>1 DEF accountVars, AInv, Fits
    <3>4. /\ CachedHasRow' /\ RowHasHandle' /\ RowsDiffer'
          /\ CacheAgrees'
      BY <2>1
      DEF accountVars, AInv, CachedHasRow, RowHasHandle, RowsDiffer,
          CacheAgrees, At
    <3> QED
      BY <3>1, <3>2, <3>3, <3>4 DEF AInv
  <2> QED
    BY <2>1, LoginKeeps, SetHandleKeeps, FoundUserKeeps, MakeUserKeeps,
       InsertFirebaseUserKeeps, InsertDefaultHandleKeeps, InsertUserKeeps,
       NewUserDoneKeeps, RegisterHandleKeeps, UpdateUserKeeps,
       SetHandleDoneKeeps, QueryFailsKeeps, RestartKeeps
    DEF AccountsNext
<1> QED
  BY <1>1, <1>2, PTL DEF AccountsSpec

\* One user per firebase id, although mk_user_for_fid writes the row of users
\* last and may fail or be cut off before (db.rs:289).
THEOREM OneUserPerFidTheorem ==
  ASSUME Careful
  PROVE  AccountsSpec => []OneUserPerFid
<1>1. AInv => OneUserPerFid
  <2> SUFFICES ASSUME AInv, NEW f \in Fid PROVE Cardinality(RowsOf(f)) <= 1
    BY DEF OneUserPerFid
  <2>1. CASE RowsOf(f) = {}
    BY <2>1, FS_EmptySet
  <2>2. CASE RowsOf(f) # {}
    <3>1. PICK u \in RowsOf(f) : TRUE
      BY <2>2
    <3>2. RowsOf(f) = {u}
      BY <3>1, AccountsAssumption DEF RowsOf, AInv, RowsDiffer
    <3>3. Cardinality({u}) = 1
      BY FS_Singleton
    <3> QED
      BY <3>2, <3>3
  <2> QED
    BY <2>1, <2>2
<1> QED
  BY <1>1, AccountsInvariant, PTL

\* The handle in memory is the one in the database, or set_handle is about to
\* bring it there (bughouse_server.rs, set_handle).
THEOREM CacheAgreesTheorem ==
  ASSUME Careful
  PROVE  AccountsSpec => []CacheAgrees
<1>1. AInv => CacheAgrees
  BY DEF AInv
<1> QED
  BY <1>1, AccountsInvariant, PTL

-----------------------------------------------------------------------------
(* Handles are registered, whatever the requests *)

\* A handle is registered before it is put into the row of a user.
HInv ==
  /\ AccountsTyped
  /\ \A t \in Task : ParametersFit(task[t])
  /\ \A t \in Task :
       task[t].stage \in {"newUser", "setUser"} => handles[task[t].h] # NoUid
  /\ \A u \in Uid : userFid[u] # NoFid =>
       userHandle[u] \in Handle /\ handles[userHandle[u]] # NoUid

\* One request goes on, and rows of handles stay.
LEMMA RequestStep ==
  ASSUME HInv, NEW t \in Task, NEW x \in TaskState, ParametersFit(x),
         task' = [task EXCEPT ![t] = x],
         AccountsTyped',
         \A k \in Handle : handles[k] # NoUid => handles'[k] # NoUid,
         x.stage \in {"newUser", "setUser"} => handles'[x.h] # NoUid,
         \A u \in Uid : userFid'[u] # NoFid =>
           \/ userHandle'[u] \in Handle /\ handles'[userHandle'[u]] # NoUid
           \/ userFid[u] # NoFid /\ userHandle'[u] = userHandle[u]
  PROVE  HInv'
<1>1. task \in [Task -> TaskState]
  BY DEF HInv, AccountsTyped
<1>2. ASSUME NEW o \in Task
      PROVE  /\ ParametersFit(task'[o])
             /\ task'[o].stage \in {"newUser", "setUser"} => handles'[task'[o].h] # NoUid
  <2>1. CASE o = t
    BY <1>1, <2>1
  <2>2. CASE o # t
    <3>1. task'[o] = task[o] /\ ParametersFit(task[o])
      BY <1>1, <2>2 DEF HInv
    <3>2. task[o].stage \in {"newUser", "setUser"} => task[o].h \in Handle
      BY <3>1 DEF ParametersFit, HandleStages
    <3> QED
      BY <3>1, <3>2 DEF HInv
  <2> QED
    BY <2>1, <2>2
<1>3. \A o \in Task : ParametersFit(task[o])'
  BY <1>2 DEF ParametersFit
<1> QED
  BY <1>2, <1>3 DEF HInv

\* Such a step that leaves all tables alone.
LEMMA ReadingStep ==
  ASSUME HInv, NEW t \in Task, NEW x \in TaskState, ParametersFit(x),
         task' = [task EXCEPT ![t] = x], UNCHANGED tables,
         x.stage \notin {"newUser", "setUser"},
         fidUsers' \in [Fid -> Uid \cup {NoUid}],
         memHandle' \in [Uid -> Handle \cup {NoHandle}]
  PROVE  HInv'
<1>1. AccountsTyped'
  BY DEF HInv, AccountsTyped, tables
<1> QED
  BY <1>1, RequestStep DEF tables

LEMMA RequestsRegister ==
  ASSUME HInv, NEW t \in Task
  PROVE  /\ \A f \in Fid : Login(t, f) => HInv'
         /\ FoundUser(t) => HInv'
         /\ MakeUser(t) => HInv'
         /\ NewUserDone(t) => HInv'
         /\ \A u \in Uid, h \in Handle : SetHandle(t, u, h) => HInv'
         /\ SetHandleDone(t) => HInv'
         /\ QueryFails(t) => HInv'
<1>0. /\ task[t] \in TaskState /\ ParametersFit(task[t])
      /\ fidUsers \in [Fid -> Uid \cup {NoUid}]
      /\ memHandle \in [Uid -> Handle \cup {NoHandle}]
      /\ userHandle \in [Uid -> Handle \cup {NoHandle}]
  BY DEF HInv, AccountsTyped
<1>1. Idle.stage \notin {"newUser", "setUser"}
  BY DEF Idle
<1>2. ASSUME NEW f \in Fid, Login(t, f) PROVE HInv'
  <2> DEFINE x == [Idle EXCEPT !.stage = "lookup", !.f = f]
  <2>1. x \in TaskState /\ ParametersFit(x) /\ x.stage = "lookup"
    BY DEF Idle, TaskState, ParametersFit, LoginStages, HandleStages
  <2> QED
    BY <1>0, <1>2, <2>1, ReadingStep DEF Login
<1>3. ASSUME FoundUser(t) PROVE HInv'
  <2>1. task[t].f \in Fid
    BY <1>0, <1>3 DEF FoundUser, At, ParametersFit
  <2>2. /\ fidUsers' \in [Fid -> Uid \cup {NoUid}]
        /\ memHandle' \in [Uid -> Handle \cup {NoHandle}]
    BY <1>0, <1>3, <2>1 DEF FoundUser, CacheUser, RowsOf
  <2> QED
    BY <1>1, <1>3, <2>2, IdleFits, ReadingStep DEF FoundUser, Finish
<1>4. ASSUME MakeUser(t) PROVE HInv'
  <2>1. PICK u \in Uid : task' = [task EXCEPT ![t].stage = "newFid", ![t].u = u]
    BY <1>4 DEF MakeUser
  <2> DEFINE x == [task[t] EXCEPT !.stage = "newFid", !.u = u]
  <2>2. x \in TaskState /\ x.stage = "newFid" /\ x.f = task[t].f /\ x.u = u
    BY <1>0 DEF TaskState, LoginStages
  <2>3. ParametersFit(x)
    BY <1>0, <1>4, <2>2 DEF MakeUser, At, ParametersFit, LoginStages, HandleStages
  <2>4. task' = [task EXCEPT ![t] = x]
    BY <1>0, <2>1 DEF TaskState, HInv, AccountsTyped
  <2> QED
    BY <1>0, <1>4, <2>2, <2>3, <2>4, ReadingStep DEF MakeUser
<1>5. ASSUME NewUserDone(t) PROVE HInv'
  <2>1. task[t].f \in Fid /\ task[t].u \in Uid /\ task[t].h \in Handle
    BY <1>0, <1>5 DEF NewUserDone, At, ParametersFit, LoginStages
  <2>2. /\ fidUsers' \in [Fid -> Uid \cup {NoUid}]
        /\ memHandle' \in [Uid -> Handle \cup {NoHandle}]
    BY <1>0, <1>5, <2>1 DEF NewUserDone, CacheUser
  <2> QED
    BY <1>1, <1>5, <2>2, IdleFits, ReadingStep DEF NewUserDone, Finish
<1>6. ASSUME NEW u \in Uid, NEW h \in Handle, SetHandle(t, u, h) PROVE HInv'
  <2> DEFINE x == [Idle EXCEPT !.stage = "setHandle", !.u = u, !.h = h]
  <2>1. x \in TaskState /\ ParametersFit(x) /\ x.stage = "setHandle"
    BY DEF Idle, TaskState, ParametersFit, LoginStages, HandleStages
  <2> QED
    BY <1>0, <1>6, <2>1, ReadingStep DEF SetHandle
<1>7. ASSUME SetHandleDone(t) PROVE HInv'
  <2>1. task[t].u \in Uid /\ task[t].h \in Handle
    BY <1>0, <1>7 DEF SetHandleDone, At, ParametersFit, HandleStages
  <2>2. memHandle' \in [Uid -> Handle \cup {NoHandle}]
    BY <1>0, <1>7, <2>1 DEF SetHandleDone
  <2> QED
    BY <1>0, <1>1, <1>7, <2>2, IdleFits, ReadingStep DEF SetHandleDone, Finish
<1>8. ASSUME QueryFails(t) PROVE HInv'
  BY <1>0, <1>1, <1>8, IdleFits, ReadingStep DEF QueryFails, Finish
<1> QED
  BY <1>2, <1>3, <1>4, <1>5, <1>6, <1>7, <1>8

\* The request that a query leaves behind: of the same user, at stage s.
LEMMA GotoFits ==
  ASSUME HInv, NEW t \in Task, NEW s \in LoginStages \cup HandleStages, Goto(t, s),
         task[t].stage \in LoginStages <=> s \in LoginStages,
         task[t].stage \in HandleStages <=> s \in HandleStages,
         s \in {"newUser", "newRating"} => task[t].stage = "newUser"
  PROVE  \E x \in TaskState :
           /\ x = [task[t] EXCEPT !.stage = s]
           /\ ParametersFit(x)
           /\ task' = [task EXCEPT ![t] = x]
           /\ x.stage = s /\ x.h = task[t].h
<1> DEFINE x == [task[t] EXCEPT !.stage = s]
<1>1. task[t] \in TaskState /\ ParametersFit(task[t])
  BY DEF HInv, AccountsTyped
<1>2. x \in TaskState /\ x.f = task[t].f /\ x.u = task[t].u /\ x.h = task[t].h /\ x.stage = s
  BY <1>1 DEF TaskState
<1>3. ParametersFit(x)
  BY <1>1, <1>2 DEF ParametersFit, LoginStages, HandleStages
<1>4. task' = [task EXCEPT ![t] = x]
  BY <1>1 DEF Goto, HInv, AccountsTyped, TaskState
<1> QED
  BY <1>2, <1>3, <1>4

\* A query that inserts a handle, if it is free: then it is registered, and
\* no handle ceases to be.
LEMMA InsertNewRegisters ==
  ASSUME HInv, NEW h \in Handle, NEW u \in Uid,
         handles' = InsertNew(handles, h, u)
  PROVE  /\ handles' \in [Handle -> Uid \cup {NoUid}]
         /\ handles'[h] # NoUid
         /\ \A k \in Handle : handles[k] # NoUid => handles'[k] # NoUid
BY AccountsAssumption DEF HInv, AccountsTyped, InsertNew

LEMMA QueriesRegister ==
  ASSUME HInv, NEW t \in Task
  PROVE  /\ InsertFirebaseUser(t) => HInv'
         /\ InsertDefaultHandle(t) => HInv'
         /\ InsertUser(t) => HInv'
         /\ RegisterHandle(t) => HInv'
         /\ UpdateUser(t) => HInv'
<1>0. /\ task[t] \in TaskState /\ ParametersFit(task[t])
      /\ AccountsTyped
  BY DEF HInv, AccountsTyped
<1>1. ASSUME InsertFirebaseUser(t) PROVE HInv'
  <2>1. /\ task[t].stage = "newFid" /\ task[t].f \in Fid /\ task[t].u \in Uid
    BY <1>0, <1>1 DEF InsertFirebaseUser, At, ParametersFit, LoginStages
  <2>2. PICK x \in TaskState : /\ ParametersFit(x) /\ x.stage = "newHandle"
                               /\ task' = [task EXCEPT ![t] = x]
    BY <1>1, <2>1, GotoFits DEF InsertFirebaseUser, LoginStages, HandleStages
  <2>3. AccountsTyped'
    BY <1>0, <1>1, <2>1, <2>2 DEF InsertFirebaseUser, InsertNew, AccountsTyped
  <2> QED
    BY <1>1, <2>2, <2>3, RequestStep DEF InsertFirebaseUser
<1>2. ASSUME InsertDefaultHandle(t) PROVE HInv'
  <2>1. PICK h \in Handle :
          /\ handles' = InsertNew(handles, h, task[t].u)
          /\ task' = [task EXCEPT ![t].stage = "newUser", ![t].h = h]
    BY <1>2 DEF InsertDefaultHandle
  <2> DEFINE x == [task[t] EXCEPT !.stage = "newUser", !.h = h]
  <2>2. /\ x \in TaskState /\ x.stage = "newUser" /\ x.h = h
        /\ x.u = task[t].u /\ x.f = task[t].f
        /\ task[t].f \in Fid /\ task[t].u \in Uid
    BY <1>0, <1>2 DEF InsertDefaultHandle, At, TaskState, ParametersFit, LoginStages
  <2>3. ParametersFit(x)
    BY <2>2 DEF ParametersFit, LoginStages, HandleStages
  <2>4. task' = [task EXCEPT ![t] = x]
    BY <1>0, <2>1 DEF TaskState, AccountsTyped
  <2>5. /\ handles' \in [Handle -> Uid \cup {NoUid}] /\ handles'[h] # NoUid
        /\ \A k \in Handle : handles[k] # NoUid => handles'[k] # NoUid
    BY <2>1, <2>2, InsertNewRegisters
  <2>6. AccountsTyped'
    BY <1>0, <1>2, <2>2, <2>4, <2>5 DEF InsertDefaultHandle, AccountsTyped
  <2> QED
    BY <1>2, <2>2, <2>3, <2>4, <2>5, <2>6, RequestStep DEF InsertDefaultHandle
<1>3. ASSUME InsertUser(t) PROVE HInv'
  <2>1. /\ task[t].stage = "newUser" /\ task[t].f \in Fid /\ task[t].u \in Uid
        /\ task[t].h \in Handle /\ handles[task[t].h] # NoUid
    BY <1>0, <1>3 DEF InsertUser, At, ParametersFit, LoginStages, HInv
  <2>2. PICK x \in TaskState : /\ ParametersFit(x) /\ x.stage = "newRating"
                               /\ task' = [task EXCEPT ![t] = x]
    BY <1>3, <2>1, GotoFits DEF InsertUser, LoginStages, HandleStages
  <2>3. AccountsTyped'
    BY <1>0, <1>3, <2>1, <2>2 DEF InsertUser, AccountsTyped
  <2>4. ASSUME NEW u \in Uid, userFid'[u] # NoFid
        PROVE  \/ userHandle'[u] \in Handle /\ handles'[userHandle'[u]] # NoUid
               \/ userFid[u] # NoFid /\ userHandle'[u] = userHandle[u]
    BY <1>0, <1>3, <2>1, <2>4 DEF InsertUser, AccountsTyped
  <2> QED
    BY <1>3, <2>2, <2>3, <2>4, RequestStep DEF InsertUser
<1>4. ASSUME RegisterHandle(t) PROVE HInv'
  <2>1. task[t].stage = "setHandle" /\ task[t].u \in Uid /\ task[t].h \in Handle
    BY <1>0, <1>4 DEF RegisterHandle, At, ParametersFit, HandleStages
  <2>2. PICK x \in TaskState : /\ ParametersFit(x) /\ x.stage = "setUser"
                               /\ x.h = task[t].h
                               /\ task' = [task EXCEPT ![t] = x]
    BY <1>4, <2>1, GotoFits DEF RegisterHandle, LoginStages, HandleStages
  <2>3. /\ handles' \in [Handle -> Uid \cup {NoUid}] /\ handles'[task[t].h] # NoUid
        /\ \A k \in Handle : handles[k] # NoUid => handles'[k] # NoUid
    BY <1>4, <2>1, InsertNewRegisters DEF RegisterHandle
  <2>4. AccountsTyped'
    BY <1>0, <1>4, <2>2, <2>3 DEF RegisterHandle, AccountsTyped
  <2> QED
    BY <1>4, <2>2, <2>3, <2>4, RequestStep DEF RegisterHandle
<1>5. ASSUME UpdateUser(t) PROVE HInv'
  <2>1. /\ task[t].stage = "setUser" /\ task[t].u \in Uid
        /\ task[t].h \in Handle /\ handles[task[t].h] # NoUid
    BY <1>0, <1>5 DEF UpdateUser, At, ParametersFit, HandleStages, HInv
  <2>2. PICK x \in TaskState : /\ ParametersFit(x) /\ x.stage = "setMem"
                               /\ task' = [task EXCEPT ![t] = x]
    BY <1>5, <2>1, GotoFits DEF UpdateUser, LoginStages, HandleStages
  <2>3. AccountsTyped'
    BY <1>0, <1>5, <2>1, <2>2 DEF UpdateUser, AccountsTyped
  <2>4. ASSUME NEW u \in Uid, userFid'[u] # NoFid
        PROVE  \/ userHandle'[u] \in Handle /\ handles'[userHandle'[u]] # NoUid
               \/ userFid[u] # NoFid /\ userHandle'[u] = userHandle[u]
    BY <1>0, <1>5, <2>1, <2>4 DEF UpdateUser, AccountsTyped
  <2> QED
    BY <1>5, <2>2, <2>3, <2>4, RequestStep DEF UpdateUser
<1> QED
  BY <1>1, <1>2, <1>3, <1>4, <1>5

\* No user has a handle that could still be given to another: queries that
\* fail and restarts leave a registered handle without a user at most, never
\* a user without a registered handle (db.rs:140-176).
THEOREM HandleRegisteredTheorem == AccountsSpec => []HandleRegistered
<1>1. AccountsInit => HInv
  <2> SUFFICES ASSUME AccountsInit PROVE HInv
    OBVIOUS
  <2>1. AccountsTyped
    BY IdleFits DEF AccountsInit, AccountsTyped
  <2>2. \A t \in Task : task[t] = Idle
    BY DEF AccountsInit
  <2> QED
    BY <2>1, <2>2, IdleFits DEF AccountsInit, HInv, Idle
<1>2. HInv /\ [AccountsNext]_accountVars => HInv'
  <2> SUFFICES ASSUME HInv, [AccountsNext]_accountVars PROVE HInv'
    OBVIOUS
  <2>1. CASE UNCHANGED accountVars
    BY <2>1 DEF accountVars, HInv, AccountsTyped, ParametersFit
  <2>2. CASE Restart
    <3>1. AccountsTyped'
      BY <2>2, IdleFits DEF Restart, HInv, AccountsTyped, tables
    <3>2. \A t \in Task : task'[t] = Idle
      BY <2>2 DEF Restart
    <3>3. \A t \in Task : ParametersFit(task[t])'
      BY <3>2, IdleFits DEF ParametersFit
    <3> QED
      BY <2>2, <3>1, <3>2, <3>3 DEF Restart, HInv, tables, Idle
  <2> QED
    BY <2>1, <2>2, RequestsRegister, QueriesRegister DEF AccountsNext
<1>3. HInv => HandleRegistered
  BY DEF HInv, HandleRegistered
<1> QED
  BY <1>1, <1>2, <1>3, PTL DEF AccountsSpec
=============================================================================
