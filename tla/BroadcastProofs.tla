--------------------------- MODULE BroadcastProofs ---------------------------
(* Proofs about module Broadcast, and about module Observers, whose registry *)
(* it implements.                                                           *)
EXTENDS Broadcast, TLAPS

\* What an actor's activity is, field by field.
LEMMA Activities ==
  ASSUME ActorsOK, NEW a \in Actor
  PROVE  /\ act[a] \in Activity /\ Fit(a, act[a])
         /\ act[a].at # "idle" => act[a].g \in GameID
BY DEF ActorsOK, Fit

\* An actor without work.
LEMMA IdleType ==
  /\ Idle \in Activity /\ Idle.at = "idle" /\ Idle.g = NoGame /\ ~Idle.held
  /\ \A a : Fit(a, Idle)
<1>1. 0 \in 0 .. MaxVersion
  BY BroadcastAssumption
<1>2. Idle \in Activity /\ Idle.at = "idle" /\ Idle.g = NoGame /\ ~Idle.held
  BY <1>1 DEF Idle, Work, Activity, Stage
<1> QED
  BY <1>2 DEF Fit

\* An actor turns to something else.
LEMMA TurnOK ==
  ASSUME ActorsOK, NEW a \in Actor, NEW x \in Activity, Fit(a, x),
         act' = [act EXCEPT ![a] = x], x.at = "join" => ~ObserversLocked
  PROVE  ActorsOK'
<1>1. act' \in [Actor -> Activity]
  BY DEF ActorsOK
<1>2. \A b \in Actor : act'[b] = IF b = a THEN x ELSE act[b]
  BY DEF ActorsOK
<1>3. \A b, d \in Actor : act'[b].at = "join" /\ act'[d].at = "join" => b = d
  BY <1>2 DEF ActorsOK, ObserversLocked
<1>4. \A b \in Actor : Fit(b, act'[b])
  BY <1>2 DEF ActorsOK
<1>5. ActorsOK' <=> /\ act' \in [Actor -> Activity]
                    /\ \A b \in Actor : Fit(b, act'[b])
                    /\ \A b, d \in Actor : act'[b].at = "join" /\ act'[d].at = "join" => b = d
  BY DEF ActorsOK, Fit
<1> QED
  BY <1>1, <1>3, <1>4, <1>5

\* An actor stops working.
LEMMA TurnIdle ==
  ASSUME ActorsOK, NEW a \in Actor, Turn(a, Idle)
  PROVE  ActorsOK'
BY TurnOK, IdleType DEF Turn

\* An actor goes on to the next stage of its call.
LEMMA GoOnType ==
  ASSUME ActorsOK, NEW a \in Actor, NEW at \in Stage, GoOn(a, at)
  PROVE  LET x == [act[a] EXCEPT !.at = at] IN
         /\ x \in Activity /\ x.at = at /\ x.g = act[a].g /\ x.c = act[a].c
         /\ x.v = act[a].v /\ x.todo = act[a].todo /\ x.held = act[a].held
         /\ act' = [act EXCEPT ![a] = x]
BY DEF ActorsOK, Activity, GoOn

\* What try_send does to one mailbox: nothing, or the update comes last.
LEMMA SendToMailbox ==
  ASSUME TypeOK, NEW cs, NEW a \in Actor, SendTo(cs, a), NEW c \in Conn
  PROVE  mailbox'[c] \in {mailbox[c],
           Append(mailbox[c], [g |-> act[a].g, v |-> act[a].v, seats |-> act[a].held])}
BY DEF SendTo, TypeOK

\* Mailboxes hold updates, whatever was sent.
LEMMA SendToType ==
  ASSUME TypeOK, NEW cs \in SUBSET Conn, NEW a \in Actor, SendTo(cs, a),
         act[a].at \in {"send", "notify"}
  PROVE  /\ mailbox' \in [Conn -> Seq(Update)]
         /\ told' \subseteq Conn \X GameID
         /\ excused' \subseteq Conn \X GameID
<1>0. act[a].g \in GameID /\ act[a].v \in 1 .. MaxVersion /\ act[a].held \in BOOLEAN
  BY BroadcastAssumption DEF TypeOK, ActorsOK, Activity, Fit
<1>1. [g |-> act[a].g, v |-> act[a].v, seats |-> act[a].held] \in Update
  BY <1>0 DEF Update
<1>2. mailbox' \in [Conn -> Seq(Update)]
  BY <1>1 DEF SendTo, TypeOK
<1>3. told' \subseteq Conn \X GameID
  BY <1>0 DEF SendTo, TypeOK
<1>4. excused' \subseteq Conn \X GameID
  BY <1>0 DEF SendTo, TypeOK
<1> QED
  BY <1>2, <1>3, <1>4

\* Every step keeps the types.
LEMMA NextTypeOK == TypeOK /\ [Next]_vars => TypeOK'
<1> SUFFICES ASSUME TypeOK, [Next]_vars PROVE TypeOK'
  OBVIOUS
<1> USE BroadcastAssumption DEF Actor, obsVars, gameVars
<1>0. /\ ActorsOK
      /\ \A a \in Actor : /\ act[a] \in Activity /\ Fit(a, act[a])
                          /\ act[a].at # "idle" => act[a].g \in GameID
                          /\ act[a].v \in 0 .. MaxVersion
                          /\ act[a].todo \in SUBSET User
                          /\ act[a].c \in Conn \cup {NoUser}
                          /\ act[a].held \in BOOLEAN
  <2>1. ActorsOK
    BY DEF TypeOK
  <2> SUFFICES ASSUME NEW a \in Actor
               PROVE  /\ act[a] \in Activity /\ Fit(a, act[a])
                      /\ act[a].at # "idle" => act[a].g \in GameID
                      /\ act[a].v \in 0 .. MaxVersion
                      /\ act[a].todo \in SUBSET User
                      /\ act[a].c \in Conn \cup {NoUser}
                      /\ act[a].held \in BOOLEAN
    BY <2>1
  <2> QED
    BY <2>1, Activities DEF Activity
<1>a. ASSUME NEW a \in Actor, NEW g \in GameID, NEW at \in {"changed", "seats", "observe"},
             NEW c \in Conn \cup {NoUser}, Write(a, g, at, c),
             at # "changed" => a \in Future, at = "observe" => c \in Conn,
             players' \in [GameID -> SUBSET User]
      PROVE  TypeOK'
  <2>1. version[g] + 1 \in 1 .. MaxVersion
    BY <1>a DEF Write, TypeOK
  <2>2. version' \in [GameID -> 1 .. MaxVersion] /\ news' \in [GameID -> 1 .. MaxVersion]
    BY <1>a, <2>1 DEF Write, TypeOK
  <2> DEFINE x == Work(at, g, c, version[g] + 1)
  <2>7. at \in Stage /\ version[g] + 1 \in 0 .. MaxVersion
    BY <2>1 DEF Stage
  <2>3. x \in Activity /\ x.at = at /\ x.g = g /\ x.c = c /\ x.v = version[g] + 1 /\ ~x.held
    BY <2>7 DEF Work, Activity
  <2>4. act' = [act EXCEPT ![a] = x]
    BY <1>a DEF Write, Turn
  <2> HIDE DEF x
  <2>5. Fit(a, x)
    BY <1>a, <2>3 DEF Fit
  <2>6. ActorsOK'
    BY <1>0, <1>a, <2>3, <2>4, <2>5, TurnOK
  <2> QED
    BY <1>a, <2>2, <2>6 DEF Write, TypeOK
<1>b. ASSUME NEW a \in Actor, NEW x \in Activity, Fit(a, x),
             act' = [act EXCEPT ![a] = x], x.at = "join" => ~ObserversLocked,
             UNCHANGED <<gameVars, login, obsVars, mailbox, told, excused>>
      PROVE  TypeOK'
  <2>1. ActorsOK'
    BY <1>0, <1>b, TurnOK
  <2> QED
    BY <1>b, <2>1 DEF TypeOK
<1>1. ASSUME NEW c \in Conn, NEW g \in GameID, MakeMove(c, g) PROVE TypeOK'
  BY <1>1, <1>a DEF MakeMove, TypeOK
<1>2. ASSUME NEW f \in Future, NEW g \in GameID, StartOrCheck(f, g) PROVE TypeOK'
  BY <1>2, <1>a DEF StartOrCheck, TypeOK
<1>3. ASSUME NEW f \in Future, NEW u \in User, NEW g \in GameID, Sit(f, u, g)
      PROVE  TypeOK'
  <2>1. players' \in [GameID -> SUBSET User]
    BY <1>3 DEF Sit, TypeOK
  <2> QED
    BY <1>3, <1>a, <2>1 DEF Sit
<1>4. ASSUME NEW f \in Future, NEW c \in Conn, NEW g \in GameID, Vacate(f, c, g)
      PROVE  TypeOK'
  <2>1. players' \in [GameID -> SUBSET User]
    BY <1>4 DEF Vacate, TypeOK
  <2> QED
    BY <1>4, <1>a, <2>1 DEF Vacate
<1>5. ASSUME NEW f \in Future, NEW u \in User, NEW g \in GameID,
             OnOfflineUser(f, u, g)
      PROVE  TypeOK'
  <2>1. players' \in [GameID -> SUBSET User]
    BY <1>5 DEF OnOfflineUser, TypeOK
  <2> QED
    BY <1>5, <1>a, <2>1 DEF OnOfflineUser
<1>6. ASSUME NEW f \in Future, StartQuery(f) PROVE TypeOK'
  <2> DEFINE x == [act[f] EXCEPT !.at = "query", !.held = TRUE]
  <2>1. /\ x \in Activity /\ x.at = "query" /\ x.g = act[f].g /\ x.v = act[f].v
    BY <1>0 DEF Activity, Stage
  <2>2. act' = [act EXCEPT ![f] = x]
    BY <1>0, <1>6 DEF StartQuery, ActorsOK, Activity
  <2>3. Fit(f, x)
    BY <1>0, <1>6, <2>1 DEF Fit, StartQuery
  <2> HIDE DEF x
  <2> QED
    BY <1>6, <1>b, <2>1, <2>2, <2>3 DEF StartQuery
<1>7. ASSUME NEW f \in Future, QueryDone(f) PROVE TypeOK'
  <2> DEFINE x == [act[f] EXCEPT !.at = "changed"]
  <2>1. /\ x \in Activity /\ x.at = "changed" /\ x.g = act[f].g /\ x.v = act[f].v
        /\ x.held = act[f].held /\ act' = [act EXCEPT ![f] = x]
    BY <1>0, <1>7, GoOnType DEF QueryDone, Stage
  <2>2. Fit(f, x)
    BY <1>0, <1>7, <2>1 DEF Fit, QueryDone
  <2> HIDE DEF x
  <2> QED
    BY <1>7, <1>b, <2>1, <2>2 DEF QueryDone
<1>8. ASSUME NEW f \in Future, QueryFails(f) PROVE TypeOK'
  <2>1. ActorsOK'
    BY <1>8, <1>0, TurnIdle DEF QueryFails
  <2>2. excused' \subseteq Conn \X GameID
    BY <1>8, <1>0 DEF QueryFails, TypeOK
  <2> QED
    BY <1>8, <2>1, <2>2 DEF QueryFails, TypeOK
<1>9. ASSUME NEW a \in Actor, MakeUpdate(a) PROVE TypeOK'
  <2> DEFINE x == [act[a] EXCEPT !.at = "made", !.v = version[act[a].g]]
  <2>0. act[a].g \in GameID /\ version[act[a].g] \in 1 .. MaxVersion
    BY <1>0, <1>9 DEF MakeUpdate, TypeOK
  <2>4. version[act[a].g] \in 0 .. MaxVersion /\ version[act[a].g] # 0
    BY <2>0
  <2>1. /\ x \in Activity /\ x.at = "made" /\ x.g = act[a].g /\ x.v # 0
        /\ x.held = act[a].held
    BY <1>0, <2>4 DEF Activity, Stage
  <2>2. act' = [act EXCEPT ![a] = x]
    BY <1>0, <1>9 DEF MakeUpdate, ActorsOK, Activity
  <2>3. Fit(a, x)
    BY <1>0, <1>9, <2>1 DEF Fit, MakeUpdate
  <2> HIDE DEF x
  <2> QED
    BY <1>9, <1>b, <2>1, <2>2, <2>3 DEF MakeUpdate
<1>10. ASSUME NEW a \in Actor, BeginNotify(a) PROVE TypeOK'
  <2> DEFINE x == [act[a] EXCEPT !.at = "send", !.todo = players[act[a].g]]
  <2>0. act[a].g \in GameID /\ players[act[a].g] \in SUBSET User
    BY <1>0, <1>10 DEF BeginNotify, TypeOK
  <2>1. /\ x \in Activity /\ x.at = "send" /\ x.g = act[a].g /\ x.v = act[a].v
        /\ x.held = act[a].held
    BY <1>0, <2>0 DEF Activity, Stage
  <2>2. act' = [act EXCEPT ![a] = x]
    BY <1>0, <1>10 DEF BeginNotify, ActorsOK, Activity
  <2>3. Fit(a, x)
    BY <1>0, <1>10, <2>1 DEF Fit, BeginNotify
  <2> HIDE DEF x
  <2> QED
    BY <1>10, <1>b, <2>1, <2>2, <2>3 DEF BeginNotify
<1>11. ASSUME NEW a \in Actor, NEW u \in User, SendToUser(a, u) PROVE TypeOK'
  <2> DEFINE x == [act[a] EXCEPT !.todo = @ \ {u}]
  <2>1. /\ mailbox' \in [Conn -> Seq(Update)]
        /\ told' \subseteq Conn \X GameID
        /\ excused' \subseteq Conn \X GameID
    BY <1>11, SendToType DEF SendToUser
  <2>2. /\ x \in Activity /\ x.at = act[a].at /\ x.g = act[a].g /\ x.v = act[a].v
        /\ x.held = act[a].held /\ x.c = act[a].c
    BY <1>0 DEF Activity
  <2>3. act' = [act EXCEPT ![a] = x]
    BY <1>0, <1>11 DEF SendToUser, ActorsOK, Activity
  <2>4. Fit(a, x)
    BY <1>0, <1>11, <2>2 DEF Fit
  <2> HIDE DEF x
  <2>5. ActorsOK'
    BY <1>0, <1>11, <2>2, <2>3, <2>4, TurnOK DEF SendToUser
  <2> QED
    BY <1>11, <2>1, <2>5 DEF SendToUser, TypeOK
<1>12. ASSUME NEW a \in Actor, SentToPlayers(a) PROVE TypeOK'
  <2> DEFINE x == [act[a] EXCEPT !.at = "notify"]
  <2>1. /\ x \in Activity /\ x.at = "notify" /\ x.g = act[a].g /\ x.v = act[a].v
        /\ x.held = act[a].held /\ act' = [act EXCEPT ![a] = x]
    BY <1>0, <1>12, GoOnType DEF SentToPlayers, Stage
  <2>2. Fit(a, x)
    BY <1>0, <1>12, <2>1 DEF Fit, SentToPlayers
  <2> HIDE DEF x
  <2> QED
    BY <1>12, <1>b, <2>1, <2>2 DEF SentToPlayers
<1>13. ASSUME NEW a \in Actor, NotifyObservers(a) PROVE TypeOK'
  <2>1. {c \in Conn : AsObserver(c, act[a].g)} \in SUBSET Conn
    OBVIOUS
  <2>2. /\ mailbox' \in [Conn -> Seq(Update)]
        /\ told' \subseteq Conn \X GameID
        /\ excused' \subseteq Conn \X GameID
    BY <1>13, <2>1, SendToType DEF NotifyObservers
  <2>3. ActorsOK'
    BY <1>13, <1>0, TurnIdle DEF NotifyObservers
  <2> QED
    BY <1>13, <2>2, <2>3 DEF NotifyObservers, TypeOK
<1>14. ASSUME NEW c \in Conn, Deliver(c) PROVE TypeOK'
  <2>1. Head(mailbox[c]) \in Update /\ Tail(mailbox[c]) \in Seq(Update)
    BY <1>14 DEF Deliver, TypeOK
  <2>2. ActorsOK'
    BY <1>14, <1>0 DEF Deliver, ActorsOK
  <2> QED
    BY <1>14, <2>1, <2>2 DEF Deliver, TypeOK
<1>15. ASSUME NEW c \in Conn, NEW g \in GameID, NEW at \in {"observe", "clocks"},
              Turn(c, Work(at, g, c, 0)),
              UNCHANGED <<gameVars, login, obsVars, mailbox, told, excused>>
       PROVE  TypeOK'
  <2> DEFINE x == Work(at, g, c, 0)
  <2>4. at \in Stage /\ 0 \in 0 .. MaxVersion
    BY DEF Stage
  <2>1. x \in Activity /\ x.at = at /\ x.g = g /\ x.c = c /\ x.v = 0 /\ ~x.held
    BY <2>4 DEF Work, Activity
  <2>2. act' = [act EXCEPT ![c] = x]
    BY <1>15 DEF Turn
  <2> HIDE DEF x
  <2>3. Fit(c, x)
    BY <2>1 DEF Fit
  <2> QED
    BY <1>15, <1>b, <2>1, <2>2, <2>3
<1>16. ASSUME NEW c \in Conn, NEW g \in GameID, Observe(c, g) \/ Refresh(c, g)
       PROVE  TypeOK'
  BY <1>15, <1>16 DEF Observe, Refresh
<1>17. ASSUME NEW a \in Actor, Leave(a) PROVE TypeOK'
  <2> DEFINE x == [act[a] EXCEPT !.at = "join"]
  <2>1. act[a].g \in GameID /\ act[a].c \in Conn
    BY <1>17, <1>0 DEF Leave, Fit
  <2>2. /\ x \in Activity /\ x.at = "join" /\ x.g = act[a].g /\ x.v = act[a].v
        /\ x.held = act[a].held /\ x.c = act[a].c /\ act' = [act EXCEPT ![a] = x]
    BY <1>0, <1>17, GoOnType DEF Leave, Stage
  <2>3. Fit(a, x)
    BY <1>0, <1>17, <2>2 DEF Fit, Leave
  <2> HIDE DEF x
  <2>4. ActorsOK'
    BY <1>0, <1>17, <2>2, <2>3, TurnOK DEF Leave
  <2>5. /\ observing' \in [Conn -> GameID \cup {NoGame}]
        /\ recipients' \in [GameID -> SUBSET Conn]
    BY <1>17, <2>1 DEF Leave, TypeOK
  <2> QED
    BY <1>17, <2>4, <2>5 DEF Leave, TypeOK
<1>18. ASSUME NEW a \in Actor, Join(a) PROVE TypeOK'
  <2> DEFINE at == IF a \in Conn THEN "clocks" ELSE "seats"
             x == [act[a] EXCEPT !.at = at]
  <2>1. act[a].g \in GameID /\ act[a].c \in Conn
    BY <1>18, <1>0 DEF Join, Fit
  <2>2. /\ x \in Activity /\ x.at = at /\ x.g = act[a].g /\ x.v = act[a].v
        /\ x.held = act[a].held /\ x.c = act[a].c /\ act' = [act EXCEPT ![a] = x]
    <3>1. at \in Stage
      BY DEF Stage
    <3>2. GoOn(a, at)
      BY <1>18 DEF Join
    <3> HIDE DEF at
    <3> QED
      BY <1>0, <3>1, <3>2, GoOnType
  <2>3. Fit(a, x)
    BY <1>0, <1>18, <2>2 DEF Fit, Join
  <2> HIDE DEF x
  <2>4. ActorsOK'
    BY <1>0, <1>18, <2>2, <2>3, TurnOK
  <2>5. recipients' \in [GameID -> SUBSET Conn]
    BY <1>18, <2>1 DEF Join, TypeOK
  <2> QED
    BY <1>18, <2>4, <2>5 DEF Join, TypeOK
<1>19. ASSUME NEW c \in Conn, RefreshClocks(c) PROVE TypeOK'
  <2> DEFINE x == [act[c] EXCEPT !.at = "read"]
  <2>1. /\ x \in Activity /\ x.at = "read" /\ x.g = act[c].g /\ x.v = act[c].v
        /\ x.held = act[c].held /\ x.c = act[c].c /\ act' = [act EXCEPT ![c] = x]
    BY <1>0, <1>19, GoOnType DEF RefreshClocks, Stage
  <2>2. Fit(c, x)
    BY <1>0, <1>19, <2>1 DEF Fit, RefreshClocks
  <2> HIDE DEF x
  <2>3. ActorsOK'
    BY <1>0, <2>1, <2>2, TurnOK
  <2>4. version' \in [GameID -> 1 .. MaxVersion]
    BY <1>0, <1>19 DEF RefreshClocks, TypeOK
  <2> QED
    BY <1>19, <2>3, <2>4 DEF RefreshClocks, TypeOK
<1>20. ASSUME NEW c \in Conn, ReadGame(c) PROVE TypeOK'
  <2>1. act[c].g \in GameID
    BY <1>20, <1>0 DEF ReadGame
  <2>2. ActorsOK'
    BY <1>20, <1>0, TurnIdle DEF ReadGame
  <2>3. told' \subseteq Conn \X GameID
    BY <1>20, <2>1 DEF ReadGame, TypeOK
  <2> QED
    BY <1>20, <2>2, <2>3 DEF ReadGame, TypeOK
<1>21. ASSUME NEW c \in Conn, NEW g \in GameID \cup {NoGame}, Unobserve(c, g)
       PROVE  TypeOK'
  BY <1>21, <1>0 DEF Unobserve, TypeOK, ActorsOK
<1>22. ASSUME NEW c \in Conn, ListConn(c) PROVE TypeOK'
  BY <1>22 DEF ListConn, TypeOK, ActorsOK
<1>23. ASSUME NEW c \in Conn, EnterConn(c) PROVE TypeOK'
  BY <1>23 DEF EnterConn, TypeOK, ActorsOK
<1>24. ASSUME NEW c \in Conn, Close(c) PROVE TypeOK'
  BY <1>24 DEF Close, TypeOK, ActorsOK
<1>25. ASSUME NEW c \in Conn, RemoveObserver(c) PROVE TypeOK'
  BY <1>25 DEF RemoveObserver, TypeOK, ActorsOK
<1>26. CASE UNCHANGED vars
  BY <1>26 DEF vars, TypeOK, ActorsOK
<1> QED
  BY <1>1, <1>2, <1>3, <1>4, <1>5, <1>6, <1>7, <1>8, <1>9, <1>10, <1>11, <1>12,
     <1>13, <1>14, <1>16, <1>17, <1>18, <1>19, <1>20, <1>21, <1>22, <1>23,
     <1>24, <1>25, <1>26
  DEF Next, Change, Notify, Socket

\* What is to be announced has happened, copies were states of the game, and
\* so are the updates that wait.
NewsIsReal == \A g \in GameID : news[g] <= version[g]

CopiesAreReal ==
  \A a \in Actor :
    act[a].at \in {"made", "send", "notify"} => act[a].v <= version[act[a].g]

UpdatesAreReal ==
  \A c \in Conn : \A i \in 1 .. Len(mailbox[c]) :
    mailbox[c][i].v <= version[mailbox[c][i].g]

\* What update_seats announces is the state of the game, still: nobody can
\* write the game before the last of its watchers has it.
SeatsAreCurrent ==
  \A a \in Actor :
    act[a].held /\ act[a].at \in {"made", "send", "notify"} =>
      act[a].v = version[act[a].g]

Ordered == /\ TypeOK /\ NewsIsReal /\ CopiesAreReal /\ UpdatesAreReal
           /\ SeatsAreCurrent /\ SeatsInOrder

Advanced(g) == version'[g] \in Nat /\ version[g] <= version'[g]

\* No game goes back, and none changes under a guard.
LEMMA VersionsAdvance ==
  TypeOK /\ [Next]_vars =>
    \A g \in GameID : /\ Advanced(g)
                      /\ version'[g] = version[g] \/ ~Guarded(g)
<1> SUFFICES ASSUME TypeOK, [Next]_vars, NEW g \in GameID
             PROVE  Advanced(g) /\ (version'[g] = version[g] \/ ~Guarded(g))
  OBVIOUS
<1>0. version[g] \in Nat /\ \A h \in GameID : version[h] \in Nat
  BY BroadcastAssumption DEF TypeOK
<1>1. ASSUME NEW a \in Actor, NEW h \in GameID, NEW at, NEW c, Write(a, h, at, c)
      PROVE  Advanced(g) /\ (version'[g] = version[g] \/ ~Guarded(g))
  BY <1>0, <1>1 DEF Write, Advanced, TypeOK
<1>2. ASSUME NEW c \in Conn, RefreshClocks(c)
      PROVE  Advanced(g) /\ (version'[g] = version[g] \/ ~Guarded(g))
  BY <1>0, <1>2 DEF RefreshClocks, Advanced, TypeOK
<1>3. ASSUME UNCHANGED version
      PROVE  Advanced(g) /\ (version'[g] = version[g] \/ ~Guarded(g))
  BY <1>0, <1>3 DEF Advanced
<1> USE DEF Actor, gameVars
<1>4. CASE Change
  BY <1>1, <1>3, <1>4
  DEF Change, MakeMove, StartOrCheck, Sit, Vacate, OnOfflineUser, StartQuery,
      QueryDone, QueryFails
<1>5. CASE Notify
  BY <1>3, <1>5
  DEF Notify, MakeUpdate, BeginNotify, SendToUser, SentToPlayers, NotifyObservers
<1>6. CASE Socket
  BY <1>2, <1>3, <1>6
  DEF Socket, Deliver, Observe, Leave, Join, ReadGame, Refresh, Unobserve,
      ListConn, EnterConn, Close, RemoveObserver
<1> QED
  BY <1>3, <1>4, <1>5, <1>6 DEF Next, vars

\* A change that is announced has happened.
LEMMA NextNewsIsReal ==
  TypeOK /\ NewsIsReal /\ [Next]_vars => NewsIsReal'
<1> SUFFICES ASSUME TypeOK, NewsIsReal, [Next]_vars, NEW g \in GameID
             PROVE  news'[g] <= version'[g]
  BY DEF NewsIsReal
<1>0. /\ \A h \in GameID : version[h] \in Nat /\ news[h] \in Nat /\ news[h] <= version[h]
      /\ version'[g] \in Nat /\ version[g] <= version'[g]
  BY VersionsAdvance, BroadcastAssumption DEF TypeOK, NewsIsReal, Advanced
<1>1. ASSUME NEW a \in Actor, NEW h \in GameID, NEW at, NEW c, Write(a, h, at, c)
      PROVE  news'[g] <= version'[g]
  BY <1>0, <1>1 DEF Write, TypeOK
<1>2. ASSUME UNCHANGED news PROVE news'[g] <= version'[g]
  BY <1>0, <1>2
<1> USE DEF Actor, gameVars
<1>3. CASE Change
  BY <1>1, <1>2, <1>3
  DEF Change, MakeMove, StartOrCheck, Sit, Vacate, OnOfflineUser, StartQuery,
      QueryDone, QueryFails
<1>4. CASE Notify
  BY <1>2, <1>4
  DEF Notify, MakeUpdate, BeginNotify, SendToUser, SentToPlayers, NotifyObservers
<1>5. CASE Socket
  BY <1>2, <1>5
  DEF Socket, Deliver, Observe, Leave, Join, RefreshClocks, ReadGame, Refresh,
      Unobserve, ListConn, EnterConn, Close, RemoveObserver
<1> QED
  BY <1>2, <1>3, <1>4, <1>5 DEF Next, vars

\* While an actor has a copy to send, it does not change; the copy is made of
\* the state of the game.
SameWork(a) ==
  \/ act'[a].at \notin {"made", "send", "notify"}
  \/ /\ act[a].at \in {"made", "send", "notify"}
     /\ act'[a].g = act[a].g /\ act'[a].v = act[a].v /\ act'[a].held = act[a].held
  \/ act'[a].g = act[a].g /\ act'[a].v = version[act[a].g] /\ UNCHANGED version

\* Every step treats every copy so.
LEMMA WorkGoesOn == TypeOK /\ [Next]_vars => \A b \in Actor : SameWork(b)
<1> SUFFICES ASSUME TypeOK, [Next]_vars, NEW b \in Actor PROVE SameWork(b)
  OBVIOUS
<1> USE DEF Actor, gameVars
<1>0. act \in [Actor -> Activity]
  BY DEF TypeOK, ActorsOK
<1>1. ASSUME UNCHANGED act PROVE SameWork(b)
  BY <1>1 DEF SameWork
<1>2. ASSUME NEW a \in Actor, NEW x, act' = [act EXCEPT ![a] = x],
             x.at \notin {"made", "send", "notify"}
      PROVE  SameWork(b)
  BY <1>0, <1>2 DEF SameWork
<1>3. ASSUME NEW a \in Actor, Turn(a, Idle) PROVE SameWork(b)
  BY <1>2, <1>3, IdleType DEF Turn
<1>4. ASSUME NEW a \in Actor, NEW at, NEW g, NEW c, NEW v, Turn(a, Work(at, g, c, v)),
             at \notin {"made", "send", "notify"}
      PROVE  SameWork(b)
  BY <1>2, <1>4 DEF Turn, Work
<1>5. ASSUME NEW a \in Actor, NEW at \in Stage \ {"made", "send", "notify"}, GoOn(a, at)
      PROVE  SameWork(b)
  BY <1>0, <1>5 DEF GoOn, SameWork, Activity
<1>6. CASE Change
  <2>1. ASSUME NEW a \in Actor, NEW g \in GameID,
               NEW at \in {"changed", "seats", "observe"}, NEW c, Write(a, g, at, c)
        PROVE  SameWork(b)
    BY <1>4, <2>1 DEF Write
  <2>2. ASSUME NEW f \in Future, StartQuery(f) PROVE SameWork(b)
    BY <1>0, <2>2 DEF StartQuery, SameWork, Activity
  <2>3. ASSUME NEW f \in Future, QueryDone(f) \/ QueryFails(f) PROVE SameWork(b)
    BY <1>3, <1>5, <2>3 DEF QueryDone, QueryFails, Stage
  <2> QED
    BY <1>6, <2>1, <2>2, <2>3
    DEF Change, MakeMove, StartOrCheck, Sit, Vacate, OnOfflineUser
<1>7. CASE Notify
  <2>1. ASSUME NEW a \in Actor, MakeUpdate(a) PROVE SameWork(b)
    BY <1>0, <2>1 DEF MakeUpdate, SameWork, Activity
  <2>2. ASSUME NEW a \in Actor, BeginNotify(a) PROVE SameWork(b)
    BY <1>0, <2>2 DEF BeginNotify, SameWork, Activity
  <2>3. ASSUME NEW a \in Actor, NEW u \in User, SendToUser(a, u) PROVE SameWork(b)
    BY <1>0, <2>3 DEF SendToUser, SameWork, Activity
  <2>4. ASSUME NEW a \in Actor, SentToPlayers(a) PROVE SameWork(b)
    BY <1>0, <2>4 DEF SentToPlayers, GoOn, SameWork, Activity
  <2>5. ASSUME NEW a \in Actor, NotifyObservers(a) PROVE SameWork(b)
    BY <1>3, <2>5 DEF NotifyObservers
  <2> QED
    BY <1>7, <2>1, <2>2, <2>3, <2>4, <2>5 DEF Notify
<1>8. CASE Socket
  <2>1. ASSUME NEW c \in Conn, NEW g \in GameID, Observe(c, g) \/ Refresh(c, g)
        PROVE  SameWork(b)
    BY <1>4, <2>1 DEF Observe, Refresh
  <2>2. ASSUME NEW a \in Actor, Leave(a) PROVE SameWork(b)
    BY <1>5, <2>2 DEF Leave, Stage
  <2>3. ASSUME NEW a \in Actor, Join(a) PROVE SameWork(b)
    <3>1. (IF a \in Conn THEN "clocks" ELSE "seats") \in Stage \ {"made", "send", "notify"}
      BY DEF Stage
    <3> QED
      BY <1>5, <2>3, <3>1 DEF Join
  <2>4. ASSUME NEW c \in Conn, RefreshClocks(c) \/ ReadGame(c) PROVE SameWork(b)
    BY <1>3, <1>5, <2>4 DEF RefreshClocks, ReadGame, Stage
  <2>5. ASSUME NEW c \in Conn,
               \/ Deliver(c) \/ ListConn(c) \/ EnterConn(c) \/ Close(c)
               \/ RemoveObserver(c) \/ \E g \in GameID \cup {NoGame} : Unobserve(c, g)
        PROVE  SameWork(b)
    BY <1>1, <2>5
    DEF Deliver, Unobserve, ListConn, EnterConn, Close, RemoveObserver
  <2> QED
    BY <1>8, <2>1, <2>2, <2>3, <2>4, <2>5 DEF Socket
<1> QED
  BY <1>1, <1>6, <1>7, <1>8 DEF Next, vars

\* Hence copies are states of the game, and those of seats its present one.
LEMMA NextCopies ==
  TypeOK /\ CopiesAreReal /\ SeatsAreCurrent /\ [Next]_vars =>
    CopiesAreReal' /\ SeatsAreCurrent'
<1> SUFFICES ASSUME TypeOK, CopiesAreReal, SeatsAreCurrent, [Next]_vars,
                    NEW a \in Actor, act'[a].at \in {"made", "send", "notify"}
             PROVE  /\ act'[a].v <= version'[act'[a].g]
                    /\ act'[a].held => act'[a].v = version'[act'[a].g]
  BY DEF CopiesAreReal, SeatsAreCurrent
<1>0. /\ act'[a].g \in GameID /\ act'[a].v \in Nat
      /\ SameWork(a) /\ Advanced(act'[a].g) /\ version[act'[a].g] \in Nat
      /\ version'[act'[a].g] = version[act'[a].g] \/ ~Guarded(act'[a].g)
  <2>1. TypeOK'
    BY NextTypeOK
  <2>2. act'[a].g \in GameID /\ act'[a].v \in Nat
    BY <2>1, BroadcastAssumption DEF TypeOK, ActorsOK, Fit, Activity
  <2>3. version[act'[a].g] \in Nat
    BY <2>2, BroadcastAssumption DEF TypeOK
  <2> QED
    BY <2>2, <2>3, VersionsAdvance, WorkGoesOn
<1>1. CASE /\ act[a].at \in {"made", "send", "notify"}
           /\ act'[a].g = act[a].g /\ act'[a].v = act[a].v /\ act'[a].held = act[a].held
  <2>1. act'[a].v <= version[act'[a].g]
    BY <1>1 DEF CopiesAreReal
  <2>2. act'[a].held => act'[a].v = version[act'[a].g] /\ Guarded(act'[a].g)
    BY <1>1 DEF SeatsAreCurrent, Guarded
  <2> QED
    BY <1>0, <2>1, <2>2 DEF Advanced
<1>2. CASE act'[a].g = act[a].g /\ act'[a].v = version[act[a].g] /\ UNCHANGED version
  BY <1>0, <1>2
<1> QED
  BY <1>0, <1>1, <1>2 DEF SameWork

\* Steps that leave every mailbox alone, or take its first update away, or
\* empty it.
Shrunk(c) ==
  \/ mailbox'[c] = mailbox[c]
  \/ mailbox[c] # <<>> /\ mailbox'[c] = Tail(mailbox[c])
  \/ mailbox'[c] = <<>>

\* They leave the mailboxes real and in order.
LEMMA Shrinks ==
  ASSUME TypeOK, UpdatesAreReal, SeatsInOrder,
         \A g \in GameID : Advanced(g),
         \A c \in Conn : Shrunk(c)
  PROVE  UpdatesAreReal' /\ SeatsInOrder'
<1> SUFFICES ASSUME NEW c \in Conn
             PROVE  /\ \A i \in 1 .. Len(mailbox'[c]) :
                         mailbox'[c][i].v <= version'[mailbox'[c][i].g]
                    /\ \A i, j \in 1 .. Len(mailbox'[c]) :
                         i < j /\ mailbox'[c][j].seats /\ mailbox'[c][i].g = mailbox'[c][j].g =>
                           mailbox'[c][i].v <= mailbox'[c][j].v
  BY DEF UpdatesAreReal, SeatsInOrder
<1>1. mailbox[c] \in Seq(Update)
  BY DEF TypeOK
<1>2. \A i \in 1 .. Len(mailbox[c]) :
        /\ mailbox[c][i].v <= version'[mailbox[c][i].g]
  <2> SUFFICES ASSUME NEW i \in 1 .. Len(mailbox[c])
               PROVE  mailbox[c][i].v <= version'[mailbox[c][i].g]
    OBVIOUS
  <2>1. mailbox[c][i] \in Update
    BY <1>1
  <2>2. mailbox[c][i].g \in GameID /\ mailbox[c][i].v \in Nat
    BY <2>1, BroadcastAssumption DEF Update
  <2>3. mailbox[c][i].v <= version[mailbox[c][i].g]
    BY DEF UpdatesAreReal
  <2>4. version[mailbox[c][i].g] \in Nat
    BY <2>2, BroadcastAssumption DEF TypeOK
  <2>5. Advanced(mailbox[c][i].g)
    BY <2>2
  <2> QED
    BY <2>2, <2>3, <2>4, <2>5 DEF Advanced
<1>3. \A i, j \in 1 .. Len(mailbox[c]) :
        i < j /\ mailbox[c][j].seats /\ mailbox[c][i].g = mailbox[c][j].g =>
          mailbox[c][i].v <= mailbox[c][j].v
  BY DEF SeatsInOrder
<1>4. CASE mailbox'[c] = mailbox[c]
  BY <1>2, <1>3, <1>4
<1>5. CASE mailbox[c] # <<>> /\ mailbox'[c] = Tail(mailbox[c])
  <2>1. /\ Len(mailbox'[c]) = Len(mailbox[c]) - 1
        /\ \A i \in 1 .. Len(mailbox'[c]) :
             mailbox'[c][i] = mailbox[c][i + 1] /\ i + 1 \in 1 .. Len(mailbox[c])
    BY <1>1, <1>5
  <2>2. Len(mailbox[c]) \in Nat
    BY <1>1
  <2>3. ASSUME NEW i \in 1 .. Len(mailbox'[c])
        PROVE  mailbox'[c][i].v <= version'[mailbox'[c][i].g]
    BY <1>2, <2>1
  <2>4. ASSUME NEW i \in 1 .. Len(mailbox'[c]), NEW j \in 1 .. Len(mailbox'[c]),
               i < j, mailbox'[c][j].seats, mailbox'[c][i].g = mailbox'[c][j].g
        PROVE  mailbox'[c][i].v <= mailbox'[c][j].v
    <3>1. /\ i + 1 \in 1 .. Len(mailbox[c]) /\ mailbox'[c][i] = mailbox[c][i + 1]
          /\ j + 1 \in 1 .. Len(mailbox[c]) /\ mailbox'[c][j] = mailbox[c][j + 1]
      BY <2>1
    <3>2. i + 1 < j + 1
      BY <2>1, <2>2, <2>4
    <3> QED
      BY <1>3, <2>4, <3>1, <3>2
  <2> QED
    BY <2>3, <2>4
<1>6. CASE mailbox'[c] = <<>>
  BY <1>6
<1> QED
  BY <1>4, <1>5, <1>6 DEF Shrunk

\* Steps that send a copy.
LEMMA SendsInOrder ==
  ASSUME TypeOK, CopiesAreReal, SeatsAreCurrent, UpdatesAreReal, SeatsInOrder,
         UNCHANGED version,
         NEW cs, NEW a \in Actor, SendTo(cs, a), act[a].at \in {"send", "notify"}
  PROVE  UpdatesAreReal' /\ SeatsInOrder'
<1> DEFINE new == [g |-> act[a].g, v |-> act[a].v, seats |-> act[a].held]
<1>0. /\ new.g \in GameID /\ version[new.g] \in Nat /\ new.v \in Nat
      /\ new.v <= version[new.g] /\ (new.seats => new.v = version[new.g])
  <2>1. act[a].g \in GameID /\ act[a].v \in Nat
    BY BroadcastAssumption DEF TypeOK, ActorsOK, Activity, Fit
  <2>2. act[a].v <= version[act[a].g] /\ (act[a].held => act[a].v = version[act[a].g])
    BY DEF CopiesAreReal, SeatsAreCurrent
  <2> QED
    BY <2>1, <2>2, BroadcastAssumption DEF TypeOK
<1>6. \A c \in Conn : mailbox'[c] \in {mailbox[c], Append(mailbox[c], new)}
  BY SendToMailbox
<1>7. new \in Update
  BY BroadcastAssumption DEF TypeOK, ActorsOK, Activity, Fit, Update
<1> HIDE DEF new
<1> SUFFICES ASSUME NEW c \in Conn
             PROVE  /\ \A i \in 1 .. Len(mailbox'[c]) :
                         mailbox'[c][i].v <= version[mailbox'[c][i].g]
                    /\ \A i, j \in 1 .. Len(mailbox'[c]) :
                         i < j /\ mailbox'[c][j].seats /\ mailbox'[c][i].g = mailbox'[c][j].g =>
                           mailbox'[c][i].v <= mailbox'[c][j].v
  BY DEF UpdatesAreReal, SeatsInOrder
<1>1. mailbox[c] \in Seq(Update)
  BY DEF TypeOK
<1>2. \A i \in 1 .. Len(mailbox[c]) : mailbox[c][i].v <= version[mailbox[c][i].g]
  BY DEF UpdatesAreReal
<1>3. \A i, j \in 1 .. Len(mailbox[c]) :
        i < j /\ mailbox[c][j].seats /\ mailbox[c][i].g = mailbox[c][j].g =>
          mailbox[c][i].v <= mailbox[c][j].v
  BY DEF SeatsInOrder
<1>4. CASE mailbox'[c] = mailbox[c]
  BY <1>2, <1>3, <1>4
<1>5. CASE mailbox'[c] = Append(mailbox[c], new)
  <2>1. /\ Len(mailbox[c]) \in Nat
        /\ Len(mailbox'[c]) = Len(mailbox[c]) + 1
        /\ \A i \in 1 .. Len(mailbox[c]) : mailbox'[c][i] = mailbox[c][i]
        /\ mailbox'[c][Len(mailbox[c]) + 1] = new
    BY <1>1, <1>5, <1>7
  <2>2. \A i \in 1 .. Len(mailbox'[c]) :
          \/ i \in 1 .. Len(mailbox[c]) /\ mailbox'[c][i] = mailbox[c][i]
          \/ i = Len(mailbox[c]) + 1 /\ mailbox'[c][i] = new
    BY <2>1
  <2>3. \A i \in 1 .. Len(mailbox'[c]) :
          mailbox'[c][i].v <= version[mailbox'[c][i].g]
    BY <1>0, <1>2, <2>2
  <2>4. ASSUME NEW i \in 1 .. Len(mailbox'[c]), NEW j \in 1 .. Len(mailbox'[c]),
               i < j, mailbox'[c][j].seats, mailbox'[c][i].g = mailbox'[c][j].g
        PROVE  mailbox'[c][i].v <= mailbox'[c][j].v
    <3>1. i \in 1 .. Len(mailbox[c]) /\ mailbox'[c][i] = mailbox[c][i]
      BY <2>1, <2>4
    <3>2. CASE j \in 1 .. Len(mailbox[c])
      BY <1>3, <2>1, <2>4, <3>1, <3>2
    <3>3. CASE j = Len(mailbox[c]) + 1
      BY <1>0, <1>2, <2>1, <2>4, <3>1, <3>3
    <3> QED
      BY <2>2, <3>2, <3>3
  <2> QED
    BY <2>3, <2>4
<1> QED
  BY <1>4, <1>5, <1>6

\* Every step keeps the updates in the mailboxes real and in order.
LEMMA NextInOrder ==
  Ordered /\ [Next]_vars => UpdatesAreReal' /\ SeatsInOrder'
<1> SUFFICES ASSUME Ordered, [Next]_vars PROVE UpdatesAreReal' /\ SeatsInOrder'
  OBVIOUS
<1> USE DEF Actor, Ordered, gameVars
<1>0. \A g \in GameID : Advanced(g)
  BY VersionsAdvance
<1>1. ASSUME NEW a \in Actor, NEW u \in User, SendToUser(a, u)
      PROVE  UpdatesAreReal' /\ SeatsInOrder'
  BY <1>1, SendsInOrder DEF SendToUser
<1>2. ASSUME NEW a \in Actor, NotifyObservers(a)
      PROVE  UpdatesAreReal' /\ SeatsInOrder'
  BY <1>2, SendsInOrder DEF NotifyObservers
<1>3. ASSUME UNCHANGED mailbox
      PROVE  UpdatesAreReal' /\ SeatsInOrder'
  <2>1. \A c \in Conn : Shrunk(c)
    BY <1>3 DEF Shrunk
  <2> QED
    BY <1>0, <2>1, Shrinks
<1>4. ASSUME NEW c \in Conn, Deliver(c) \/ Close(c)
      PROVE  UpdatesAreReal' /\ SeatsInOrder'
  <2>1. \A d \in Conn : Shrunk(d)
    BY <1>4 DEF Deliver, Close, TypeOK, Shrunk
  <2> QED
    BY <1>0, <2>1, Shrinks
<1>5. CASE Change
  BY <1>3, <1>5
  DEF Change, MakeMove, StartOrCheck, Sit, Vacate, OnOfflineUser, Write,
      StartQuery, QueryDone, QueryFails
<1>6. CASE Notify
  BY <1>1, <1>2, <1>3, <1>6 DEF Notify, MakeUpdate, BeginNotify, SentToPlayers
<1>7. CASE Socket
  BY <1>3, <1>4, <1>7
  DEF Socket, Observe, Leave, Join, RefreshClocks, ReadGame, Refresh, Unobserve,
      ListConn, EnterConn, RemoveObserver
<1> QED
  BY <1>3, <1>5, <1>6, <1>7 DEF Next, vars

\* Mailboxes are in order and bounded by the version of their game, for ever.
LEMMA OrderedInvariant == Spec => []Ordered
<1>1. Init => Ordered
  <2> SUFFICES ASSUME Init PROVE Ordered
    OBVIOUS
  <2>1. \A a \in Actor : act[a] = Idle
    BY DEF Init
  <2>2. ActorsOK
    <3>1. act \in [Actor -> Activity]
      BY IdleType DEF Init
    <3> QED
      BY <2>1, <3>1, IdleType DEF ActorsOK
  <2>3. \A c \in Conn : mailbox[c] = <<>> /\ Len(mailbox[c]) = 0
    BY DEF Init
  <2>4. TypeOK
    BY <2>2, BroadcastAssumption DEF Init, TypeOK
  <2>5. CopiesAreReal /\ SeatsAreCurrent
    BY <2>1, IdleType DEF CopiesAreReal, SeatsAreCurrent
  <2>6. UpdatesAreReal /\ SeatsInOrder
    BY <2>3 DEF UpdatesAreReal, SeatsInOrder
  <2>7. NewsIsReal
    BY DEF Init, NewsIsReal
  <2> QED
    BY <2>4, <2>5, <2>6, <2>7 DEF Ordered
<1>2. Ordered /\ [Next]_vars => Ordered'
  BY NextTypeOK, NextNewsIsReal, NextCopies, NextInOrder DEF Ordered
<1> QED
  BY <1>1, <1>2, PTL DEF Spec

\* Mailboxes, maps and futures are well typed: in particular one connection at a
\* time is between the two maps of observers.rs.
THEOREM BroadcastTypeOK == Spec => []TypeOK
  BY OrderedInvariant, PTL DEF Ordered

\* What update_seats announces waits behind no newer state of its game,
\* whichever threads announce moves meanwhile (bughouse_server.rs:590-600).
THEOREM SeatsInOrderTheorem == Spec => []SeatsInOrder
  BY OrderedInvariant, PTL DEF Ordered

\* The observers that the registry of module Observers would list.
Listed(g) == recipients[g] \cup Arriving(g)

\* While nobody arrives, they are the recipients.
LEMMA NobodyArrives ==
  ASSUME ActorsOK, ~ObserversLocked
  PROVE  \A g \in GameID : Arriving(g) = {} /\ Listed(g) = recipients[g]
BY DEF ObserversLocked, Arriving, Listed

\* Steps that neither begin nor end an arrival leave the list alone.
LEMMA SameListed ==
  ASSUME TypeOK, NEW a \in Actor, NEW x, act' = [act EXCEPT ![a] = x],
         act[a].at # "join", x.at # "join", UNCHANGED recipients
  PROVE  \A g \in GameID : Listed(g)' = Listed(g)
<1>1. \A b \in Actor : act'[b] = IF b = a THEN x ELSE act[b]
  BY DEF TypeOK, ActorsOK
<1>2. \A g \in GameID : Arriving(g)' = Arriving(g)
  BY <1>1 DEF Arriving
<1> QED
  BY <1>2 DEF Listed

\* The variables of module Observers stand still.
Still == UNCHANGED <<socket, observing>> /\ \A g \in GameID : Listed(g)' = Listed(g)

\* A step that leaves them alone is a stutter of module Observers.
LEMMA StillStutters == Still => UNCHANGED O!vars
<1> SUFFICES ASSUME Still PROVE UNCHANGED O!vars
  OBVIOUS
<1>1. [g \in GameID |-> recipients[g] \cup Arriving(g)]' =
        [g \in GameID |-> recipients[g] \cup Arriving(g)]
  BY DEF Still, Listed
<1> QED
  BY <1>1 DEF Still, O!vars

\* A connection's arrival is a step of the registry, even a closed one's:
\* the arbiter makes it observe.
LEMMA InsertIsNext ==
  ASSUME NEW c \in Conn, NEW g \in GameID, O!VacateSeat(c, g)
  PROVE  O!Next
BY DEF O!Next

\* So is the departure that a client asks for.
LEMMA UnobserveIsNext ==
  ASSUME NEW c \in Conn, NEW g \in GameID \cup {NoGame}, O!Unobserve(c, g)
  PROVE  O!Next
BY DEF O!Next

\* Every step is one of the registry of observers, or none: the arrival
\* counts from the departure on.
LEMMA StepRefines == TypeOK /\ [Next]_vars => [O!Next]_(O!vars)
<1> SUFFICES ASSUME TypeOK, [Next]_vars PROVE O!Next \/ Still
  BY StillStutters
<1> USE DEF Actor, obsVars, gameVars
<1>0. /\ ActorsOK
      /\ act \in [Actor -> Activity]
      /\ \A a \in Actor : /\ act[a].at # "idle" => act[a].g \in GameID
                          /\ act[a].at \in {"observe", "join"} => act[a].c \in Conn
  BY DEF TypeOK, ActorsOK, Fit
<1>1. ASSUME NEW a \in Actor, NEW x, act' = [act EXCEPT ![a] = x],
             act[a].at # "join", x.at # "join", UNCHANGED obsVars
      PROVE  Still
  BY <1>1, SameListed DEF Still
<1>2. ASSUME NEW a \in Actor, NEW at, NEW g, NEW c, NEW v, at # "join",
             Turn(a, Work(at, g, c, v)), act[a] = Idle, UNCHANGED obsVars
      PROVE  Still
  <2> DEFINE x == Work(at, g, c, v)
  <2>1. x.at # "join" /\ act[a].at # "join"
    BY <1>2, IdleType DEF Work
  <2>2. act' = [act EXCEPT ![a] = x]
    BY <1>2 DEF Turn
  <2> HIDE DEF x
  <2> QED
    BY <1>1, <1>2, <2>1, <2>2
<1>3. ASSUME NEW a \in Actor, NEW at \in Stage \ {"join"}, GoOn(a, at),
             act[a].at # "join", UNCHANGED obsVars
      PROVE  Still
  <2> DEFINE x == [act[a] EXCEPT !.at = at]
  <2>1. x.at # "join" /\ act' = [act EXCEPT ![a] = x]
    BY <1>0, <1>3, GoOnType
  <2> HIDE DEF x
  <2> QED
    BY <1>1, <1>3, <2>1
<1>4. ASSUME NEW a \in Actor, Turn(a, Idle), act[a].at # "join", UNCHANGED obsVars
      PROVE  Still
  BY <1>1, <1>4, IdleType DEF Turn
<1>5. ASSUME UNCHANGED <<act, obsVars>> PROVE Still
  BY <1>5 DEF Still, Listed, Arriving
<1>7. CASE Change
  <2>1. ASSUME NEW a \in Actor, NEW g \in GameID,
               NEW at \in {"changed", "seats", "observe"}, NEW c, Write(a, g, at, c)
        PROVE  Still
    BY <1>2, <2>1 DEF Write
  <2>2. ASSUME NEW f \in Future, StartQuery(f) PROVE Still
    <3> DEFINE x == [act[f] EXCEPT !.at = "query", !.held = TRUE]
    <3>1. act' = [act EXCEPT ![f] = x] /\ x.at = "query"
      BY <1>0, <2>2 DEF StartQuery, Activity
    <3> HIDE DEF x
    <3> QED
      BY <1>1, <2>2, <3>1 DEF StartQuery
  <2>3. ASSUME NEW f \in Future, QueryDone(f) PROVE Still
    BY <1>3, <2>3 DEF QueryDone, Stage
  <2>4. ASSUME NEW f \in Future, QueryFails(f) PROVE Still
    BY <1>4, <2>4 DEF QueryFails
  <2> QED
    BY <1>7, <2>1, <2>2, <2>3, <2>4
    DEF Change, MakeMove, StartOrCheck, Sit, Vacate, OnOfflineUser
<1>8. CASE Notify
  <2>1. ASSUME NEW a \in Actor, MakeUpdate(a) PROVE Still
    <3> DEFINE x == [act[a] EXCEPT !.at = "made", !.v = version[act[a].g]]
    <3>1. act' = [act EXCEPT ![a] = x] /\ x.at = "made"
      BY <1>0, <2>1 DEF MakeUpdate, Activity
    <3> HIDE DEF x
    <3> QED
      BY <1>1, <2>1, <3>1 DEF MakeUpdate
  <2>2. ASSUME NEW a \in Actor, BeginNotify(a) PROVE Still
    <3> DEFINE x == [act[a] EXCEPT !.at = "send", !.todo = players[act[a].g]]
    <3>1. act' = [act EXCEPT ![a] = x] /\ x.at = "send"
      BY <1>0, <2>2 DEF BeginNotify, Activity
    <3> HIDE DEF x
    <3> QED
      BY <1>1, <2>2, <3>1 DEF BeginNotify
  <2>3. ASSUME NEW a \in Actor, NEW u \in User, SendToUser(a, u) PROVE Still
    <3> DEFINE x == [act[a] EXCEPT !.todo = @ \ {u}]
    <3>1. act' = [act EXCEPT ![a] = x] /\ x.at = act[a].at
      BY <1>0, <2>3 DEF SendToUser, Activity
    <3> HIDE DEF x
    <3> QED
      BY <1>1, <2>3, <3>1 DEF SendToUser
  <2>4. ASSUME NEW a \in Actor, SentToPlayers(a) PROVE Still
    BY <1>3, <2>4 DEF SentToPlayers, Stage
  <2>5. ASSUME NEW a \in Actor, NotifyObservers(a) PROVE Still
    BY <1>4, <2>5 DEF NotifyObservers
  <2> QED
    BY <1>8, <2>1, <2>2, <2>3, <2>4, <2>5 DEF Notify
<1>9. ASSUME NEW c \in Conn, NEW g \in GameID, Observe(c, g) \/ Refresh(c, g)
      PROVE  Still
  <2>1. \A b : b \in {"clocks", "observe"} => b # "join"
    OBVIOUS
  <2> QED
    BY <1>2, <1>9, <2>1 DEF Observe, Refresh
<1>10. ASSUME NEW a \in Actor, Leave(a) PROVE O!Next
  <2> DEFINE g == act[a].g
             c == act[a].c
  <2>1. g \in GameID /\ c \in Conn
    BY <1>0, <1>10 DEF Leave
  <2>2. \A h \in GameID : Arriving(h) = {} /\ Listed(h) = recipients[h]
    BY <1>0, <1>10, NobodyArrives DEF Leave
  <2> DEFINE x == [act[a] EXCEPT !.at = "join"]
  <2>4. /\ x.at = "join" /\ x.g = g /\ x.c = c
        /\ act' = [act EXCEPT ![a] = x]
    BY <1>0, <1>10, GoOnType DEF Leave, Stage
  <2> HIDE DEF x
  <2>3. \A b \in Actor : act'[b] = IF b = a THEN x ELSE act[b]
    BY <1>0, <2>4
  <2>5. \A b \in Actor : act[b].at # "join"
    BY <1>10 DEF Leave, ObserversLocked
  <2>6. \A h \in GameID : Arriving(h)' = IF h = g THEN {c} ELSE {}
    BY <2>1, <2>3, <2>4, <2>5 DEF Arriving
  <2>7. /\ observing' = [observing EXCEPT ![c] = g]
        /\ \A h \in GameID : recipients'[h] =
             IF h = observing[c] THEN recipients[h] \ {c} ELSE recipients[h]
        /\ UNCHANGED socket
    BY <1>10 DEF Leave
  <2>8. \A h \in GameID : Listed(h)' =
          IF h = g THEN Listed(h) \cup {c}
          ELSE IF h = observing[c] THEN Listed(h) \ {c} ELSE Listed(h)
    BY <2>2, <2>6, <2>7 DEF Listed
  <2>9. O!VacateSeat(c, g)
    <3>1. [h \in GameID |-> recipients[h] \cup Arriving(h)]' =
            [h \in GameID |->
               IF h = g THEN [i \in GameID |-> recipients[i] \cup Arriving(i)][h] \cup {c}
               ELSE IF h = observing[c]
                 THEN [i \in GameID |-> recipients[i] \cup Arriving(i)][h] \ {c}
                 ELSE [i \in GameID |-> recipients[i] \cup Arriving(i)][h]]
      BY <2>8 DEF Listed
    <3> QED
      BY <2>7, <3>1 DEF O!VacateSeat, O!Insert
  <2> HIDE DEF g, c
  <2>10. PICK d \in Conn, h \in GameID : d = c /\ h = g
    BY <2>1
  <2>11. O!VacateSeat(d, h)
    BY <2>9, <2>10 DEF O!VacateSeat, O!Insert
  <2> QED
    BY <2>11, InsertIsNext
<1>11. ASSUME NEW a \in Actor, Join(a) PROVE Still
  <2> DEFINE g == act[a].g
             c == act[a].c
             at == IF a \in Conn THEN "clocks" ELSE "seats"
             x == [act[a] EXCEPT !.at = at]
  <2>1. g \in GameID /\ c \in Conn
    BY <1>0, <1>11 DEF Join
  <2>11. at \in Stage /\ at # "join"
    BY DEF Stage
  <2>2. x.at # "join" /\ act' = [act EXCEPT ![a] = x]
    <3>1. GoOn(a, at)
      BY <1>11 DEF Join
    <3> HIDE DEF at
    <3> QED
      BY <1>0, <2>11, <3>1, GoOnType
  <2> HIDE DEF x
  <2>3. \A b \in Actor : act'[b] = IF b = a THEN x ELSE act[b]
    BY <1>0, <2>2
  <2>4. \A b \in Actor : act[b].at = "join" => b = a
    BY <1>11 DEF Join, TypeOK, ActorsOK
  <2> HIDE DEF at
  <2>8. \A b \in Actor : act'[b].at # "join"
    BY <2>2, <2>3, <2>4
  <2>9. \A h \in GameID : Arriving(h)' = {}
    BY <2>8 DEF Arriving
  <2>10. \A h \in GameID : Arriving(h) = IF h = g THEN {c} ELSE {}
    BY <1>11, <2>1, <2>4 DEF Join, Arriving
  <2>5. \A h \in GameID : /\ Arriving(h) = IF h = g THEN {c} ELSE {}
                          /\ Arriving(h)' = {}
    BY <2>9, <2>10
  <2>6. \A h \in GameID : recipients'[h] =
          IF h = g THEN recipients[h] \cup {c} ELSE recipients[h]
    BY <1>11, <2>1 DEF Join, TypeOK
  <2>7. \A h \in GameID : Listed(h)' = Listed(h)
    BY <2>5, <2>6 DEF Listed
  <2> QED
    BY <1>11, <2>7 DEF Join, Still
<1>12. ASSUME NEW c \in Conn, ReadGame(c) PROVE Still
  BY <1>4, <1>12 DEF ReadGame
<1>13. ASSUME NEW c \in Conn, RefreshClocks(c) PROVE Still
  BY <1>3, <1>13 DEF RefreshClocks, Stage
<1>14. ASSUME NEW c \in Conn, NEW g \in GameID \cup {NoGame}, Unobserve(c, g)
       PROVE  O!Next
  <2>1. \A h \in GameID : Arriving(h) = {} /\ Arriving(h)' = {}
    BY <1>0, <1>14, NobodyArrives DEF Unobserve, Arriving
  <2>2. [h \in GameID |-> recipients[h] \cup Arriving(h)] = recipients
    BY <2>1 DEF TypeOK
  <2>3. recipients' = IF observing[c] = g
                       THEN [recipients EXCEPT ![g] = @ \ {c}] ELSE recipients
    BY <1>14 DEF Unobserve
  <2>4. [h \in GameID |-> recipients[h] \cup Arriving(h)]' = recipients'
    BY <2>1, <2>3 DEF TypeOK
  <2>5. O!Unobserve(c, g)
    BY <1>14, <2>2, <2>3, <2>4 DEF Unobserve, O!Unobserve
  <2> QED
    BY <2>5, UnobserveIsNext
<1>15. ASSUME NEW c \in Conn, Close(c) PROVE O!Next
  <2>1. \A h \in GameID : Arriving(h) = {} /\ Arriving(h)' = {}
    BY <1>0, <1>15, NobodyArrives DEF Close, Arriving
  <2>2. recipients' = [h \in GameID |-> IF h = observing[c] THEN recipients[h] \ {c}
                                                           ELSE recipients[h]]
    BY <1>15 DEF Close
  <2>3. [h \in GameID |-> recipients[h] \cup Arriving(h)] = recipients
    BY <2>1 DEF TypeOK
  <2>4. [h \in GameID |-> recipients[h] \cup Arriving(h)]' = recipients'
    BY <2>1, <2>2
  <2>5. O!RemoveFromGame(c)
    BY <1>15, <2>2, <2>3, <2>4 DEF Close, O!RemoveFromGame
  <2> QED
    BY <2>5 DEF O!Next
<1>16. ASSUME NEW c \in Conn, RemoveObserver(c) PROVE O!Next
  <2>1. [h \in GameID |-> recipients[h] \cup Arriving(h)]' =
          [h \in GameID |-> recipients[h] \cup Arriving(h)]
    BY <1>16 DEF RemoveObserver, Arriving
  <2>2. O!RemoveObserver(c)
    BY <1>16, <2>1 DEF RemoveObserver, O!RemoveObserver
  <2> QED
    BY <2>2 DEF O!Next
<1>17. ASSUME NEW c \in Conn, Deliver(c) \/ ListConn(c) \/ EnterConn(c) PROVE Still
  BY <1>5, <1>17 DEF Deliver, ListConn, EnterConn
<1>18. CASE Socket
  BY <1>9, <1>10, <1>11, <1>12, <1>13, <1>14, <1>15, <1>16, <1>17, <1>18 DEF Socket
<1> QED
  BY <1>5, <1>7, <1>8, <1>18 DEF Next, vars

\* The connections told of a game are kept as module Observers says, although
\* an observer's arrival takes two steps (observers.rs:29-52).
THEOREM ImplementsObserversTheorem == Spec => ImplementsObservers
<1>1. Init => O!Init
  <2> SUFFICES ASSUME Init PROVE O!Init
    OBVIOUS
  <2>0. \A a \in Actor : act[a].at # "join"
    BY IdleType DEF Init
  <2>1. \A g \in GameID : Arriving(g) = {}
    BY <2>0 DEF Arriving
  <2>2. [g \in GameID |-> recipients[g] \cup Arriving(g)] = [g \in GameID |-> {}]
    BY <2>1 DEF Init
  <2> QED
    BY <2>2 DEF Init, O!Init
<1>2. Ordered /\ [Next]_vars => [O!Next]_(O!vars)
  BY StepRefines DEF Ordered
<1> QED
  BY <1>1, <1>2, OrderedInvariant, PTL DEF Spec, ImplementsObservers, O!Spec

-----------------------------------------------------------------------------
(* The registry of observers *)

\* Who is or will be on the list of a game.
Audience == [g \in GameID |-> recipients[g] \cup Arriving(g)]

\* Every step keeps the types.
LEMMA ObserversTypeOK == O!TypeOK /\ [O!Next]_(O!vars) => O!TypeOK'
<1> SUFFICES ASSUME O!TypeOK, [O!Next]_(O!vars) PROVE O!TypeOK'
  OBVIOUS
<1> USE DEF O!TypeOK
<1>1. ASSUME NEW c \in Conn, NEW g \in GameID, O!Observe(c, g) PROVE O!TypeOK'
  BY <1>1 DEF O!Observe, O!Insert
<1>2. ASSUME NEW c \in Conn, NEW g \in GameID, O!VacateSeat(c, g) PROVE O!TypeOK'
  BY <1>2 DEF O!VacateSeat, O!Insert
<1>3. ASSUME NEW c \in Conn, NEW g \in GameID \cup {NoGame}, O!Unobserve(c, g) PROVE O!TypeOK'
  BY <1>3 DEF O!Unobserve
<1>4. ASSUME NEW c \in Conn, O!RemoveFromGame(c) PROVE O!TypeOK'
  BY <1>4 DEF O!RemoveFromGame
<1>5. ASSUME NEW c \in Conn, O!RemoveObserver(c) PROVE O!TypeOK'
  BY <1>5 DEF O!RemoveObserver
<1>6. CASE UNCHANGED O!vars
  BY <1>6 DEF O!vars
<1> QED
  BY <1>1, <1>2, <1>3, <1>4, <1>5, <1>6 DEF O!Next

\* Every step keeps observers on the list of their game.
LEMMA ObserversNotified ==
  O!TypeOK /\ O!ObserverIsNotified /\ [O!Next]_(O!vars) => O!ObserverIsNotified'
<1> SUFFICES ASSUME O!TypeOK, O!ObserverIsNotified, [O!Next]_(O!vars),
                    NEW d \in Conn, observing'[d] # NoGame
             PROVE  d \in Audience'[observing'[d]] \/ socket'[d] = "closing"
  BY DEF O!ObserverIsNotified, Audience
<1> DEFINE Goal == d \in Audience'[observing'[d]] \/ socket'[d] = "closing"
<1> USE DEF O!TypeOK, O!ObserverIsNotified
<1>1. ASSUME NEW c \in Conn, NEW g \in GameID, O!Insert(c, g), UNCHANGED socket
      PROVE  Goal
  <2>1. CASE d = c
    BY <1>1, <2>1 DEF O!Insert, Audience
  <2>2. CASE d # c
    <3>1. observing'[d] = observing[d]
      BY <1>1, <2>2 DEF O!Insert, Audience
    <3>2. \A h \in GameID : d \in Audience[h] => d \in Audience'[h]
      BY <1>1, <2>2 DEF O!Insert, Audience
    <3> QED
      BY <1>1, <3>1, <3>2 DEF Audience
  <2> QED
    BY <2>1, <2>2
<1>2. ASSUME NEW c \in Conn, NEW g \in GameID \cup {NoGame}, O!Unobserve(c, g) PROVE Goal
  <2>1. d # c
    BY <1>2 DEF O!Unobserve, Audience
  <2> QED
    BY <1>2, <2>1 DEF O!Unobserve, Audience
<1>3. ASSUME NEW c \in Conn, O!RemoveFromGame(c) PROVE Goal
  BY <1>3 DEF O!RemoveFromGame, Audience
<1>4. ASSUME NEW c \in Conn, O!RemoveObserver(c) PROVE Goal
  <2>1. d # c
    BY <1>4 DEF O!RemoveObserver, Audience
  <2> QED
    BY <1>4, <2>1 DEF O!RemoveObserver, Audience
<1>5. CASE UNCHANGED O!vars
  BY <1>5 DEF O!vars, Audience
<1> QED
  BY <1>1, <1>2, <1>3, <1>4, <1>5 DEF O!Next, O!Observe, O!VacateSeat

\* Whatever clients ask and however threads interleave, an observer on
\* record is on the list of the game he observes (observers.rs:29-52).
THEOREM NotifiedTheorem == O!Spec => []O!NotifiedInvariant
<1>1. O!Init => O!NotifiedInvariant
  BY DEF O!Init, O!NotifiedInvariant, O!TypeOK, O!ObserverIsNotified
<1>2. O!NotifiedInvariant /\ [O!Next]_(O!vars) => O!NotifiedInvariant'
  BY ObserversTypeOK, ObserversNotified DEF O!NotifiedInvariant
<1> QED
  BY <1>1, <1>2, PTL DEF O!Spec

E == INSTANCE Observers WITH Inexact <- FALSE, Vacating <- FALSE

\* With clients that name the game they observe, and no vacating, nobody
\* gets the updates of another game, nor a closed socket any.
THEOREM ExactTheorem == E!Spec => []E!NotifiedIsObserver
<1> DEFINE Inv == E!TypeOK /\ E!NotifiedIsObserver
<1>1. E!Init => Inv
  BY DEF E!Init, E!TypeOK, E!NotifiedIsObserver
<1>2. Inv /\ [E!Next]_(E!vars) => Inv'
  <2> SUFFICES ASSUME E!TypeOK, E!NotifiedIsObserver, [E!Next]_(E!vars)
               PROVE  E!NotifiedIsObserver'
    <3>1. E!TypeOK /\ [E!Next]_(E!vars) => E!TypeOK'
      BY DEF E!TypeOK, E!Next, E!vars, E!Observe, E!VacateSeat, E!Insert,
             E!Unobserve, E!RemoveFromGame, E!RemoveObserver
    <3> QED
      BY <3>1
  <2> USE DEF E!TypeOK, E!NotifiedIsObserver
  <2>1. ASSUME NEW c \in Conn, NEW g \in GameID, E!Observe(c, g)
        PROVE  E!NotifiedIsObserver'
    BY <2>1 DEF E!Observe, E!Insert
  <2>2. ASSUME NEW c \in Conn, NEW g \in GameID \cup {NoGame}, E!Unobserve(c, g)
        PROVE  E!NotifiedIsObserver'
    BY <2>2 DEF E!Unobserve
  <2>3. ASSUME NEW c \in Conn, E!RemoveFromGame(c) PROVE E!NotifiedIsObserver'
    BY <2>3 DEF E!RemoveFromGame
  <2>4. ASSUME NEW c \in Conn, E!RemoveObserver(c) PROVE E!NotifiedIsObserver'
    BY <2>4 DEF E!RemoveObserver
  <2>5. CASE UNCHANGED E!vars
    BY <2>5 DEF E!vars
  <2> QED
    BY <2>1, <2>2, <2>3, <2>4, <2>5 DEF E!Next, E!VacateSeat
<1> QED
  BY <1>1, <1>2, PTL DEF E!Spec

\* What is proved of the registry holds of the server that implements it: no
\* observer on record is missed.
THEOREM ObserverIsNotifiedTheorem == Spec => []ObserverIsNotified
<1>1. O!NotifiedInvariant => ObserverIsNotified
  BY DEF O!NotifiedInvariant, ObserverIsNotified
<1> QED
  BY <1>1, NotifiedTheorem, ImplementsObserversTheorem, PTL DEF ImplementsObservers

-----------------------------------------------------------------------------
(* Whoever watches a game has heard of it, or is about to *)

\* Nothing that a step does to one actor takes an announcement from c that
\* another is going to send.
LEMMA Keeps ==
  ASSUME NobodyIsForgotten, NEW a \in Actor, NEW c \in Conn, NEW g \in GameID,
         \A b \in Actor : b # a => act'[b] = act[b],
         news'[g] = news[g], told \subseteq told', excused \subseteq excused',
         Watches(c, g), AsObserver(c, g) => AsObserver(c, g)',
         WillTell(a, c, g) => \/ WillTell(a, c, g)'
                              \/ <<c, g>> \in told' \cup excused'
                              \/ \E b \in Actor : WillTell(b, c, g)'
  PROVE  \/ <<c, g>> \in told' \cup excused'
         \/ \E b \in Actor : WillTell(b, c, g)'
<1>1. CASE <<c, g>> \in told \cup excused
  BY <1>1
<1>2. ASSUME NEW b \in Actor, b # a, WillTell(b, c, g) PROVE WillTell(b, c, g)'
  BY <1>2 DEF WillTell
<1>3. CASE \E b \in Actor : WillTell(b, c, g)
  BY <1>2, <1>3
<1> QED
  BY <1>1, <1>3 DEF NobodyIsForgotten

\* A change of a game: it is announced to all, and nobody else's
\* announcement of another game is touched.
LEMMA WriteTells ==
  ASSUME TypeOK, NobodyIsForgotten, NEW a \in Actor, NEW g \in GameID,
         NEW at \in {"changed", "seats", "observe"}, NEW d \in Conn \cup {NoUser},
         Write(a, g, at, d), \A h \in GameID \ {g} : players'[h] = players[h]
  PROVE  NobodyIsForgotten'
<1> SUFFICES ASSUME NEW c \in Conn, NEW h \in GameID, Watches(c, h)'
             PROVE  \/ <<c, h>> \in told' \cup excused'
                    \/ \E b \in Actor : WillTell(b, c, h)'
  BY DEF NobodyIsForgotten
<1>1. act'[a] = Work(at, g, d, version[g] + 1)
  BY DEF Write, Turn, TypeOK, ActorsOK
<1>2. news'[g] = version[g] + 1 /\ \A i \in GameID \ {g} : news'[i] = news[i]
  BY DEF Write, TypeOK
<1>3. CASE h = g
  <2>1. /\ act'[a].g = g /\ act'[a].at = at /\ act'[a].v = version[g] + 1
    BY <1>1 DEF Work
  <2>2. WillTell(a, c, h)'
    BY <1>2, <1>3, <2>1 DEF WillTell
  <2> QED
    BY <2>2
<1>4. CASE h # g
  <2>1. Watches(c, h) /\ (AsObserver(c, h) => AsObserver(c, h)')
    BY <1>4 DEF Write, Watches, AsPlayer, AsObserver, obsVars
  <2>2. ~WillTell(a, c, h)
    BY IdleType, BroadcastAssumption DEF Write, WillTell
  <2>3. CASE <<c, h>> \in told \cup excused
    BY <1>4, <2>3 DEF Write
  <2>4. ASSUME NEW b \in Actor, b # a, WillTell(b, c, h) PROVE WillTell(b, c, h)'
    <3>1. act'[b] = act[b]
      BY <2>4 DEF Write, Turn, TypeOK, ActorsOK
    <3> QED
      BY <1>2, <1>4, <2>1, <2>4, <3>1 DEF WillTell
  <2> QED
    BY <2>1, <2>2, <2>3, <2>4 DEF NobodyIsForgotten
<1> QED
  BY <1>3, <1>4

\* What try_send settles: whoever is sent a copy of the last change is told, or
\* excused.
LEMMA SendSettles ==
  ASSUME TypeOK, NEW cs \in SUBSET Conn, NEW a \in Actor, SendTo(cs, a),
         act[a].at \in {"send", "notify"}
  PROVE  /\ told \subseteq told' /\ excused \subseteq excused'
         /\ news[act[a].g] <= act[a].v =>
              \A c \in cs : <<c, act[a].g>> \in told' \cup excused'
<1>1. act[a].v \in Nat /\ news[act[a].g] \in Nat
  BY BroadcastAssumption DEF TypeOK, ActorsOK, Activity, Fit
<1>2. told \subseteq told' /\ excused \subseteq excused'
  BY DEF SendTo
<1>3. ASSUME news[act[a].g] <= act[a].v, NEW c \in cs
      PROVE  <<c, act[a].g>> \in told' \cup excused'
  <2>1. ~(act[a].v < news[act[a].g])
    BY <1>1, <1>3
  <2>2. CASE Deliverable(c)
    BY <1>3, <2>1, <2>2 DEF SendTo
  <2>3. CASE ~Deliverable(c)
    BY <1>3, <2>1, <2>3 DEF SendTo
  <2> QED
    BY <2>2, <2>3
<1> QED
  BY <1>2, <1>3

\* Every step of an announcement goes on to tell whom it was to tell.
LEMMA NotifyTells ==
  ASSUME Ordered, NobodyIsForgotten, Notify
  PROVE  NobodyIsForgotten'
<1> USE DEF Ordered
<1>0. /\ act \in [Actor -> Activity]
      /\ \A a \in Actor : act[a].at # "idle" => act[a].g \in GameID
      /\ \A a \in Actor : act[a].v \in Nat
      /\ \A g \in GameID : news[g] \in Nat /\ version[g] \in Nat /\ news[g] <= version[g]
  BY BroadcastAssumption DEF TypeOK, ActorsOK, Fit, Activity, NewsIsReal
<1>1. UNCHANGED <<gameVars, login, obsVars>>
  BY DEF Notify, MakeUpdate, BeginNotify, SendToUser, SentToPlayers, NotifyObservers
<1>2. \A c \in Conn, g \in GameID : /\ Watches(c, g)' = Watches(c, g)
                                    /\ AsObserver(c, g)' = AsObserver(c, g)
  BY <1>1 DEF Watches, AsPlayer, AsObserver, gameVars, obsVars
<1> SUFFICES ASSUME NEW c \in Conn, NEW g \in GameID, Watches(c, g)
             PROVE  \/ <<c, g>> \in told' \cup excused'
                    \/ \E b \in Actor : WillTell(b, c, g)'
  BY <1>2 DEF NobodyIsForgotten
<1> DEFINE Goal == \/ <<c, g>> \in told' \cup excused'
                   \/ \E b \in Actor : WillTell(b, c, g)'
<1>3. news'[g] = news[g]
  BY <1>1 DEF gameVars
<1>4. ASSUME NEW a \in Actor, MakeUpdate(a) PROVE Goal
  <2> DEFINE x == [act[a] EXCEPT !.at = "made", !.v = version[act[a].g]]
  <2>1. /\ act' = [act EXCEPT ![a] = x] /\ x.at = "made" /\ x.g = act[a].g
        /\ x.v = version[act[a].g]
    BY <1>0, <1>4 DEF MakeUpdate, Activity
  <2> HIDE DEF x
  <2>2. /\ act'[a] = x /\ \A b \in Actor : b # a => act'[b] = act[b]
    BY <1>0, <2>1
  <2>3. WillTell(a, c, g) => WillTell(a, c, g)'
    BY <1>0, <1>3, <2>1, <2>2 DEF WillTell
  <2> QED
    BY <1>2, <1>3, <1>4, <2>2, <2>3, Keeps DEF MakeUpdate
<1>5. ASSUME NEW a \in Actor, BeginNotify(a) PROVE Goal
  <2> DEFINE x == [act[a] EXCEPT !.at = "send", !.todo = players[act[a].g]]
  <2>1. /\ act' = [act EXCEPT ![a] = x] /\ x.at = "send" /\ x.g = act[a].g
        /\ x.v = act[a].v /\ x.todo = players[act[a].g]
    BY <1>0, <1>5 DEF BeginNotify, Activity
  <2> HIDE DEF x
  <2>2. /\ act'[a] = x /\ \A b \in Actor : b # a => act'[b] = act[b]
    BY <1>0, <2>1
  <2>3. WillTell(a, c, g) => WillTell(a, c, g)'
    <3>1. AsObserver(c, g)' \/ Owner[c] \in players[g]
      BY <1>2 DEF Watches, AsPlayer
    <3>2. WillTell(a, c, g) => act[a].g = g /\ news[g] <= act[a].v
      BY <1>5 DEF BeginNotify, WillTell
    <3> QED
      BY <1>3, <2>1, <2>2, <3>1, <3>2 DEF WillTell
  <2> QED
    BY <1>2, <1>3, <1>5, <2>2, <2>3, Keeps DEF BeginNotify
<1>6. ASSUME NEW a \in Actor, NEW u \in User, SendToUser(a, u) PROVE Goal
  <2> DEFINE x == [act[a] EXCEPT !.todo = @ \ {u}]
             cs == {d \in Conn : login[d] = "in" /\ Owner[d] = u}
  <2>1. /\ act' = [act EXCEPT ![a] = x] /\ x.at = "send" /\ x.g = act[a].g
        /\ x.v = act[a].v /\ x.todo = act[a].todo \ {u}
    BY <1>0, <1>6 DEF SendToUser, Activity
  <2> HIDE DEF x
  <2>2. /\ act'[a] = x /\ \A b \in Actor : b # a => act'[b] = act[b]
    BY <1>0, <2>1
  <2>3. /\ told \subseteq told' /\ excused \subseteq excused'
        /\ news[act[a].g] <= act[a].v =>
             \A d \in cs : <<d, act[a].g>> \in told' \cup excused'
    BY <1>6, SendSettles DEF SendToUser
  <2>4. ASSUME WillTell(a, c, g)
        PROVE  WillTell(a, c, g)' \/ <<c, g>> \in told' \cup excused'
    <3>1. /\ act[a].g = g /\ news[g] <= act[a].v
          /\ AsObserver(c, g) \/ Owner[c] \in act[a].todo
      BY <1>6, <2>4 DEF SendToUser, WillTell
    <3>2. CASE AsObserver(c, g) \/ Owner[c] # u
      BY <1>2, <1>3, <2>1, <2>2, <3>1, <3>2 DEF WillTell
    <3>3. CASE ~AsObserver(c, g) /\ Owner[c] = u
      BY <2>3, <3>1, <3>3 DEF Watches, AsPlayer
    <3> QED
      BY <3>2, <3>3
  <2> QED
    BY <1>2, <1>3, <2>2, <2>3, <2>4, Keeps
<1>7. ASSUME NEW a \in Actor, SentToPlayers(a) PROVE Goal
  <2> DEFINE x == [act[a] EXCEPT !.at = "notify"]
  <2>1. /\ act' = [act EXCEPT ![a] = x] /\ x.at = "notify" /\ x.g = act[a].g
        /\ x.v = act[a].v
    BY <1>0, <1>7 DEF SentToPlayers, GoOn, Activity
  <2> HIDE DEF x
  <2>2. /\ act'[a] = x /\ \A b \in Actor : b # a => act'[b] = act[b]
    BY <1>0, <2>1
  <2>3. WillTell(a, c, g) => WillTell(a, c, g)'
    BY <1>2, <1>3, <1>7, <2>1, <2>2 DEF WillTell, SentToPlayers
  <2> QED
    BY <1>2, <1>3, <1>7, <2>2, <2>3, Keeps DEF SentToPlayers
<1>8. ASSUME NEW a \in Actor, NotifyObservers(a) PROVE Goal
  <2> DEFINE cs == {d \in Conn : AsObserver(d, act[a].g)}
  <2>1. \A b \in Actor : b # a => act'[b] = act[b]
    BY <1>0, <1>8 DEF NotifyObservers, Turn
  <2>2. cs \in SUBSET Conn /\ SendTo(cs, a) /\ act[a].at \in {"send", "notify"}
    BY <1>8 DEF NotifyObservers
  <2>3. /\ told \subseteq told' /\ excused \subseteq excused'
        /\ news[act[a].g] <= act[a].v =>
             \A d \in cs : <<d, act[a].g>> \in told' \cup excused'
    <3> HIDE DEF cs
    <3> QED
      BY <2>2, SendSettles
  <2>4. WillTell(a, c, g) => <<c, g>> \in told' \cup excused'
    BY <1>8, <2>3 DEF WillTell, NotifyObservers
  <2> QED
    BY <1>2, <1>3, <2>1, <2>3, <2>4, Keeps
<1> QED
  BY <1>4, <1>5, <1>6, <1>7, <1>8 DEF Notify

\* update_seats loses nobody but whom its failure excuses.
LEMMA SeatsTell ==
  ASSUME Ordered, NobodyIsForgotten, NEW f \in Future,
         StartQuery(f) \/ QueryDone(f) \/ QueryFails(f)
  PROVE  NobodyIsForgotten'
<1> USE DEF Ordered, Actor
<1>0. act \in [Actor -> Activity]
  BY DEF TypeOK, ActorsOK
<1>1. UNCHANGED <<gameVars, login, obsVars, told>>
  BY DEF StartQuery, QueryDone, QueryFails
<1>2. \A c \in Conn, g \in GameID : /\ Watches(c, g)' = Watches(c, g)
                                    /\ AsObserver(c, g)' = AsObserver(c, g)
  BY <1>1 DEF Watches, AsPlayer, AsObserver, gameVars, obsVars
<1> SUFFICES ASSUME NEW c \in Conn, NEW g \in GameID, Watches(c, g)
             PROVE  \/ <<c, g>> \in told' \cup excused'
                    \/ \E b \in Actor : WillTell(b, c, g)'
  BY <1>2 DEF NobodyIsForgotten
<1>3. news'[g] = news[g]
  BY <1>1 DEF gameVars
<1>4. excused \subseteq excused' /\ \A b \in Actor : b # f => act'[b] = act[b]
  BY <1>0 DEF StartQuery, QueryDone, QueryFails, Turn, GoOn
<1>5. WillTell(f, c, g) => WillTell(f, c, g)' \/ <<c, g>> \in excused'
  <2>1. CASE StartQuery(f)
    <3>1. /\ act'[f].at = "query" /\ act'[f].g = act[f].g /\ act'[f].v = act[f].v
          /\ act'[f].c = act[f].c
      BY <1>0, <2>1 DEF StartQuery, Activity
    <3> QED
      BY <1>3, <2>1, <3>1 DEF StartQuery, WillTell
  <2>2. CASE QueryDone(f)
    <3>1. /\ act'[f].at = "changed" /\ act'[f].g = act[f].g /\ act'[f].v = act[f].v
          /\ act'[f].c = act[f].c
      BY <1>0, <2>2 DEF QueryDone, GoOn, Activity
    <3> QED
      BY <1>3, <2>2, <3>1 DEF QueryDone, WillTell
  <2>3. CASE QueryFails(f)
    <3>1. ASSUME WillTell(f, c, g)
          PROVE  act[f].g = g /\ (act[f].v = news[g] \/ act[f].c = c)
      BY <2>3, <3>1 DEF QueryFails, WillTell
    <3> QED
      BY <2>3, <3>1 DEF QueryFails
  <2> QED
    BY <2>1, <2>2, <2>3
<1> QED
  BY <1>1, <1>2, <1>3, <1>4, <1>5, Keeps

\* Sockets come, go, log in and read: whoever comes to watch a game is about
\* to read it, or is excused.
LEMMA SocketTells ==
  ASSUME Ordered, NobodyIsForgotten, Socket
  PROVE  NobodyIsForgotten'
<1> USE DEF Ordered, Actor
<1>0. /\ act \in [Actor -> Activity]
      /\ \A a \in Actor : Fit(a, act[a])
      /\ \A a \in Actor : act[a].at \in {"observe", "join"} =>
                            act[a].g \in GameID /\ act[a].c \in Conn
      /\ \A g \in GameID : news[g] # 0
  BY BroadcastAssumption DEF TypeOK, ActorsOK, Fit
<1>i. \A a \in Actor, c \in Conn, g \in GameID : act[a] = Idle => ~WillTell(a, c, g)
  BY IdleType, BroadcastAssumption DEF WillTell
<1>1. UNCHANGED <<news, players>> /\ told \subseteq told' /\ excused \subseteq excused'
  BY DEF Socket, Deliver, Observe, Leave, Join, RefreshClocks, ReadGame, Refresh,
         Unobserve, ListConn, EnterConn, Close, RemoveObserver, gameVars
<1> SUFFICES ASSUME NEW c \in Conn, NEW g \in GameID, Watches(c, g)'
             PROVE  \/ <<c, g>> \in told' \cup excused'
                    \/ \E b \in Actor : WillTell(b, c, g)'
  BY DEF NobodyIsForgotten
<1> DEFINE Goal == \/ <<c, g>> \in told' \cup excused'
                   \/ \E b \in Actor : WillTell(b, c, g)'
<1>2. news'[g] = news[g]
  BY <1>1
\* Connections that stay where they are, or leave.
<1>3. ASSUME NEW a \in Actor, \A b \in Actor : b # a => act'[b] = act[b],
             UNCHANGED login, \A h \in GameID : recipients'[h] \subseteq recipients[h],
             \A d \in Conn : socket'[d] = "open" => socket[d] = "open",
             recipients \in [GameID -> SUBSET Conn],
             WillTell(a, c, g) => WillTell(a, c, g)' \/ <<c, g>> \in told' \cup excused'
      PROVE  Goal
  <2>1. Watches(c, g) /\ (AsObserver(c, g) => AsObserver(c, g)')
    BY <1>1, <1>3 DEF Watches, AsPlayer, AsObserver
  <2> QED
    BY <1>1, <1>2, <1>3, <2>1, Keeps
<1>4. recipients \in [GameID -> SUBSET Conn]
  BY DEF TypeOK
<1>5. ASSUME NEW d \in Conn, Deliver(d) PROVE Goal
  <2>1. WillTell(d, c, g) => WillTell(d, c, g)'
    BY <1>5, <1>i DEF Deliver
  <2> QED
    BY <1>3, <1>4, <1>5, <2>1 DEF Deliver, obsVars
<1>6. ASSUME NEW d \in Conn, NEW h \in GameID, Observe(d, h) \/ Refresh(d, h) PROVE Goal
  <2>1. \A b \in Actor : b # d => act'[b] = act[b]
    BY <1>0, <1>6 DEF Observe, Refresh, Turn
  <2>2. ~WillTell(d, c, g)
    BY <1>6, <1>i DEF Observe, Refresh
  <2> QED
    BY <1>3, <1>4, <1>6, <2>1, <2>2 DEF Observe, Refresh, obsVars
<1>7. ASSUME NEW a \in Actor, Leave(a) PROVE Goal
  <2>1. \A b \in Actor : b # a => act'[b] = act[b]
    BY <1>0, <1>7 DEF Leave, GoOn
  <2>2. /\ act'[a].at = "join" /\ act'[a].g = act[a].g /\ act'[a].v = act[a].v
        /\ act'[a].c = act[a].c
    BY <1>0, <1>7 DEF Leave, GoOn, Activity
  <2>3. WillTell(a, c, g) => WillTell(a, c, g)'
    BY <1>2, <1>7, <2>2 DEF Leave, WillTell
  <2>4. \A h \in GameID : recipients'[h] \subseteq recipients[h]
    BY <1>7 DEF Leave
  <2> QED
    BY <1>3, <1>4, <1>7, <2>1, <2>3, <2>4 DEF Leave
<1>8. ASSUME NEW a \in Actor, Join(a) PROVE Goal
  <2>1. \A b \in Actor : b # a => act'[b] = act[b]
    BY <1>0, <1>8 DEF Join, GoOn
  <2>2. /\ act'[a].at = IF a \in Conn THEN "clocks" ELSE "seats"
        /\ act'[a].g = act[a].g /\ act'[a].v = act[a].v /\ act'[a].c = act[a].c
    BY <1>0, <1>8 DEF Join, GoOn, Activity
  <2>3. WillTell(a, c, g) => WillTell(a, c, g)'
    <3>1. CASE a \in Conn
      <4>1. act[a].v = 0
        BY <1>0, <1>8, <3>1 DEF Join, Fit
      <4> QED
        BY <1>0, <1>8, <4>1 DEF Join, WillTell
    <3>2. CASE a \notin Conn
      BY <1>2, <1>8, <2>2, <3>2 DEF Join, WillTell
    <3> QED
      BY <3>1, <3>2
  <2>4. CASE g = act[a].g /\ c = act[a].c
    <3>1. CASE a \in Conn
      <4>1. act[a].c = a
        BY <1>0, <1>8, <3>1 DEF Join, Fit
      <4>2. WillTell(a, c, g)'
        BY <2>2, <2>4, <3>1, <4>1 DEF WillTell
      <4> QED
        BY <4>2
    <3>2. CASE a \notin Conn
      <4>1. WillTell(a, c, g)'
        BY <2>2, <2>4, <3>2 DEF WillTell
      <4> QED
        BY <4>1
    <3> QED
      BY <3>1, <3>2
  <2>5. CASE ~(g = act[a].g /\ c = act[a].c)
    <3>1. c \in recipients'[g] <=> c \in recipients[g]
      BY <1>4, <1>8, <2>5 DEF Join
    <3>2. Watches(c, g) /\ (AsObserver(c, g) => AsObserver(c, g)')
      BY <1>1, <1>8, <3>1 DEF Join, Watches, AsPlayer, AsObserver
    <3> QED
      BY <1>1, <1>2, <2>1, <2>3, <3>2, Keeps
  <2> QED
    BY <2>4, <2>5
<1>9. ASSUME NEW d \in Conn, RefreshClocks(d) PROVE Goal
  <2>1. \A b \in Actor : b # d => act'[b] = act[b]
    BY <1>0, <1>9 DEF RefreshClocks, GoOn
  <2>2. act'[d].at = "read" /\ act'[d].g = act[d].g
    BY <1>0, <1>9 DEF RefreshClocks, GoOn, Activity
  <2>3. WillTell(d, c, g) => WillTell(d, c, g)'
    BY <1>9, <2>2 DEF RefreshClocks, WillTell
  <2> QED
    BY <1>3, <1>4, <1>9, <2>1, <2>3 DEF RefreshClocks, obsVars
<1>10. ASSUME NEW d \in Conn, ReadGame(d) PROVE Goal
  <2>1. \A b \in Actor : b # d => act'[b] = act[b]
    BY <1>0, <1>10 DEF ReadGame, Turn
  <2>2. WillTell(d, c, g) => <<c, g>> \in told'
    BY <1>10 DEF ReadGame, WillTell
  <2> QED
    BY <1>3, <1>4, <1>10, <2>1, <2>2 DEF ReadGame, obsVars
<1>11. ASSUME NEW d \in Conn, NEW h \in GameID \cup {NoGame}, Unobserve(d, h) PROVE Goal
  <2>1. \A i \in GameID : recipients'[i] \subseteq recipients[i]
    BY <1>4, <1>11 DEF Unobserve
  <2>2. ~WillTell(d, c, g)
    BY <1>11, <1>i DEF Unobserve
  <2> QED
    BY <1>3, <1>4, <1>11, <2>1, <2>2 DEF Unobserve
<1>12. ASSUME NEW d \in Conn, ListConn(d) PROVE Goal
  <2>1. Watches(c, g) /\ (AsObserver(c, g) => AsObserver(c, g)')
    BY <1>1, <1>12 DEF ListConn, Watches, AsPlayer, AsObserver, obsVars, TypeOK
  <2>2. \A b \in Actor : WillTell(b, c, g) => WillTell(b, c, g)'
    BY <1>2, <1>12, <2>1 DEF ListConn, WillTell
  <2> QED
    BY <1>1, <2>1, <2>2 DEF NobodyIsForgotten
<1>13. ASSUME NEW d \in Conn, EnterConn(d) PROVE Goal
  <2>1. CASE c = d /\ Owner[c] \in players[g]
    BY <1>13, <2>1 DEF EnterConn
  <2>2. CASE ~(c = d /\ Owner[c] \in players[g])
    <3>1. Watches(c, g) /\ (AsObserver(c, g) => AsObserver(c, g)')
      BY <1>1, <1>13, <2>2 DEF EnterConn, Watches, AsPlayer, AsObserver, obsVars, TypeOK
    <3>2. \A b \in Actor : WillTell(b, c, g) => WillTell(b, c, g)'
      BY <1>2, <1>13, <3>1 DEF EnterConn, WillTell
    <3> QED
      BY <1>1, <3>1, <3>2 DEF NobodyIsForgotten
  <2> QED
    BY <2>1, <2>2
<1>14. ASSUME NEW d \in Conn, Close(d) PROVE Goal
  <2>1. \A i \in GameID : recipients'[i] \subseteq recipients[i]
    BY <1>4, <1>14 DEF Close
  <2>2. ~WillTell(d, c, g)
    BY <1>14, <1>i DEF Close
  <2> QED
    BY <1>3, <1>4, <1>14, <2>1, <2>2 DEF Close, TypeOK
<1>15. ASSUME NEW d \in Conn, RemoveObserver(d) PROVE Goal
  <2>1. Watches(c, g) /\ (AsObserver(c, g) => AsObserver(c, g)')
    BY <1>1, <1>15 DEF RemoveObserver, Watches, AsPlayer, AsObserver, TypeOK
  <2>2. \A b \in Actor : WillTell(b, c, g) => WillTell(b, c, g)'
    BY <1>2, <1>15, <2>1 DEF RemoveObserver, WillTell
  <2> QED
    BY <1>1, <2>1, <2>2 DEF NobodyIsForgotten
<1> QED
  BY <1>5, <1>6, <1>7, <1>8, <1>9, <1>10, <1>11, <1>12, <1>13, <1>14, <1>15 DEF Socket

\* Whoever watches a game has been sent its last announced change, or is
\* going to be, with the three excuses that the code admits: no announcement
\* gets lost between the threads of the sockets and the arbiter
\* (games.rs:344-403, observers.rs:29-52, bughouse_server.rs:590-631).
THEOREM NobodyIsForgottenTheorem == Spec => []NobodyIsForgotten
<1>1. Init => NobodyIsForgotten
  BY DEF Init, NobodyIsForgotten, Watches, AsPlayer, AsObserver
<1>2. Ordered /\ NobodyIsForgotten /\ [Next]_vars => NobodyIsForgotten'
  <2> SUFFICES ASSUME Ordered, NobodyIsForgotten, [Next]_vars
               PROVE  NobodyIsForgotten'
    OBVIOUS
  <2> USE DEF Actor
  <2>1. CASE UNCHANGED vars
    BY <2>1 DEF vars, gameVars, obsVars, NobodyIsForgotten, Watches, AsPlayer,
                AsObserver, WillTell
  <2>2. CASE Change
    <3>0. TypeOK
      BY DEF Ordered
    <3>1. ASSUME NEW a \in Actor, NEW g \in GameID,
                 NEW at \in {"changed", "seats", "observe"}, NEW c \in Conn \cup {NoUser},
                 Write(a, g, at, c), \A h \in GameID \ {g} : players'[h] = players[h]
          PROVE  NobodyIsForgotten'
      BY <3>0, <3>1, WriteTells
    <3>2. ASSUME NEW c \in Conn, NEW g \in GameID, MakeMove(c, g)
          PROVE  NobodyIsForgotten'
      BY <3>1, <3>2 DEF MakeMove
    <3>3. ASSUME NEW f \in Future, NEW g \in GameID, StartOrCheck(f, g)
          PROVE  NobodyIsForgotten'
      BY <3>1, <3>3 DEF StartOrCheck
    <3>4. ASSUME NEW f \in Future, NEW u \in User, NEW g \in GameID,
                 Sit(f, u, g) \/ OnOfflineUser(f, u, g)
          PROVE  NobodyIsForgotten'
      <4>1. \A h \in GameID \ {g} : players'[h] = players[h]
        BY <3>0, <3>4 DEF Sit, OnOfflineUser, TypeOK
      <4> QED
        BY <3>1, <3>4, <4>1 DEF Sit, OnOfflineUser
    <3>5. ASSUME NEW f \in Future, NEW c \in Conn, NEW g \in GameID, Vacate(f, c, g)
          PROVE  NobodyIsForgotten'
      <4>1. \A h \in GameID \ {g} : players'[h] = players[h]
        BY <3>0, <3>5 DEF Vacate, TypeOK
      <4> QED
        BY <3>1, <3>5, <4>1 DEF Vacate
    <3> QED
      BY <2>2, <3>2, <3>3, <3>4, <3>5, SeatsTell DEF Change
  <2> QED
    BY <2>1, <2>2, NotifyTells, SocketTells DEF Next
<1> QED
  BY <1>1, <1>2, OrderedInvariant, PTL DEF Spec
=============================================================================
