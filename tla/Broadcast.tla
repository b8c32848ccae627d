------------------------------ MODULE Broadcast ------------------------------
(***************************************************************************)
(* Who is told what of a game, and in which order: the updates that Games  *)
(* sends to the connections of the players and to the observers            *)
(* (games.rs, observers.rs, ConnectionMgr::send_to_user), and the          *)
(* snapshots that a socket writes for itself on "observe" and "refresh"    *)
(* (bug_web_sock.rs).  What an update says is the version of the game that *)
(* it was copied from.                                                     *)
(*                                                                         *)
(* Whoever changes a game announces it afterwards, in three steps: the     *)
(* game is changed under its write lock; GameJson::new copies it under a   *)
(* read guard that is gone again; notify_game_observers takes the read     *)
(* guard anew and sends the copy.  Sockets' threads announce moves, futures *)
(* of the arbiter the rest, so a copy may be old before it is sent, and a  *)
(* client may get the newer of two first.  Only update_seats holds its own *)
(* guard from before its query until the update is sent.                   *)
(***************************************************************************)
EXTENDS Naturals, Sequences

CONSTANTS
  User, Conn, GameID,
  Future,      \* futures of the arbiter
  NoUser,      \* the owner of a connection that never logs in
  NoGame,
  Owner,       \* Owner[c]: who logs in over connection c
  MailboxSize, \* messages that the mailbox of a socket holds
  MaxVersion   \* bound on the changes of a game

ASSUME BroadcastAssumption ==
  /\ NoUser \notin User /\ NoGame \notin GameID
  /\ Conn \cap Future = {}
  /\ Owner \in [Conn -> User \cup {NoUser}]
  /\ MailboxSize \in Nat /\ MaxVersion \in Nat \ {0}

VARIABLES
  version,     \* version[g]: one more with every change of the game
  news,        \* news[g]: the last change that its watchers are to hear of
  players,     \* players[g]: the users with a seat
  login,       \* "anon" | "listed" (in conns) | "in" (in user_conns as well)
  socket, observing, recipients,  \* as in Observers
  act,         \* what each socket's thread and each future is doing
  mailbox,     \* updates on their way to a socket
  told,        \* pairs <<c, g>>: c was sent news[g] or a later state of g
  excused      \* pairs <<c, g>>: c was not, because its mailbox was full, the
               \* query before the update failed, or it has just logged in

obsVars == <<socket, observing, recipients>>
gameVars == <<version, news, players>>
vars == <<gameVars, login, obsVars, act, mailbox, told, excused>>

Actor == Conn \cup Future

\* Stages: "observe" (turned away or not?), "join" (between the maps of
\* Observers), "clocks" and "read" (the snapshot), "seats" (somebody sat down
\* or left), "query" (the row is written), "changed" (not copied yet), "made"
\* (copied), "send" (to players), "notify" (to observers).
Stage == {"idle", "observe", "join", "clocks", "read",
          "seats", "query", "changed", "made", "send", "notify"}

\* v: the change that was made or the state that was copied; held: the read
\* guard is held since before the query.
Work(at, g, c, v) ==
  [at |-> at, g |-> g, c |-> c, v |-> v, todo |-> {}, held |-> FALSE]

Idle == Work("idle", NoGame, NoUser, 0)

Turn(a, work) == act' = [act EXCEPT ![a] = work]
GoOn(a, at)   == act' = [act EXCEPT ![a].at = at]

\* Mutant: the guards go before the messages.
NeverGuarded(g) == FALSE

\* The read guards: of update_seats from the query on, of
\* notify_game_observers, and of vacate while its user becomes an observer.
Guarded(g) ==
  \E a \in Actor :
    /\ act[a].g = g
    /\ act[a].held \/ act[a].at \in {"send", "notify"}
                    \/ (a \in Future /\ act[a].at = "join")

\* Mutant: the two maps are written under their locks, one by one.
NeverLocked == FALSE

\* observer_to_games is locked from the departure to the arrival.
ObserversLocked == \E a \in Actor : act[a].at = "join"

\* The arbiter is one thread: a future gives way to another, or to a login,
\* only while it waits for its query.
ArbiterFree == /\ \A f \in Future : act[f].at \in {"idle", "query"}
               /\ \A c \in Conn : login[c] # "listed"

\* Who gets an update of g.
AsPlayer(c, g)   == login[c] = "in" /\ Owner[c] \in players[g]
AsObserver(c, g) ==
  c \in recipients[g] /\ (login[c] = "anon" \/ Owner[c] \notin players[g])

Watches(c, g) == socket[c] = "open" /\ (AsPlayer(c, g) \/ AsObserver(c, g))

\* try_send of an update to every connection of a set.  The last change is
\* told by it if the copy is not older.
Deliverable(c) == socket[c] = "open" /\ Len(mailbox[c]) < MailboxSize

SendTo(cs, a) ==
  LET g == act[a].g
      m == [g |-> g, v |-> act[a].v, seats |-> act[a].held]
  IN
  /\ mailbox' = [c \in Conn |-> IF c \in cs /\ Deliverable(c)
                                  THEN Append(mailbox[c], m) ELSE mailbox[c]]
  /\ told' = IF m.v < news[g] THEN told
              ELSE told \cup {<<c, g>> : c \in {d \in cs : Deliverable(d)}}
  /\ excused' = IF m.v < news[g] THEN excused
                 ELSE excused \cup {<<c, g>> : c \in {d \in cs : ~Deliverable(d)}}

Init ==
  /\ version = [g \in GameID |-> 1]
  /\ news = [g \in GameID |-> 1]
  /\ players = [g \in GameID |-> {}]
  /\ login = [c \in Conn |-> "anon"]
  /\ socket = [c \in Conn |-> "open"]
  /\ observing = [c \in Conn |-> NoGame]
  /\ recipients = [g \in GameID |-> {}]
  /\ act = [a \in Actor |-> Idle]
  /\ mailbox = [c \in Conn |-> <<>>]
  /\ told = {}
  /\ excused = {}

-----------------------------------------------------------------------------
(* Changes of a game.  The write lock is not to be had under a read guard. *)

\* A change that a goes on to announce; c is the connection that asked.
Write(a, g, at, c) ==
  /\ act[a] = Idle
  /\ ~Guarded(g)
  /\ version[g] < MaxVersion
  /\ version' = [version EXCEPT ![g] = @ + 1]
  /\ news' = [news EXCEPT ![g] = version[g] + 1]
  /\ Turn(a, Work(at, g, c, version[g] + 1))
  /\ told' = told \ (Conn \X {g})
  /\ excused' = excused \ (Conn \X {g})
  /\ UNCHANGED <<login, obsVars, mailbox>>

\* Games::make_move on the thread of a player's socket.
MakeMove(c, g) ==
  /\ socket[c] = "open"
  /\ login[c] # "anon" /\ Owner[c] \in players[g]
  /\ Write(c, g, "changed", NoUser)
  /\ UNCHANGED players

\* Games::start_game, and CheckGame, which refreshes the clocks or ends the
\* game: the players stay.
StartOrCheck(f, g) ==
  /\ ArbiterFree
  /\ Write(f, g, "changed", NoUser)
  /\ UNCHANGED players

\* Games::sit, as far as update_seats.
Sit(f, u, g) ==
  /\ ArbiterFree
  /\ \A h \in GameID : u \notin players[h]
  /\ Write(f, g, "seats", NoUser)
  /\ players' = [players EXCEPT ![g] = @ \cup {u}]

\* Games::vacate.  The connection that asked becomes an observer next.
Vacate(f, c, g) ==
  /\ ArbiterFree
  /\ login[c] # "anon" /\ Owner[c] \in players[g]
  /\ Write(f, g, "observe", c)
  /\ players' = [players EXCEPT ![g] = @ \ {Owner[c]}]

\* Games::on_offline_user: the user has no connection left.
OnOfflineUser(f, u, g) ==
  /\ ArbiterFree
  /\ u \in players[g]
  /\ \A c \in Conn : Owner[c] = u => login[c] # "in" \/ socket[c] # "open"
  /\ Write(f, g, "changed", NoUser)
  /\ players' = [players EXCEPT ![g] = @ \ {u}]

\* update_seats takes its guard and starts Db::sit.
StartQuery(f) ==
  /\ f \in Future /\ act[f].at = "seats"
  /\ act' = [act EXCEPT ![f].at = "query", ![f].held = TRUE]
  /\ UNCHANGED <<gameVars, login, obsVars, mailbox, told, excused>>

QueryDone(f) ==
  /\ ArbiterFree /\ act[f].at = "query"
  /\ GoOn(f, "changed")
  /\ UNCHANGED <<gameVars, login, obsVars, mailbox, told, excused>>

\* Db::sit fails: update_seats returns, and nobody hears of the change,
\* unless a later one is announced; nor does the user who vacated, even then,
\* if that was done before he observed.
QueryFails(f) ==
  LET g == act[f].g IN
  /\ ArbiterFree /\ act[f].at = "query"
  /\ excused' = excused \cup
       ((IF act[f].v = news[g] THEN Conn ELSE Conn \cap {act[f].c}) \X {g})
  /\ Turn(f, Idle)
  /\ UNCHANGED <<gameVars, login, obsVars, mailbox, told>>

-----------------------------------------------------------------------------
(* The announcement *)

\* GameJson::new: the state is copied.
MakeUpdate(a) ==
  /\ act[a].at = "changed"
  /\ act' = [act EXCEPT ![a].at = "made", ![a].v = version[act[a].g]]
  /\ UNCHANGED <<gameVars, login, obsVars, mailbox, told, excused>>

\* notify_game_observers takes its guard.
BeginNotify(a) ==
  /\ act[a].at = "made"
  /\ act' = [act EXCEPT ![a].at = "send", ![a].todo = players[act[a].g]]
  /\ UNCHANGED <<gameVars, login, obsVars, mailbox, told, excused>>

\* ConnectionMgr::send_to_user, for one player after the other: conns and
\* user_conns are locked throughout.  A closed socket is passed over.
SendToUser(a, u) ==
  /\ act[a].at = "send"
  /\ u \in act[a].todo
  /\ SendTo({c \in Conn : login[c] = "in" /\ Owner[c] = u}, a)
  /\ act' = [act EXCEPT ![a].todo = @ \ {u}]
  /\ UNCHANGED <<gameVars, login, obsVars>>

SentToPlayers(a) ==
  /\ act[a].at = "send" /\ act[a].todo = {}
  /\ GoOn(a, "notify")
  /\ UNCHANGED <<gameVars, login, obsVars, mailbox, told, excused>>

\* Mutant: connections that have logged in are taken for players'.
NotifyAnonymous(a) ==
  /\ act[a].at = "notify"
  /\ SendTo({c \in recipients[act[a].g] : login[c] = "anon"}, a)
  /\ Turn(a, Idle)
  /\ UNCHANGED <<gameVars, login, obsVars>>

\* Observers::notify, under the lock of game_to_observers: players have been
\* told already.  The guards of the game are released with it.
NotifyObservers(a) ==
  /\ act[a].at = "notify"
  /\ SendTo({c \in Conn : AsObserver(c, act[a].g)}, a)
  /\ Turn(a, Idle)
  /\ UNCHANGED <<gameVars, login, obsVars>>

-----------------------------------------------------------------------------
(* Sockets *)

\* BugWebSock handles an update: it goes out to the client.
Deliver(c) ==
  /\ socket[c] = "open" /\ act[c] = Idle
  /\ mailbox[c] # <<>>
  /\ mailbox' = [mailbox EXCEPT ![c] = Tail(@)]
  /\ UNCHANGED <<gameVars, login, obsVars, act, told, excused>>

\* "observe", as far as Games::observe has seen that the game is there.
Observe(c, g) ==
  /\ socket[c] = "open" /\ act[c] = Idle
  /\ Turn(c, Work(IF login[c] # "anon" /\ Owner[c] \in players[g]
                    THEN "clocks" ELSE "observe", g, c, 0))
  /\ UNCHANGED <<gameVars, login, obsVars, mailbox, told, excused>>

\* Observers::observe, as far as the game that was observed before.
Leave(a) ==
  LET g == act[a].g  c == act[a].c IN
  /\ act[a].at = "observe"
  /\ ~ObserversLocked
  /\ observing' = [observing EXCEPT ![c] = g]
  /\ recipients' = [h \in GameID |-> IF h = observing[c] THEN recipients[h] \ {c}
                                                         ELSE recipients[h]]
  /\ GoOn(a, "join")
  /\ UNCHANGED <<gameVars, login, socket, mailbox, told, excused>>

\* The rest of it.  A client's request goes on to the snapshot, the
\* arbiter's vacate to update_seats.
Join(a) ==
  /\ act[a].at = "join"
  /\ recipients' = [recipients EXCEPT ![act[a].g] = @ \cup {act[a].c}]
  /\ GoOn(a, IF a \in Conn THEN "clocks" ELSE "seats")
  /\ UNCHANGED <<gameVars, login, socket, observing, mailbox, told, excused>>

\* get_game_json_payload refreshes the clocks of a game that is on, for which
\* it takes the write lock; nobody else is told.
RefreshClocks(c) ==
  LET g == act[c].g IN
  /\ act[c].at = "clocks"
  /\ ~Guarded(g)
  /\ \E v \in {version[g], version[g] + 1} :
       v <= MaxVersion /\ version' = [version EXCEPT ![g] = v]
  /\ GoOn(c, "read")
  /\ UNCHANGED <<news, players, login, obsVars, mailbox, told, excused>>

\* Then it copies the game, and the handler writes the snapshot past the
\* mailbox.
ReadGame(c) ==
  /\ act[c].at = "read"
  /\ told' = told \cup {<<c, act[c].g>>}
  /\ Turn(c, Idle)
  /\ UNCHANGED <<gameVars, login, obsVars, mailbox, excused>>

\* "refresh", and the answer to a move that is not accepted.
Refresh(c, g) ==
  /\ socket[c] = "open" /\ act[c] = Idle
  /\ Turn(c, Work("clocks", g, c, 0))
  /\ UNCHANGED <<gameVars, login, obsVars, mailbox, told, excused>>

\* Mutant: the entry of observer_to_games is read, not removed.
UnobserveKeeps(c, g) ==
  /\ socket[c] = "open" /\ act[c] = Idle
  /\ observing[c] # NoGame /\ ~ObserversLocked
  /\ recipients' = IF observing[c] = g
                     THEN [recipients EXCEPT ![g] = @ \ {c}] ELSE recipients
  /\ UNCHANGED <<gameVars, login, socket, observing, act, mailbox, told, excused>>

\* "unobserve", of whatever id the client names.
Unobserve(c, g) ==
  /\ socket[c] = "open" /\ act[c] = Idle
  /\ observing[c] # NoGame /\ ~ObserversLocked
  /\ observing' = [observing EXCEPT ![c] = NoGame]
  /\ recipients' = IF observing[c] = g
                     THEN [recipients EXCEPT ![g] = @ \ {c}] ELSE recipients
  /\ UNCHANGED <<gameVars, login, socket, act, mailbox, told, excused>>

\* ConnectionMgr::add_conn: conns, then user_conns.
ListConn(c) ==
  /\ socket[c] = "open" /\ Owner[c] # NoUser
  /\ ArbiterFree /\ login[c] = "anon"
  /\ login' = [login EXCEPT ![c] = "listed"]
  /\ UNCHANGED <<gameVars, obsVars, act, mailbox, told, excused>>

\* Nothing is told to a player's new connection about his game, and what went
\* round since it was listed may have missed it as an observer.
EnterConn(c) ==
  /\ login[c] = "listed"
  /\ login' = [login EXCEPT ![c] = "in"]
  /\ excused' = excused \cup ({c} \X {g \in GameID : Owner[c] \in players[g]})
  /\ UNCHANGED <<gameVars, obsVars, act, mailbox, told>>

\* Mutant: the game goes on sending to the closed socket.
CloseHalf(c) ==
  /\ socket[c] = "open" /\ act[c] = Idle
  /\ ~ObserversLocked
  /\ socket' = [socket EXCEPT ![c] = "closing"]
  /\ mailbox' = [mailbox EXCEPT ![c] = <<>>]
  /\ UNCHANGED <<gameVars, login, observing, recipients, act, told, excused>>

\* The socket stops: its mailbox is gone.  BughouseServer::on_close starts
\* with Observers::remove_recipient.
Close(c) ==
  /\ socket[c] = "open" /\ act[c] = Idle
  /\ ~ObserversLocked
  /\ socket' = [socket EXCEPT ![c] = "closing"]
  /\ recipients' = [g \in GameID |-> IF g = observing[c] THEN recipients[g] \ {c}
                                                         ELSE recipients[g]]
  /\ mailbox' = [mailbox EXCEPT ![c] = <<>>]
  /\ UNCHANGED <<gameVars, login, observing, act, told, excused>>

RemoveObserver(c) ==
  /\ socket[c] = "closing"
  /\ ~ObserversLocked
  /\ socket' = [socket EXCEPT ![c] = "closed"]
  /\ observing' = [observing EXCEPT ![c] = NoGame]
  /\ UNCHANGED <<gameVars, login, recipients, act, mailbox, told, excused>>

-----------------------------------------------------------------------------
Change ==
  \/ \E c \in Conn, g \in GameID : MakeMove(c, g)
  \/ \E f \in Future, g \in GameID : StartOrCheck(f, g)
  \/ \E f \in Future, u \in User, g \in GameID : Sit(f, u, g)
  \/ \E f \in Future, c \in Conn, g \in GameID : Vacate(f, c, g)
  \/ \E f \in Future, u \in User, g \in GameID : OnOfflineUser(f, u, g)
  \/ \E f \in Future : StartQuery(f)
  \/ \E f \in Future : QueryDone(f)
  \/ \E f \in Future : QueryFails(f)

Notify ==
  \/ \E a \in Actor : MakeUpdate(a)
  \/ \E a \in Actor : BeginNotify(a)
  \/ \E a \in Actor, u \in User : SendToUser(a, u)
  \/ \E a \in Actor : SentToPlayers(a)
  \/ \E a \in Actor : NotifyObservers(a)

Socket ==
  \/ \E c \in Conn : Deliver(c)
  \/ \E c \in Conn, g \in GameID : Observe(c, g)
  \/ \E a \in Actor : Leave(a)
  \/ \E a \in Actor : Join(a)
  \/ \E c \in Conn : RefreshClocks(c)
  \/ \E c \in Conn : ReadGame(c)
  \/ \E c \in Conn, g \in GameID : Refresh(c, g)
  \/ \E c \in Conn, g \in GameID \cup {NoGame} : Unobserve(c, g)
  \/ \E c \in Conn : ListConn(c)
  \/ \E c \in Conn : EnterConn(c)
  \/ \E c \in Conn : Close(c)
  \/ \E c \in Conn : RemoveObserver(c)

Next == Change \/ Notify \/ Socket

Spec == Init /\ [][Next]_vars

-----------------------------------------------------------------------------
(* Properties *)

Update == [g : GameID, v : 1 .. MaxVersion, seats : BOOLEAN]

Activity == [at : Stage, g : GameID \cup {NoGame}, c : Conn \cup {NoUser},
             v : 0 .. MaxVersion, todo : SUBSET User, held : BOOLEAN]

\* What an actor may be doing: sockets observe for themselves and announce
\* moves; guards are held by update_seats only.
Fit(a, work) ==
  /\ work.at # "idle" => work.g \in GameID
  /\ work.at \in {"observe", "join"} => work.c \in Conn
  /\ work.at \in {"made", "send", "notify"} => work.v # 0
  /\ work.held => work.at \in {"query", "changed", "made", "send", "notify"}
  /\ a \in Conn =>
       /\ ~work.held /\ work.at \notin {"seats", "query"}
       /\ work.at \in {"observe", "join", "clocks", "read"} => work.c = a /\ work.v = 0
  /\ a \in Future => work.at \notin {"clocks", "read"}

ActorsOK ==
  /\ act \in [Actor -> Activity]
  /\ \A a \in Actor : Fit(a, act[a])
  /\ \A a, b \in Actor : act[a].at = "join" /\ act[b].at = "join" => a = b

\* Type invariant; one connection at a time arrives.
TypeOK ==
  /\ version \in [GameID -> 1 .. MaxVersion]
  /\ news \in [GameID -> 1 .. MaxVersion]
  /\ players \in [GameID -> SUBSET User]
  /\ login \in [Conn -> {"anon", "listed", "in"}]
  /\ socket \in [Conn -> {"open", "closing", "closed"}]
  /\ observing \in [Conn -> GameID \cup {NoGame}]
  /\ recipients \in [GameID -> SUBSET Conn]
  /\ ActorsOK
  /\ mailbox \in [Conn -> Seq(Update)]
  /\ told \subseteq Conn \X GameID
  /\ excused \subseteq Conn \X GameID

\* What the guard of update_seats is for: its update is the state of the game
\* when it is sent, so no mailbox holds a newer state ahead of it, whatever
\* moves and checks of the clocks go round on other threads.  Updates of
\* other kinds may be overtaken.
SeatsInOrder ==
  \A c \in Conn : \A i, j \in 1 .. Len(mailbox[c]) :
    i < j /\ mailbox[c][j].seats /\ mailbox[c][i].g = mailbox[c][j].g =>
      mailbox[c][i].v <= mailbox[c][j].v

\* a is going to tell c the last change of g, or a later state.
WillTell(a, c, g) ==
  /\ act[a].g = g
  /\ \/ act[a].at \in {"observe", "join", "seats", "query", "changed"} /\ act[a].v = news[g]
     \/ act[a].at \in {"seats", "query", "changed"} /\ act[a].c = c
     \/ act[a].at = "made" /\ news[g] <= act[a].v
     \/ act[a].at = "send" /\ news[g] <= act[a].v
          /\ (AsObserver(c, g) \/ Owner[c] \in act[a].todo)
     \/ act[a].at = "notify" /\ news[g] <= act[a].v /\ AsObserver(c, g)
     \/ act[a].at \in {"clocks", "read"} /\ a = c

\* No announcement is lost between threads: whoever watches a game has been
\* sent its last announced change, or a later state, or somebody is still
\* going to send it.  It is so although a copy may be old when it is sent,
\* players become observers and observers players, and snapshots are made
\* past the updates.  The excuses are those that the code admits: a full
\* mailbox, a failed query of update_seats, and a player's new connection.
NobodyIsForgotten ==
  \A c \in Conn, g \in GameID :
    Watches(c, g) =>
      \/ <<c, g>> \in told \cup excused
      \/ \E a \in Actor : WillTell(a, c, g)

\* The registry of observers works as specified, although the arrival of an
\* observer is a step of its own: he counts as arrived once he has left.
Arriving(g) == {c \in Conn : \E a \in Actor : /\ act[a].at = "join"
                                              /\ act[a].c = c /\ act[a].g = g}

O == INSTANCE Observers
       WITH recipients <- [g \in GameID |-> recipients[g] \cup Arriving(g)],
            Inexact <- TRUE, Vacating <- TRUE

ImplementsObservers == O!Spec

\* Hence whoever is on record as an observer of a game is told of it, or is
\* about to arrive, or his socket is closing.
ObserverIsNotified == O!ObserverIsNotified
=============================================================================
