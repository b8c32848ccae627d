------------------------------- MODULE Locks -------------------------------
(***************************************************************************)
(* The locks of the server: which read-write lock each call takes, in      *)
(* which mode, and what it still holds while it takes the next one.        *)
(* Everything else of the calls is left out.                               *)
(*                                                                         *)
(* A call is a script, the sequence of its lock steps in program order. A  *)
(* step says which guard the thread wants, and which guards it still holds *)
(* then: those that Rust drops only at the end of a scope or statement     *)
(* that the step is in, Read(l, body) and Write(l, body). Where the code   *)
(* loops over seats a script takes the lock of users once, and where it    *)
(* may return early the script is the longest path, so that it asks for    *)
(* every lock that some path asks for.                                     *)
(*                                                                         *)
(* The arbiter thread runs the handlers of ServerMessage and the user      *)
(* state handlers, one at a time; what other handlers do while one of them *)
(* waits for the database is the subject of BughouseServer. Socket threads *)
(* run the calls that BugWebSock makes itself.                             *)
(***************************************************************************)
EXTENDS Naturals, FiniteSets, SequencesExt

CONSTANTS
    Socket,         \* the socket threads
    GameID          \* the games in memory; each has a lock of its own

\* The locks that are not a game's.
Shared ==
    {"conns", "user_conns", "users", "fid_users", "user_handlers", "user",
     "subs", "current_game_subs", "public_table_subs", "observer_to_games",
     "game_to_observers", "games", "user_games", "user_seeks", "pod_queues",
     "queue"}

ASSUME LocksAssumption ==
    /\ IsFiniteSet(Socket) /\ "arbiter" \notin Socket
    /\ IsFiniteSet(GameID) /\ GameID \cap Shared = {}

Thread == Socket \cup {"arbiter"}

----------------------------------------------------------------------------
(* Steps under a guard, and guards dropped at once. *)

Under(guard, body) ==
    <<[want |-> guard, held |-> {}]>>
        \o [i \in DOMAIN body |-> [body[i] EXCEPT !.held = @ \cup {guard}]]

Read(lock, body)  == Under(<<"read", lock>>, body)
Write(lock, body) == Under(<<"write", lock>>, body)
Touch(lock)       == Read(lock, <<>>)
Update(lock)      == Write(lock, <<>>)

\* The objects of all users share one lock here: only the arbiter writes to
\* them, under no other guard.
ReadUser == Touch("user")

\* A loop over the map of games, in some order; the bodies are of one length.
EachGame(body) ==
    LET order == SetToSeq(GameID)
        n     == Len(body[order[1]])
    IN  [i \in 1..(n * Len(order)) |->
            body[order[((i - 1) \div n) + 1]][((i - 1) % n) + 1]]

----------------------------------------------------------------------------
(* connection_mgr.rs, users.rs *)

SendToUser == Read("conns", Touch("user_conns")) \o Update("user_conns")

UidFromConn == Touch("conns")

UserFromConn == Read("conns", Touch("users"))

UserFromUid == Touch("users") \o Update("users")

NotifyOnlineSubs ==
    Touch("users") \o ReadUser \o Touch("subs") \o Touch("subs")
        \o Update("subs")

AddConn ==
    Touch("fid_users") \o Update("fid_users") \o Update("users")
        \o Read("user", Touch("conns") \o Update("conns")
                        \o Write("user_conns", NotifyOnlineSubs))

(* Mutant: the two maps of connections taken in the other order. *)
RemoveConnReversed ==
    UidFromConn
        \o Write("user_conns", Update("conns") \o Touch("user_handlers")
                              \o NotifyOnlineSubs)

RemoveConn ==
    UidFromConn \o Update("conns")
        \o Write("user_conns", Touch("user_handlers") \o NotifyOnlineSubs)

OnlinePlayers == Read("user_conns", Touch("users")) \o ReadUser

----------------------------------------------------------------------------
(* observers.rs *)

Observe ==
    Write("observer_to_games",
          Update("game_to_observers") \o Update("game_to_observers"))

Unobserve == Write("observer_to_games", Update("game_to_observers"))

NotifyObservers == Read("game_to_observers", UidFromConn)

RemoveRecipient ==
    Read("observer_to_games", Update("game_to_observers"))
        \o Update("observer_to_games")

----------------------------------------------------------------------------
(* games.rs, game_json.rs *)

Get == Touch("games")

GetUserGame == Read("user_games", Touch("games"))

GameJson(g) == Read(g, ReadUser)

\* The guard on the game lasts to the end, over get_player_set, which reads
\* the game again.
NotifyGameObservers(g) ==
    Read(g, ReadUser \o SendToUser \o Read(g, ReadUser)
                  \o NotifyObservers)

IsCurrent == Read("games", EachGame([h \in GameID |-> Touch(h)]))

NotifyCurrentSubs(g) ==
    Read(g, IsCurrent) \o GameJson(g) \o Update("current_game_subs")

NotifyPublicSubs(g) ==
    Touch(g) \o GameJson(g) \o Update("public_table_subs")

GetKind(g) == Touch(g) \o Touch(g)

UpdateGameObservers(g) ==
    GetKind(g) \o GameJson(g) \o Touch(g) \o NotifyGameObservers(g)
        \o NotifyCurrentSubs(g)

EnsureGameIDMatches == Read("user", Touch("user_games"))

SetUserGame == EnsureGameIDMatches \o Write("user_games", ReadUser)

FormTableGames(g) ==
    Update("games") \o SetUserGame \o GameJson(g) \o NotifyGameObservers(g)
        \o NotifyPublicSubs(g)

\* The guard on the user lasts to the end.
SitGames(g) ==
    Get \o Read("user", EnsureGameIDMatches \o Write(g, ReadUser)
                        \o SetUserGame \o NotifyPublicSubs(g)
                        \o GameJson(g))

VacateGames(g) ==
    Get \o Update("user_games") \o Write(g, ReadUser)
        \o NotifyPublicSubs(g)

StartGameGames(g) ==
    Update(g) \o GameJson(g) \o NotifyGameObservers(g)
        \o NotifyCurrentSubs(g) \o NotifyPublicSubs(g)

StartNewGameGames(g) ==
    Update("games") \o Write("user_games", ReadUser) \o GameJson(g)
        \o NotifyGameObservers(g)

RmFromUserGames(g) ==
    Read("games", Read(g, ReadUser \o Update("user_games")))

\* One game is notified of, the eleventh: it may be any, so the script asks
\* for the locks of each.
NotifyNextCurrent ==
    Read("games", EachGame([h \in GameID |-> Touch(h)])
                  \o EachGame([h \in GameID |-> NotifyCurrentSubs(h)]))

RmGame(g) ==
    RmFromUserGames(g) \o NotifyCurrentSubs(g) \o Update("games")
        \o NotifyNextCurrent

MakeMoveGames(g) ==
    GetUserGame \o Touch(g) \o Write(g, ReadUser)
        \o UpdateGameObservers(g)

ObserveGames(g) ==
    Get \o UidFromConn \o Read(g, ReadUser) \o Observe

OnOfflineUser(g) ==
    GetUserGame \o Touch(g) \o Write(g, ReadUser) \o GameJson(g)
        \o NotifyGameObservers(g) \o NotifyPublicSubs(g)
        \o Update("user_games")

\* get_current_games_json and get_public_table_json.
ListJson ==
    Read("games", EachGame([h \in GameID |-> Touch(h) \o GameJson(h)]))

----------------------------------------------------------------------------
(* seeks.rs *)

CleanUsers ==
    Update("user_seeks") \o Read("pod_queues", Update("queue"))

CleanUser == Touch("user_seeks") \o CleanUsers

AddSeeker ==
    Touch("users")
        \o Write("user_seeks",
                 Read("user", Update("pod_queues")
                              \o Read("pod_queues", Update("queue"))))

FormGame ==
    Read("pod_queues", Touch("queue")) \o CleanUsers \o Touch("users")

----------------------------------------------------------------------------
(* bughouse_server.rs: what the arbiter thread runs. *)

Authenticate(g) == AddConn

CreateGame(g) == ReadUser \o StartNewGameGames(g)

FormTable(g) ==
    UidFromConn \o GetUserGame \o Touch(g) \o UserFromUid \o ReadUser
        \o FormTableGames(g)

\* The guard on the game lasts over the query and the notifications.
UpdateSeats(g) == Read(g, ReadUser \o UpdateGameObservers(g))

StartGame(g) ==
    StartGameGames(g) \o Read(g, GameJson(g)) \o Touch(g)

Sit(g) ==
    UidFromConn \o UserFromUid \o SitGames(g) \o UpdateSeats(g)
        \o Touch(g) \o StartGame(g)

Vacate(g) ==
    UidFromConn \o VacateGames(g) \o Read(g, ObserveGames(g))
        \o UpdateSeats(g)

SetHandle(g) ==
    UserFromUid \o Update("user") \o Read("user", SendToUser \o SendToUser)

UpdateUserRating ==
    Touch("users") \o Update("user") \o Read("user", SendToUser)

\* The last statement reads the id of the game under a guard that lasts over
\* rm_game.
RecordGame(g) ==
    GameJson(g) \o Touch(g) \o GameJson(g) \o UpdateUserRating
        \o Read(g, RmGame(g))

CheckGame(g) ==
    Get \o Touch(g) \o Update(g) \o Update(g)
        \o UpdateGameObservers(g) \o RecordGame(g)

RecordMove(g) == Get \o Touch(g) \o RecordGame(g)

UserOffline(g) == OnOfflineUser(g)

SeekerOffline(g) == CleanUser

----------------------------------------------------------------------------
(* bug_web_sock.rs: what a socket thread runs. *)

LoggedIn(g) == UserFromConn \o ReadUser

Seek(g) ==
    UserFromConn \o Read("user", GetUserGame \o Touch(g) \o AddSeeker
                                 \o FormGame)

SubCurrentGames(g) == Update("current_game_subs") \o ListJson

SubPublicTables(g) == Update("public_table_subs") \o ListJson

SubOnlinePlayers(g) == Update("subs") \o OnlinePlayers

GameMsg(g) ==
    UidFromConn \o GetUserGame
        \o Read(g, ReadUser \o SendToUser \o SendToUser)

Move(g) == UidFromConn \o MakeMoveGames(g) \o Touch(g)

Refresh(g) == Get \o Update(g) \o GetKind(g) \o GameJson(g)

ObserveGame(g) == ObserveGames(g) \o Refresh(g)

UnobserveGame(g) == Unobserve

Close(g) == RemoveRecipient \o Touch("conns") \o RemoveConn

----------------------------------------------------------------------------
(* Which thread runs what. *)

ArbiterScript(g) ==
    [authenticate |-> Authenticate(g), create_game    |-> CreateGame(g),
     form_table   |-> FormTable(g),    sit            |-> Sit(g),
     vacate       |-> Vacate(g),       set_handle     |-> SetHandle(g),
     check_game   |-> CheckGame(g),    record_move    |-> RecordMove(g),
     user_offline |-> UserOffline(g),  seeker_offline |-> SeekerOffline(g)]

SocketScript(g) ==
    [logged_in          |-> LoggedIn(g),        seek     |-> Seek(g),
     sub_current_games  |-> SubCurrentGames(g), game_msg |-> GameMsg(g),
     sub_public_tables  |-> SubPublicTables(g), move     |-> Move(g),
     sub_online_players |-> SubOnlinePlayers(g), refresh |-> Refresh(g),
     observe            |-> ObserveGame(g),     close    |-> Close(g),
     unobserve          |-> UnobserveGame(g)]

ArbiterCall == UNION {DOMAIN ArbiterScript(g) : g \in GameID}
SocketCall  == UNION {DOMAIN SocketScript(g)  : g \in GameID}

Script(t, call, g) ==
    IF t = "arbiter" THEN ArbiterScript(g)[call] ELSE SocketScript(g)[call]

----------------------------------------------------------------------------
VARIABLE todo       \* for each thread, the steps left of its call

Running(t) == todo[t] # <<>>

Want(t) == Head(todo[t]).want

\* A guard is dropped when the step before has been taken: dropping never
\* waits, and nobody can tell when it happens but by getting the lock.
Guards(t) == IF Running(t) THEN Head(todo[t]).held ELSE {}

\* A guard is the mode and the lock.
Excludes(held, want) ==
    held[2] = want[2] /\ "write" \in {held[1], want[1]}

\* Who holds a guard that keeps t from the lock that it wants; a thread may
\* be in its own way.
Holders(t) ==
    {u \in Thread : \E held \in Guards(u) : Excludes(held, Want(t))}

Init == todo = [t \in Thread |-> <<>>]

Begin(t, call, g) ==
    /\ ~Running(t)
    /\ todo' = [todo EXCEPT ![t] = Script(t, call, g)]

\* Take the lock that is wanted. A lock may in addition let waiting writers
\* go before new readers, as std's does on Linux since Rust 1.62; that would
\* take steps away from here, and adds none.
Advance(t) ==
    /\ Running(t)
    /\ Holders(t) = {}
    /\ todo' = [todo EXCEPT ![t] = Tail(@)]

Next ==
    \E t \in Thread :
        \/ Advance(t)
        \/ \E call \in IF t = "arbiter" THEN ArbiterCall ELSE SocketCall,
              g \in GameID : Begin(t, call, g)

Spec == Init /\ [][Next]_todo

----------------------------------------------------------------------------
(* No set of threads each of which waits for a guard that another one of   *)
(* the set, or itself, holds: games.rs nests the locks of games, one game   *)
(* and the lists, and connection_mgr.rs notifies under user_conns. Two      *)
(* orders are taken both ways round (user_games and games, user and         *)
(* user_games); no test runs the calls that would meet.                     *)
(*                                                                          *)
(* This is all there is to a deadlock only if readers pass the writers that *)
(* wait. Where they do not, a thread that reads a game again under its own  *)
(* read guard (games.rs:349 and 389) can wait for a writer that waits for   *)
(* it: a circle with a link that is no guard, which is not excluded here    *)
(* and does occur.                                                          *)
NoCircleOfGuards ==
    ~ \E W \in SUBSET {t \in Thread : Running(t)} :
        W # {} /\ \A t \in W : Holders(t) \cap W # {}
=============================================================================
