------------------------------ MODULE Observers ------------------------------
(***************************************************************************)
(* Who watches which game (observers.rs, and the calls of Games and        *)
(* BughouseServer that lead there).  Two maps are kept, each under a lock  *)
(* of its own: observer_to_games, from a connection to its game, and       *)
(* game_to_observers, from a game to the connections that get its updates. *)
(*                                                                         *)
(* observe and unobserve hold the lock of the first map throughout, so     *)
(* each is one step.  remove_recipient, called when a socket has closed,   *)
(* is two.  A socket's own thread runs its requests and its closing one    *)
(* after the other; the arbiter runs vacate, which makes the user who left *)
(* his seat an observer, at any time, even when his socket has closed.     *)
(***************************************************************************)

CONSTANTS
  Conn,      \* the connections (hashes of recipients)
  GameID,
  NoGame,    \* no entry in observer_to_games
  Inexact,   \* clients may ask to unobserve a game they do not observe
  Vacating   \* users may vacate seats

VARIABLES
  socket,      \* "open" | "closing" (within remove_recipient) | "closed"
  observing,   \* observer_to_games
  recipients   \* game_to_observers; an absent game is as good as an empty one

vars == <<socket, observing, recipients>>

Init ==
  /\ socket = [c \in Conn |-> "open"]
  /\ observing = [c \in Conn |-> NoGame]
  /\ recipients = [g \in GameID |-> {}]

-----------------------------------------------------------------------------
\* Observers::observe: leave the old game, then join the new one, which may
\* be the same.
Insert(c, g) ==
  /\ observing' = [observing EXCEPT ![c] = g]
  /\ recipients' = [h \in GameID |->
       IF h = g THEN recipients[h] \cup {c}
       ELSE IF h = observing[c] THEN recipients[h] \ {c} ELSE recipients[h]]

\* A request to observe.  Games::observe turns away players of the game and
\* ids that are not in the registry; nothing changes then.
Observe(c, g) ==
  /\ socket[c] = "open"
  /\ Insert(c, g)
  /\ UNCHANGED socket

\* BughouseServer::vacate on the arbiter thread.
VacateSeat(c, g) ==
  /\ Vacating
  /\ Insert(c, g)
  /\ UNCHANGED socket

\* Observers::unobserve, of a game or of an id that is none (NoGame).  The
\* entry of observer_to_games is gone before the game is compared with it; if
\* they differ, that is all that happens.
Unobserve(c, g) ==
  /\ socket[c] = "open"
  /\ observing[c] # NoGame
  /\ Inexact \/ observing[c] = g
  /\ observing' = [observing EXCEPT ![c] = NoGame]
  /\ recipients' = IF observing[c] = g
                     THEN [recipients EXCEPT ![g] = @ \ {c}] ELSE recipients
  /\ UNCHANGED socket

\* remove_recipient up to the end of its read guard.
RemoveFromGame(c) ==
  /\ socket[c] = "open"
  /\ socket' = [socket EXCEPT ![c] = "closing"]
  /\ recipients' = [g \in GameID |->
       IF g = observing[c] THEN recipients[g] \ {c} ELSE recipients[g]]
  /\ UNCHANGED observing

\* The rest of remove_recipient.
RemoveObserver(c) ==
  /\ socket[c] = "closing"
  /\ socket' = [socket EXCEPT ![c] = "closed"]
  /\ observing' = [observing EXCEPT ![c] = NoGame]
  /\ UNCHANGED recipients

Next ==
  \/ \E c \in Conn, g \in GameID : Observe(c, g)
  \/ \E c \in Conn, g \in GameID : VacateSeat(c, g)
  \/ \E c \in Conn, g \in GameID \cup {NoGame} : Unobserve(c, g)
  \/ \E c \in Conn : RemoveFromGame(c)
  \/ \E c \in Conn : RemoveObserver(c)

Spec == Init /\ [][Next]_vars

-----------------------------------------------------------------------------
(* Properties *)

\* Type invariant.
TypeOK ==
  /\ socket \in [Conn -> {"open", "closing", "closed"}]
  /\ observing \in [Conn -> GameID \cup {NoGame}]
  /\ recipients \in [GameID -> SUBSET Conn]

\* Whoever is on record as an observer of a game does get its updates,
\* whatever clients ask and however the threads interleave; only a socket
\* that is closing may be struck from the game first.
ObserverIsNotified ==
  \A c \in Conn :
    observing[c] # NoGame =>
      c \in recipients[observing[c]] \/ socket[c] = "closing"

\* Both of the above: what every step preserves.
NotifiedInvariant == TypeOK /\ ObserverIsNotified

\* A connection gets the updates of the game it observes and of no other;
\* one that has closed gets none.  It takes clients that name the game they
\* observe, and no arbiter that makes a closing socket an observer.
NotifiedIsObserver ==
  \A g \in GameID : \A c \in recipients[g] :
    observing[c] = g /\ socket[c] = "open"
=============================================================================
