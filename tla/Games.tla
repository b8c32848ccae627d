-------------------------------- MODULE Games --------------------------------
(***************************************************************************)
(* The registry of tables and running games: struct Games (games.rs) with  *)
(* the part of struct Game (game.rs) that decides who sits where, whether  *)
(* a game has started and how it ended.                                    *)
(*                                                                         *)
(* One action per method of Games that changes this state.  Next is the    *)
(* most general caller: any method, any argument, in any order, under the  *)
(* conditions every caller in the server establishes first.  The server    *)
(* that calls them is module BughouseServer, which is shown to implement   *)
(* this specification.                                                     *)
(*                                                                         *)
(* Seats are the elements of Seat (four in the code, board x colour); the  *)
(* board position and the clocks are left to other modules, so a mating    *)
(* move and a flag fall are possible whenever a move or a check is.        *)
(***************************************************************************)

CONSTANTS
  User,      \* user ids
  Guest,     \* the users with guest = true
  GameID,    \* the uuids that the database will hand out, never twice
  Seat,      \* the seats of a table: [board][colour]
  HostSeat,  \* seat [0][0], where Game::table puts the founder
  NoUser,    \* an empty seat (None)
  NoGame     \* a user without an entry in user_games

ASSUME GamesAssumption ==
  /\ Guest \subseteq User
  /\ HostSeat \in Seat
  /\ NoUser \notin User
  /\ NoGame \notin GameID

VARIABLES
  life,       \* "unborn" | "live" | "gone": is the id a key of Games.games?
  players,    \* players[g][s]: Game.players
  userGames,  \* Games.user_games
  rated,      \* Game.rated
  start,      \* Game.start: "None", in the future ("Pending"), or "Reached"
  result      \* Game.result: "None" | "Checkmate" | "Flagged"

vars == <<life, players, userGames, rated, start, result>>

Life   == {"unborn", "live", "gone"}
Start  == {"None", "Pending", "Reached"}
Result == {"None", "Checkmate", "Flagged"}

EmptySeats == [s \in Seat |-> NoUser]

\* Four different users: what the pods of the seek queues deliver
\* (DistinctLineups of module Seeks).
Lineup ==
  {p \in [Seat -> User] : \A s1, s2 \in Seat : p[s1] = p[s2] => s1 = s2}

-----------------------------------------------------------------------------
(* Queries *)

Seated(g) == {players[g][s] : s \in Seat} \ {NoUser}

HasEmptySeat(g) == \E s \in Seat : players[g][s] = NoUser

\* The seats of g once user u has left his: the code clears the first seat
\* that get_user_seat finds, and by OneSeatPerTable there is no second.
Without(g, u) ==
  [s \in Seat |-> IF players[g][s] = u THEN NoUser ELSE players[g][s]]

\* ensure_game_id_matches: u is in no game, or in this one.
GameIdMatches(u, g) == userGames[u] \in {NoGame, g}

-----------------------------------------------------------------------------
Init ==
  /\ life = [g \in GameID |-> "unborn"]
  /\ players = [g \in GameID |-> EmptySeats]
  /\ userGames = [u \in User |-> NoGame]
  /\ rated = [g \in GameID |-> FALSE]
  /\ start = [g \in GameID |-> "None"]
  /\ result = [g \in GameID |-> "None"]

\* Games::form_table.  The table is inserted before set_user_game may
\* fail, so a founder who has entered another game meanwhile leaves behind
\* a table where he sits and to which he is not linked.
FormTable(u, g, r) ==
  /\ life[g] = "unborn"
  /\ life' = [life EXCEPT ![g] = "live"]
  /\ players' = [players EXCEPT ![g] = [EmptySeats EXCEPT ![HostSeat] = u]]
  /\ rated' = [rated EXCEPT ![g] = r]
  /\ userGames' = IF GameIdMatches(u, g)
                    THEN [userGames EXCEPT ![u] = g] ELSE userGames
  /\ UNCHANGED <<start, result>>

MaySit(g, s, u) ==
  /\ life[g] = "live"
  /\ GameIdMatches(u, g)
  /\ players[g][s] = NoUser
  /\ ~(u \in Guest /\ rated[g])

\* Mutant: the sitter's previous seat is not given up.
SitKeepingOldSeat(g, s, u) ==
  /\ MaySit(g, s, u)
  /\ players' = [players EXCEPT ![g][s] = u]
  /\ userGames' = [userGames EXCEPT ![u] = g]
  /\ UNCHANGED <<life, rated, start, result>>

\* Mutant: the game is not looked up first.
SitAtUnknownGame(g, s, u) ==
  /\ GameIdMatches(u, g)
  /\ players[g][s] = NoUser
  /\ players' = [players EXCEPT ![g] = [Without(g, u) EXCEPT ![s] = u]]
  /\ userGames' = [userGames EXCEPT ![u] = g]
  /\ UNCHANGED <<life, rated, start, result>>

\* Games::sit: move within the table or sit down anew.
Sit(g, s, u) ==
  /\ MaySit(g, s, u)
  /\ players' = [players EXCEPT ![g] = [Without(g, u) EXCEPT ![s] = u]]
  /\ userGames' = [userGames EXCEPT ![u] = g]
  /\ UNCHANGED <<life, rated, start, result>>

\* Mutant: the owner of the seat is not checked.
VacateUnowned(g, s, u) ==
  /\ life[g] = "live"
  /\ userGames' = [userGames EXCEPT ![u] = NoGame]
  /\ players' = [players EXCEPT ![g][s] = NoUser]
  /\ UNCHANGED <<life, rated, start, result>>

\* Games::vacate.  The entry of user_games goes first, whatever game it
\* names; the SeatEmpty and SeatUnowned errors come after that.  The game
\* may have started.
Vacate(g, s, u) ==
  /\ life[g] = "live"
  /\ userGames' = [userGames EXCEPT ![u] = NoGame]
  /\ players' = IF players[g][s] = u
                  THEN [players EXCEPT ![g][s] = NoUser] ELSE players
  /\ UNCHANGED <<life, rated, start, result>>

\* Game::start under Games::start_game.  The server calls it for a table it
\* has just seen full, and through an Arc that outlives the registry entry.
StartGame(g) ==
  /\ life[g] # "unborn"
  /\ ~HasEmptySeat(g)
  /\ start' = [start EXCEPT ![g] = "Pending"]
  /\ UNCHANGED <<life, players, userGames, rated, result>>

\* Games::start_new_game, for the players of a full seek pod.  user_games is
\* overwritten: whoever was at a table is now linked to the new game.
StartNewGame(g, p, r) ==
  /\ life[g] = "unborn"
  /\ life' = [life EXCEPT ![g] = "live"]
  /\ players' = [players EXCEPT ![g] = p]
  /\ rated' = [rated EXCEPT ![g] = r]
  /\ start' = [start EXCEPT ![g] = "Pending"]
  /\ userGames' = [u \in User |->
                     IF \E s \in Seat : p[s] = u THEN g ELSE userGames[u]]
  /\ UNCHANGED result

\* The wall clock passes Game.start.
ReachStart(g) ==
  /\ start[g] = "Pending"
  /\ start' = [start EXCEPT ![g] = "Reached"]
  /\ UNCHANGED <<life, players, userGames, rated, result>>

\* Game::check_for_mate, where mates says that a board is mated.
CheckForMate(g, mates) ==
  IF result[g] = "None" /\ mates THEN "Checkmate" ELSE result[g]

\* Games::make_move by a player of a started game.  Nothing stops a move
\* after the result: the board that is not mated plays on.
MakeMove(u, g, mates) ==
  /\ userGames[u] = g
  /\ u \in Seated(g)
  /\ start[g] = "Reached"
  /\ result' = [result EXCEPT ![g] = CheckForMate(g, mates)]
  /\ UNCHANGED <<life, players, userGames, rated, start>>

\* Mutant: end_game does not look for a result that is already there.
EndGameUnchecked(g) ==
  /\ start[g] = "Reached"
  /\ result' = [result EXCEPT ![g] = "Flagged"]
  /\ UNCHANGED <<life, players, userGames, rated, start>>

\* Game::end_game: a flag, unless a mate on the other thread came first.
EndGame(g) ==
  /\ start[g] = "Reached"
  /\ result' = [result EXCEPT ![g] = IF @ = "None" THEN "Flagged" ELSE @]
  /\ UNCHANGED <<life, players, userGames, rated, start>>

\* Mutant: the players keep their entries of user_games.
RmGameKeepingLinks(g) ==
  /\ life[g] = "live"
  /\ result[g] # "None"
  /\ life' = [life EXCEPT ![g] = "gone"]
  /\ UNCHANGED <<players, userGames, rated, start, result>>

\* Games::rm_game with rm_from_user_games: every player loses his entry,
\* even one that names another game.
RmGame(g) ==
  /\ life[g] = "live"
  /\ result[g] # "None"
  /\ life' = [life EXCEPT ![g] = "gone"]
  /\ userGames' = [u \in User |->
                     IF u \in Seated(g) THEN NoGame ELSE userGames[u]]
  /\ UNCHANGED <<players, rated, start, result>>

\* Games::on_offline_user: a user without connections loses his seat at a
\* table that still has an empty one; full games wait for him to return.
OnOfflineUser(u, g) ==
  /\ userGames[u] = g
  /\ HasEmptySeat(g)
  /\ players' = [players EXCEPT ![g] = Without(g, u)]
  /\ userGames' = [userGames EXCEPT ![u] = NoGame]
  /\ UNCHANGED <<life, rated, start, result>>

Next ==
  \/ \E u \in User, g \in GameID, r \in BOOLEAN : FormTable(u, g, r)
  \/ \E g \in GameID, s \in Seat, u \in User : Sit(g, s, u)
  \/ \E g \in GameID, s \in Seat, u \in User : Vacate(g, s, u)
  \/ \E g \in GameID : StartGame(g)
  \/ \E g \in GameID, p \in Lineup, r \in BOOLEAN : StartNewGame(g, p, r)
  \/ \E g \in GameID : ReachStart(g)
  \/ \E u \in User, g \in GameID, mates \in BOOLEAN : MakeMove(u, g, mates)
  \/ \E g \in GameID : EndGame(g)
  \/ \E g \in GameID : RmGame(g)
  \/ \E u \in User, g \in GameID : OnOfflineUser(u, g)

Spec == Init /\ [][Next]_vars

-----------------------------------------------------------------------------
(* Properties *)

\* Type invariant.  An id that was never handed out has no trace of a game.
TypeOK ==
  /\ life \in [GameID -> Life]
  /\ players \in [GameID -> [Seat -> User \cup {NoUser}]]
  /\ userGames \in [User -> GameID \cup {NoGame}]
  /\ rated \in [GameID -> BOOLEAN]
  /\ start \in [GameID -> Start]
  /\ result \in [GameID -> Result]
  /\ \A g \in GameID : life[g] = "unborn" => players[g] = EmptySeats

\* Whoever has an entry in user_games sits at that game, and that game is
\* in the registry.  get_user_game unwraps the lookup of the game
\* (games.rs:454) and on_offline_user calls a user game without a seat
\* impossible (games.rs:614): neither can happen, although seats and links
\* live under different locks and are written by seven methods.
LinkedIsSeated ==
  \A u \in User :
    userGames[u] # NoGame => /\ life[userGames[u]] = "live"
                             /\ u \in Seated(userGames[u])

\* No user sits twice at one table: get_user_seat, get_board_id_for_user and
\* get_partner look for one seat, and a game that starts has as many
\* players as seats.
OneSeatPerTable ==
  \A g \in GameID, s1, s2 \in Seat :
    players[g][s1] = players[g][s2] /\ players[g][s1] # NoUser => s1 = s2

\* A result is final: the mate delivered on a socket thread and the flag
\* fall found by the timer race for it, and the loser must not overwrite it.
ResultIsFinal ==
  [][\A g \in GameID : result[g] # "None" => result'[g] = result[g]]_vars

\* Who sits is put out of his seat by nobody else.  A step that clears a seat
\* of u leaves it empty, and is u's own: he has moved to another seat of the
\* table, or his link is gone (he vacates, or goes offline), and no other
\* user's link has changed.  vacate clears the link of whoever asks and the
\* seat that he names; only the check of the owner keeps the two together.
SeatsFallEmptyFirst ==
  [][\A g \in GameID, s \in Seat :
       LET u == players[g][s] IN
       u # NoUser /\ players'[g][s] # u =>
         /\ players'[g][s] = NoUser
         /\ userGames'[u] = NoGame \/ \E s2 \in Seat : players'[g][s2] = u
         /\ \A w \in User \ {u} : userGames'[w] = userGames[w]]_vars

=============================================================================
