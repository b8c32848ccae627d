----------------------------- MODULE GamesProofs -----------------------------
(***************************************************************************)
(* Proofs about Games, for every set of users, games and seats.            *)
(*                                                                         *)
(* LinkedIsSeated is not inductive without OneSeatPerTable: when a user    *)
(* leaves the seat named in his request, nothing else says that the link   *)
(* of somebody else does not hang on that same seat, and when he changes   *)
(* seats he must not stay behind in the old one.  IInv is the conjunction  *)
(* of the three state invariants.                                          *)
(***************************************************************************)
EXTENDS Games, TLAPS

IInv == TypeOK /\ OneSeatPerTable /\ LinkedIsSeated

\* The initial registry is empty and satisfies the invariant.
LEMMA InitIInv == Init => IInv
  BY GamesAssumption
     DEF Init, IInv, TypeOK, OneSeatPerTable, LinkedIsSeated, EmptySeats,
         Life, Start, Result, Seated

\* Every method keeps the types.
LEMMA NextTypeOK == TypeOK /\ [Next]_vars => TypeOK'
<1> SUFFICES ASSUME TypeOK, [Next]_vars PROVE TypeOK'
  OBVIOUS
<1> USE GamesAssumption DEF TypeOK, EmptySeats, Life, Start, Result
<1>1. ASSUME NEW u \in User, NEW g \in GameID, NEW r \in BOOLEAN,
             FormTable(u, g, r)
      PROVE  TypeOK'
  BY <1>1 DEF FormTable
<1>2. ASSUME NEW g \in GameID, NEW s \in Seat, NEW u \in User, Sit(g, s, u)
      PROVE  TypeOK'
  BY <1>2 DEF Sit, MaySit, Without
<1>3. ASSUME NEW g \in GameID, NEW s \in Seat, NEW u \in User, Vacate(g, s, u)
      PROVE  TypeOK'
  BY <1>3 DEF Vacate
<1>4. ASSUME NEW g \in GameID, StartGame(g)
      PROVE  TypeOK'
  BY <1>4 DEF StartGame
<1>5. ASSUME NEW g \in GameID, NEW p \in Lineup, NEW r \in BOOLEAN,
             StartNewGame(g, p, r)
      PROVE  TypeOK'
  BY <1>5 DEF StartNewGame, Lineup
<1>6. ASSUME NEW g \in GameID, ReachStart(g)
      PROVE  TypeOK'
  BY <1>6 DEF ReachStart
<1>7. ASSUME NEW u \in User, NEW g \in GameID, NEW mates \in BOOLEAN,
             MakeMove(u, g, mates)
      PROVE  TypeOK'
  BY <1>7 DEF MakeMove, CheckForMate
<1>8. ASSUME NEW g \in GameID, EndGame(g)
      PROVE  TypeOK'
  BY <1>8 DEF EndGame
<1>9. ASSUME NEW g \in GameID, RmGame(g)
      PROVE  TypeOK'
  BY <1>9 DEF RmGame
<1>10. ASSUME NEW u \in User, NEW g \in GameID, OnOfflineUser(u, g)
       PROVE  TypeOK'
  <2>1. life[g] = "unborn" => Without(g, u) = EmptySeats
    BY DEF Without
  <2> QED
    BY <1>10, <2>1 DEF OnOfflineUser, Without
<1>11. CASE UNCHANGED vars
  BY <1>11 DEF vars
<1> QED
  BY <1>1, <1>2, <1>3, <1>4, <1>5, <1>6, <1>7, <1>8, <1>9, <1>10, <1>11
     DEF Next

\* No method seats a user twice at one table.
LEMMA NextOneSeat == TypeOK /\ OneSeatPerTable /\ [Next]_vars => OneSeatPerTable'
<1> SUFFICES ASSUME TypeOK, OneSeatPerTable, [Next]_vars,
                    NEW h \in GameID, NEW s1 \in Seat, NEW s2 \in Seat,
                    players'[h][s1] = players'[h][s2],
                    players'[h][s1] # NoUser
             PROVE  s1 = s2
  BY DEF OneSeatPerTable
<1> USE GamesAssumption DEF TypeOK, OneSeatPerTable
<1>1. ASSUME NEW u \in User, NEW g \in GameID, NEW r \in BOOLEAN,
             FormTable(u, g, r)
      PROVE  s1 = s2
  BY <1>1 DEF FormTable, EmptySeats
<1>2. ASSUME NEW g \in GameID, NEW s \in Seat, NEW u \in User, Sit(g, s, u)
      PROVE  s1 = s2
  \* The sitter has left his old seat, so only s holds him.
  BY <1>2 DEF Sit, MaySit, Without
<1>3. ASSUME NEW g \in GameID, NEW s \in Seat, NEW u \in User, Vacate(g, s, u)
      PROVE  s1 = s2
  BY <1>3 DEF Vacate
<1>4. ASSUME NEW g \in GameID, NEW p \in Lineup, NEW r \in BOOLEAN,
             StartNewGame(g, p, r)
      PROVE  s1 = s2
  BY <1>4 DEF StartNewGame, Lineup
<1>5. ASSUME NEW u \in User, NEW g \in GameID, OnOfflineUser(u, g)
      PROVE  s1 = s2
  BY <1>5 DEF OnOfflineUser, Without
<1>6. CASE UNCHANGED players
  BY <1>6
<1> QED
  BY <1>1, <1>2, <1>3, <1>4, <1>5, <1>6
     DEF Next, vars, StartGame, ReachStart, MakeMove, EndGame, RmGame

\* Every method that takes a seat or a game away from a user takes the link
\* that leads there as well.
LEMMA NextLinked == IInv /\ [Next]_vars => LinkedIsSeated'
<1> SUFFICES ASSUME IInv, [Next]_vars,
                    NEW v \in User, userGames'[v] # NoGame
             PROVE  /\ life'[userGames'[v]] = "live"
                    /\ \E s \in Seat : players'[userGames'[v]][s] = v
  BY GamesAssumption DEF LinkedIsSeated, Seated
<1> DEFINE Goal == /\ life'[userGames'[v]] = "live"
                   /\ \E s \in Seat : players'[userGames'[v]][s] = v
<1> USE GamesAssumption DEF IInv, TypeOK
<1>0. userGames[v] # NoGame => /\ userGames[v] \in GameID
                               /\ life[userGames[v]] = "live"
                               /\ \E s \in Seat : players[userGames[v]][s] = v
  BY DEF LinkedIsSeated, Seated
<1>1. ASSUME NEW u \in User, NEW g \in GameID, NEW r \in BOOLEAN,
             FormTable(u, g, r)
      PROVE  Goal
  <2>1. CASE userGames'[v] = g
    \* g was unborn, so the link is new: v is the founder.
    BY <1>0, <1>1, <2>1 DEF FormTable, EmptySeats
  <2>2. CASE userGames'[v] # g
    BY <1>0, <1>1, <2>2 DEF FormTable
  <2> QED
    BY <2>1, <2>2
<1>2. ASSUME NEW g \in GameID, NEW s \in Seat, NEW u \in User, Sit(g, s, u)
      PROVE  Goal
  <2>1. CASE v = u
    <3>1. userGames'[v] = g /\ life'[g] = "live"
      BY <1>2, <2>1 DEF Sit, MaySit
    <3>2. players'[g][s] = v
      BY <1>2, <2>1 DEF Sit, Without
    <3> QED
      BY <3>1, <3>2
  <2>2. CASE v # u
    \* v keeps his seat: the one that is taken was empty.
    BY <1>0, <1>2, <2>2 DEF Sit, MaySit, Without
  <2> QED
    BY <2>1, <2>2
<1>3. ASSUME NEW g \in GameID, NEW s \in Seat, NEW u \in User, Vacate(g, s, u)
      PROVE  Goal
  \* The seat that falls empty is u's, and u has no link any more.
  BY <1>0, <1>3 DEF Vacate
<1>4. ASSUME NEW g \in GameID, NEW p \in Lineup, NEW r \in BOOLEAN,
             StartNewGame(g, p, r)
      PROVE  Goal
  <2>1. CASE \E s \in Seat : p[s] = v
    BY <1>4, <2>1 DEF StartNewGame
  <2>2. CASE ~ \E s \in Seat : p[s] = v
    BY <1>0, <1>4, <2>2 DEF StartNewGame
  <2> QED
    BY <2>1, <2>2
<1>5. ASSUME NEW g \in GameID, RmGame(g)
      PROVE  Goal
  <2>1. v \notin Seated(g) /\ userGames'[v] = userGames[v]
    BY <1>5 DEF RmGame
  <2>2. userGames[v] # g
    BY <1>0, <2>1 DEF Seated
  <2> QED
    BY <1>0, <1>5, <2>1, <2>2 DEF RmGame
<1>6. ASSUME NEW u \in User, NEW g \in GameID, OnOfflineUser(u, g)
      PROVE  Goal
  BY <1>0, <1>6 DEF OnOfflineUser, Without
<1>7. CASE UNCHANGED <<life, players, userGames>>
  BY <1>0, <1>7
<1> QED
  BY <1>1, <1>2, <1>3, <1>4, <1>5, <1>6, <1>7
     DEF Next, vars, StartGame, ReachStart, MakeMove, EndGame

\* The registry always has its types, no user sits twice at one table, and
\* every entry of user_games leads to a live game where its user sits.
THEOREM GamesInvariant == Spec => []IInv
<1>1. IInv /\ [Next]_vars => IInv'
  BY NextTypeOK, NextOneSeat, NextLinked DEF IInv
<1> QED
  BY InitIInv, <1>1, PTL DEF Spec

\* The registry holds only what its types allow.
THEOREM GamesTypeOK == Spec => []TypeOK
<1>1. IInv => TypeOK
  BY DEF IInv
<1> QED
  BY GamesInvariant, <1>1, PTL

\* The lookup in get_user_game never unwraps a missing game.
THEOREM LinkedIsSeatedTheorem == Spec => []LinkedIsSeated
<1>1. IInv => LinkedIsSeated
  BY DEF IInv
<1> QED
  BY GamesInvariant, <1>1, PTL

\* At every table, every user has at most one seat.
THEOREM OneSeatPerTableTheorem == Spec => []OneSeatPerTable
<1>1. IInv => OneSeatPerTable
  BY DEF IInv
<1> QED
  BY GamesInvariant, <1>1, PTL

\* A result, once there, stays as it is, whoever comes second.
THEOREM ResultIsFinalTheorem == Spec => ResultIsFinal
<1> DEFINE Final == \A g \in GameID : result[g] # "None" => result'[g] = result[g]
<1>1. ASSUME TypeOK, [Next]_vars
      PROVE  [Final]_vars
  <2> SUFFICES ASSUME Next PROVE Final
    BY <1>1
  <2>1. CASE \E u \in User, g \in GameID, mates \in BOOLEAN :
               MakeMove(u, g, mates)
    BY <1>1, <2>1 DEF TypeOK, MakeMove, CheckForMate
  <2>2. CASE \E g \in GameID : EndGame(g)
    BY <1>1, <2>2 DEF TypeOK, EndGame
  <2>3. CASE UNCHANGED result
    BY <2>3
  <2> QED
    BY <2>1, <2>2, <2>3
       DEF Next, FormTable, Sit, Vacate, StartGame, StartNewGame, ReachStart,
           RmGame, OnOfflineUser
<1>2. IInv => TypeOK
  BY DEF IInv
<1> QED
  BY GamesInvariant, <1>1, <1>2, PTL DEF Spec, ResultIsFinal

\* No method puts a user out of a seat on behalf of another: a seat is taken
\* only when it is empty, vacated only by its owner, whose link goes with it,
\* and a game that takes all seats at once has an id under which nobody sits.
THEOREM SeatsFallEmptyFirstTheorem == Spec => SeatsFallEmptyFirst
<1> DEFINE OwnDoing(g, s, u) ==
             /\ players'[g][s] = NoUser
             /\ userGames'[u] = NoGame \/ \E s2 \in Seat : players'[g][s2] = u
             /\ \A w \in User \ {u} : userGames'[w] = userGames[w]
           FallEmpty ==
             \A g \in GameID, s \in Seat :
               LET u == players[g][s] IN
               u # NoUser /\ players'[g][s] # u => OwnDoing(g, s, u)
<1>1. ASSUME TypeOK, [Next]_vars
      PROVE  [FallEmpty]_vars
  <2> SUFFICES ASSUME Next, NEW h \in GameID, NEW t \in Seat,
                      players[h][t] # NoUser, players'[h][t] # players[h][t]
               PROVE  OwnDoing(h, t, players[h][t])
    BY <1>1, Zenon
  <2> USE <1>1 DEF TypeOK
  <2>0. players[h][t] \in User
    OBVIOUS
  <2>1. ASSUME NEW u \in User, NEW g \in GameID, NEW r \in BOOLEAN,
               FormTable(u, g, r)
        PROVE  FALSE
    BY <2>1 DEF FormTable, EmptySeats
  <2>2. ASSUME NEW g \in GameID, NEW s \in Seat, NEW u \in User, Sit(g, s, u)
        PROVE  OwnDoing(h, t, players[h][t])
    <3>1. g = h /\ players[h][t] = u /\ s # t
      BY <2>2 DEF Sit, MaySit, Without
    <3>2. players'[h][t] = NoUser /\ players'[h][s] = u
      BY <2>2, <3>1 DEF Sit, Without
    <3>3. \A w \in User \ {u} : userGames'[w] = userGames[w]
      BY <2>2 DEF Sit
    <3> QED
      BY <3>1, <3>2, <3>3
  <2>3. ASSUME NEW g \in GameID, NEW s \in Seat, NEW u \in User,
               Vacate(g, s, u)
        PROVE  OwnDoing(h, t, players[h][t])
    <3>1. g = h /\ players[h][t] = u /\ s = t
      BY <2>3 DEF Vacate
    <3> QED
      BY <2>3, <3>1 DEF Vacate
  <2>4. ASSUME NEW g \in GameID, NEW p \in Lineup, NEW r \in BOOLEAN,
               StartNewGame(g, p, r)
        PROVE  FALSE
    BY <2>4 DEF StartNewGame, EmptySeats
  <2>5. ASSUME NEW u \in User, NEW g \in GameID, OnOfflineUser(u, g)
        PROVE  OwnDoing(h, t, players[h][t])
    <3>1. g = h /\ players[h][t] = u
      BY <2>5 DEF OnOfflineUser, Without
    <3>2. players'[h][t] = NoUser
      BY <2>5, <3>1 DEF OnOfflineUser, Without
    <3> QED
      BY <2>5, <3>1, <3>2 DEF OnOfflineUser
  <2>6. ~UNCHANGED players
    OBVIOUS
  <2> QED
    BY <2>1, <2>2, <2>3, <2>4, <2>5, <2>6
       DEF Next, StartGame, ReachStart, MakeMove, EndGame, RmGame
<1>2. IInv => TypeOK
  BY DEF IInv
<1> QED
  BY GamesInvariant, <1>1, <1>2, PTL DEF Spec, SeatsFallEmptyFirst

=============================================================================
