---------------------------- MODULE LocksProofs ----------------------------
(***************************************************************************)
(* Why no threads of Locks wait in a circle for guards held by each other, *)
(* whatever the number of sockets and games.                               *)
(*                                                                         *)
(* No order of the locks explains it: calls take user_games under games    *)
(* and games under user_games, and a game under user and user under a      *)
(* game. But most of these guards are only read guards, which keep nobody  *)
(* out but writers. So it is the pairs of mode and lock that have an       *)
(* order, the levels below: wherever a call wants a guard, every guard     *)
(* that it holds keeps out only those who want one of a lower level. Then  *)
(* whoever waits for a guard, waits for a thread that, if it waits too,    *)
(* wants a guard of a higher level, and there are ten levels.              *)
(***************************************************************************)
EXTENDS Locks, FiniteSetTheorems, TLAPS

----------------------------------------------------------------------------
(* The levels of the guards that a thread can want. *)

ReadLevel(lock) ==
    CASE lock = "user_seeks"        -> 3
      [] lock \in GameID            -> 4
      [] lock = "user_games"        -> 5
      [] lock = "observer_to_games" -> 6
      [] lock = "user_conns"        -> 9
      [] OTHER                      -> 10

WriteLevel(lock) ==
    CASE lock = "user"                     -> 1
      [] lock \in GameID                   -> 2
      [] lock \in {"games", "user_seeks"}  -> 3
      [] lock = "pod_queues"               -> 4
      [] lock = "user_games"               -> 5
      [] lock = "observer_to_games"        -> 6
      [] lock = "game_to_observers"        -> 7
      [] lock = "conns"                    -> 8
      [] lock = "user_conns"               -> 9
      [] OTHER                             -> 10

Level(guard) ==
    IF guard[1] = "read" THEN ReadLevel(guard[2]) ELSE WriteLevel(guard[2])

Guard == {"read", "write"} \X (Shared \cup GameID)

Step == [want : Guard, held : SUBSET Guard]

\* Whoever a guard held keeps out wants a guard of a lower level.
InOrder(step) ==
    \A held \in step.held, want \in Guard :
        Excludes(held, want) => Level(want) < Level(step.want)

\* The steps that are in order and want a guard above a level. A script of
\* such steps can stand under guards that keep out levels up to n.
Above(n) == {step \in Step : InOrder(step) /\ n < Level(step.want)}

Rising(n) == Seq(Above(n))

\* The inductive invariant: all that is left of every call is in order.
StepsInOrder == todo \in [Thread -> Rising(0)]

----------------------------------------------------------------------------
(* How scripts are put together. *)

LEMMA LevelInRange ==
    /\ \A guard \in Guard : Level(guard) \in 1..10
    /\ \A lock : ReadLevel(lock) \in 1..10 /\ WriteLevel(lock) \in 1..10
BY DEF Level, ReadLevel, WriteLevel, Guard

\* A script that rises above a level rises above every lower one.
LEMMA Lower ==
    ASSUME NEW n \in Nat, NEW k \in Nat, n <= k, NEW s \in Rising(k)
    PROVE  s \in Rising(n)
<1>1. Above(k) \subseteq Above(n)
    <2>1. \A step \in Step : Level(step.want) \in 1..10
        BY LevelInRange DEF Step
    <2> QED BY <2>1 DEF Above
<1> QED BY <1>1 DEF Rising

LEMMA Then ==
    ASSUME NEW n \in Nat, NEW a \in Rising(n), NEW b \in Rising(n)
    PROVE  a \o b \in Rising(n)
BY DEF Rising

\* A guard may be held over a script that rises above all whom it keeps out.
LEMMA UnderRises ==
    ASSUME NEW guard \in Guard, NEW n \in Nat, NEW k \in Nat,
           n <= k, n < Level(guard), NEW body \in Rising(k),
           \A want \in Guard : Excludes(guard, want) => Level(want) <= k
    PROVE  Under(guard, body) \in Rising(n)
<1> DEFINE first  == [want |-> guard, held |-> {}]
           inside == [i \in DOMAIN body |->
                         [body[i] EXCEPT !.held = @ \cup {guard}]]
<1>1. first \in Above(n)
    BY DEF Above, Step, InOrder
<1>2. ASSUME NEW step \in Above(k)
      PROVE  [step EXCEPT !.held = @ \cup {guard}] \in Above(n)
    <2> DEFINE new == [step EXCEPT !.held = @ \cup {guard}]
    <2>1. step \in Step /\ InOrder(step) /\ k < Level(step.want)
        BY <1>2 DEF Above
    <2>2. /\ new \in Step
          /\ new.want = step.want
          /\ new.held = step.held \cup {guard}
        BY <2>1 DEF Step
    <2>3. Level(step.want) \in 1..10
        BY <2>1, LevelInRange DEF Step
    <2>4. n < Level(step.want)
        BY <2>1, <2>3
    <2>5. ASSUME NEW held \in new.held, NEW want \in Guard,
                 Excludes(held, want)
          PROVE  Level(want) < Level(new.want)
        <3>1. CASE held \in step.held
            BY <2>1, <2>2, <2>5, <3>1 DEF InOrder
        <3>2. CASE held = guard
            <4>1. Level(want) \in 1..10 /\ Level(want) <= k
                BY <2>5, <3>2, LevelInRange
            <4> QED BY <2>1, <2>2, <2>3, <4>1
        <3> QED BY <2>2, <3>1, <3>2
    <2> QED BY <2>2, <2>4, <2>5 DEF Above, InOrder
<1>3. body \in Seq(Above(k))
    BY DEF Rising
<1>4. inside \in Seq(Above(n))
    <2>1. DOMAIN body = 1..Len(body) /\ Len(body) \in Nat
        BY <1>3
    <2>2. \A i \in 1..Len(body) : inside[i] \in Above(n)
        BY <1>2, <1>3, <2>1
    <2> QED BY <2>1, <2>2
<1>5. <<first>> \in Seq(Above(n))
    BY <1>1
<1>6. <<first>> \o inside \in Seq(Above(n))
    BY <1>4, <1>5
<1> QED BY <1>6 DEF Rising, Under

\* A loop repeats its body once for each game.
LEMMA OrderOfGames ==
    /\ SetToSeq(GameID) \in Seq(GameID)
    /\ GameID # {} => SetToSeq(GameID) # <<>>
<1> DEFINE m == Cardinality(GameID)
<1>1. m \in Nat /\ \E f : f \in Bijection(1..m, GameID)
    BY LocksAssumption, FS_CardinalityType DEF ExistsBijection
<1>2. \E f \in [1..m -> GameID] : IsInjective(f)
    BY <1>1 DEF Bijection, Injection, IsInjective
<1>3. SetToSeq(GameID) \in [1..m -> GameID]
    BY <1>2 DEF SetToSeq
<1>4. SetToSeq(GameID) \in Seq(GameID) /\ Len(SetToSeq(GameID)) = m
    BY <1>1, <1>3
<1>5. GameID # {} => m # 0
    BY LocksAssumption, FS_EmptySet
<1> QED BY <1>1, <1>4, <1>5

LEMMA InRows ==
    ASSUME NEW n \in Nat, NEW m \in Nat, NEW i \in 1..(n * m)
    PROVE  /\ ((i - 1) \div n) + 1 \in 1..m
           /\ ((i - 1) % n) + 1 \in 1..n
<1>1. n # 0
    BY SMT
<1> DEFINE q == (i - 1) \div n
           r == (i - 1) % n
<1>2. q \in Int /\ r \in 0..(n - 1) /\ i - 1 = n * q + r
    BY <1>1, SMT
<1>3. q >= 0
    BY <1>1, <1>2, SMT
<1>4. n * m \in Nat /\ i - 1 < n * m
    BY SMT
<1>5. q < m
    BY <1>1, <1>2, <1>4, SMT
<1> QED BY <1>1, <1>2, <1>3, <1>5

LEMMA EachGameRises ==
    ASSUME NEW k \in Nat, NEW n \in Nat, NEW body,
           GameID # {},
           \A g \in GameID : body[g] \in Rising(k) /\ Len(body[g]) = n
    PROVE  EachGame(body) \in Rising(k)
<1> DEFINE order == SetToSeq(GameID)
           m == Len(order)
           row(i) == ((i - 1) \div n) + 1
           col(i) == ((i - 1) % n) + 1
<1>1. order \in Seq(GameID) /\ m \in Nat /\ m # 0
    BY OrderOfGames
<1>2. order[1] \in GameID
    BY <1>1
<1>3. Len(body[order[1]]) = n
    BY <1>2
<1>4. EachGame(body)
        = [i \in 1..(n * m) |-> body[order[row(i)]][col(i)]]
    BY <1>3 DEF EachGame
<1>5. ASSUME NEW i \in 1..(n * m)
      PROVE  body[order[row(i)]][col(i)] \in Above(k)
    <2>1. row(i) \in 1..m /\ col(i) \in 1..n
        BY <1>1, InRows
    <2>2. PICK r \in 1..m, c \in 1..n : r = row(i) /\ c = col(i)
        BY <2>1
    <2>3. PICK g \in GameID : g = order[r]
        BY <1>1, <2>2
    <2>4. body[g] \in Seq(Above(k)) /\ Len(body[g]) = n
        BY DEF Rising
    <2>5. body[g][c] \in Above(k)
        BY <2>4
    <2> QED BY <2>2, <2>3, <2>5
<1>6. n * m \in Nat
    BY <1>1
<1>7. PICK len \in Nat : len = n * m
    BY <1>6
<1>8. EachGame(body) \in [1..len -> Above(k)]
    BY <1>4, <1>5, <1>7
<1> QED BY <1>8 DEF Rising

----------------------------------------------------------------------------
(* The level of every guard, and the rules for scripts in terms of levels. *)

LEMMA Levels ==
    /\ \A g \in GameID : ReadLevel(g) = 4 /\ WriteLevel(g) = 2
    /\ ReadLevel("user") = 10              /\ WriteLevel("user") = 1
    /\ ReadLevel("games") = 10             /\ WriteLevel("games") = 3
    /\ ReadLevel("user_seeks") = 3         /\ WriteLevel("user_seeks") = 3
    /\ ReadLevel("pod_queues") = 10        /\ WriteLevel("pod_queues") = 4
    /\ ReadLevel("user_games") = 5         /\ WriteLevel("user_games") = 5
    /\ ReadLevel("observer_to_games") = 6  /\ WriteLevel("observer_to_games") = 6
    /\ ReadLevel("game_to_observers") = 10 /\ WriteLevel("game_to_observers") = 7
    /\ ReadLevel("conns") = 10             /\ WriteLevel("conns") = 8
    /\ ReadLevel("user_conns") = 9         /\ WriteLevel("user_conns") = 9
    /\ \A lock \in {"users", "fid_users", "user_handlers", "subs", "queue",
                    "current_game_subs", "public_table_subs"} :
           ReadLevel(lock) = 10 /\ WriteLevel(lock) = 10
<1>1. \A lock \in Shared : lock \notin GameID
    BY LocksAssumption
<1>2. \A g \in GameID : ReadLevel(g) = 4 /\ WriteLevel(g) = 2
    BY <1>1 DEF ReadLevel, WriteLevel, Shared
<1> QED BY <1>1, <1>2 DEF ReadLevel, WriteLevel, Shared

LEMMA ReadRises ==
    ASSUME NEW lock \in Shared \cup GameID, NEW n \in Nat,
           n < ReadLevel(lock),
           NEW body \in Rising(n), body \in Rising(WriteLevel(lock))
    PROVE  Read(lock, body) \in Rising(n)
<1> DEFINE guard == <<"read", lock>>
<1>1. guard \in Guard /\ n < Level(guard)
    BY DEF Guard, Level
<1>2. ASSUME NEW want \in Guard, Excludes(guard, want)
      PROVE  Level(want) = WriteLevel(lock)
    BY <1>2 DEF Excludes, Level, Guard
<1>3. WriteLevel(lock) \in 1..10
    BY LevelInRange
<1>4. CASE WriteLevel(lock) <= n
    BY <1>1, <1>2, <1>3, <1>4, UnderRises DEF Read
<1>5. CASE n <= WriteLevel(lock)
    BY <1>1, <1>2, <1>3, <1>5, UnderRises DEF Read
<1> QED BY <1>3, <1>4, <1>5

LEMMA WriteRises ==
    ASSUME NEW lock \in Shared \cup GameID, NEW n \in Nat,
           n < WriteLevel(lock),
           NEW body \in Rising(n),
           body \in Rising(ReadLevel(lock)), body \in Rising(WriteLevel(lock))
    PROVE  Write(lock, body) \in Rising(n)
<1> DEFINE guard == <<"write", lock>>
<1>1. guard \in Guard /\ n < Level(guard)
    BY DEF Guard, Level
<1>2. ASSUME NEW want \in Guard, Excludes(guard, want)
      PROVE  Level(want) \in {ReadLevel(lock), WriteLevel(lock)}
    BY <1>2 DEF Excludes, Level, Guard
<1>3. ReadLevel(lock) \in 1..10 /\ WriteLevel(lock) \in 1..10
    BY LevelInRange
<1>4. PICK k \in {n, ReadLevel(lock), WriteLevel(lock)} :
          n <= k /\ ReadLevel(lock) <= k /\ WriteLevel(lock) <= k
    BY <1>3
<1>5. k \in Nat /\ body \in Rising(k)
    BY <1>3, <1>4
<1>6. \A want \in Guard : Excludes(guard, want) => Level(want) <= k
    BY <1>2, <1>4
<1> QED BY <1>1, <1>4, <1>5, <1>6, UnderRises DEF Write

LEMMA EmptyRises == \A n \in Nat : <<>> \in Rising(n)
BY DEF Rising

LEMMA TouchRises ==
    ASSUME NEW lock \in Shared \cup GameID, NEW n \in Nat,
           n < ReadLevel(lock)
    PROVE  Touch(lock) \in Rising(n)
<1>1. WriteLevel(lock) \in Nat
    BY LevelInRange
<1> QED BY <1>1, ReadRises, EmptyRises DEF Touch

LEMMA UpdateRises ==
    ASSUME NEW lock \in Shared \cup GameID, NEW n \in Nat,
           n < WriteLevel(lock)
    PROVE  Update(lock) \in Rising(n)
<1>1. ReadLevel(lock) \in Nat /\ WriteLevel(lock) \in Nat
    BY LevelInRange
<1> QED BY <1>1, WriteRises, EmptyRises DEF Update

\* What the scripts are made of: one lock for a moment.
LEMMA OneLock ==
    /\ \A g \in GameID : Touch(g) \in Rising(3) /\ Update(g) \in Rising(1)
    /\ Touch("user_seeks") \in Rising(2) /\ Update("user_seeks") \in Rising(2)
    /\ Touch("games") \in Rising(9)      /\ Update("games") \in Rising(2)
    /\ Touch("user_games") \in Rising(4) /\ Update("user_games") \in Rising(4)
    /\ Touch("conns") \in Rising(9)      /\ Update("conns") \in Rising(7)
    /\ Touch("user_conns") \in Rising(8) /\ Update("user_conns") \in Rising(8)
    /\ ReadUser \in Rising(9)            /\ Update("user") \in Rising(0)
    /\ Update("pod_queues") \in Rising(3)
    /\ Update("observer_to_games") \in Rising(5)
    /\ Update("game_to_observers") \in Rising(6)
    /\ Touch("users") \in Rising(9)      /\ Update("users") \in Rising(9)
    /\ Touch("fid_users") \in Rising(9)  /\ Update("fid_users") \in Rising(9)
    /\ Touch("subs") \in Rising(9)       /\ Update("subs") \in Rising(9)
    /\ Touch("queue") \in Rising(9)      /\ Update("queue") \in Rising(9)
    /\ Touch("user_handlers") \in Rising(9)
    /\ Update("current_game_subs") \in Rising(9)
    /\ Update("public_table_subs") \in Rising(9)
<1>1. \A g \in GameID : Touch(g) \in Rising(3) /\ Update(g) \in Rising(1)
    BY Levels, TouchRises, UpdateRises
<1>2. /\ Touch("user_seeks") \in Rising(2) /\ Update("user_seeks") \in Rising(2)
      /\ Touch("games") \in Rising(9)      /\ Update("games") \in Rising(2)
      /\ Touch("user_games") \in Rising(4) /\ Update("user_games") \in Rising(4)
    BY Levels, TouchRises, UpdateRises DEF Shared
<1>3. /\ Touch("conns") \in Rising(9)      /\ Update("conns") \in Rising(7)
      /\ Touch("user_conns") \in Rising(8) /\ Update("user_conns") \in Rising(8)
      /\ ReadUser \in Rising(9)            /\ Update("user") \in Rising(0)
    BY Levels, TouchRises, UpdateRises DEF Shared, ReadUser
<1>4. /\ Update("pod_queues") \in Rising(3)
      /\ Update("observer_to_games") \in Rising(5)
      /\ Update("game_to_observers") \in Rising(6)
    BY Levels, UpdateRises DEF Shared
<1>5. /\ Touch("users") \in Rising(9)      /\ Update("users") \in Rising(9)
      /\ Touch("fid_users") \in Rising(9)  /\ Update("fid_users") \in Rising(9)
      /\ Touch("subs") \in Rising(9)       /\ Update("subs") \in Rising(9)
    BY Levels, TouchRises, UpdateRises DEF Shared
<1>6. /\ Touch("queue") \in Rising(9)      /\ Update("queue") \in Rising(9)
      /\ Touch("user_handlers") \in Rising(9)
      /\ Update("current_game_subs") \in Rising(9)
      /\ Update("public_table_subs") \in Rising(9)
    BY Levels, TouchRises, UpdateRises DEF Shared
<1> QED BY <1>1, <1>2, <1>3, <1>4, <1>5, <1>6

LEMMA Down ==
    /\ Rising(9) \subseteq Rising(8)  /\ Rising(8) \subseteq Rising(7)
    /\ Rising(7) \subseteq Rising(6)  /\ Rising(6) \subseteq Rising(5)
    /\ Rising(5) \subseteq Rising(4)  /\ Rising(4) \subseteq Rising(3)
    /\ Rising(3) \subseteq Rising(2)  /\ Rising(2) \subseteq Rising(1)
    /\ Rising(1) \subseteq Rising(0)
BY Lower

\* A script under a guard: it must rise above the level of the guard wanted,
\* as far as the whole is to rise, and above the levels of those kept out.
LEMMA ReadScope ==
    /\ \A n \in 0..9 : \A body \in Rising(n) :
           body \in Rising(1) => Read("user", body) \in Rising(n)
    /\ \A n \in 0..3 : \A g \in GameID : \A body \in Rising(n) :
           body \in Rising(2) => Read(g, body) \in Rising(n)
    /\ \A n \in 0..9 : \A body \in Rising(n) :
           body \in Rising(3) => Read("games", body) \in Rising(n)
    /\ \A n \in 0..9 : \A body \in Rising(n) :
           body \in Rising(4) => Read("pod_queues", body) \in Rising(n)
    /\ \A n \in 0..4 : \A body \in Rising(n) :
           body \in Rising(5) => Read("user_games", body) \in Rising(n)
    /\ \A n \in 0..5 : \A body \in Rising(n) :
           body \in Rising(6) => Read("observer_to_games", body) \in Rising(n)
    /\ \A n \in 0..9 : \A body \in Rising(n) :
           body \in Rising(7) => Read("game_to_observers", body) \in Rising(n)
    /\ \A n \in 0..9 : \A body \in Rising(n) :
           body \in Rising(8) => Read("conns", body) \in Rising(n)
    /\ \A n \in 0..8 : \A body \in Rising(n) :
           body \in Rising(9) => Read("user_conns", body) \in Rising(n)
<1>1. \A n \in 0..9 : \A body \in Rising(n) :
          body \in Rising(1) => Read("user", body) \in Rising(n)
    BY Levels, ReadRises DEF Shared
<1>2. \A n \in 0..3 : \A g \in GameID : \A body \in Rising(n) :
          body \in Rising(2) => Read(g, body) \in Rising(n)
    BY Levels, ReadRises
<1>3. \A n \in 0..9 : \A body \in Rising(n) :
          body \in Rising(3) => Read("games", body) \in Rising(n)
    BY Levels, ReadRises DEF Shared
<1>4. \A n \in 0..9 : \A body \in Rising(n) :
          body \in Rising(4) => Read("pod_queues", body) \in Rising(n)
    BY Levels, ReadRises DEF Shared
<1>5. \A n \in 0..4 : \A body \in Rising(n) :
          body \in Rising(5) => Read("user_games", body) \in Rising(n)
    BY Levels, ReadRises DEF Shared
<1>6. \A n \in 0..5 : \A body \in Rising(n) :
          body \in Rising(6) => Read("observer_to_games", body) \in Rising(n)
    BY Levels, ReadRises DEF Shared
<1>7. \A n \in 0..9 : \A body \in Rising(n) :
          body \in Rising(7) => Read("game_to_observers", body) \in Rising(n)
    BY Levels, ReadRises DEF Shared
<1>8. \A n \in 0..9 : \A body \in Rising(n) :
          body \in Rising(8) => Read("conns", body) \in Rising(n)
    BY Levels, ReadRises DEF Shared
<1>9. \A n \in 0..8 : \A body \in Rising(n) :
          body \in Rising(9) => Read("user_conns", body) \in Rising(n)
    BY Levels, ReadRises DEF Shared
<1> QED
    BY <1>1, <1>2, <1>3, <1>4, <1>5, <1>6, <1>7, <1>8, <1>9

LEMMA WriteScope ==
    /\ \A n \in 0..1 : \A g \in GameID : \A body \in Rising(n) :
           body \in Rising(2) /\ body \in Rising(4)
             => Write(g, body) \in Rising(n)
    /\ \A n \in 0..2 : \A body \in Rising(n) :
           body \in Rising(3) => Write("user_seeks", body) \in Rising(n)
    /\ \A n \in 0..4 : \A body \in Rising(n) :
           body \in Rising(5) => Write("user_games", body) \in Rising(n)
    /\ \A n \in 0..5 : \A body \in Rising(n) :
           body \in Rising(6) => Write("observer_to_games", body) \in Rising(n)
    /\ \A n \in 0..8 : \A body \in Rising(n) :
           body \in Rising(9) => Write("user_conns", body) \in Rising(n)
<1>1. \A n \in 0..1 : \A g \in GameID : \A body \in Rising(n) :
          body \in Rising(2) /\ body \in Rising(4)
            => Write(g, body) \in Rising(n)
    BY Levels, WriteRises
<1>2. \A n \in 0..2 : \A body \in Rising(n) :
          body \in Rising(3) => Write("user_seeks", body) \in Rising(n)
    BY Levels, WriteRises DEF Shared
<1>3. \A n \in 0..4 : \A body \in Rising(n) :
          body \in Rising(5) => Write("user_games", body) \in Rising(n)
    BY Levels, WriteRises DEF Shared
<1>4. \A n \in 0..5 : \A body \in Rising(n) :
          body \in Rising(6) => Write("observer_to_games", body) \in Rising(n)
    BY Levels, WriteRises DEF Shared
<1>5. \A n \in 0..8 : \A body \in Rising(n) :
          body \in Rising(9) => Write("user_conns", body) \in Rising(n)
    BY Levels, WriteRises DEF Shared
<1> QED BY <1>1, <1>2, <1>3, <1>4, <1>5

----------------------------------------------------------------------------
(* connection_mgr.rs, users.rs, observers.rs *)

LEMMA ConnectionScripts ==
    /\ SendToUser \in Rising(8)
    /\ UidFromConn \in Rising(9)
    /\ UserFromConn \in Rising(9)
    /\ UserFromUid \in Rising(9)
    /\ NotifyOnlineSubs \in Rising(9)
    /\ AddConn \in Rising(7)
    /\ RemoveConn \in Rising(7)
    /\ OnlinePlayers \in Rising(8)
<1>1. SendToUser \in Rising(8)
    BY OneLock, ReadScope, Then DEF SendToUser
<1>2. UidFromConn \in Rising(9)
    BY OneLock DEF UidFromConn
<1>3. UserFromConn \in Rising(9)
    BY OneLock, ReadScope, Down DEF UserFromConn
<1>4. UserFromUid \in Rising(9)
    BY OneLock, Then DEF UserFromUid
<1>5. NotifyOnlineSubs \in Rising(9)
    BY OneLock, Then DEF NotifyOnlineSubs
<1>6. AddConn \in Rising(7)
    <2> DEFINE found == Write("user_conns", NotifyOnlineSubs)
               body  == Touch("conns") \o Update("conns") \o found
    <2>1. found \in Rising(8)
        BY <1>5, WriteScope, Down
    <2>2. body \in Rising(7)
        BY <2>1, OneLock, Then, Down
    <2>3. Read("user", body) \in Rising(7)
        BY <2>2, ReadScope, Down
    <2> QED BY <2>3, OneLock, Then, Down DEF AddConn
<1>7. RemoveConn \in Rising(7)
    <2> DEFINE body == Touch("user_handlers") \o NotifyOnlineSubs
    <2>1. body \in Rising(9)
        BY <1>5, OneLock, Then
    <2>2. Write("user_conns", body) \in Rising(8)
        BY <2>1, WriteScope, Down
    <2> QED BY <1>2, <2>2, OneLock, Then, Down DEF RemoveConn
<1>8. OnlinePlayers \in Rising(8)
    <2>1. Read("user_conns", Touch("users")) \in Rising(8)
        BY OneLock, ReadScope, Down
    <2> QED BY <2>1, OneLock, Then, Down DEF OnlinePlayers
<1> QED BY <1>1, <1>2, <1>3, <1>4, <1>5, <1>6, <1>7, <1>8

LEMMA ObserverScripts ==
    /\ Observe \in Rising(5)
    /\ Unobserve \in Rising(5)
    /\ NotifyObservers \in Rising(9)
    /\ RemoveRecipient \in Rising(5)
<1>1. Update("game_to_observers") \o Update("game_to_observers") \in Rising(6)
    BY OneLock, Then
<1>2. Observe \in Rising(5)
    BY <1>1, WriteScope, Down DEF Observe
<1>3. Unobserve \in Rising(5)
    BY OneLock, WriteScope, Down DEF Unobserve
<1>4. NotifyObservers \in Rising(9)
    BY ConnectionScripts, ReadScope, Down DEF NotifyObservers
<1>5. RemoveRecipient \in Rising(5)
    <2>1. Read("observer_to_games", Update("game_to_observers")) \in Rising(5)
        BY OneLock, ReadScope, Down
    <2> QED BY <2>1, OneLock, Then DEF RemoveRecipient
<1> QED BY <1>2, <1>3, <1>4, <1>5

----------------------------------------------------------------------------
(* games.rs, game_json.rs *)

LEMMA SmallGameScripts ==
    ASSUME NEW g \in GameID
    PROVE  /\ Get \in Rising(9)
           /\ GetUserGame \in Rising(4)
           /\ GameJson(g) \in Rising(3)
           /\ NotifyGameObservers(g) \in Rising(3)
           /\ NotifyPublicSubs(g) \in Rising(3)
           /\ GetKind(g) \in Rising(3)
           /\ EnsureGameIDMatches \in Rising(4)
           /\ SetUserGame \in Rising(4)
           /\ RmFromUserGames(g) \in Rising(3)
           /\ ObserveGames(g) \in Rising(3)
<1>1. Get \in Rising(9)
    BY OneLock DEF Get
<1>2. GetUserGame \in Rising(4)
    BY OneLock, ReadScope, Down DEF GetUserGame
<1>3. Read(g, ReadUser) \in Rising(3)
    BY OneLock, ReadScope, Down
<1>4. GameJson(g) \in Rising(3)
    BY <1>3 DEF GameJson
<1>5. NotifyGameObservers(g) \in Rising(3)
    <2>1. ReadUser \o SendToUser \o Read(g, ReadUser) \o NotifyObservers
            \in Rising(3)
        BY <1>3, OneLock, ConnectionScripts, ObserverScripts, Then, Down
    <2> QED BY <2>1, ReadScope, Down DEF NotifyGameObservers
<1>6. NotifyPublicSubs(g) \in Rising(3)
    BY <1>4, OneLock, Then, Down DEF NotifyPublicSubs
<1>7. GetKind(g) \in Rising(3)
    BY OneLock, Then DEF GetKind
<1>8. EnsureGameIDMatches \in Rising(4)
    BY OneLock, ReadScope, Down DEF EnsureGameIDMatches
<1>9. SetUserGame \in Rising(4)
    <2>1. Write("user_games", ReadUser) \in Rising(4)
        BY OneLock, WriteScope, Down
    <2> QED BY <1>8, <2>1, Then DEF SetUserGame
<1>10. RmFromUserGames(g) \in Rising(3)
    <2>1. ReadUser \o Update("user_games") \in Rising(3)
        BY OneLock, Then, Down
    <2>2. Read(g, ReadUser \o Update("user_games")) \in Rising(3)
        BY <2>1, ReadScope, Down
    <2> QED BY <2>2, ReadScope DEF RmFromUserGames
<1>11. ObserveGames(g) \in Rising(3)
    BY <1>1, <1>3, ConnectionScripts, ObserverScripts, Then, Down
       DEF ObserveGames
<1> QED
    BY <1>1, <1>2, <1>4, <1>5, <1>6, <1>7, <1>8, <1>9, <1>10, <1>11

\* The scripts of the loops' bodies have the same length for every game.
LEMMA Lengths ==
    /\ \A a, b \in Rising(0) : Len(a \o b) = Len(a) + Len(b)
    /\ \A body \in Rising(0) : \A lock : Len(Read(lock, body)) = 1 + Len(body)
    /\ \A lock : Len(Touch(lock)) = 1
    /\ \A s \in Rising(0) : Len(s) \in Nat
<1>1. \A a, b \in Rising(0) : Len(a \o b) = Len(a) + Len(b)
    BY DEF Rising
<1>2. ASSUME NEW guard, NEW body \in Rising(0)
      PROVE  Len(Under(guard, body)) = 1 + Len(body)
    <2> DEFINE first  == [want |-> guard, held |-> {}]
               inside == [i \in DOMAIN body |->
                             [body[i] EXCEPT !.held = @ \cup {guard}]]
    <2>1. body \in Seq(Above(0))
        BY DEF Rising
    <2>2. DOMAIN body = 1..Len(body) /\ Len(body) \in Nat
        BY <2>1
    <2>3. \E S : inside \in [1..Len(body) -> S]
        <3>1. inside \in [1..Len(body) -> {inside[i] : i \in 1..Len(body)}]
            BY <2>2
        <3> QED BY <3>1
    <2>4. PICK S : inside \in [1..Len(body) -> S]
        BY <2>3
    <2>5. inside \in Seq(S) /\ Len(inside) = Len(body)
        BY <2>2, <2>4
    <2>6. <<first>> \in Seq({first}) /\ Len(<<first>>) = 1
        OBVIOUS
    <2>7. <<first>> \in Seq(S \cup {first}) /\ inside \in Seq(S \cup {first})
        BY <2>5, <2>6
    <2>8. Len(<<first>> \o inside) = 1 + Len(body)
        BY <2>5, <2>6, <2>7
    <2> QED BY <2>8 DEF Under
<1>3. \A body \in Rising(0) : \A lock : Len(Read(lock, body)) = 1 + Len(body)
    BY <1>2 DEF Read
<1>4. \A lock : Len(Touch(lock)) = 1
    <2>1. <<>> \in Rising(0) /\ Len(<<>>) = 0
        BY EmptyRises
    <2>2. \A lock : Len(Read(lock, <<>>)) = 1 + 0
        BY <1>3, <2>1
    <2> QED BY <2>2 DEF Touch
<1>5. \A s \in Rising(0) : Len(s) \in Nat
    BY DEF Rising
<1> QED BY <1>1, <1>3, <1>4, <1>5

LEMMA GameLoops ==
    ASSUME GameID # {}
    PROVE  /\ IsCurrent \in Rising(3)
           /\ \A g \in GameID : NotifyCurrentSubs(g) \in Rising(3)
           /\ NotifyNextCurrent \in Rising(3)
           /\ ListJson \in Rising(3)
<1> DEFINE touches == [h \in GameID |-> Touch(h)]
           notes   == [h \in GameID |-> NotifyCurrentSubs(h)]
           jsons   == [h \in GameID |-> Touch(h) \o GameJson(h)]
<1>1. EachGame(touches) \in Rising(3)
    <2>1. \A g \in GameID : touches[g] \in Rising(3) /\ Len(touches[g]) = 1
        BY OneLock, Lengths
    <2> QED BY <2>1, EachGameRises
<1>2. IsCurrent \in Rising(3)
    BY <1>1, ReadScope DEF IsCurrent
<1>3. \A g \in GameID : NotifyCurrentSubs(g) \in Rising(3)
    <2> SUFFICES ASSUME NEW g \in GameID
                 PROVE  NotifyCurrentSubs(g) \in Rising(3)
        OBVIOUS
    <2>1. Read(g, IsCurrent) \in Rising(3)
        BY <1>2, ReadScope, Down
    <2> QED BY <2>1, SmallGameScripts, OneLock, Then, Down
            DEF NotifyCurrentSubs
<1>4. \A g \in GameID : GameJson(g) \in Rising(0) /\ Len(GameJson(g)) = 2
    <2>1. ReadUser \in Rising(0) /\ Len(ReadUser) = 1
        BY OneLock, Lengths, Down DEF ReadUser
    <2>2. \A lock : Len(Read(lock, ReadUser)) = 1 + 1
        BY <2>1, Lengths
    <2>3. \A g \in GameID : GameJson(g) \in Rising(0)
        BY SmallGameScripts, Down
    <2> QED BY <2>2, <2>3 DEF GameJson
<1>5. PICK n \in Nat : \A g \in GameID : Len(NotifyCurrentSubs(g)) = n
    <2> DEFINE n == 1 + Len(IsCurrent) + 2 + Len(Update("current_game_subs"))
    <2>1. Len(IsCurrent) \in Nat /\ Len(Update("current_game_subs")) \in Nat
        BY <1>2, OneLock, Lengths, Down
    <2>2. ASSUME NEW g \in GameID
          PROVE  Len(NotifyCurrentSubs(g)) = n
        <3>1. Read(g, IsCurrent) \in Rising(0)
              /\ Len(Read(g, IsCurrent)) = 1 + Len(IsCurrent)
            BY <1>2, ReadScope, Lengths, Down
        <3>2. GameJson(g) \in Rising(0) /\ Len(GameJson(g)) = 2
            BY <1>4
        <3>3. Update("current_game_subs") \in Rising(0)
            BY OneLock, Down
        <3>4. Read(g, IsCurrent) \o GameJson(g) \in Rising(0)
            BY <3>1, <3>2, Then
        <3>5. Len(Read(g, IsCurrent) \o GameJson(g)) = 1 + Len(IsCurrent) + 2
            BY <2>1, <3>1, <3>2, Lengths
        <3> QED BY <2>1, <3>3, <3>4, <3>5, Lengths DEF NotifyCurrentSubs
    <2> QED BY <2>1, <2>2
<1>6. EachGame(notes) \in Rising(3)
    <2>1. \A g \in GameID : notes[g] \in Rising(3) /\ Len(notes[g]) = n
        BY <1>3, <1>5
    <2> QED BY <2>1, EachGameRises
<1>7. NotifyNextCurrent \in Rising(3)
    <2>1. EachGame(touches) \o EachGame(notes) \in Rising(3)
        BY <1>1, <1>6, Then
    <2> QED BY <2>1, ReadScope DEF NotifyNextCurrent
<1>8. ListJson \in Rising(3)
    <2>1. \A g \in GameID : Touch(g) \o GameJson(g) \in Rising(3)
        BY OneLock, SmallGameScripts, Then
    <2>2. \A g \in GameID : Touch(g) \in Rising(0) /\ Len(Touch(g)) = 1
        BY OneLock, Lengths, Down
    <2>3. \A g \in GameID : Len(Touch(g) \o GameJson(g)) = 1 + 2
        BY <1>4, <2>2, Lengths
    <2>4. \A g \in GameID : jsons[g] \in Rising(3) /\ Len(jsons[g]) = 3
        BY <2>1, <2>3
    <2>5. EachGame(jsons) \in Rising(3)
        BY <2>4, EachGameRises
    <2> QED BY <2>5, ReadScope DEF ListJson
<1> QED BY <1>2, <1>3, <1>7, <1>8

LEMMA GameScripts ==
    ASSUME NEW g \in GameID
    PROVE  /\ UpdateGameObservers(g) \in Rising(3)
           /\ FormTableGames(g) \in Rising(2)
           /\ SitGames(g) \in Rising(1)
           /\ VacateGames(g) \in Rising(1)
           /\ StartGameGames(g) \in Rising(1)
           /\ StartNewGameGames(g) \in Rising(2)
           /\ RmGame(g) \in Rising(2)
           /\ MakeMoveGames(g) \in Rising(1)
           /\ OnOfflineUser(g) \in Rising(1)
<1>1. Write(g, ReadUser) \in Rising(1)
    BY OneLock, WriteScope, Down
<1>2. UpdateGameObservers(g) \in Rising(3)
    BY SmallGameScripts, GameLoops, OneLock, Then DEF UpdateGameObservers
<1>3. FormTableGames(g) \in Rising(2)
    BY SmallGameScripts, OneLock, Then, Down DEF FormTableGames
<1>4. SitGames(g) \in Rising(1)
    <2> DEFINE body == EnsureGameIDMatches \o Write(g, ReadUser)
                           \o SetUserGame \o NotifyPublicSubs(g)
                           \o GameJson(g)
    <2>1. body \in Rising(1)
        BY <1>1, SmallGameScripts, Then, Down
    <2>2. Read("user", body) \in Rising(1)
        BY <2>1, ReadScope
    <2> QED BY <2>2, SmallGameScripts, Then, Down DEF SitGames
<1>5. VacateGames(g) \in Rising(1)
    BY <1>1, SmallGameScripts, OneLock, Then, Down DEF VacateGames
<1>6. StartGameGames(g) \in Rising(1)
    BY SmallGameScripts, GameLoops, OneLock, Then, Down DEF StartGameGames
<1>7. StartNewGameGames(g) \in Rising(2)
    <2>1. Write("user_games", ReadUser) \in Rising(4)
        BY OneLock, WriteScope, Down
    <2> QED BY <2>1, SmallGameScripts, OneLock, Then, Down
            DEF StartNewGameGames
<1>8. RmGame(g) \in Rising(2)
    BY SmallGameScripts, GameLoops, OneLock, Then, Down DEF RmGame
<1>9. MakeMoveGames(g) \in Rising(1)
    BY <1>1, <1>2, SmallGameScripts, OneLock, Then, Down DEF MakeMoveGames
<1>10. OnOfflineUser(g) \in Rising(1)
    BY <1>1, SmallGameScripts, OneLock, Then, Down DEF OnOfflineUser
<1> QED
    BY <1>2, <1>3, <1>4, <1>5, <1>6, <1>7, <1>8, <1>9, <1>10

----------------------------------------------------------------------------
(* seeks.rs *)

LEMMA SeekScripts ==
    /\ CleanUsers \in Rising(2)
    /\ CleanUser \in Rising(2)
    /\ AddSeeker \in Rising(2)
    /\ FormGame \in Rising(2)
<1>1. Read("pod_queues", Update("queue")) \in Rising(4)
      /\ Read("pod_queues", Touch("queue")) \in Rising(4)
    BY OneLock, ReadScope, Down
<1>2. CleanUsers \in Rising(2)
    BY <1>1, OneLock, Then, Down DEF CleanUsers
<1>3. CleanUser \in Rising(2)
    BY <1>2, OneLock, Then DEF CleanUser
<1>4. AddSeeker \in Rising(2)
    <2> DEFINE body == Update("pod_queues")
                           \o Read("pod_queues", Update("queue"))
    <2>1. body \in Rising(3)
        BY <1>1, OneLock, Then, Down
    <2>2. Read("user", body) \in Rising(3)
        BY <2>1, ReadScope, Down
    <2>3. Write("user_seeks", Read("user", body)) \in Rising(2)
        BY <2>2, WriteScope, Down
    <2> QED BY <2>3, OneLock, Then, Down DEF AddSeeker
<1>5. FormGame \in Rising(2)
    BY <1>1, <1>2, OneLock, Then, Down DEF FormGame
<1> QED BY <1>2, <1>3, <1>4, <1>5

----------------------------------------------------------------------------
(* bughouse_server.rs: every call of the arbiter is in order. *)

LEMMA ArbiterScripts ==
    ASSUME NEW g \in GameID, NEW call \in DOMAIN ArbiterScript(g)
    PROVE  ArbiterScript(g)[call] \in Rising(0)
<1>1. Authenticate(g) \in Rising(0)
    BY ConnectionScripts, Down DEF Authenticate
<1>2. CreateGame(g) \in Rising(0)
    BY GameScripts, OneLock, Then, Down DEF CreateGame
<1>3. FormTable(g) \in Rising(0)
    BY ConnectionScripts, SmallGameScripts, GameScripts, OneLock, Then, Down
       DEF FormTable
<1>4. UpdateSeats(g) \in Rising(3)
    <2>1. ReadUser \o UpdateGameObservers(g) \in Rising(3)
        BY GameScripts, OneLock, Then, Down
    <2> QED BY <2>1, ReadScope, Down DEF UpdateSeats
<1>5. StartGame(g) \in Rising(1)
    <2>1. Read(g, GameJson(g)) \in Rising(3)
        BY SmallGameScripts, ReadScope, Down
    <2> QED BY <2>1, GameScripts, OneLock, Then, Down DEF StartGame
<1>6. Sit(g) \in Rising(0)
    BY <1>4, <1>5, ConnectionScripts, GameScripts, OneLock, Then, Down
       DEF Sit
<1>7. Vacate(g) \in Rising(0)
    <2>1. Read(g, ObserveGames(g)) \in Rising(3)
        BY SmallGameScripts, ReadScope, Down
    <2> QED BY <1>4, <2>1, ConnectionScripts, GameScripts, Then, Down
            DEF Vacate
<1>8. Read("user", SendToUser) \in Rising(0)
      /\ Read("user", SendToUser \o SendToUser) \in Rising(0)
    <2>1. SendToUser \o SendToUser \in Rising(8)
        BY ConnectionScripts, Then
    <2> QED BY <2>1, ConnectionScripts, ReadScope, Down
<1>9. SetHandle(g) \in Rising(0)
    BY <1>8, ConnectionScripts, OneLock, Then, Down DEF SetHandle
<1>10. UpdateUserRating \in Rising(0)
    BY <1>8, OneLock, Then, Down DEF UpdateUserRating
<1>11. RecordGame(g) \in Rising(0)
    <2>1. Read(g, RmGame(g)) \in Rising(2)
        BY GameScripts, ReadScope
    <2> QED BY <1>10, <2>1, SmallGameScripts, OneLock, Then, Down
            DEF RecordGame
<1>12. CheckGame(g) \in Rising(0)
    BY <1>11, SmallGameScripts, GameScripts, OneLock, Then, Down
       DEF CheckGame
<1>13. RecordMove(g) \in Rising(0)
    BY <1>11, SmallGameScripts, OneLock, Then, Down DEF RecordMove
<1>14. UserOffline(g) \in Rising(0) /\ SeekerOffline(g) \in Rising(0)
    BY GameScripts, SeekScripts, Down DEF UserOffline, SeekerOffline
<1> QED
    BY <1>1, <1>2, <1>3, <1>6, <1>7, <1>9, <1>12, <1>13, <1>14
       DEF ArbiterScript

----------------------------------------------------------------------------
(* bug_web_sock.rs: every call of a socket thread is in order. *)

LEMMA SocketScripts ==
    ASSUME NEW g \in GameID, NEW call \in DOMAIN SocketScript(g)
    PROVE  SocketScript(g)[call] \in Rising(0)
<1>1. LoggedIn(g) \in Rising(0)
    BY ConnectionScripts, OneLock, Then, Down DEF LoggedIn
<1>2. Seek(g) \in Rising(0)
    <2>1. GetUserGame \o Touch(g) \o AddSeeker \o FormGame \in Rising(2)
        BY SmallGameScripts, SeekScripts, OneLock, Then, Down
    <2>2. Read("user", GetUserGame \o Touch(g) \o AddSeeker \o FormGame)
            \in Rising(2)
        BY <2>1, ReadScope, Down
    <2> QED BY <2>2, ConnectionScripts, Then, Down DEF Seek
<1>3. SubCurrentGames(g) \in Rising(0) /\ SubPublicTables(g) \in Rising(0)
    BY GameLoops, OneLock, Then, Down DEF SubCurrentGames, SubPublicTables
<1>4. SubOnlinePlayers(g) \in Rising(0)
    BY ConnectionScripts, OneLock, Then, Down DEF SubOnlinePlayers
<1>5. GameMsg(g) \in Rising(0)
    <2>1. ReadUser \o SendToUser \o SendToUser \in Rising(3)
        BY ConnectionScripts, OneLock, Then, Down
    <2>2. Read(g, ReadUser \o SendToUser \o SendToUser) \in Rising(3)
        BY <2>1, ReadScope, Down
    <2> QED BY <2>2, ConnectionScripts, SmallGameScripts, Then, Down
            DEF GameMsg
<1>6. Move(g) \in Rising(0)
    BY ConnectionScripts, GameScripts, OneLock, Then, Down DEF Move
<1>7. Refresh(g) \in Rising(1)
    BY SmallGameScripts, OneLock, Then, Down DEF Refresh
<1>8. ObserveGame(g) \in Rising(0)
    BY <1>7, SmallGameScripts, Then, Down DEF ObserveGame
<1>9. UnobserveGame(g) \in Rising(0)
    BY ObserverScripts, Down DEF UnobserveGame
<1>10. Close(g) \in Rising(0)
    BY ConnectionScripts, ObserverScripts, OneLock, Then, Down DEF Close
<1>11. Refresh(g) \in Rising(0)
    BY <1>7, Down
<1> QED
    BY <1>1, <1>2, <1>3, <1>4, <1>5, <1>6, <1>8, <1>9, <1>10, <1>11
       DEF SocketScript

----------------------------------------------------------------------------
(* The invariant, and why it leaves no circle. *)

LEMMA InitInOrder == Init => StepsInOrder
BY EmptyRises DEF Init, StepsInOrder

LEMMA NextInOrder == StepsInOrder /\ [Next]_todo => StepsInOrder'
<1> SUFFICES ASSUME StepsInOrder, [Next]_todo  PROVE StepsInOrder'
    OBVIOUS
<1> USE DEF StepsInOrder
<1>1. ASSUME NEW t \in Thread, Advance(t)
      PROVE  StepsInOrder'
    <2>1. todo[t] \in Seq(Above(0)) /\ todo[t] # <<>>
        BY <1>1 DEF Advance, Running, Rising
    <2>2. Tail(todo[t]) \in Rising(0)
        BY <2>1 DEF Rising
    <2> QED BY <1>1, <2>2 DEF Advance
<1>2. ASSUME NEW t \in Thread, NEW g \in GameID,
             NEW call \in IF t = "arbiter" THEN ArbiterCall ELSE SocketCall,
             Begin(t, call, g)
      PROVE  StepsInOrder'
    <2>1. Script(t, call, g) \in Rising(0)
        <3>1. CASE t = "arbiter"
            <4>1. call \in DOMAIN ArbiterScript(g)
                BY <3>1 DEF ArbiterCall, ArbiterScript
            <4> QED BY <3>1, <4>1, ArbiterScripts DEF Script
        <3>2. CASE t # "arbiter"
            <4>1. call \in DOMAIN SocketScript(g)
                BY <3>2 DEF SocketCall, SocketScript
            <4> QED BY <3>2, <4>1, SocketScripts DEF Script
        <3> QED BY <3>1, <3>2
    <2> QED BY <1>2, <2>1 DEF Begin
<1>3. CASE UNCHANGED todo
    BY <1>3
<1> QED BY <1>1, <1>2, <1>3 DEF Next

\* Whoever waits for a guard of a waiting thread wants a guard of a lower level.
LEMMA WaitsForHigher ==
    ASSUME StepsInOrder, NEW t \in Thread, NEW u \in Thread,
           Running(t), Running(u), u \in Holders(t)
    PROVE  Level(Want(t)) < Level(Want(u))
<1>1. Head(todo[t]) \in Above(0) /\ Head(todo[u]) \in Above(0)
    BY DEF StepsInOrder, Rising, Running
<1>2. Want(t) \in Guard
    BY <1>1 DEF Above, Step, Want
<1>3. PICK held \in Guards(u) : Excludes(held, Want(t))
    BY DEF Holders
<1>4. held \in Head(todo[u]).held
    BY <1>3 DEF Guards
<1> QED BY <1>1, <1>2, <1>3, <1>4 DEF Above, InOrder, Want

LEMMA NobodyInACircle == StepsInOrder => NoCircleOfGuards
<1> SUFFICES ASSUME StepsInOrder,
                    NEW W \in SUBSET {t \in Thread : Running(t)},
                    W # {}, \A t \in W : Holders(t) \cap W # {}
             PROVE  FALSE
    BY DEF NoCircleOfGuards
<1> DEFINE Reaches(n) == \E t \in W : n <= Level(Want(t))
<1>1. \A t \in W : Level(Want(t)) \in 1..10
    <2> SUFFICES ASSUME NEW t \in W  PROVE Level(Want(t)) \in 1..10
        OBVIOUS
    <2>1. t \in Thread /\ Running(t)
        OBVIOUS
    <2>2. Head(todo[t]) \in Above(0)
        BY <2>1 DEF StepsInOrder, Rising, Running
    <2>3. Want(t) \in Guard
        BY <2>2 DEF Above, Step, Want
    <2> QED BY <2>3, LevelInRange
<1>2. \A t \in W : \E u \in W : Level(Want(t)) < Level(Want(u))
    <2> SUFFICES ASSUME NEW t \in W
                 PROVE  \E u \in W : Level(Want(t)) < Level(Want(u))
        OBVIOUS
    <2>1. PICK u \in W : u \in Holders(t)
        OBVIOUS
    <2> QED BY <2>1, WaitsForHigher
<1>3. ASSUME NEW n \in Nat, Reaches(n)
      PROVE  Reaches(n + 1)
    <2>1. PICK t \in W : n <= Level(Want(t))
        BY <1>3
    <2>2. PICK u \in W : Level(Want(t)) < Level(Want(u))
        BY <1>2
    <2> QED BY <1>1, <2>1, <2>2
<1>4. Reaches(0)
    BY <1>1
<1> HIDE DEF Reaches
<1>5. Reaches(1) /\ Reaches(2) /\ Reaches(3) /\ Reaches(4)
    BY <1>3, <1>4
<1>6. Reaches(5) /\ Reaches(6) /\ Reaches(7) /\ Reaches(8)
    BY <1>3, <1>5
<1>7. Reaches(9) /\ Reaches(10) /\ Reaches(11)
    BY <1>3, <1>6
<1> QED BY <1>1, <1>7 DEF Reaches

\* No threads wait in a circle for guards held by each other, for any number
\* of sockets and games: the nested guards of games.rs, connection_mgr.rs and
\* seeks.rs alone never stop the server, whoever a lock prefers.
THEOREM NoCircleOfGuardsTheorem == Spec => []NoCircleOfGuards
<1>1. StepsInOrder => NoCircleOfGuards
    BY NobodyInACircle
<1> QED BY <1>1, InitInOrder, NextInOrder, PTL DEF Spec

\* The same as what the scheduler sees: while calls run, one of their threads
\* wants a lock of which nobody holds a guard against it. It can go on unless
\* the lock makes it wait for a writer that waits.
SomebodyIsFree ==
    (\E t \in Thread : Running(t))
        => \E t \in Thread : Running(t) /\ Holders(t) = {}

\* As long as any call of games.rs, connection_mgr.rs or seeks.rs is under
\* way, some thread is kept from its next lock by no guard, for any number of
\* sockets and games; only a waiting writer may still be let go first.
THEOREM SomebodyIsFreeTheorem == Spec => []SomebodyIsFree
<1>1. ASSUME NoCircleOfGuards
      PROVE  SomebodyIsFree
    <2> DEFINE W == {t \in Thread : Running(t)}
    <2>1. \A t \in W : Holders(t) \subseteq W
        BY DEF Holders, Guards
    <2>2. W # {} => \E t \in W : Holders(t) \cap W = {}
        BY <1>1 DEF NoCircleOfGuards
    <2> QED BY <2>1, <2>2 DEF SomebodyIsFree
<1> QED BY <1>1, NoCircleOfGuardsTheorem, PTL
=============================================================================
