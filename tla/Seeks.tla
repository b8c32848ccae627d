-------------------------------- MODULE Seeks --------------------------------
(***************************************************************************)
(* The seek queues (seeks/seeks.rs, seeks/seek_pod.rs): who waits for a    *)
(* game, and the pods, the groups of up to PodSize seekers that could      *)
(* still become one.                                                       *)
(*                                                                         *)
(* Socket threads run BughouseServer::add_seek and the arbiter runs        *)
(* SeekUserHandler, all at once.  user_seeks and each queue of pods have   *)
(* their own locks, and a call gives them up between its steps, so one     *)
(* action here is one critical section.  All seeks carry the default       *)
(* constraint, which every rating passes: add_default_seeker is the only   *)
(* caller of add_seeker.                                                   *)
(***************************************************************************)
EXTENDS Naturals, FiniteSets, SequencesExt

CONSTANTS
  User,
  Pool,      \* the SeekPools: time control and rated flag
  Thread,    \* the threads that call into Seeks
  Arbiter,   \* the one that hears of users going offline, and adds nobody
  PodSize,   \* players of a game; 4 in the code
  NoPool,    \* no entry in user_seeks
  MaxSeeks,  \* bound on the seeks of one user
  Patient    \* users seek again only when no call is removing them

ASSUME SeeksAssumption ==
  /\ Arbiter \in Thread
  /\ IsFiniteSet(Thread)
  /\ NoPool \notin Pool
  /\ PodSize \in Nat \ {0}
  /\ MaxSeeks \in Nat
  /\ Patient \in BOOLEAN

VARIABLES
  userSeeks,  \* Seeks.user_seeks: the pool a user waits in
  pods,       \* Seeks.pod_queues: of each pool, the pods, oldest first; a pod
              \* is the sequence of its users, newest first
  job,        \* what each thread is doing
  games,      \* the lineups sent to the arbiter in CreateGame messages
  seeks       \* how often each user was accepted as a seeker

vars == <<userSeeks, pods, job, games, seeks>>

\* A thread that has added a seeker looks for a full pod; to form a game or
\* to forget a user it first removes uids from user_seeks, then their pods.
JobState ==
  [stage : {"idle", "find", "cleanSeeks", "cleanPods"}, pool : Pool \cup {NoPool},
   uids : SUBSET User, pod : Seq(User)]

Idle == [stage |-> "idle", pool |-> NoPool, uids |-> {}, pod |-> <<>>]

\* Mutant: off by one.
IsOverfull(pod) == Len(pod) > PodSize

IsFull(pod) == Len(pod) = PodSize

\* u is about to be removed by a call that has begun.
Leaving(u) == \E t \in Thread : u \in job[t].uids

Init ==
  /\ userSeeks = [u \in User |-> NoPool]
  /\ pods = [p \in Pool |-> <<>>]
  /\ job = [t \in Thread |-> Idle]
  /\ games = <<>>
  /\ seeks = [u \in User |-> 0]

-----------------------------------------------------------------------------
\* The members of a queue at the places in I, in their order: SelectSeq, told
\* without recursion, for the sake of the proofs.
At(queue, I) ==
  [k \in 1 .. Cardinality(I) |->
     queue[CHOOSE i \in I : Cardinality({j \in I : j <= i}) = k]]

\* SeekPod::form_new_pod for every pod of a queue that is not full.
NewPods(queue, u) ==
  LET open == At(queue, {i \in DOMAIN queue : ~IsFull(queue[i])})
  IN  [i \in DOMAIN open |-> <<u>> \o open[i]]

\* Mutant: the seeker's own pod is left out.
AddNewPodsNoSingle(queue, u) == queue \o NewPods(queue, u)

\* add_new_pods.
AddNewPods(queue, u) == queue \o NewPods(queue, u) \o <<<<u>>>>

\* add_seeker: the lock of user_seeks is held from the test for an earlier
\* seek until the pods are in the queue.
AddSeeker(t, u, p) ==
  /\ t # Arbiter
  /\ job[t].stage = "idle"
  /\ seeks[u] < MaxSeeks
  /\ Patient => ~Leaving(u)
  /\ userSeeks[u] = NoPool
  /\ userSeeks' = [userSeeks EXCEPT ![u] = p]
  /\ pods' = [pods EXCEPT ![p] = AddNewPods(@, u)]
  /\ seeks' = [seeks EXCEPT ![u] = @ + 1]
  /\ job' = [job EXCEPT ![t] = [Idle EXCEPT !.stage = "find", !.pool = p]]
  /\ UNCHANGED games

\* get_first_pod: the oldest full pod of the pool.
GetFirstPod(t) ==
  LET p == job[t].pool
      full == {i \in DOMAIN pods[p] : IsFull(pods[p][i])}
  IN  /\ job[t].stage = "find"
      /\ \/ /\ full = {}
            /\ job' = [job EXCEPT ![t] = Idle]
         \/ \E i \in full :
              /\ \A j \in full : i <= j
              /\ job' = [job EXCEPT ![t] =
                          [stage |-> "cleanSeeks", pool |-> p,
                           uids |-> ToSet(pods[p][i]), pod |-> pods[p][i]]]
      /\ UNCHANGED <<userSeeks, pods, games, seeks>>

\* clean_user up to get_user_pool: u's last connection closed.
CleanUser(t, u) ==
  /\ t = Arbiter
  /\ job[t].stage = "idle"
  /\ userSeeks[u] # NoPool
  /\ job' = [job EXCEPT ![t] = [stage |-> "cleanSeeks", pool |-> userSeeks[u],
                                uids |-> {u}, pod |-> <<>>]]
  /\ UNCHANGED <<userSeeks, pods, games, seeks>>

\* clean_users, first half: the entries of user_seeks, whatever their pool.
CleanSeeks(t) ==
  /\ job[t].stage = "cleanSeeks"
  /\ userSeeks' = [u \in User |->
                     IF u \in job[t].uids THEN NoPool ELSE userSeeks[u]]
  /\ job' = [job EXCEPT ![t].stage = "cleanPods"]
  /\ UNCHANGED <<pods, games, seeks>>

Retained(queue, uids) ==
  At(queue, {i \in DOMAIN queue : ToSet(queue[i]) \cap uids = {}})

\* Mutant: only the pod itself is dropped.
CleanOnePod(t) ==
  LET p == job[t].pool IN
  /\ job[t].stage = "cleanPods"
  /\ pods' = [pods EXCEPT ![p] =
                At(@, {i \in DOMAIN @ : ToSet(@[i]) # job[t].uids})]
  /\ job' = [job EXCEPT ![t] = Idle]
  /\ games' = IF job[t].pod # <<>> THEN Append(games, job[t].pod) ELSE games
  /\ UNCHANGED <<userSeeks, seeks>>

\* clean_users, second half: every pod with one of the users.  form_game
\* then looks the users up, who are all cached, and add_seek sends the
\* lineup; the arbiter's mailbox may be full.
CleanPods(t) ==
  LET p == job[t].pool IN
  /\ job[t].stage = "cleanPods"
  /\ pods' = [pods EXCEPT ![p] = Retained(@, job[t].uids)]
  /\ job' = [job EXCEPT ![t] = Idle]
  /\ games' \in IF job[t].pod # <<>>
                  THEN {games, Append(games, job[t].pod)} ELSE {games}
  /\ UNCHANGED <<userSeeks, seeks>>

ThreadStep(t) ==
  \/ GetFirstPod(t)
  \/ CleanSeeks(t)
  \/ CleanPods(t)

Next ==
  \/ \E t \in Thread, u \in User, p \in Pool : AddSeeker(t, u, p)
  \/ \E t \in Thread, u \in User : CleanUser(t, u)
  \/ \E t \in Thread : ThreadStep(t)

Spec == Init /\ [][Next]_vars

-----------------------------------------------------------------------------
(* Properties *)

Waiting(p) == {u \in User : userSeeks[u] = p}

AllIdle == \A t \in Thread : job[t] = Idle

\* Type invariant; no pod outgrows a game.
TypeOK ==
  /\ userSeeks \in [User -> Pool \cup {NoPool}]
  /\ pods \in [Pool -> Seq(Seq(User))]
  /\ \A p \in Pool : \A pod \in ToSet(pods[p]) : Len(pod) \in 1 .. PodSize
  /\ job \in [Thread -> JobState]
  /\ \A t \in Thread : /\ job[t].stage = "idle" => job[t] = Idle
                       /\ job[t].stage # "idle" => job[t].pool \in Pool
  /\ games \in Seq(Seq(User))
  /\ seeks \in [User -> 0 .. MaxSeeks]

\* Once the calls are through, and if nobody seeks while a call is removing
\* him (Patient), a queue holds every group of the pool's seekers exactly once,
\* and too few of them wait for a game: no match is missed, although form_game
\* examines only the first full pod, which another call may be about to use,
\* and clean_users throws away every group that a player was part of.  It takes
\* at most two threads that add seekers: of three that find the same pod, none
\* looks at the next.
QueueIsComplete ==
  AllIdle =>
    \A p \in Pool :
      /\ Cardinality(Waiting(p)) < PodSize
      /\ {ToSet(pod) : pod \in ToSet(pods[p])} = (SUBSET Waiting(p)) \ {{}}
      /\ Len(pods[p]) = Cardinality(SUBSET Waiting(p)) - 1

\* Each thread may find a pod with u before the first of them has removed
\* him, but none later: a seek leads to no more games than there are
\* threads, to one if calls do not overlap.
MatchesPerSeek ==
  \A u \in User :
    Cardinality({i \in DOMAIN games : u \in ToSet(games[i])})
      <= seeks[u] * Cardinality(Thread)

\* As long as nobody seeks while a call is removing him (Patient), a pod
\* names only users who wait in its pool and users whom some call is just
\* about to strike from it, however else calls overlap: nobody is matched
\* from a pod that his going offline, or his game, has left behind.  Without
\* the condition it is false: clean_user may strike a seek of another pool
\* than the one it has read.
PodUsersWait ==
  \A p \in Pool : \A pod \in ToSet(pods[p]) : \A u \in ToSet(pod) :
    \/ userSeeks[u] = p
    \/ \E t \in Thread : /\ job[t].stage = "cleanPods"
                         /\ job[t].pool = p
                         /\ u \in job[t].uids

\* "User already seeking" (error.rs:54), a player is told whose seek is refused:
\* whoever has an entry in user_seeks has a pod of his own in that queue.  The
\* proofs use it where nobody seeks while a call is removing him.  Of one who
\* does, between the two halves of clean_users, it is false.
SeekerHasPod ==
  \A u \in User : userSeeks[u] # NoPool => <<u>> \in ToSet(pods[userSeeks[u]])
=============================================================================
