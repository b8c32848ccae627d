----------------------------- MODULE SeeksProofs -----------------------------
(***************************************************************************)
(* Proofs about Seeks, for every set of users, pools and threads and every *)
(* size of a game.                                                         *)
(***************************************************************************)
EXTENDS Seeks, FiniteSetTheorems, TLAPS

-----------------------------------------------------------------------------
(* Selecting members of a queue *)

\* The place that i takes among the numbers of I.
Rank(I) == [i \in I |-> Cardinality({j \in I : j <= i})]

\* Every place from 1 to the size of I is taken by exactly one number of I.
LEMMA RankIsBijection ==
  ASSUME NEW n \in Nat, NEW I \in SUBSET (1 .. n)
  PROVE  /\ IsFiniteSet(I) /\ Cardinality(I) \in Nat
         /\ Rank(I) \in Injection(I, 1 .. Cardinality(I))
         /\ Rank(I) \in Surjection(I, 1 .. Cardinality(I))
<1>1. IsFiniteSet(I) /\ Cardinality(I) \in Nat
  <2>1. IsFiniteSet(1 .. n)
    BY FS_Interval
  <2> QED
    BY <2>1, FS_Subset, FS_CardinalityType
<1> DEFINE Upto(i) == {j \in I : j <= i}
<1>2. ASSUME NEW i \in I
      PROVE  /\ IsFiniteSet(Upto(i)) /\ Cardinality(Upto(i)) \in Nat
             /\ Cardinality(Upto(i)) \in 1 .. Cardinality(I)
  <2>1. Upto(i) \in SUBSET I
    OBVIOUS
  <2>2. IsFiniteSet(Upto(i)) /\ Cardinality(Upto(i)) <= Cardinality(I)
    BY <1>1, <2>1, FS_Subset
  <2>3. Cardinality(Upto(i)) \in Nat
    BY <2>2, FS_CardinalityType
  <2>4. i \in Upto(i)
    OBVIOUS
  <2>5. Cardinality(Upto(i)) # 0
    BY <2>2, <2>4, FS_EmptySet
  <2> QED
    BY <1>1, <2>2, <2>3, <2>5
<1>3. ASSUME NEW i \in I, NEW k \in I, i < k
      PROVE  Cardinality(Upto(i)) # Cardinality(Upto(k))
  <2>1. \A j \in I : j \in Int
    OBVIOUS
  <2>2. \A j \in I : j <= i => j <= k
    BY <1>3, <2>1
  <2>3. Upto(i) \in SUBSET Upto(k)
    BY <2>2
  <2>4. k <= k /\ ~(k <= i)
    BY <1>3, <2>1
  <2>5. k \in Upto(k) /\ k \notin Upto(i)
    BY <2>4
  <2> QED
    BY <1>2, <2>3, <2>5, FS_Subset
<1>4. Rank(I) = [i \in I |-> Cardinality(Upto(i))]
  BY DEF Rank
<1> HIDE DEF Upto
<1>5. Rank(I) \in [I -> 1 .. Cardinality(I)]
  BY <1>2, <1>4
<1>6. \A i, k \in I : Rank(I)[i] = Rank(I)[k] => i = k
  BY <1>3, <1>4
<1>7. Rank(I) \in Injection(I, 1 .. Cardinality(I))
  BY <1>5, <1>6 DEF Injection, IsInjective
<1>8. IsFiniteSet(1 .. Cardinality(I)) /\ Cardinality(1 .. Cardinality(I)) = Cardinality(I)
  BY <1>1, FS_Interval
<1>9. Rank(I) \in Surjection(I, 1 .. Cardinality(I))
  BY <1>7, <1>8, FS_Injection
<1> QED
  BY <1>1, <1>7, <1>9

\* What is selected is in the queue at the places that were asked for.
LEMMA AtSelects ==
  ASSUME NEW S, NEW queue \in Seq(S), NEW I \in SUBSET DOMAIN queue
  PROVE  /\ At(queue, I) \in Seq(S)
         /\ ToSet(At(queue, I)) = {queue[i] : i \in I}
<1> DEFINE n == Cardinality(I)
           Pick(k) == CHOOSE i \in I : Cardinality({j \in I : j <= i}) = k
<1>1. DOMAIN queue = 1 .. Len(queue) /\ Len(queue) \in Nat
  OBVIOUS
<1>2. /\ IsFiniteSet(I) /\ n \in Nat
      /\ Rank(I) \in Injection(I, 1 .. n) /\ Rank(I) \in Surjection(I, 1 .. n)
  BY <1>1, RankIsBijection
<1>3. \A i \in I : Rank(I)[i] = Cardinality({j \in I : j <= i})
  BY DEF Rank
<1>4. ASSUME NEW k \in 1 .. n PROVE Pick(k) \in I
  <2>1. PICK i \in I : Rank(I)[i] = k
    BY <1>2 DEF Surjection
  <2> QED
    BY <1>3, <2>1
<1>5. ASSUME NEW i \in I PROVE \E k \in 1 .. n : Pick(k) = i
  <2>1. Rank(I)[i] \in 1 .. n
    BY <1>2 DEF Injection
  <2>2. PICK k \in 1 .. n : k = Rank(I)[i]
    BY <2>1
  <2>3. Pick(k) \in I /\ Cardinality({j \in I : j <= Pick(k)}) = k
    BY <1>3, <2>2
  <2>4. Rank(I)[Pick(k)] = Rank(I)[i]
    BY <1>3, <2>2, <2>3
  <2>5. Pick(k) = i
    BY <1>2, <2>3, <2>4 DEF Injection, IsInjective
  <2> QED
    BY <2>5
<1>6. At(queue, I) = [k \in 1 .. n |-> queue[Pick(k)]]
  BY DEF At
<1> HIDE DEF Pick, n
<1>7. \A i \in I : queue[i] \in S
  BY <1>1
<1>8. At(queue, I) \in Seq(S)
  BY <1>2, <1>4, <1>6, <1>7
<1>9. DOMAIN At(queue, I) = 1 .. n
  BY <1>6
<1>10. ToSet(At(queue, I)) = {queue[i] : i \in I}
  BY <1>4, <1>5, <1>6, <1>9 DEF ToSet
<1> QED
  BY <1>8, <1>10

\* A new pod is one that was open, with the seeker at its head.
LEMMA NewPodIs ==
  ASSUME NEW pod \in Seq(User), NEW u \in User
  PROVE  /\ <<u>> \o pod \in Seq(User)
         /\ Len(<<u>> \o pod) = Len(pod) + 1
         /\ ToSet(<<u>> \o pod) = {u} \cup ToSet(pod)
<1> DEFINE new == <<u>> \o pod
<1>1. /\ new \in Seq(User) /\ Len(new) = Len(pod) + 1 /\ Len(pod) \in Nat
      /\ new[1] = u /\ \A i \in 1 .. Len(pod) : new[i + 1] = pod[i]
  OBVIOUS
<1>2. DOMAIN new = 1 .. Len(new) /\ DOMAIN pod = 1 .. Len(pod)
  BY <1>1
<1> HIDE DEF new
<1>3. ToSet(new) \subseteq {u} \cup ToSet(pod)
  <2> SUFFICES ASSUME NEW i \in 1 .. Len(new) PROVE new[i] \in {u} \cup ToSet(pod)
    BY <1>2 DEF ToSet
  <2>1. CASE i = 1
    BY <1>1, <2>1
  <2>2. CASE i # 1
    <3>1. i - 1 \in 1 .. Len(pod) /\ (i - 1) + 1 = i
      BY <1>1, <2>2
    <3> QED
      BY <1>1, <1>2, <3>1 DEF ToSet
  <2> QED
    BY <2>1, <2>2
<1>4. {u} \cup ToSet(pod) \subseteq ToSet(new)
  <2>1. u \in ToSet(new)
    BY <1>1, <1>2 DEF ToSet
  <2>2. ASSUME NEW i \in 1 .. Len(pod) PROVE pod[i] \in ToSet(new)
    <3>1. i + 1 \in 1 .. Len(new)
      BY <1>1
    <3> QED
      BY <1>1, <1>2, <3>1 DEF ToSet
  <2> QED
    BY <1>2, <2>1, <2>2 DEF ToSet
<1> QED
  BY <1>1, <1>3, <1>4 DEF new

\* The members of two sequences in a row.
LEMMA ToSetConcat ==
  ASSUME NEW S, NEW q \in Seq(S), NEW r \in Seq(S)
  PROVE  q \o r \in Seq(S) /\ ToSet(q \o r) = ToSet(q) \cup ToSet(r)
<1> DEFINE c == q \o r
<1>1. /\ c \in Seq(S) /\ Len(c) = Len(q) + Len(r) /\ Len(q) \in Nat /\ Len(r) \in Nat
      /\ \A i \in 1 .. Len(q) : c[i] = q[i]
      /\ \A i \in 1 .. Len(r) : c[Len(q) + i] = r[i]
  OBVIOUS
<1>2. /\ DOMAIN c = 1 .. Len(c)
      /\ DOMAIN q = 1 .. Len(q) /\ DOMAIN r = 1 .. Len(r)
  BY <1>1
<1> HIDE DEF c
<1>3. ToSet(c) \subseteq ToSet(q) \cup ToSet(r)
  <2> SUFFICES ASSUME NEW i \in 1 .. Len(c) PROVE c[i] \in ToSet(q) \cup ToSet(r)
    BY <1>2 DEF ToSet
  <2>1. CASE i \in 1 .. Len(q)
    BY <1>1, <1>2, <2>1 DEF ToSet
  <2>2. CASE i \notin 1 .. Len(q)
    <3>1. i - Len(q) \in 1 .. Len(r) /\ Len(q) + (i - Len(q)) = i
      BY <1>1, <2>2
    <3> QED
      BY <1>1, <1>2, <3>1 DEF ToSet
  <2> QED
    BY <2>1, <2>2
<1>4. ToSet(q) \subseteq ToSet(c)
  <2>1. \A i \in 1 .. Len(q) : i \in 1 .. Len(c) /\ c[i] = q[i]
    BY <1>1
  <2> QED
    BY <1>2, <2>1 DEF ToSet
<1>5. ToSet(r) \subseteq ToSet(c)
  <2>1. \A i \in 1 .. Len(r) : Len(q) + i \in 1 .. Len(c) /\ c[Len(q) + i] = r[i]
    BY <1>1
  <2> QED
    BY <1>2, <2>1 DEF ToSet
<1> QED
  BY <1>1, <1>3, <1>4, <1>5 DEF c

\* What add_new_pods makes of a queue.
LEMMA AddedPods ==
  ASSUME NEW queue \in Seq(Seq(User)), NEW u \in User
  PROVE  /\ AddNewPods(queue, u) \in Seq(Seq(User))
         /\ ToSet(AddNewPods(queue, u)) =
              ToSet(queue) \cup {<<u>>}
                \cup {<<u>> \o pod : pod \in {q \in ToSet(queue) : ~IsFull(q)}}
<1> DEFINE I == {i \in DOMAIN queue : ~IsFull(queue[i])}
           open == At(queue, I)
           new == [i \in DOMAIN open |-> <<u>> \o open[i]]
<1>1. open \in Seq(Seq(User)) /\ ToSet(open) = {queue[i] : i \in I}
  BY AtSelects
<1>2. ToSet(open) = {q \in ToSet(queue) : ~IsFull(q)}
  BY <1>1 DEF ToSet
<1>3. NewPods(queue, u) = new
  BY DEF NewPods
<1> HIDE DEF open
<1>4. DOMAIN open = 1 .. Len(open) /\ Len(open) \in Nat
  BY <1>1
<1>5. \A i \in 1 .. Len(open) : <<u>> \o open[i] \in Seq(User)
  BY <1>1, NewPodIs
<1>6. new \in Seq(Seq(User))
  BY <1>4, <1>5
<1>7. ToSet(new) = {<<u>> \o pod : pod \in ToSet(open)}
  BY <1>4 DEF ToSet
<1> HIDE DEF new
<1>8. /\ queue \o new \in Seq(Seq(User))
      /\ ToSet(queue \o new) = ToSet(queue) \cup ToSet(new)
  BY <1>6, ToSetConcat
<1>9. <<<<u>>>> \in Seq(Seq(User)) /\ ToSet(<<<<u>>>>) = {<<u>>}
  BY DEF ToSet
<1>10. PICK c \in Seq(Seq(User)), last \in Seq(Seq(User)) :
         c = queue \o new /\ last = <<<<u>>>>
  BY <1>8, <1>9
<1>11. c \o last \in Seq(Seq(User)) /\ ToSet(c \o last) = ToSet(c) \cup ToSet(last)
  BY ToSetConcat
<1>12. AddNewPods(queue, u) = c \o last
  BY <1>3, <1>10 DEF AddNewPods
<1> QED
  BY <1>2, <1>7, <1>8, <1>9, <1>10, <1>11, <1>12

\* What clean_users leaves of a queue.
LEMMA RetainedPods ==
  ASSUME NEW queue \in Seq(Seq(User)), NEW uids
  PROVE  /\ Retained(queue, uids) \in Seq(Seq(User))
         /\ ToSet(Retained(queue, uids)) =
              {pod \in ToSet(queue) : ToSet(pod) \cap uids = {}}
<1> DEFINE I == {i \in DOMAIN queue : ToSet(queue[i]) \cap uids = {}}
<1>1. /\ At(queue, I) \in Seq(Seq(User))
      /\ ToSet(At(queue, I)) = {queue[i] : i \in I}
  BY AtSelects
<1>2. {queue[i] : i \in I} = {pod \in ToSet(queue) : ToSet(pod) \cap uids = {}}
  BY DEF ToSet
<1> QED
  BY <1>1, <1>2 DEF Retained

-----------------------------------------------------------------------------
(* Types *)

\* A pod of a queue is a sequence of users.
LEMMA PodIsUsers ==
  ASSUME TypeOK, NEW p \in Pool, NEW pod \in ToSet(pods[p])
  PROVE  pod \in Seq(User) /\ ToSet(pod) \subseteq User
<1>1. pods[p] \in Seq(Seq(User))
  BY DEF TypeOK
<1>2. pod \in Seq(User)
  BY <1>1 DEF ToSet
<1> QED
  BY <1>2 DEF ToSet

\* A thread that does nothing.
LEMMA IdleJob == Idle \in JobState /\ Idle.stage = "idle" /\ Idle.uids = {} /\ Idle.pod = <<>>
BY DEF Idle, JobState

\* What a thread does next, once it has found a full pod or none.
LEMMA FirstPodJob ==
  ASSUME TypeOK, NEW t \in Thread, GetFirstPod(t)
  PROVE  /\ job[t].pool \in Pool
         /\ \/ job' = [job EXCEPT ![t] = Idle]
            \/ \E pod \in ToSet(pods[job[t].pool]) :
                 /\ IsFull(pod)
                 /\ pod \in Seq(User) /\ ToSet(pod) \subseteq User
                 /\ job' = [job EXCEPT ![t] =
                             [stage |-> "cleanSeeks", pool |-> job[t].pool,
                              uids |-> ToSet(pod), pod |-> pod]]
<1>1. job[t].pool \in Pool
  BY DEF GetFirstPod, TypeOK
<1>2. ASSUME NEW i \in DOMAIN pods[job[t].pool]
      PROVE  /\ pods[job[t].pool][i] \in ToSet(pods[job[t].pool])
             /\ pods[job[t].pool][i] \in Seq(User)
             /\ ToSet(pods[job[t].pool][i]) \subseteq User
  <2>1. pods[job[t].pool][i] \in ToSet(pods[job[t].pool])
    BY DEF ToSet
  <2> QED
    BY <1>1, <2>1, PodIsUsers
<1> QED
  BY <1>1, <1>2 DEF GetFirstPod

\* Every step keeps the types; a new pod is one longer than a pod that was
\* not full.
LEMMA NextTypeOK == TypeOK /\ [Next]_vars => TypeOK'
<1> SUFFICES ASSUME TypeOK, [Next]_vars PROVE TypeOK'
  OBVIOUS
<1>0. /\ userSeeks \in [User -> Pool \cup {NoPool}]
      /\ pods \in [Pool -> Seq(Seq(User))]
      /\ \A p \in Pool : \A pod \in ToSet(pods[p]) : Len(pod) \in 1 .. PodSize
      /\ job \in [Thread -> JobState]
      /\ \A t \in Thread : /\ job[t].stage = "idle" => job[t] = Idle
                           /\ job[t].stage # "idle" => job[t].pool \in Pool
      /\ games \in Seq(Seq(User))
      /\ seeks \in [User -> 0 .. MaxSeeks]
  BY DEF TypeOK
\* A thread that takes on a job of some pool, or none.
<1>1. ASSUME NEW t \in Thread, NEW x \in JobState,
             x.stage = "idle" => x = Idle, x.stage # "idle" => x.pool \in Pool,
             job' = [job EXCEPT ![t] = x]
      PROVE  /\ job' \in [Thread -> JobState]
             /\ \A o \in Thread : /\ job'[o].stage = "idle" => job'[o] = Idle
                                  /\ job'[o].stage # "idle" => job'[o].pool \in Pool
  BY <1>0, <1>1
<1>2. ASSUME NEW t \in Thread, NEW u \in User, NEW p \in Pool, AddSeeker(t, u, p)
      PROVE  TypeOK'
  <2>1. PICK x : x = [Idle EXCEPT !.stage = "find", !.pool = p]
    OBVIOUS
  <2>2. x \in JobState /\ x.stage = "find" /\ x.pool = p
    BY <2>1, IdleJob DEF JobState
  <2>3. /\ job' \in [Thread -> JobState]
        /\ \A o \in Thread : /\ job'[o].stage = "idle" => job'[o] = Idle
                             /\ job'[o].stage # "idle" => job'[o].pool \in Pool
    BY <1>1, <1>2, <2>1, <2>2 DEF AddSeeker
  <2>4. pods[p] \in Seq(Seq(User))
    BY <1>0
  <2>5. pods' = [pods EXCEPT ![p] = AddNewPods(pods[p], u)]
    BY <1>2 DEF AddSeeker
  <2>6. pods' \in [Pool -> Seq(Seq(User))]
    BY <1>0, <2>4, <2>5, AddedPods
  <2>7. \A pod \in ToSet(AddNewPods(pods[p], u)) : Len(pod) \in 1 .. PodSize
    <3>1. ASSUME NEW q \in ToSet(pods[p]), ~IsFull(q)
          PROVE  Len(<<u>> \o q) \in 1 .. PodSize
      <4>1. Len(q) \in 1 .. PodSize /\ Len(<<u>> \o q) = Len(q) + 1
        BY <1>0, PodIsUsers, NewPodIs
      <4> QED
        BY <3>1, <4>1, SeeksAssumption DEF IsFull
    <3>2. Len(<<u>>) \in 1 .. PodSize
      BY SeeksAssumption
    <3>3. ToSet(AddNewPods(pods[p], u)) =
            ToSet(pods[p]) \cup {<<u>>}
              \cup {<<u>> \o pod : pod \in {q \in ToSet(pods[p]) : ~IsFull(q)}}
      BY <2>4, AddedPods
    <3>4. \A pod \in ToSet(pods[p]) : Len(pod) \in 1 .. PodSize
      BY <1>0
    <3> QED
      BY <3>1, <3>2, <3>3, <3>4
  <2>8. \A r \in Pool : \A pod \in ToSet(pods'[r]) : Len(pod) \in 1 .. PodSize
    BY <1>0, <2>5, <2>7
  <2>9. userSeeks' \in [User -> Pool \cup {NoPool}]
    BY <1>0, <1>2 DEF AddSeeker
  <2>10. seeks' \in [User -> 0 .. MaxSeeks]
    <3>1. seeks[u] \in 0 .. MaxSeeks /\ seeks[u] < MaxSeeks
      BY <1>0, <1>2 DEF AddSeeker
    <3>2. seeks[u] + 1 \in 0 .. MaxSeeks
      BY <3>1, SeeksAssumption
    <3> QED
      BY <1>0, <1>2, <3>2 DEF AddSeeker
  <2>11. games' \in Seq(Seq(User))
    BY <1>0, <1>2 DEF AddSeeker
  <2> QED
    BY <2>3, <2>6, <2>8, <2>9, <2>10, <2>11 DEF TypeOK
<1>3. ASSUME NEW t \in Thread, GetFirstPod(t) PROVE TypeOK'
  <2>1. UNCHANGED <<userSeeks, pods, games, seeks>>
    BY <1>3 DEF GetFirstPod
  <2>2. CASE job' = [job EXCEPT ![t] = Idle]
    BY <1>0, <1>1, <2>1, <2>2, IdleJob DEF TypeOK
  <2>3. ASSUME NEW pod \in Seq(User), ToSet(pod) \subseteq User,
               job[t].pool \in Pool,
               job' = [job EXCEPT ![t] =
                        [stage |-> "cleanSeeks", pool |-> job[t].pool,
                         uids |-> ToSet(pod), pod |-> pod]]
        PROVE  TypeOK'
    <3>1. PICK x : x = [stage |-> "cleanSeeks", pool |-> job[t].pool,
                        uids |-> ToSet(pod), pod |-> pod]
      OBVIOUS
    <3>2. x \in JobState /\ x.stage = "cleanSeeks" /\ x.pool \in Pool
      BY <2>3, <3>1 DEF JobState
    <3> QED
      BY <1>0, <1>1, <2>1, <2>3, <3>1, <3>2 DEF TypeOK
  <2> QED
    BY <1>3, <2>2, <2>3, FirstPodJob
<1>4. ASSUME NEW t \in Thread, NEW u \in User, CleanUser(t, u) PROVE TypeOK'
  <2>1. PICK x : x = [stage |-> "cleanSeeks", pool |-> userSeeks[u],
                      uids |-> {u}, pod |-> <<>>]
    OBVIOUS
  <2>2. userSeeks[u] \in Pool /\ <<>> \in Seq(User)
    BY <1>0, <1>4 DEF CleanUser
  <2>3. x \in JobState /\ x.stage = "cleanSeeks" /\ x.pool \in Pool
    BY <2>1, <2>2 DEF JobState
  <2> QED
    BY <1>0, <1>1, <1>4, <2>1, <2>3 DEF CleanUser, TypeOK
<1>5. ASSUME NEW t \in Thread, CleanSeeks(t) PROVE TypeOK'
  <2>1. PICK x : x = [job[t] EXCEPT !.stage = "cleanPods"]
    OBVIOUS
  <2>2. job[t].pool \in Pool
    BY <1>0, <1>5 DEF CleanSeeks
  <2>3. x \in JobState /\ x.stage = "cleanPods" /\ x.pool \in Pool
    BY <1>0, <2>1, <2>2 DEF JobState
  <2>4. job' = [job EXCEPT ![t] = x]
    BY <1>0, <1>5, <2>1 DEF CleanSeeks, JobState
  <2>5. userSeeks' \in [User -> Pool \cup {NoPool}]
    BY <1>0, <1>5 DEF CleanSeeks
  <2>6. /\ job' \in [Thread -> JobState]
        /\ \A o \in Thread : /\ job'[o].stage = "idle" => job'[o] = Idle
                             /\ job'[o].stage # "idle" => job'[o].pool \in Pool
    BY <1>1, <2>3, <2>4
  <2> QED
    BY <1>0, <1>5, <2>5, <2>6 DEF CleanSeeks, TypeOK
<1>6. ASSUME NEW t \in Thread, CleanPods(t) PROVE TypeOK'
  <2>1. job[t].pool \in Pool /\ job[t].pod \in Seq(User)
    BY <1>0, <1>6 DEF CleanPods, JobState
  <2>2. PICK p \in Pool : p = job[t].pool
    BY <2>1
  <2>3. pods' = [pods EXCEPT ![p] = Retained(pods[p], job[t].uids)]
    BY <1>6, <2>2 DEF CleanPods
  <2>4. pods[p] \in Seq(Seq(User))
    BY <1>0
  <2>5. pods' \in [Pool -> Seq(Seq(User))]
    BY <1>0, <2>3, <2>4, RetainedPods
  <2>6. \A r \in Pool : ToSet(pods'[r]) \subseteq ToSet(pods[r])
    BY <1>0, <2>3, <2>4, RetainedPods
  <2>7. games' \in Seq(Seq(User))
    <3>1. Append(games, job[t].pod) \in Seq(Seq(User))
      BY <1>0, <2>1
    <3>2. games' \in {games, Append(games, job[t].pod)}
      BY <1>6 DEF CleanPods
    <3> QED
      BY <1>0, <3>1, <3>2
  <2>8. /\ job' \in [Thread -> JobState]
        /\ \A o \in Thread : /\ job'[o].stage = "idle" => job'[o] = Idle
                             /\ job'[o].stage # "idle" => job'[o].pool \in Pool
    BY <1>1, <1>6, IdleJob DEF CleanPods
  <2>9. \A r \in Pool : \A pod \in ToSet(pods'[r]) : Len(pod) \in 1 .. PodSize
    BY <1>0, <2>6
  <2> QED
    BY <1>0, <1>6, <2>5, <2>7, <2>8, <2>9 DEF CleanPods, TypeOK
<1>7. CASE UNCHANGED vars
  BY <1>0, <1>7 DEF vars, TypeOK
<1> QED
  BY <1>2, <1>3, <1>4, <1>5, <1>6, <1>7 DEF Next, ThreadStep

\* Nobody seeks at first.
LEMMA InitTypeOK == Init => TypeOK
<1> SUFFICES ASSUME Init PROVE TypeOK
  OBVIOUS
<1>1. \A p \in Pool : pods[p] = <<>> /\ ToSet(pods[p]) = {}
  BY DEF Init, ToSet
<1>2. pods \in [Pool -> Seq(Seq(User))] /\ games \in Seq(Seq(User))
  BY DEF Init
<1>3. seeks \in [User -> 0 .. MaxSeeks]
  BY SeeksAssumption DEF Init
<1> QED
  BY <1>1, <1>2, <1>3, IdleJob DEF Init, TypeOK

\* Seekers, pods and calls are well typed, and no pod outgrows a game.
THEOREM SeeksTypeOK == Spec => []TypeOK
BY InitTypeOK, NextTypeOK, PTL DEF Spec

-----------------------------------------------------------------------------
(* Users in the pods and users in user_seeks *)

\* Whoever a call is removing has no seek in another pool, and none at all
\* once the first half of clean_users is done: he does not seek again
\* before the call is through.
JobFits(t) ==
  /\ job[t].stage \in {"idle", "find"} => job[t].uids = {} /\ job[t].pod = <<>>
  /\ job[t].pod # <<>> => job[t].uids = ToSet(job[t].pod)
  /\ \A u \in job[t].uids :
       /\ job[t].stage = "cleanSeeks" => userSeeks[u] \in {NoPool, job[t].pool}
       /\ job[t].stage = "cleanPods" => userSeeks[u] = NoPool

QInv == /\ TypeOK
        /\ \A t \in Thread : JobFits(t)
        /\ PodUsersWait
        /\ SeekerHasPod

\* Whoever is in a pod seeks in its pool, or has lost his seek already.
LEMMA PodUserSeeks ==
  ASSUME QInv, NEW p \in Pool, NEW pod \in ToSet(pods[p]), NEW u \in ToSet(pod)
  PROVE  userSeeks[u] \in {NoPool, p}
BY DEF QInv, PodUsersWait, JobFits

\* Jobs keep fitting.
LEMMA NextJobFits ==
  ASSUME Patient, QInv, [Next]_vars
  PROVE  \A t \in Thread : JobFits(t)'
<1>0. /\ TypeOK /\ \A t \in Thread : JobFits(t)
      /\ userSeeks \in [User -> Pool \cup {NoPool}]
      /\ job \in [Thread -> JobState]
      /\ \A t \in Thread : job[t].uids \subseteq User
  BY DEF QInv, TypeOK, JobState
\* A thread whose job stays, while no seek of its users changes or all go.
<1>1. ASSUME NEW o \in Thread, job'[o] = job[o],
             \A u \in job[o].uids : userSeeks'[u] \in {userSeeks[u], NoPool}
      PROVE  JobFits(o)'
  BY <1>0, <1>1 DEF JobFits
<1>2. ASSUME NEW t \in Thread, NEW u \in User, NEW p \in Pool, AddSeeker(t, u, p),
             NEW o \in Thread
      PROVE  JobFits(o)'
  <2>1. CASE o = t
    <3>1. job'[t].stage = "find" /\ job'[t].uids = {} /\ job'[t].pod = <<>>
      BY <1>0, <1>2, IdleJob DEF AddSeeker, JobState
    <3> QED
      BY <2>1, <3>1 DEF JobFits
  <2>2. CASE o # t
    <3>1. u \notin job[o].uids
      BY <1>2 DEF AddSeeker, Leaving
    <3>2. \A v \in job[o].uids : userSeeks'[v] = userSeeks[v]
      BY <1>0, <1>2, <3>1 DEF AddSeeker
    <3>3. job'[o] = job[o]
      BY <1>0, <1>2, <2>2 DEF AddSeeker
    <3> QED
      BY <1>1, <3>2, <3>3
  <2> QED
    BY <2>1, <2>2
<1>3. ASSUME NEW t \in Thread, GetFirstPod(t), NEW o \in Thread PROVE JobFits(o)'
  <2>1. UNCHANGED userSeeks
    BY <1>3 DEF GetFirstPod
  <2>2. CASE job' = [job EXCEPT ![t] = Idle]
    <3>1. CASE o = t
      <4>1. job'[o] = Idle
        BY <1>0, <2>2, <3>1
      <4> QED
        BY <4>1, IdleJob DEF JobFits
    <3>2. CASE o # t
      BY <1>0, <1>1, <2>1, <2>2, <3>2
    <3> QED
      BY <3>1, <3>2
  <2>3. ASSUME NEW pod \in ToSet(pods[job[t].pool]), job[t].pool \in Pool,
               job' = [job EXCEPT ![t] =
                        [stage |-> "cleanSeeks", pool |-> job[t].pool,
                         uids |-> ToSet(pod), pod |-> pod]]
        PROVE  JobFits(o)'
    <3>1. CASE o = t
      <4>1. /\ job'[o].stage = "cleanSeeks" /\ job'[o].uids = ToSet(pod)
            /\ job'[o].pod = pod /\ job'[o].pool = job[t].pool
        BY <1>0, <2>3, <3>1
      <4>2. \A u \in ToSet(pod) : userSeeks[u] \in {NoPool, job[t].pool}
        BY <2>3, PodUserSeeks
      <4> QED
        BY <2>1, <4>1, <4>2 DEF JobFits
    <3>2. CASE o # t
      BY <1>0, <1>1, <2>1, <2>3, <3>2
    <3> QED
      BY <3>1, <3>2
  <2> QED
    BY <1>0, <1>3, <2>2, <2>3, FirstPodJob
<1>4. ASSUME NEW t \in Thread, NEW u \in User, CleanUser(t, u), NEW o \in Thread
      PROVE  JobFits(o)'
  <2>1. UNCHANGED userSeeks
    BY <1>4 DEF CleanUser
  <2>2. CASE o = t
    <3>1. /\ job'[o].stage = "cleanSeeks" /\ job'[o].uids = {u}
          /\ job'[o].pod = <<>> /\ job'[o].pool = userSeeks[u]
      BY <1>0, <1>4, <2>2 DEF CleanUser
    <3> QED
      BY <2>1, <3>1 DEF JobFits
  <2>3. CASE o # t
    BY <1>0, <1>1, <1>4, <2>1, <2>3 DEF CleanUser
  <2> QED
    BY <2>2, <2>3
<1>5. ASSUME NEW t \in Thread, CleanSeeks(t), NEW o \in Thread PROVE JobFits(o)'
  <2>1. \A u \in User :
          userSeeks'[u] = IF u \in job[t].uids THEN NoPool ELSE userSeeks[u]
    BY <1>0, <1>5 DEF CleanSeeks
  <2>2. CASE o = t
    <3>1. /\ job'[o].stage = "cleanPods" /\ job'[o].uids = job[t].uids
          /\ job'[o].pod = job[t].pod
      BY <1>0, <1>5, <2>2 DEF CleanSeeks, JobState
    <3>2. job[t].pod # <<>> => job[t].uids = ToSet(job[t].pod)
      BY <1>0 DEF JobFits
    <3>3. \A u \in job[t].uids : userSeeks'[u] = NoPool
      BY <1>0, <2>1
    <3> QED
      BY <3>1, <3>2, <3>3 DEF JobFits
  <2>3. CASE o # t
    <3>1. job'[o] = job[o]
      BY <1>0, <1>5, <2>3 DEF CleanSeeks
    <3>2. \A u \in job[o].uids : userSeeks'[u] \in {userSeeks[u], NoPool}
      BY <1>0, <2>1
    <3> QED
      BY <1>1, <3>1, <3>2
  <2> QED
    BY <2>2, <2>3
<1>6. ASSUME NEW t \in Thread, CleanPods(t), NEW o \in Thread PROVE JobFits(o)'
  <2>1. UNCHANGED userSeeks
    BY <1>6 DEF CleanPods
  <2>2. CASE o = t
    <3>1. job'[o] = Idle
      BY <1>0, <1>6, <2>2 DEF CleanPods
    <3> QED
      BY <3>1, IdleJob DEF JobFits
  <2>3. CASE o # t
    BY <1>0, <1>1, <1>6, <2>1, <2>3 DEF CleanPods
  <2> QED
    BY <2>2, <2>3
<1>7. CASE UNCHANGED vars
  BY <1>0, <1>7 DEF vars, JobFits
<1> QED
  BY <1>2, <1>3, <1>4, <1>5, <1>6, <1>7 DEF Next, ThreadStep

\* Every step keeps users out of the pods whom nobody would remove.
LEMMA NextPodUsersWait ==
  ASSUME Patient, QInv, [Next]_vars
  PROVE  PodUsersWait'
<1>0. /\ TypeOK /\ PodUsersWait /\ \A t \in Thread : JobFits(t)
      /\ userSeeks \in [User -> Pool \cup {NoPool}]
      /\ pods \in [Pool -> Seq(Seq(User))]
      /\ job \in [Thread -> JobState]
  BY DEF QInv, TypeOK
<1> DEFINE Waits(r, v) ==
      \/ userSeeks[v] = r
      \/ \E o \in Thread : /\ job[o].stage = "cleanPods" /\ job[o].pool = r
                           /\ v \in job[o].uids
           WaitsNow(r, v) ==
      \/ userSeeks'[v] = r
      \/ \E o \in Thread : /\ job'[o].stage = "cleanPods" /\ job'[o].pool = r
                           /\ v \in job'[o].uids
<1>01. \A r \in Pool : \A pod \in ToSet(pods[r]) : \A v \in ToSet(pod) :
         v \in User /\ Waits(r, v)
  BY <1>0, PodIsUsers DEF PodUsersWait
<1> SUFFICES ASSUME NEW r \in Pool, NEW pod \in ToSet(pods'[r]), NEW v \in ToSet(pod)
             PROVE  WaitsNow(r, v)
  BY DEF PodUsersWait
<1>1. ASSUME NEW t \in Thread, NEW u \in User, NEW p \in Pool, AddSeeker(t, u, p)
      PROVE  WaitsNow(r, v)
  <2>1. pods' = [pods EXCEPT ![p] = AddNewPods(pods[p], u)]
    BY <1>1 DEF AddSeeker
  <2>2. PICK queue \in Seq(Seq(User)) : queue = pods[p]
    BY <1>0
  <2>3. ToSet(AddNewPods(queue, u)) =
          ToSet(queue) \cup {<<u>>}
            \cup {<<u>> \o q : q \in {q \in ToSet(queue) : ~IsFull(q)}}
    BY AddedPods
  <2>4. ToSet(<<u>>) = {u}
    BY DEF ToSet
  <2>5. \A q \in ToSet(queue) : ToSet(<<u>> \o q) = {u} \cup ToSet(q)
    BY <1>0, <2>2, PodIsUsers, NewPodIs
  <2>6. \/ \E q \in ToSet(pods[r]) : v \in ToSet(q)
        \/ v = u /\ r = p
    <3>1. CASE r = p
      <4>1. pod \in ToSet(AddNewPods(queue, u))
        BY <1>0, <2>1, <2>2, <3>1
      <4>2. CASE pod \in ToSet(queue)
        BY <2>2, <3>1, <4>2
      <4>3. CASE pod = <<u>>
        BY <2>4, <3>1, <4>3
      <4>4. ASSUME NEW q \in ToSet(queue), pod = <<u>> \o q
            PROVE  \/ \E z \in ToSet(pods[r]) : v \in ToSet(z)
                   \/ v = u
        <5>1. v \in {u} \cup ToSet(q)
          BY <2>5, <4>4
        <5> QED
          BY <2>2, <3>1, <5>1
      <4>5. \/ pod \in ToSet(queue) \/ pod = <<u>>
            \/ \E q \in ToSet(queue) : pod = <<u>> \o q
        BY <2>3, <4>1
      <4> QED
        BY <3>1, <4>2, <4>3, <4>4, <4>5
    <3>2. CASE r # p
      BY <1>0, <2>1, <3>2
    <3> QED
      BY <3>1, <3>2
  <2>7. CASE v = u /\ r = p
    BY <1>0, <1>1, <2>7 DEF AddSeeker
  <2>8. CASE v \in User /\ Waits(r, v)
    <3>1. userSeeks[v] = r => userSeeks'[v] = r
      <4>1. userSeeks[u] # r
        BY <1>1, SeeksAssumption DEF AddSeeker
      <4> QED
        BY <1>0, <1>1, <2>8, <4>1 DEF AddSeeker
    <3>2. \A o \in Thread : job[o].stage = "cleanPods" => job'[o] = job[o]
      BY <1>0, <1>1 DEF AddSeeker
    <3> QED
      BY <2>8, <3>1, <3>2
  <2> QED
    BY <1>01, <2>6, <2>7, <2>8
\* A step that adds no pod, ends no removal and strikes no seek.
<1>2. ASSUME pod \in ToSet(pods[r]),
             userSeeks[v] = r => userSeeks'[v] = r,
             \A o \in Thread : job[o].stage = "cleanPods" => job'[o] = job[o]
      PROVE  WaitsNow(r, v)
  BY <1>01, <1>2
<1>3. ASSUME NEW t \in Thread, GetFirstPod(t) PROVE WaitsNow(r, v)
  <2>1. UNCHANGED <<userSeeks, pods>> /\ job[t].stage = "find"
    BY <1>3 DEF GetFirstPod
  <2>2. \A o \in Thread : o # t => job'[o] = job[o]
    BY <1>0, <1>3, FirstPodJob
  <2> QED
    BY <1>2, <2>1, <2>2
<1>4. ASSUME NEW t \in Thread, NEW u \in User, CleanUser(t, u) PROVE WaitsNow(r, v)
  BY <1>0, <1>2, <1>4 DEF CleanUser
<1>5. ASSUME NEW t \in Thread, CleanSeeks(t) PROVE WaitsNow(r, v)
  <2>1. pod \in ToSet(pods[r])
    BY <1>5 DEF CleanSeeks
  <2>2. v \in User /\ Waits(r, v)
    BY <1>01, <2>1
  <2>3. CASE userSeeks[v] = r /\ v \in job[t].uids
    <3>1. job[t].pool = r
      BY <1>0, <1>5, <2>3, SeeksAssumption DEF CleanSeeks, JobFits
    <3>2. /\ job'[t].stage = "cleanPods" /\ job'[t].pool = job[t].pool
          /\ job'[t].uids = job[t].uids
      BY <1>0, <1>5 DEF CleanSeeks, JobState
    <3> QED
      BY <2>3, <3>1, <3>2
  <2>4. CASE userSeeks[v] = r /\ v \notin job[t].uids
    BY <1>0, <1>5, <2>2, <2>4 DEF CleanSeeks
  <2>5. CASE userSeeks[v] # r
    <3>1. \A o \in Thread : job[o].stage = "cleanPods" => job'[o] = job[o]
      BY <1>0, <1>5 DEF CleanSeeks
    <3> QED
      BY <1>2, <2>1, <2>5, <3>1
  <2> QED
    BY <2>3, <2>4, <2>5
<1>6. ASSUME NEW t \in Thread, CleanPods(t) PROVE WaitsNow(r, v)
  <2>1. PICK p \in Pool : p = job[t].pool
    BY <1>0, <1>6 DEF CleanPods, TypeOK
  <2>2. pods' = [pods EXCEPT ![p] = Retained(pods[p], job[t].uids)]
    BY <1>6, <2>1 DEF CleanPods
  <2>3. /\ pod \in ToSet(pods[r])
        /\ r = p => v \notin job[t].uids
    <3>1. CASE r = p
      <4>1. PICK queue \in Seq(Seq(User)) : queue = pods[p]
        BY <1>0
      <4>2. pod \in ToSet(Retained(queue, job[t].uids))
        BY <1>0, <2>2, <3>1, <4>1
      <4>3. pod \in ToSet(queue) /\ ToSet(pod) \cap job[t].uids = {}
        BY <4>2, RetainedPods
      <4> QED
        BY <3>1, <4>1, <4>3
    <3>2. CASE r # p
      BY <1>0, <2>2, <3>2
    <3> QED
      BY <3>1, <3>2
  <2>4. \A o \in Thread : o # t => job'[o] = job[o]
    BY <1>0, <1>6 DEF CleanPods
  <2>5. UNCHANGED userSeeks
    BY <1>6 DEF CleanPods
  <2>6. Waits(r, v)
    BY <1>01, <2>3
  <2>7. CASE userSeeks[v] = r
    BY <2>5, <2>7
  <2>8. ASSUME NEW o \in Thread, job[o].stage = "cleanPods", job[o].pool = r,
               v \in job[o].uids
        PROVE  WaitsNow(r, v)
    <3>1. o # t
      BY <2>1, <2>3, <2>8
    <3> QED
      BY <2>4, <2>8, <3>1
  <2> QED
    BY <2>6, <2>7, <2>8
<1>7. CASE UNCHANGED vars
  BY <1>2, <1>7 DEF vars
<1> QED
  BY <1>1, <1>3, <1>4, <1>5, <1>6, <1>7 DEF Next, ThreadStep

\* Every step leaves a seeker the pod of his own.
LEMMA NextSeekerHasPod ==
  ASSUME Patient, QInv, [Next]_vars
  PROVE  SeekerHasPod'
<1>0. /\ TypeOK /\ SeekerHasPod /\ \A t \in Thread : JobFits(t)
      /\ userSeeks \in [User -> Pool \cup {NoPool}]
      /\ pods \in [Pool -> Seq(Seq(User))]
      /\ job \in [Thread -> JobState]
  BY DEF QInv, TypeOK
<1> SUFFICES ASSUME NEW v \in User, userSeeks'[v] # NoPool
             PROVE  <<v>> \in ToSet(pods'[userSeeks'[v]])
  BY DEF SeekerHasPod
<1>1. userSeeks[v] # NoPool => /\ userSeeks[v] \in Pool
                               /\ <<v>> \in ToSet(pods[userSeeks[v]])
  BY <1>0 DEF SeekerHasPod
<1>2. ASSUME NEW t \in Thread, NEW u \in User, NEW p \in Pool, AddSeeker(t, u, p)
      PROVE  <<v>> \in ToSet(pods'[userSeeks'[v]])
  <2>1. PICK queue \in Seq(Seq(User)) : queue = pods[p]
    BY <1>0
  <2>2. pods' = [pods EXCEPT ![p] = AddNewPods(queue, u)]
    BY <1>2, <2>1 DEF AddSeeker
  <2>3. ToSet(queue) \cup {<<u>>} \subseteq ToSet(AddNewPods(queue, u))
    BY AddedPods
  <2>4. CASE v = u
    <3>1. userSeeks'[v] = p
      BY <1>0, <1>2, <2>4 DEF AddSeeker
    <3> QED
      BY <1>0, <2>2, <2>3, <2>4, <3>1
  <2>5. CASE v # u
    <3>1. userSeeks'[v] = userSeeks[v]
      BY <1>0, <1>2, <2>5 DEF AddSeeker
    <3> QED
      BY <1>0, <1>1, <2>1, <2>2, <2>3, <3>1
  <2> QED
    BY <2>4, <2>5
<1>3. ASSUME NEW t \in Thread, CleanPods(t)
      PROVE  <<v>> \in ToSet(pods'[userSeeks'[v]])
  <2>1. PICK p \in Pool : p = job[t].pool
    BY <1>0, <1>3 DEF CleanPods, TypeOK
  <2>2. PICK queue \in Seq(Seq(User)) : queue = pods[p]
    BY <1>0
  <2>3. pods' = [pods EXCEPT ![p] = Retained(queue, job[t].uids)]
    BY <1>3, <2>1, <2>2 DEF CleanPods
  <2>4. userSeeks'[v] = userSeeks[v]
    BY <1>3 DEF CleanPods
  <2>5. v \notin job[t].uids
    BY <1>0, <1>3, <2>4 DEF CleanPods, JobFits
  <2>6. ToSet(<<v>>) = {v}
    BY DEF ToSet
  <2>7. <<v>> \in ToSet(queue) => <<v>> \in ToSet(Retained(queue, job[t].uids))
    BY <2>5, <2>6, RetainedPods
  <2> QED
    BY <1>0, <1>1, <2>2, <2>3, <2>4, <2>7
<1>4. ASSUME NEW t \in Thread, CleanSeeks(t)
      PROVE  <<v>> \in ToSet(pods'[userSeeks'[v]])
  BY <1>0, <1>1, <1>4 DEF CleanSeeks
<1>5. CASE UNCHANGED <<userSeeks, pods>>
  BY <1>1, <1>5
<1> QED
  BY <1>2, <1>3, <1>4, <1>5 DEF Next, ThreadStep, GetFirstPod, CleanUser, vars

\* Nobody seeks at first, and every step keeps the invariant, where users seek
\* again only when no call is removing them.
LEMMA InitQInv == Init => QInv
<1> SUFFICES ASSUME Init PROVE QInv
  OBVIOUS
<1>1. \A t \in Thread : JobFits(t)
  BY IdleJob DEF Init, JobFits
<1>2. PodUsersWait /\ SeekerHasPod
  BY DEF Init, PodUsersWait, SeekerHasPod, ToSet
<1> QED
  BY <1>1, <1>2, InitTypeOK DEF QInv

LEMMA NextQInv ==
  ASSUME Patient, QInv, [Next]_vars
  PROVE  QInv'
<1>1. TypeOK'
  BY NextTypeOK DEF QInv
<1>2. (\A t \in Thread : JobFits(t))'
  BY NextJobFits
<1> QED
  BY <1>1, <1>2, NextPodUsersWait, NextSeekerHasPod DEF QInv

LEMMA SeeksInvariant ==
  ASSUME Patient
  PROVE  Spec => []QInv
<1>1. QInv /\ [Next]_vars => QInv'
  BY NextQInv
<1> QED
  BY <1>1, InitQInv, PTL DEF Spec

\* Nobody is matched from a pod that his going offline, or his game, has
\* left behind, however many threads are in clean_users at once
\* (seeks.rs:81-94).
THEOREM PodUsersWaitTheorem ==
  ASSUME Patient
  PROVE  Spec => []PodUsersWait
<1>1. QInv => PodUsersWait
  BY DEF QInv
<1> QED
  BY <1>1, SeeksInvariant, PTL

-----------------------------------------------------------------------------
(* How often a seeker is matched *)

\* A pod of pool p names u.
Listed(u, p) == \E pod \in ToSet(pods[p]) : u \in ToSet(pod)

\* What a thread has found is what it is going to strike.
JobPod(t) ==
  /\ job[t].stage \in {"idle", "find"} => job[t].pod = <<>>
  /\ job[t].pod # <<>> => job[t].uids = ToSet(job[t].pod)

\* The games u was matched for, the pools where he can be found, and the
\* threads that are about to match him from a pool where he no longer can.
Played(u)  == {i \in DOMAIN games : u \in ToSet(games[i])}
PoolsOf(u) == {p \in Pool : Listed(u, p)}
Late(u)    == {t \in Thread : u \in ToSet(job[t].pod) /\ ~Listed(u, job[t].pool)}

\* Every seek pays for one match by each thread.  Where a pod names u, all
\* threads may still match him once; the first that does strikes the pods.
MatchesFit(u) ==
  /\ IsFiniteSet(PoolsOf(u))
  /\ Cardinality(Played(u)) + Cardinality(Late(u))
       + Cardinality(PoolsOf(u)) * Cardinality(Thread)
     <= seeks[u] * Cardinality(Thread)

\* The sets are finite, and no more threads are late than there are.
LEMMA Counts ==
  ASSUME TypeOK, NEW u \in User
  PROVE  /\ IsFiniteSet(Played(u)) /\ Cardinality(Played(u)) \in Nat
         /\ IsFiniteSet(Late(u)) /\ Cardinality(Late(u)) \in Nat
         /\ IsFiniteSet(Thread) /\ Cardinality(Thread) \in Nat
         /\ seeks[u] \in Nat
<1>1. DOMAIN games = 1 .. Len(games) /\ Len(games) \in Nat
  BY DEF TypeOK
<1>2. IsFiniteSet(1 .. Len(games)) /\ Played(u) \in SUBSET (1 .. Len(games))
  BY <1>1, FS_Interval DEF Played
<1>3. IsFiniteSet(Thread) /\ Late(u) \in SUBSET Thread
  BY SeeksAssumption DEF Late
<1>4. seeks[u] \in Nat
  BY SeeksAssumption DEF TypeOK
<1> QED
  BY <1>2, <1>3, <1>4, FS_Subset, FS_CardinalityType

\* Every step keeps what a thread has found and what it strikes together.
LEMMA NextJobPod ==
  ASSUME TypeOK, [Next]_vars, NEW o \in Thread, JobPod(o)
  PROVE  JobPod(o)'
<1>0. job \in [Thread -> JobState]
  BY DEF TypeOK
<1>1. CASE job'[o] = job[o]
  BY <1>1 DEF JobPod
<1>2. ASSUME NEW t \in Thread, NEW u \in User, NEW p \in Pool, AddSeeker(t, u, p)
      PROVE  JobPod(o)'
  BY <1>0, <1>1, <1>2, IdleJob DEF AddSeeker, JobPod, JobState
<1>3. ASSUME NEW t \in Thread, GetFirstPod(t) PROVE JobPod(o)'
  <2>1. CASE job' = [job EXCEPT ![t] = Idle]
    BY <1>0, <1>1, <2>1, IdleJob DEF JobPod
  <2>2. ASSUME NEW pod \in ToSet(pods[job[t].pool]),
               job' = [job EXCEPT ![t] =
                        [stage |-> "cleanSeeks", pool |-> job[t].pool,
                         uids |-> ToSet(pod), pod |-> pod]]
        PROVE  JobPod(o)'
    BY <1>0, <1>1, <2>2 DEF JobPod
  <2> QED
    BY <1>3, <2>1, <2>2, FirstPodJob
<1>4. ASSUME NEW t \in Thread, NEW u \in User, CleanUser(t, u) PROVE JobPod(o)'
  BY <1>0, <1>1, <1>4 DEF CleanUser, JobPod
<1>5. ASSUME NEW t \in Thread, CleanSeeks(t) PROVE JobPod(o)'
  BY <1>0, <1>5 DEF CleanSeeks, JobPod, JobState
<1>6. ASSUME NEW t \in Thread, CleanPods(t) PROVE JobPod(o)'
  BY <1>0, <1>1, <1>6, IdleJob DEF CleanPods, JobPod
<1>7. CASE UNCHANGED vars
  BY <1>1, <1>7 DEF vars
<1> QED
  BY <1>2, <1>3, <1>4, <1>5, <1>6, <1>7 DEF Next, ThreadStep

\* A step that matches nobody, seeks for others only, leaves the pods alone
\* and makes nobody late.
LEMMA MatchesStand ==
  ASSUME TypeOK, NEW u \in User, MatchesFit(u), Played(u)' = Played(u),
         Late(u)' \subseteq Late(u), seeks'[u] = seeks[u], PoolsOf(u)' = PoolsOf(u)
  PROVE  MatchesFit(u)'
<1>1. /\ Cardinality(Late(u)') \in Nat
      /\ Cardinality(Late(u)') <= Cardinality(Late(u))
  BY Counts, FS_Subset, FS_CardinalityType
<1> DEFINE k == Cardinality(Thread)
           l == Cardinality(PoolsOf(u))
           busy == l * k
           room == seeks[u] * k
<1>2. k \in Nat /\ l \in Nat /\ seeks[u] \in Nat
  BY Counts, FS_CardinalityType DEF MatchesFit
<1>3. busy \in Nat /\ room \in Nat
  BY <1>2
<1>4. Cardinality(Played(u)) + Cardinality(Late(u)) + busy <= room
  BY DEF MatchesFit
<1> HIDE DEF busy, room
<1>5. Cardinality(Played(u)) + Cardinality(Late(u)') + busy <= room
  BY <1>1, <1>3, <1>4, Counts
<1> QED
  BY <1>5 DEF MatchesFit, busy, room

\* u's pools after a seek of v in pool p.
LEMMA PoolsAfterSeek ==
  ASSUME TypeOK, NEW t \in Thread, NEW v \in User, NEW p \in Pool,
         AddSeeker(t, v, p), NEW u \in User
  PROVE  PoolsOf(u)' = IF u = v THEN PoolsOf(u) \cup {p} ELSE PoolsOf(u)
<1>0. pods \in [Pool -> Seq(Seq(User))]
  BY DEF TypeOK
<1>1. PICK queue \in Seq(Seq(User)) : queue = pods[p]
  BY <1>0
<1>2. pods' = [pods EXCEPT ![p] = AddNewPods(queue, v)]
  BY <1>1 DEF AddSeeker
<1>3. \A r \in Pool : r # p => (Listed(u, r)' <=> Listed(u, r))
  BY <1>0, <1>2 DEF Listed
<1>4. ToSet(AddNewPods(queue, v)) =
        ToSet(queue) \cup {<<v>>}
          \cup {<<v>> \o pod : pod \in {q \in ToSet(queue) : ~IsFull(q)}}
  BY AddedPods
<1>5. pods'[p] = AddNewPods(queue, v)
  BY <1>0, <1>2
<1>6. ToSet(<<v>>) = {v}
  BY DEF ToSet
<1>7. \A q \in ToSet(queue) : ToSet(<<v>> \o q) = {v} \cup ToSet(q)
  BY <1>1, PodIsUsers, NewPodIs
<1>8. Listed(u, p) => Listed(u, p)'
  BY <1>1, <1>4, <1>5 DEF Listed
<1>9. u = v => Listed(u, p)'
  BY <1>4, <1>5, <1>6 DEF Listed
<1>10. ASSUME Listed(u, p)', u # v PROVE Listed(u, p)
  <2>1. PICK pod \in ToSet(AddNewPods(queue, v)) : u \in ToSet(pod)
    BY <1>5, <1>10 DEF Listed
  <2>2. \/ pod \in ToSet(queue) \/ pod = <<v>>
        \/ \E q \in ToSet(queue) : pod = <<v>> \o q
    BY <1>4, <2>1
  <2>3. \E q \in ToSet(queue) : u \in ToSet(q)
    BY <1>6, <1>7, <1>10, <2>1, <2>2
  <2> QED
    BY <1>1, <2>3 DEF Listed
<1>11. Listed(u, p)' <=> Listed(u, p) \/ u = v
  BY <1>8, <1>9, <1>10
<1> QED
  BY <1>3, <1>11 DEF PoolsOf

\* A new seek pays for its pods.
LEMMA SeekMakesRoom ==
  ASSUME TypeOK, \A o \in Thread : JobPod(o), NEW t \in Thread, NEW v \in User,
         NEW p \in Pool, AddSeeker(t, v, p), NEW u \in User, MatchesFit(u)
  PROVE  MatchesFit(u)'
<1>0. /\ job \in [Thread -> JobState] /\ seeks \in [User -> 0 .. MaxSeeks]
  BY DEF TypeOK
<1>1. UNCHANGED games /\ Played(u)' = Played(u)
  BY DEF AddSeeker, Played
<1>2. job[t].pod = <<>> /\ job'[t].pod = <<>>
  BY <1>0, IdleJob DEF AddSeeker, JobPod, JobState
<1>3. \A o \in Thread : o # t => job'[o] = job[o]
  BY <1>0 DEF AddSeeker
<1>4. PoolsOf(u)' = IF u = v THEN PoolsOf(u) \cup {p} ELSE PoolsOf(u)
  BY PoolsAfterSeek
<1>5. \A r \in Pool : Listed(u, r) => Listed(u, r)'
  BY <1>4 DEF PoolsOf
<1>6. Late(u)' \subseteq Late(u)
  <2> SUFFICES ASSUME NEW o \in Thread, u \in ToSet(job'[o].pod),
                      ~Listed(u, job[o].pool)'
               PROVE  u \in ToSet(job[o].pod) /\ ~Listed(u, job[o].pool)
    BY DEF Late
  <2>1. o # t
    BY <1>2 DEF ToSet
  <2>2. job'[o] = job[o] /\ job[o].pod # <<>>
    BY <1>3, <2>1 DEF ToSet
  <2>3. job[o].pool \in Pool
    BY <2>2 DEF TypeOK, JobPod
  <2> QED
    BY <1>5, <2>2, <2>3 DEF Listed
<1>7. CASE u # v
  <2>1. seeks'[u] = seeks[u]
    BY <1>0, <1>7 DEF AddSeeker
  <2> QED
    BY <1>1, <1>4, <1>6, <1>7, <2>1, MatchesStand
<1>8. CASE u = v
  <2>1. seeks'[u] = seeks[u] + 1
    BY <1>0, <1>8 DEF AddSeeker
  <2>2. /\ IsFiniteSet(PoolsOf(u)')
        /\ Cardinality(PoolsOf(u)') \in {Cardinality(PoolsOf(u)), Cardinality(PoolsOf(u)) + 1}
    <3>1. IsFiniteSet(PoolsOf(u)) /\ PoolsOf(u)' = PoolsOf(u) \cup {p}
      BY <1>4, <1>8 DEF MatchesFit
    <3>2. /\ IsFiniteSet(PoolsOf(u) \cup {p})
          /\ Cardinality(PoolsOf(u) \cup {p}) =
               IF p \in PoolsOf(u) THEN Cardinality(PoolsOf(u)) ELSE Cardinality(PoolsOf(u)) + 1
      BY <3>1, FS_AddElement
    <3> QED
      BY <3>1, <3>2
  <2>3. /\ Cardinality(Late(u)') \in Nat
        /\ Cardinality(Late(u)') <= Cardinality(Late(u))
    BY <1>6, Counts, FS_Subset, FS_CardinalityType
  <2> DEFINE k == Cardinality(Thread)
             l == Cardinality(PoolsOf(u))
             n == Cardinality(Played(u))
             s == Cardinality(Late(u))
  <2>4. k \in Nat /\ l \in Nat /\ seeks[u] \in Nat /\ n \in Nat /\ s \in Nat
    BY Counts, FS_CardinalityType DEF MatchesFit
  <2>5. n + s + l * k <= seeks[u] * k
    BY DEF MatchesFit
  <2> HIDE DEF k, l, n, s
  <2>6. /\ l * k \in Nat /\ seeks[u] * k \in Nat
        /\ (l + 1) * k = l * k + k /\ (seeks[u] + 1) * k = seeks[u] * k + k
    BY <2>4
  <2>7. Cardinality(PoolsOf(u)') * k \in {l * k, l * k + k}
    BY <2>2, <2>6 DEF l
  <2>8. n + Cardinality(Late(u)') + Cardinality(PoolsOf(u)') * k <= seeks'[u] * k
    BY <2>1, <2>3, <2>4, <2>5, <2>6, <2>7 DEF s
  <2> QED
    BY <1>1, <2>2, <2>8 DEF MatchesFit, n, k
<1> QED
  BY <1>7, <1>8

\* A thread that finds u finds him in a pool where he can be found.
LEMMA FindNeedsPod ==
  ASSUME TypeOK, \A o \in Thread : JobPod(o), NEW t \in Thread, GetFirstPod(t),
         NEW u \in User, MatchesFit(u)
  PROVE  MatchesFit(u)'
<1>0. job \in [Thread -> JobState]
  BY DEF TypeOK
<1>1. UNCHANGED <<pods, games, seeks>>
  BY DEF GetFirstPod
<1>2. Played(u)' = Played(u) /\ \A p : Listed(u, p)' <=> Listed(u, p)
  BY <1>1 DEF Played, Listed
<1>3. PoolsOf(u)' = PoolsOf(u)
  BY <1>2 DEF PoolsOf
<1>4. \A o \in Thread : o # t => job'[o] = job[o]
  BY <1>0, FirstPodJob
<1>5. ~(u \in ToSet(job'[t].pod) /\ ~Listed(u, job'[t].pool))
  <2>1. CASE job' = [job EXCEPT ![t] = Idle]
    BY <1>0, <2>1, IdleJob DEF ToSet
  <2>2. ASSUME NEW pod \in ToSet(pods[job[t].pool]),
               job' = [job EXCEPT ![t] =
                        [stage |-> "cleanSeeks", pool |-> job[t].pool,
                         uids |-> ToSet(pod), pod |-> pod]]
        PROVE  u \in ToSet(job'[t].pod) => Listed(u, job'[t].pool)
    <3>1. job'[t].pod = pod /\ job'[t].pool = job[t].pool
      BY <1>0, <2>2
    <3> QED
      BY <3>1 DEF Listed
  <2> QED
    BY <2>1, <2>2, FirstPodJob
<1>6. Late(u)' \subseteq Late(u)
  <2> SUFFICES ASSUME NEW o \in Thread, u \in ToSet(job'[o].pod),
                      ~Listed(u, job[o].pool)'
               PROVE  u \in ToSet(job[o].pod) /\ ~Listed(u, job[o].pool)
    BY DEF Late
  <2>1. ~Listed(u, job'[o].pool)
    BY <1>1 DEF Listed
  <2>2. o # t
    BY <1>5, <2>1
  <2> QED
    BY <1>4, <2>1, <2>2 DEF Listed
<1> QED
  BY <1>1, <1>2, <1>3, <1>6, MatchesStand

\* One match at most, and none of anybody but the users of the pod.
LEMMA PlayedStep ==
  ASSUME TypeOK, NEW t \in Thread, CleanPods(t), NEW u \in User
  PROVE  /\ u \notin ToSet(job[t].pod) => Played(u)' = Played(u)
         /\ Cardinality(Played(u)') \in Nat
         /\ Cardinality(Played(u)') <= Cardinality(Played(u)) + 1
<1>0. games \in Seq(Seq(User)) /\ job \in [Thread -> JobState]
  BY DEF TypeOK
<1>1. IsFiniteSet(Played(u)) /\ Cardinality(Played(u)) \in Nat
  BY Counts
<1>2. CASE games' = games
  <2>1. Played(u)' = Played(u)
    BY <1>2 DEF Played
  <2> QED
    BY <1>1, <2>1
<1>3. CASE games' = Append(games, job[t].pod)
  <2>1. PICK last : last = Len(games) + 1
    OBVIOUS
  <2>2. /\ DOMAIN games = 1 .. Len(games) /\ Len(games) \in Nat
        /\ DOMAIN games' = 1 .. last
        /\ games'[last] = job[t].pod
        /\ \A i \in DOMAIN games : i \in DOMAIN games' /\ games'[i] = games[i]
        /\ \A i \in DOMAIN games' : i \in DOMAIN games \/ i = last
        /\ last \in DOMAIN games'
    BY <1>0, <1>3, <2>1 DEF JobState
  <2>3. Played(u)' = IF u \in ToSet(job[t].pod) THEN Played(u) \cup {last} ELSE Played(u)
    <3>1. \A i : i \in Played(u)' <=>
                   i \in Played(u) \/ (i = last /\ u \in ToSet(job[t].pod))
      <4>1. last \notin DOMAIN games
        BY <2>1, <2>2
      <4> QED
        BY <2>2, <4>1 DEF Played
    <3> QED
      BY <3>1
  <2>4. /\ IsFiniteSet(Played(u) \cup {last})
        /\ Cardinality(Played(u) \cup {last}) \in
             {Cardinality(Played(u)), Cardinality(Played(u)) + 1}
    BY <1>1, FS_AddElement
  <2> QED
    BY <1>1, <2>3, <2>4
<1> QED
  BY <1>2, <1>3 DEF CleanPods

\* u's pools after clean_users in pool p.
LEMMA PoolsAfterClean ==
  ASSUME TypeOK, NEW t \in Thread, CleanPods(t), NEW u \in User
  PROVE  /\ PoolsOf(u)' \in {PoolsOf(u), PoolsOf(u) \ {job[t].pool}}
         /\ \A r \in Pool : r # job[t].pool => (Listed(u, r)' <=> Listed(u, r))
         /\ \A r \in Pool : r = job[t].pool /\ u \in job[t].uids => ~Listed(u, r)'
<1>0. pods \in [Pool -> Seq(Seq(User))]
  BY DEF TypeOK
<1>1. PICK p \in Pool : p = job[t].pool
  BY DEF CleanPods, TypeOK
<1>2. PICK queue \in Seq(Seq(User)) : queue = pods[p]
  BY <1>0
<1>3. pods' = [pods EXCEPT ![p] = Retained(queue, job[t].uids)]
  BY <1>1, <1>2 DEF CleanPods
<1>4. \A r \in Pool : r # p => (Listed(u, r)' <=> Listed(u, r))
  BY <1>0, <1>3 DEF Listed
<1>5. ToSet(pods'[p]) = {pod \in ToSet(pods[p]) : ToSet(pod) \cap job[t].uids = {}}
  BY <1>0, <1>2, <1>3, RetainedPods
<1>6. /\ Listed(u, p)' => Listed(u, p)
      /\ u \in job[t].uids => ~Listed(u, p)'
  BY <1>5 DEF Listed
<1>7. PoolsOf(u)' \in {PoolsOf(u), PoolsOf(u) \ {p}}
  <2>1. CASE Listed(u, p)'
    BY <1>4, <1>6, <2>1 DEF PoolsOf
  <2>2. CASE ~Listed(u, p)'
    <3>1. PoolsOf(u)' = PoolsOf(u) \ {p}
      BY <1>4, <2>2 DEF PoolsOf
    <3> QED
      BY <3>1
  <2> QED
    BY <2>1, <2>2
<1> QED
  BY <1>1, <1>4, <1>6, <1>7

\* A match by thread t is paid for by what t has found late, or by the pool
\* in which nobody can find u from now on.
LEMMA MatchUsesUp ==
  ASSUME TypeOK, \A o \in Thread : JobPod(o), NEW t \in Thread, CleanPods(t),
         NEW u \in User, MatchesFit(u)
  PROVE  MatchesFit(u)'
<1>0. job \in [Thread -> JobState]
  BY DEF TypeOK
<1>1. PICK p \in Pool : p = job[t].pool
  BY DEF CleanPods, TypeOK
<1>2. \A o \in Thread : job'[o] = IF o = t THEN Idle ELSE job[o]
  BY <1>0 DEF CleanPods
<1>3. UNCHANGED seeks /\ ToSet(Idle.pod) = {}
  BY IdleJob DEF CleanPods, ToSet
<1>4. t \notin Late(u)'
  BY <1>2, <1>3 DEF Late
<1>5. /\ u \notin ToSet(job[t].pod) => Played(u)' = Played(u)
      /\ Cardinality(Played(u)') \in Nat
      /\ Cardinality(Played(u)') <= Cardinality(Played(u)) + 1
  BY PlayedStep
<1>6. /\ PoolsOf(u)' \in {PoolsOf(u), PoolsOf(u) \ {p}}
      /\ \A r \in Pool : r # p => (Listed(u, r)' <=> Listed(u, r))
      /\ u \in job[t].uids => ~Listed(u, p)'
  BY <1>1, PoolsAfterClean
<1>7. u \in ToSet(job[t].pod) => u \in job[t].uids
  BY DEF JobPod, ToSet
<1>8. /\ IsFiniteSet(Late(u)) /\ Cardinality(Late(u)) \in Nat
      /\ IsFiniteSet(Played(u)) /\ Cardinality(Played(u)) \in Nat
      /\ IsFiniteSet(Thread) /\ Cardinality(Thread) \in Nat /\ seeks[u] \in Nat
      /\ IsFiniteSet(PoolsOf(u)) /\ Cardinality(PoolsOf(u)) \in Nat
  BY Counts, FS_CardinalityType DEF MatchesFit
\* u can be found where he could before.
<1>9. CASE PoolsOf(u)' = PoolsOf(u)
  <2>1. \A r \in Pool : Listed(u, r)' <=> Listed(u, r)
    BY <1>9 DEF PoolsOf
  <2>2. Late(u)' = Late(u) \ {t}
    <3> SUFFICES ASSUME NEW o \in Thread, o # t
                 PROVE  o \in Late(u)' <=> o \in Late(u)
      BY <1>4 DEF Late
    <3>1. job'[o] = job[o]
      BY <1>2
    <3>2. CASE u \in ToSet(job[o].pod)
      <4>1. job[o].pod # <<>>
        BY <3>2 DEF ToSet
      <4>2. job[o].pool \in Pool
        BY <4>1 DEF TypeOK, JobPod
      <4> QED
        BY <2>1, <3>1, <4>2 DEF Late, Listed
    <3>3. CASE u \notin ToSet(job[o].pod)
      BY <3>1, <3>3 DEF Late
    <3> QED
      BY <3>2, <3>3
  <2>3. CASE u \notin ToSet(job[t].pod)
    BY <1>3, <1>5, <1>9, <2>2, <2>3, MatchesStand
  <2>4. CASE u \in ToSet(job[t].pod)
    <3>1. t \in Late(u)
      <4>1. ~Listed(u, p)
        BY <1>6, <1>7, <2>1, <2>4
      <4> QED
        BY <1>1, <2>4, <4>1 DEF Late
    <3>2. Cardinality(Late(u)') = Cardinality(Late(u)) - 1
      BY <1>8, <2>2, <3>1, FS_RemoveElement
    <3> DEFINE busy == Cardinality(PoolsOf(u)) * Cardinality(Thread)
               room == seeks[u] * Cardinality(Thread)
    <3>3. busy \in Nat /\ room \in Nat
      BY <1>8
    <3>4. Cardinality(Played(u)) + Cardinality(Late(u)) + busy <= room
      BY DEF MatchesFit
    <3> HIDE DEF busy, room
    <3>5. Cardinality(Played(u)') + Cardinality(Late(u)') + busy <= room
      BY <1>5, <1>8, <3>2, <3>3, <3>4
    <3> QED
      BY <1>3, <1>8, <1>9, <3>5 DEF MatchesFit, busy, room
  <2> QED
    BY <2>3, <2>4
\* Nobody finds u in pool p any more; the other threads may be late.
<1>10. CASE p \in PoolsOf(u) /\ PoolsOf(u)' = PoolsOf(u) \ {p}
  <2> DEFINE k == Cardinality(Thread)
             l == Cardinality(PoolsOf(u))
  <2>1. IsFiniteSet(PoolsOf(u)') /\ Cardinality(PoolsOf(u)') = l - 1
    BY <1>8, <1>10, FS_RemoveElement
  <2>2. Cardinality(Late(u)') \in Nat /\ Cardinality(Late(u)') <= k - 1
    <3>1. IsFiniteSet(Thread \ {t}) /\ Cardinality(Thread \ {t}) = k - 1
      BY <1>8, FS_RemoveElement
    <3>2. Late(u)' \in SUBSET (Thread \ {t})
      BY <1>4 DEF Late
    <3> QED
      BY <3>1, <3>2, FS_Subset, FS_CardinalityType
  <2>3. k \in Nat /\ l \in Nat
    BY <1>8
  <2>4. Cardinality(Played(u)) + Cardinality(Late(u)) + l * k <= seeks[u] * k
    BY DEF MatchesFit
  <2> HIDE DEF k, l
  <2>5. (l - 1) * k = l * k - k /\ l * k \in Nat /\ seeks[u] * k \in Nat
    BY <1>8, <2>3
  <2> DEFINE busy == l * k
             room == seeks[u] * k
  <2> HIDE DEF busy, room
  <2>6. Cardinality(Played(u)') + Cardinality(Late(u)') + (busy - k) <= room
    <3>1. Cardinality(Played(u)) + Cardinality(Late(u)) + busy <= room
      BY <2>4 DEF busy, room
    <3>2. busy \in Nat /\ room \in Nat
      BY <2>5 DEF busy, room
    <3> QED
      BY <1>5, <1>8, <2>2, <2>3, <3>1, <3>2
  <2>7. Cardinality(PoolsOf(u)') * k = busy - k
    BY <2>1, <2>5 DEF busy
  <2> QED
    BY <1>3, <2>1, <2>6, <2>7 DEF MatchesFit, room, k
<1> QED
  BY <1>6, <1>9, <1>10

\* Every step.
LEMMA NextMatchesFit ==
  ASSUME TypeOK, \A o \in Thread : JobPod(o), [Next]_vars, NEW u \in User,
         MatchesFit(u)
  PROVE  MatchesFit(u)'
<1>0. job \in [Thread -> JobState]
  BY DEF TypeOK
\* Steps between the two that matter.
<1>1. ASSUME UNCHANGED <<pods, games, seeks>>,
             \A o \in Thread : /\ job'[o].pod = job[o].pod
                               /\ job[o].pod # <<>> => job'[o].pool = job[o].pool
      PROVE  MatchesFit(u)'
  <2>1. Played(u)' = Played(u) /\ PoolsOf(u)' = PoolsOf(u)
    BY <1>1 DEF Played, PoolsOf, Listed
  <2>2. Late(u)' \subseteq Late(u)
    <3> SUFFICES ASSUME NEW o \in Thread, u \in ToSet(job'[o].pod),
                        ~Listed(u, job[o].pool)'
                 PROVE  u \in ToSet(job[o].pod) /\ ~Listed(u, job[o].pool)
      BY DEF Late
    <3>1. job'[o].pod = job[o].pod /\ job[o].pod # <<>>
      BY <1>1 DEF ToSet
    <3> QED
      BY <1>1, <3>1 DEF Listed
  <2> QED
    BY <1>1, <2>1, <2>2, MatchesStand
<1>2. ASSUME NEW t \in Thread, NEW v \in User, CleanUser(t, v) PROVE MatchesFit(u)'
  <2>1. job[t].pod = <<>> /\ job'[t].pod = <<>>
    BY <1>0, <1>2 DEF CleanUser, JobPod
  <2>2. \A o \in Thread : o # t => job'[o] = job[o]
    BY <1>0, <1>2 DEF CleanUser
  <2> QED
    BY <1>1, <1>2, <2>1, <2>2 DEF CleanUser
<1>3. ASSUME NEW t \in Thread, CleanSeeks(t) PROVE MatchesFit(u)'
  <2>1. \A o \in Thread : job'[o].pod = job[o].pod /\ job'[o].pool = job[o].pool
    BY <1>0, <1>3 DEF CleanSeeks, JobState
  <2> QED
    BY <1>1, <1>3, <2>1 DEF CleanSeeks
<1>4. CASE UNCHANGED vars
  BY <1>1, <1>4 DEF vars
<1> QED
  BY <1>2, <1>3, <1>4, SeekMakesRoom, FindNeedsPod, MatchUsesUp DEF Next, ThreadStep

\* A seek leads to no more games than there are threads, whenever and where
\* the user seeks again: each thread may have found a pod with the seeker
\* before the first of them has struck him, none finds one later
\* (get_first_pod and clean_users, seeks.rs:62-94).
THEOREM MatchesPerSeekTheorem == Spec => []MatchesPerSeek
<1> DEFINE MInv == /\ TypeOK
                   /\ \A t \in Thread : JobPod(t)
                   /\ \A u \in User : MatchesFit(u)
<1>1. Init => MInv
  <2> SUFFICES ASSUME Init PROVE MInv
    OBVIOUS
  <2>1. \A t \in Thread : JobPod(t)
    BY IdleJob DEF Init, JobPod
  <2>2. ASSUME NEW u \in User PROVE MatchesFit(u)
    <3>1. Played(u) = {} /\ Late(u) = {} /\ PoolsOf(u) = {}
      BY IdleJob DEF Init, Played, Late, PoolsOf, Listed, ToSet
    <3>2. Cardinality(Thread) \in Nat /\ seeks[u] = 0
      BY SeeksAssumption, FS_CardinalityType DEF Init
    <3>3. 0 * Cardinality(Thread) = 0
      BY <3>2
    <3>4. IsFiniteSet({}) /\ Cardinality({}) = 0
      BY FS_EmptySet
    <3> QED
      BY <3>1, <3>2, <3>3, <3>4 DEF MatchesFit
  <2> QED
    BY <2>1, <2>2, InitTypeOK
<1>2. MInv /\ [Next]_vars => MInv'
  <2> SUFFICES ASSUME MInv, [Next]_vars PROVE MInv'
    OBVIOUS
  <2>1. TypeOK'
    BY NextTypeOK
  <2>2. ASSUME NEW u \in User PROVE MatchesFit(u)'
    BY NextMatchesFit
  <2>3. ASSUME NEW t \in Thread PROVE JobPod(t)'
    BY NextJobPod
  <2> QED
    BY <2>1, <2>2, <2>3
<1>3. MInv => MatchesPerSeek
  <2> SUFFICES ASSUME MInv, NEW u \in User
               PROVE  Cardinality(Played(u)) <= seeks[u] * Cardinality(Thread)
    BY DEF MatchesPerSeek, Played
  <2> DEFINE busy == Cardinality(PoolsOf(u)) * Cardinality(Thread)
             room == seeks[u] * Cardinality(Thread)
  <2>1. /\ Cardinality(Played(u)) \in Nat /\ Cardinality(Late(u)) \in Nat
        /\ Cardinality(Thread) \in Nat /\ seeks[u] \in Nat
        /\ Cardinality(PoolsOf(u)) \in Nat
    BY Counts, FS_CardinalityType DEF MatchesFit
  <2>2. busy \in Nat /\ room \in Nat
    BY <2>1
  <2>3. Cardinality(Played(u)) + Cardinality(Late(u)) + busy <= room
    BY DEF MatchesFit
  <2> HIDE DEF busy, room
  <2>4. Cardinality(Played(u)) <= room
    BY <2>1, <2>2, <2>3
  <2> QED
    BY <2>4 DEF room
<1> QED
  <2> HIDE DEF MInv
  <2> QED
    BY <1>1, <1>2, <1>3, PTL DEF Spec

-----------------------------------------------------------------------------
(* Every group of the members of a queue, once *)

\* The users with a pod of their own.
Members(queue) == {u \in User : <<u>> \in ToSet(queue)}

Distinct(queue) ==
  \A i, j \in DOMAIN queue : ToSet(queue[i]) = ToSet(queue[j]) => i = j

\* A queue has each group of its members that fits into a game exactly once.
Grouped(queue) ==
  /\ IsFiniteSet(Members(queue))
  /\ \A pod \in ToSet(queue) : /\ ToSet(pod) \subseteq Members(queue)
                               /\ Len(pod) = Cardinality(ToSet(pod))
  /\ \A s \in (SUBSET Members(queue)) \ {{}} :
       Cardinality(s) <= PodSize => \E pod \in ToSet(queue) : ToSet(pod) = s
  /\ Distinct(queue)

\* Of a queue's pods, each place is selected once.
LEMMA DistinctAt ==
  ASSUME NEW S, NEW queue \in Seq(S), NEW I \in SUBSET DOMAIN queue, Distinct(queue)
  PROVE  Distinct(At(queue, I))
<1> DEFINE n == Cardinality(I)
           Pick(k) == CHOOSE i \in I : Cardinality({j \in I : j <= i}) = k
<1>1. DOMAIN queue = 1 .. Len(queue) /\ Len(queue) \in Nat
  OBVIOUS
<1>2. n \in Nat /\ Rank(I) \in Surjection(I, 1 .. n)
  BY <1>1, RankIsBijection
<1>3. \A i \in I : Rank(I)[i] = Cardinality({j \in I : j <= i})
  BY DEF Rank
<1>4. ASSUME NEW k \in 1 .. n PROVE Pick(k) \in I /\ Rank(I)[Pick(k)] = k
  <2>1. PICK i \in I : Rank(I)[i] = k
    BY <1>2 DEF Surjection
  <2> QED
    BY <1>3, <2>1
<1>5. At(queue, I) = [k \in 1 .. n |-> queue[Pick(k)]]
  BY DEF At
<1> HIDE DEF Pick, n
<1> SUFFICES ASSUME NEW k \in 1 .. n, NEW l \in 1 .. n,
                    ToSet(queue[Pick(k)]) = ToSet(queue[Pick(l)])
             PROVE  k = l
  BY <1>5 DEF Distinct
<1>6. Pick(k) = Pick(l)
  BY <1>4 DEF Distinct
<1> QED
  BY <1>4, <1>6

\* Two queues without a group in common make one queue.
LEMMA DistinctConcat ==
  ASSUME NEW S, NEW q \in Seq(S), NEW r \in Seq(S), Distinct(q), Distinct(r),
         \A a \in ToSet(q), b \in ToSet(r) : ToSet(a) # ToSet(b)
  PROVE  Distinct(q \o r)
<1> DEFINE c == q \o r
<1>1. /\ c \in Seq(S) /\ Len(c) = Len(q) + Len(r) /\ Len(q) \in Nat /\ Len(r) \in Nat
      /\ \A i \in 1 .. Len(q) : c[i] = q[i]
      /\ \A i \in 1 .. Len(r) : c[Len(q) + i] = r[i]
  OBVIOUS
<1>2. /\ DOMAIN c = 1 .. Len(c)
      /\ DOMAIN q = 1 .. Len(q) /\ DOMAIN r = 1 .. Len(r)
  BY <1>1
<1> HIDE DEF c
<1>3. ASSUME NEW i \in 1 .. Len(c)
      PROVE  \/ i \in 1 .. Len(q) /\ c[i] = q[i] /\ q[i] \in ToSet(q)
             \/ /\ i \notin 1 .. Len(q)
                /\ i - Len(q) \in 1 .. Len(r) /\ c[i] = r[i - Len(q)]
                /\ r[i - Len(q)] \in ToSet(r)
  <2>1. CASE i \in 1 .. Len(q)
    BY <1>1, <1>2, <2>1 DEF ToSet
  <2>2. CASE i \notin 1 .. Len(q)
    <3>1. i - Len(q) \in 1 .. Len(r) /\ Len(q) + (i - Len(q)) = i
      BY <1>1, <2>2
    <3>2. c[i] = r[i - Len(q)]
      BY <1>1, <3>1
    <3> QED
      BY <1>2, <2>2, <3>1, <3>2 DEF ToSet
  <2> QED
    BY <2>1, <2>2
<1>4. ASSUME NEW i \in 1 .. Len(c), NEW j \in 1 .. Len(c), ToSet(c[i]) = ToSet(c[j])
      PROVE  i = j
  <2>1. CASE i \in 1 .. Len(q) /\ j \in 1 .. Len(q)
    BY <1>2, <1>3, <1>4, <2>1 DEF Distinct
  <2>2. CASE i \notin 1 .. Len(q) /\ j \notin 1 .. Len(q)
    <3>1. i - Len(q) = j - Len(q)
      BY <1>2, <1>3, <1>4, <2>2 DEF Distinct
    <3> QED
      BY <1>1, <3>1
  <2>3. CASE i \in 1 .. Len(q) /\ j \notin 1 .. Len(q)
    BY <1>3, <1>4, <2>3
  <2>4. CASE i \notin 1 .. Len(q) /\ j \in 1 .. Len(q)
    BY <1>3, <1>4, <2>4
  <2> QED
    BY <2>1, <2>2, <2>3, <2>4
<1> QED
  BY <1>2, <1>4 DEF Distinct, c

\* A seeker becomes a member.
LEMMA AddedMembers ==
  ASSUME NEW queue \in Seq(Seq(User)), NEW u \in User,
         \A pod \in ToSet(queue) : pod \in Seq(User) /\ Len(pod) > 0
  PROVE  Members(AddNewPods(queue, u)) = Members(queue) \cup {u}
<1>1. ToSet(AddNewPods(queue, u)) =
        ToSet(queue) \cup {<<u>>}
          \cup {<<u>> \o pod : pod \in {q \in ToSet(queue) : ~IsFull(q)}}
  BY AddedPods
<1>2. ASSUME NEW q \in ToSet(queue), NEW v \in User PROVE <<u>> \o q # <<v>>
  <2>1. PICK new, old : new = <<u>> \o q /\ old = <<v>>
    OBVIOUS
  <2>2. Len(new) = Len(q) + 1 /\ Len(q) > 0 /\ Len(q) \in Nat
    BY <2>1, NewPodIs
  <2>3. Len(old) = 1
    BY <2>1
  <2>4. Len(new) # Len(old)
    BY <2>2, <2>3
  <2>5. new # old
    BY <2>4
  <2> QED
    BY <2>1, <2>5
<1>3. ASSUME NEW v \in User
      PROVE  <<v>> \in ToSet(AddNewPods(queue, u)) <=> <<v>> \in ToSet(queue) \/ v = u
  <2>1. <<v>> = <<u>> <=> v = u
    OBVIOUS
  <2> QED
    BY <1>1, <1>2, <2>1
<1> QED
  BY <1>3 DEF Members

\* Whoever is removed is no member any more.
LEMMA RetainedMembers ==
  ASSUME NEW queue \in Seq(Seq(User)), NEW uids
  PROVE  Members(Retained(queue, uids)) = Members(queue) \ uids
<1>1. \A v \in User : ToSet(<<v>>) = {v}
  BY DEF ToSet
<1>2. ToSet(Retained(queue, uids)) =
        {pod \in ToSet(queue) : ToSet(pod) \cap uids = {}}
  BY RetainedPods
<1>3. \A v \in User :
        <<v>> \in ToSet(Retained(queue, uids)) <=> <<v>> \in ToSet(queue) /\ v \notin uids
  BY <1>1, <1>2
<1> QED
  BY <1>3 DEF Members

\* The users of a pod are finitely many, and at least one.
LEMMA PodIsFinite ==
  ASSUME NEW pod \in Seq(User)
  PROVE  IsFiniteSet(ToSet(pod)) /\ Cardinality(ToSet(pod)) \in Nat
<1> DEFINE n == Len(pod)
<1>1. DOMAIN pod = 1 .. n /\ n \in Nat
  OBVIOUS
<1>2. IsFiniteSet(1 .. n)
  BY <1>1, FS_Interval
<1>3. pod \in Surjection(1 .. n, ToSet(pod))
  BY <1>1 DEF ToSet, Surjection
<1> QED
  BY <1>2, <1>3, FS_Surjection, FS_CardinalityType

\* A seeker forms every new group with the groups there are.
LEMMA AddedGroups ==
  ASSUME NEW queue \in Seq(Seq(User)), NEW u \in User,
         \A pod \in ToSet(queue) : pod \in Seq(User) /\ Len(pod) > 0,
         Grouped(queue), u \notin Members(queue)
  PROVE  Grouped(AddNewPods(queue, u))
<1> DEFINE new == AddNewPods(queue, u)
           M == Members(queue)
<1>0. PodSize \in Nat /\ PodSize > 0
  BY SeeksAssumption
<1>1. PICK pods0 : pods0 = ToSet(queue)
  OBVIOUS
<1>2. ToSet(new) = pods0 \cup {<<u>>}
                     \cup {<<u>> \o pod : pod \in {q \in pods0 : ~IsFull(q)}}
  BY <1>1, AddedPods
<1>3. Members(new) = M \cup {u}
  BY AddedMembers
<1>4. ToSet(<<u>>) = {u} /\ Len(<<u>>) = 1 /\ Cardinality({u}) = 1
  <2>1. ToSet(<<u>>) = {u} /\ Len(<<u>>) = 1
    BY DEF ToSet
  <2> QED
    BY <2>1, FS_Singleton
<1>5. ASSUME NEW q \in pods0
      PROVE  /\ q \in Seq(User) /\ Len(q) \in Nat /\ Len(q) > 0
             /\ ToSet(q) \subseteq M /\ u \notin ToSet(q)
             /\ ToSet(q) # {}
             /\ IsFiniteSet(ToSet(q)) /\ Len(q) = Cardinality(ToSet(q))
             /\ ToSet(<<u>> \o q) = {u} \cup ToSet(q)
             /\ Len(<<u>> \o q) = Cardinality({u} \cup ToSet(q))
  <2>1. q \in Seq(User) /\ Len(q) \in Nat /\ Len(q) > 0
    BY <1>1
  <2>2. ToSet(q) \subseteq M /\ u \notin ToSet(q) /\ Len(q) = Cardinality(ToSet(q))
    BY <1>1 DEF Grouped
  <2>3. IsFiniteSet(ToSet(q))
    BY <2>1, PodIsFinite
  <2>4. ToSet(q) # {}
    <3>1. 1 \in DOMAIN q
      BY <2>1
    <3> QED
      BY <3>1 DEF ToSet
  <2>5. ToSet(<<u>> \o q) = {u} \cup ToSet(q) /\ Len(<<u>> \o q) = Len(q) + 1
    BY <2>1, NewPodIs
  <2>6. Cardinality(ToSet(q) \cup {u}) = Cardinality(ToSet(q)) + 1
    BY <2>2, <2>3, FS_AddElement
  <2>7. ToSet(q) \cup {u} = {u} \cup ToSet(q)
    OBVIOUS
  <2> QED
    BY <2>1, <2>2, <2>3, <2>4, <2>5, <2>6, <2>7
<1> HIDE DEF new, M
<1>6. ASSUME NEW pod \in ToSet(new)
      PROVE  ToSet(pod) \subseteq M \cup {u} /\ Len(pod) = Cardinality(ToSet(pod))
  BY <1>2, <1>4, <1>5
<1>7. ASSUME NEW s \in SUBSET (M \cup {u}), s # {}, Cardinality(s) <= PodSize
      PROVE  \E pod \in ToSet(new) : ToSet(pod) = s
  <2>1. CASE u \notin s
    <3>1. s \in (SUBSET M) \ {{}}
      BY <1>7, <2>1
    <3>2. PICK pod \in pods0 : ToSet(pod) = s
      BY <1>1, <1>7, <3>1 DEF Grouped, M
    <3> QED
      BY <1>2, <3>2
  <2>2. CASE s = {u}
    BY <1>2, <1>4, <2>2
  <2>3. CASE u \in s /\ s # {u}
    <3>1. PICK r : r = s \ {u}
      OBVIOUS
    <3>2. r \in (SUBSET M) \ {{}} /\ s = {u} \cup r /\ u \notin r
      BY <1>7, <2>3, <3>1
    <3>3. IsFiniteSet(r) /\ Cardinality(r) \in Nat /\ Cardinality(r) < PodSize
      <4>1. IsFiniteSet(M)
        BY DEF Grouped, M
      <4>2. IsFiniteSet(r)
        BY <3>2, <4>1, FS_Subset
      <4>3. Cardinality(r \cup {u}) = Cardinality(r) + 1 /\ r \cup {u} = s
        BY <3>2, <4>2, FS_AddElement
      <4>4. Cardinality(r) \in Nat
        BY <4>2, FS_CardinalityType
      <4>5. PICK n \in Nat : n = Cardinality(r)
        BY <4>4
      <4>6. n + 1 <= PodSize
        BY <1>7, <4>3, <4>5
      <4>7. Cardinality(r) < PodSize
        BY <1>0, <4>5, <4>6
      <4> QED
        BY <4>2, <4>4, <4>7
    <3>4. PICK q \in pods0 : ToSet(q) = r
      <4>1. Cardinality(r) <= PodSize
        BY <1>0, <3>3
      <4> QED
        BY <1>1, <3>2, <4>1 DEF Grouped, M
    <3>5. Len(q) # PodSize
      <4>1. Len(q) = Cardinality(r)
        BY <1>5, <3>4
      <4> QED
        BY <1>0, <3>3, <4>1
    <3>6. <<u>> \o q \in ToSet(new) /\ ToSet(<<u>> \o q) = s
      BY <1>2, <1>5, <3>2, <3>4, <3>5 DEF IsFull
    <3> QED
      BY <3>6
  <2> QED
    BY <2>1, <2>2, <2>3
\* The old groups are without u, the new ones with him.
<1>8. Distinct(new)
  <2> DEFINE I == {i \in DOMAIN queue : ~IsFull(queue[i])}
             open == At(queue, I)
             fresh == NewPods(queue, u)
  <2>1. open \in Seq(Seq(User)) /\ ToSet(open) = {queue[i] : i \in I}
    BY AtSelects
  <2>2. \A i \in I : queue[i] \in pods0
    BY <1>1 DEF ToSet
  <2>3. ToSet(open) \subseteq pods0
    BY <2>1, <2>2
  <2>4. Distinct(queue)
    BY DEF Grouped
  <2>5. Distinct(open)
    BY <2>4, DistinctAt
  <2>6. fresh = [i \in DOMAIN open |-> <<u>> \o open[i]]
    BY DEF NewPods
  <2> HIDE DEF open, fresh
  <2>7. DOMAIN open = 1 .. Len(open) /\ Len(open) \in Nat
    BY <2>1
  <2>8. \A i \in 1 .. Len(open) : open[i] \in pods0
    BY <2>3, <2>7 DEF ToSet
  <2>9. \A i \in 1 .. Len(open) :
           <<u>> \o open[i] \in Seq(User) /\ ToSet(<<u>> \o open[i]) = {u} \cup ToSet(open[i])
    BY <1>5, <2>8, NewPodIs
  <2>10. fresh \in Seq(Seq(User)) /\ DOMAIN fresh = 1 .. Len(open)
    BY <2>6, <2>7, <2>9
  <2>11. \A i \in 1 .. Len(open) : fresh[i] = <<u>> \o open[i]
    BY <2>6, <2>7
  <2>12. Distinct(fresh)
    <3> SUFFICES ASSUME NEW i \in 1 .. Len(open), NEW j \in 1 .. Len(open),
                        ToSet(fresh[i]) = ToSet(fresh[j])
                 PROVE  i = j
      BY <2>10 DEF Distinct
    <3>1. {u} \cup ToSet(open[i]) = {u} \cup ToSet(open[j])
      BY <2>9, <2>11
    <3>2. u \notin ToSet(open[i]) /\ u \notin ToSet(open[j])
      BY <1>5, <2>8
    <3>3. ToSet(open[i]) = ToSet(open[j])
      <4>1. PICK a, b : a = ToSet(open[i]) /\ b = ToSet(open[j])
        OBVIOUS
      <4>2. {u} \cup a = {u} \cup b /\ u \notin a /\ u \notin b
        BY <3>1, <3>2, <4>1
      <4>3. a \subseteq b /\ b \subseteq a
        BY <4>2
      <4>4. a = b
        BY <4>3
      <4> QED
        BY <4>1, <4>4
    <3> QED
      BY <2>5, <2>7, <3>3 DEF Distinct
  <2>13. \A b \in ToSet(fresh) : \E q \in pods0 : ToSet(b) = {u} \cup ToSet(q)
    <3>1. \A i \in 1 .. Len(open) : ToSet(fresh[i]) = {u} \cup ToSet(open[i])
      BY <2>9, <2>11
    <3>2. ASSUME NEW b \in ToSet(fresh)
          PROVE  \E q \in pods0 : ToSet(b) = {u} \cup ToSet(q)
      <4>1. PICK i \in 1 .. Len(open) : b = fresh[i]
        BY <2>10 DEF ToSet
      <4> QED
        BY <2>8, <3>1, <4>1
    <3> QED
      BY <3>2
  <2>14. /\ queue \o fresh \in Seq(Seq(User))
         /\ ToSet(queue \o fresh) = ToSet(queue) \cup ToSet(fresh)
    BY <2>10, ToSetConcat
  <2>15. \A a \in ToSet(queue), b \in ToSet(fresh) : ToSet(a) # ToSet(b)
    <3>1. \A a \in ToSet(queue) : u \notin ToSet(a)
      BY <1>1, <1>5
    <3>2. \A b \in ToSet(fresh) : u \in ToSet(b)
      BY <2>13
    <3> QED
      BY <3>1, <3>2
  <2>16. Distinct(queue \o fresh)
    BY <2>4, <2>10, <2>12, <2>15, DistinctConcat
  <2>17. \A a \in ToSet(queue \o fresh) : ToSet(a) # {u}
    <3>1. \A a \in pods0 : u \notin ToSet(a) /\ ToSet(a) # {}
      BY <1>5
    <3>2. ASSUME NEW a \in ToSet(fresh) PROVE ToSet(a) # {u}
      <4>1. PICK q \in pods0 : ToSet(a) = {u} \cup ToSet(q)
        BY <2>13
      <4>2. PICK x : x \in ToSet(q)
        BY <3>1
      <4> QED
        BY <3>1, <4>1, <4>2
    <3>3. \A a \in ToSet(queue) : ToSet(a) # {u}
      BY <1>1, <3>1
    <3> QED
      BY <2>14, <3>2, <3>3
  <2>18. PICK last \in Seq(Seq(User)) : last = <<<<u>>>>
    <3>1. <<<<u>>>> \in Seq(Seq(User))
      OBVIOUS
    <3> QED
      BY <3>1
  <2>19. ToSet(last) = {<<u>>} /\ Distinct(last)
    BY <2>18 DEF ToSet, Distinct
  <2>20. \A a \in ToSet(queue \o fresh), b \in ToSet(last) : ToSet(a) # ToSet(b)
    BY <1>4, <2>17, <2>19
  <2>21. PICK most \in Seq(Seq(User)) : most = queue \o fresh
    BY <2>14
  <2>22. Distinct(most \o last)
    BY <2>16, <2>19, <2>20, <2>21, DistinctConcat
  <2>23. new = most \o last
    BY <2>18, <2>21 DEF new, AddNewPods, fresh
  <2> QED
    BY <2>22, <2>23
<1>9. IsFiniteSet(M \cup {u})
  BY FS_AddElement DEF Grouped, M
<1> QED
  BY <1>3, <1>6, <1>7, <1>8, <1>9 DEF Grouped, new

\* A queue from which users are removed has every group of the others.
LEMMA RetainedGroups ==
  ASSUME NEW queue \in Seq(Seq(User)), NEW uids, Grouped(queue)
  PROVE  Grouped(Retained(queue, uids))
<1>1. PICK r : r = Retained(queue, uids)
  OBVIOUS
<1>2. ToSet(r) = {pod \in ToSet(queue) : ToSet(pod) \cap uids = {}}
  BY <1>1, RetainedPods
<1>3. Members(r) = Members(queue) \ uids
  BY <1>1, RetainedMembers
<1>4. IsFiniteSet(Members(r))
  <2>1. PICK M : M = Members(queue)
    OBVIOUS
  <2>2. IsFiniteSet(M)
    BY <2>1 DEF Grouped
  <2>3. IsFiniteSet(M \ uids)
    BY <2>2, FS_Difference
  <2> QED
    BY <1>3, <2>1, <2>3
<1>5. Distinct(r)
  BY <1>1, DistinctAt DEF Retained, Grouped
<1>6. \A pod \in ToSet(r) : /\ ToSet(pod) \subseteq Members(r)
                            /\ Len(pod) = Cardinality(ToSet(pod))
  BY <1>2, <1>3 DEF Grouped
<1>7. ASSUME NEW s \in (SUBSET Members(r)) \ {{}}, Cardinality(s) <= PodSize
      PROVE  \E pod \in ToSet(r) : ToSet(pod) = s
  <2>1. s \in (SUBSET Members(queue)) \ {{}} /\ s \cap uids = {}
    BY <1>3
  <2>2. PICK pod \in ToSet(queue) : ToSet(pod) = s
    BY <1>7, <2>1 DEF Grouped
  <2> QED
    BY <1>2, <2>1, <2>2
<1> QED
  BY <1>1, <1>4, <1>5, <1>6, <1>7 DEF Grouped

\* Who seeks anew is in no pod and is being removed by nobody.
LEMMA NewSeeker ==
  ASSUME Patient, QInv, NEW t \in Thread, NEW u \in User, NEW r \in Pool,
         AddSeeker(t, u, r)
  PROVE  /\ u \notin Members(pods[r])
         /\ \A o \in Thread : u \notin job[o].uids
<1>1. \A o \in Thread : u \notin job[o].uids
  BY DEF AddSeeker, Leaving
<1>2. userSeeks[u] # r
  BY SeeksAssumption DEF AddSeeker
<1>3. u \in ToSet(<<u>>)
  BY DEF ToSet
<1>4. <<u>> \notin ToSet(pods[r])
  BY <1>1, <1>2, <1>3 DEF QInv, PodUsersWait
<1> QED
  BY <1>1, <1>4 DEF Members

\* Every step keeps the groups complete: nobody is added to a queue twice.
LEMMA NextGrouped ==
  ASSUME Patient, QInv, [Next]_vars, \A p \in Pool : Grouped(pods[p])
  PROVE  \A p \in Pool : Grouped(pods'[p])
<1>0. /\ TypeOK /\ pods \in [Pool -> Seq(Seq(User))] /\ job \in [Thread -> JobState]
      /\ \A p \in Pool : \A pod \in ToSet(pods[p]) : pod \in Seq(User) /\ Len(pod) > 0
  <2>1. TypeOK
    BY DEF QInv
  <2>2. \A p \in Pool : \A pod \in ToSet(pods[p]) : Len(pod) \in 1 .. PodSize
    BY <2>1 DEF TypeOK
  <2>3. \A p \in Pool : \A pod \in ToSet(pods[p]) : Len(pod) > 0
    BY <2>2
  <2> QED
    BY <2>1, <2>3, PodIsUsers DEF TypeOK
<1>1. ASSUME NEW t \in Thread, NEW u \in User, NEW r \in Pool, AddSeeker(t, u, r)
      PROVE  \A p \in Pool : Grouped(pods'[p])
  <2>1. PICK queue \in Seq(Seq(User)) : queue = pods[r]
    BY <1>0
  <2>2. pods' = [pods EXCEPT ![r] = AddNewPods(queue, u)]
    BY <1>1, <2>1 DEF AddSeeker
  <2>3. u \notin Members(queue)
    BY <1>1, <2>1, NewSeeker
  <2>4. Grouped(AddNewPods(queue, u))
    BY <1>0, <2>1, <2>3, AddedGroups
  <2> QED
    BY <1>0, <2>2, <2>4
<1>2. ASSUME NEW t \in Thread, CleanPods(t)
      PROVE  \A p \in Pool : Grouped(pods'[p])
  <2>1. PICK r \in Pool : r = job[t].pool
    BY <1>0, <1>2 DEF CleanPods, TypeOK
  <2>2. PICK queue \in Seq(Seq(User)) : queue = pods[r]
    BY <1>0
  <2>3. pods' = [pods EXCEPT ![r] = Retained(queue, job[t].uids)]
    BY <1>2, <2>1, <2>2 DEF CleanPods
  <2>4. Grouped(Retained(queue, job[t].uids))
    BY <2>2, RetainedGroups
  <2> QED
    BY <1>0, <2>3, <2>4
<1>3. CASE UNCHANGED pods
  BY <1>3
<1> QED
  BY <1>1, <1>2, <1>3 DEF Next, ThreadStep, GetFirstPod, CleanUser, CleanSeeks, vars

-----------------------------------------------------------------------------
(* The queues when no call is under way *)

GInv == QInv /\ \A p \in Pool : Grouped(pods[p])

LEMMA GroupsInvariant ==
  ASSUME Patient
  PROVE  Spec => []GInv
<1>1. Init => GInv
  <2> SUFFICES ASSUME Init, NEW p \in Pool PROVE Grouped(pods[p])
    BY InitQInv DEF GInv
  <2>1. pods[p] = <<>> /\ ToSet(pods[p]) = {}
    BY DEF Init, ToSet
  <2>2. Members(pods[p]) = {}
    BY <2>1 DEF Members
  <2>3. (SUBSET {}) \ {{}} = {}
    OBVIOUS
  <2>4. Distinct(pods[p])
    BY <2>1 DEF Distinct
  <2>5. IsFiniteSet(Members(pods[p]))
    BY <2>2, FS_EmptySet
  <2> QED
    BY <2>1, <2>2, <2>3, <2>4, <2>5 DEF Grouped
<1>2. GInv /\ [Next]_vars => GInv'
  <2> SUFFICES ASSUME GInv, [Next]_vars PROVE GInv'
    OBVIOUS
  <2>1. QInv'
    BY NextQInv DEF GInv
  <2>2. (\A p \in Pool : Grouped(pods[p]))'
    BY NextGrouped DEF GInv
  <2> QED
    BY <2>1, <2>2 DEF GInv
<1> QED
  BY <1>1, <1>2, PTL DEF Spec

\* When no call is under way, the members of a queue are who seeks there.
LEMMA IdleMembers ==
  ASSUME GInv, AllIdle, NEW p \in Pool
  PROVE  Members(pods[p]) = Waiting(p)
<1>1. \A t \in Thread : job[t].stage = "idle" /\ job[t].uids = {}
  BY IdleJob DEF AllIdle
<1>2. ASSUME NEW u \in Members(pods[p]) PROVE userSeeks[u] = p
  <2>1. <<u>> \in ToSet(pods[p]) /\ u \in ToSet(<<u>>)
    BY DEF Members, ToSet
  <2> QED
    BY <1>1, <2>1 DEF GInv, QInv, PodUsersWait
<1>3. ASSUME NEW u \in User, userSeeks[u] = p PROVE <<u>> \in ToSet(pods[p])
  BY <1>3, SeeksAssumption DEF GInv, QInv, SeekerHasPod
<1> QED
  BY <1>2, <1>3 DEF Members, Waiting

\* The groups of seekers of a pool that fit into a game.
Groups(p) == {s \in SUBSET Waiting(p) : s # {} /\ Cardinality(s) <= PodSize}

\* When no call is under way, a queue holds each group of its pool's seekers
\* that fits into a game exactly once.
EveryGroupOnce ==
  AllIdle =>
    \A p \in Pool :
      /\ {ToSet(pod) : pod \in ToSet(pods[p])} = Groups(p)
      /\ \A i, j \in DOMAIN pods[p] :
           ToSet(pods[p][i]) = ToSet(pods[p][j]) => i = j

\* Whatever the number of threads, clean_users leaves each queue complete:
\* every group of seekers that fits into a game once, and no other
\* (seeks.rs:81-94 and 147-157).  So whenever enough of them wait, there is a
\* full pod for the next seek to find.  It takes that nobody seeks while a
\* call is removing him.  How many may be left waiting is not said: of three
\* socket threads that find the same pod, none looks at the next.
THEOREM EveryGroupOnceTheorem ==
  ASSUME Patient
  PROVE  Spec => []EveryGroupOnce
<1>1. GInv => EveryGroupOnce
  <2> SUFFICES ASSUME GInv, AllIdle, NEW p \in Pool
               PROVE  /\ {ToSet(pod) : pod \in ToSet(pods[p])} = Groups(p)
                      /\ Distinct(pods[p])
    BY DEF EveryGroupOnce, Distinct
  <2>1. PICK queue \in Seq(Seq(User)) : queue = pods[p]
    BY DEF GInv, QInv, TypeOK
  <2>2. Members(queue) = Waiting(p) /\ Grouped(queue)
    BY <2>1, IdleMembers DEF GInv
  <2>3. ASSUME NEW s \in Groups(p) PROVE \E pod \in ToSet(queue) : ToSet(pod) = s
    BY <2>2 DEF Grouped, Groups
  <2>4. ASSUME NEW pod \in ToSet(queue) PROVE ToSet(pod) \in Groups(p)
    <3>1. ToSet(pod) \subseteq Waiting(p)
      BY <2>2 DEF Grouped
    <3>2. Len(pod) \in 1 .. PodSize /\ pod \in Seq(User)
      BY <2>1, PodIsUsers DEF GInv, QInv, TypeOK
    <3>3. 1 \in DOMAIN pod
      BY <3>2, SeeksAssumption
    <3>4. ToSet(pod) # {}
      BY <3>3 DEF ToSet
    <3>5. Cardinality(ToSet(pod)) <= PodSize
      BY <2>2, <3>2, SeeksAssumption DEF Grouped
    <3> QED
      BY <3>1, <3>4, <3>5 DEF Groups
  <2> QED
    BY <2>1, <2>2, <2>3, <2>4 DEF Grouped
<1> QED
  BY <1>1, GroupsInvariant, PTL
=============================================================================
