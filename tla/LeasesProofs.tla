---------------------------- MODULE LeasesProofs ----------------------------
(***************************************************************************)
(* Theorems about Leases, for any TTLs and any number of rows and          *)
(* concurrent requests.                                                    *)
(***************************************************************************)
EXTENDS Leases, TLAPS

-----------------------------------------------------------------------------
(* Type correctness                                                        *)

\* The time left after a renewal or a tick is again a time left.
LEMMA LeftTypes ==
  /\ \A ttl \in Nat, age \in Nat : Remaining(ttl, age) \in Left
  /\ \A t \in Left : Countdown(t) \in Left
  BY DEF Remaining, Countdown, Left

\* Every step keeps the types.
LEMMA TypeStep == TypeOK /\ [Next]_vars => TypeOK'
<1> SUFFICES ASSUME TypeOK, [Next]_vars PROVE TypeOK'
  OBVIOUS
<1> USE TimeAssumption DEF tables, client, history, ReplicasFirst
<1>1. CASE Tick
  <2>1. /\ leases' \in [DOMAIN leases' -> Left] /\ DOMAIN leases' \subseteq Rows
        /\ drafts' \in [DOMAIN drafts' -> Left] /\ DOMAIN drafts' \subseteq Allocs
    BY <1>1, LeftTypes DEF Tick, TypeOK
  <2>2. beats' \in [Beaters -> BeatState]
    BY <1>1 DEF Tick, TypeOK, BeatState
  <2>4. \A b \in Beaters : beats'[b].pc = beats[b].pc /\ beats'[b].datasets = beats[b].datasets
    BY <1>1 DEF Tick, TypeOK, BeatState
  <2>3. since' \in 0 .. Period
    BY <1>1 DEF Tick, TypeOK
  <2> QED
    BY <1>1, <2>1, <2>2, <2>3, <2>4 DEF Tick, TypeOK
<1>2. CASE Stop
  <2>1. since' \in 0 .. Period
    BY <1>2 DEF Stop
  <2>2. renewing' \in BOOLEAN
    BY <1>2 DEF Stop
  <2> QED
    BY <1>2, <2>1, <2>2 DEF Stop, TypeOK
<1>3. ASSUME NEW b \in Beaters, BeginHeartbeat(b) PROVE TypeOK'
  <2>1. [pc |-> "worker", datasets |-> Datasets, allocs |-> running, age |-> 0] \in BeatState
    BY DEF TypeOK, BeatState
  <2> QED
    BY <1>3, <2>1 DEF BeginHeartbeat, TypeOK
<1>4. ASSUME NEW b \in Beaters, UpdateWorkerTTL(b) PROVE TypeOK'
  <2>1. beats' \in [Beaters -> BeatState] /\ ReplicasFirst'
    BY <1>4 DEF UpdateWorkerTTL, TypeOK, BeatState, Idle
  <2>2. Remaining(WorkerTTL, beats[b].age) \in Left
    BY LeftTypes DEF TypeOK, BeatState
  <2> QED
    BY <1>4, <2>1, <2>2 DEF UpdateWorkerTTL, TypeOK, Set, Rows
<1>5. ASSUME NEW b \in Beaters, NEW d \in Datasets, PutReplica(b, d) PROVE TypeOK'
  <2>1. beats' \in [Beaters -> BeatState] /\ ReplicasFirst'
    BY <1>5 DEF PutReplica, TypeOK, BeatState
  <2>2. Remaining(ReplicaTTL, beats[b].age) \in Left
    BY LeftTypes DEF TypeOK, BeatState
  <2> QED
    BY <1>5, <2>1, <2>2 DEF PutReplica, TypeOK, Set, Rows
<1>6. ASSUME NEW b \in Beaters, ReplicasDone(b) \/ EndHeartbeat(b) \/ FailHeartbeat(b)
      PROVE  TypeOK'
  <2>1. beats' \in [Beaters -> BeatState] /\ ReplicasFirst'
    BY <1>6 DEF ReplicasDone, EndHeartbeat, FailHeartbeat, TypeOK, BeatState, Idle
  <2> QED
    BY <1>6, <2>1 DEF ReplicasDone, EndHeartbeat, FailHeartbeat, TypeOK
<1>7. ASSUME NEW b \in Beaters, NEW a \in Allocs, UpdateAllocTTL(b, a) PROVE TypeOK'
  <2>1. beats' \in [Beaters -> BeatState] /\ ReplicasFirst'
    BY <1>7 DEF UpdateAllocTTL, TypeOK, BeatState, Idle
  <2>2. Remaining(AllocTTL, beats[b].age) \in Left
    BY LeftTypes DEF TypeOK, BeatState
  <2> QED
    BY <1>7, <2>1, <2>2 DEF UpdateAllocTTL, TypeOK, Set, Rows
<1>8. ASSUME NEW a \in Allocs, Claim(a) \/ PutNewAlloc(a) PROVE TypeOK'
  <2>1. AllocTTL \in Left
    BY DEF Left
  <2>2. CASE Claim(a)
    BY <2>1, <2>2 DEF Claim, TypeOK
  <2>3. CASE PutNewAlloc(a)
    <3>1. drafts[a] \in Left
      BY <2>3 DEF PutNewAlloc, TypeOK
    <3>2. leases' \in [DOMAIN leases' -> Left] /\ DOMAIN leases' \subseteq Rows
      BY <2>3, <3>1 DEF PutNewAlloc, TypeOK, Set, Rows
    <3>3. drafts' \in [DOMAIN drafts' -> Left] /\ DOMAIN drafts' \subseteq Allocs
      BY <2>3 DEF PutNewAlloc, TypeOK, Restrict
    <3> QED
      BY <2>3, <3>2, <3>3 DEF PutNewAlloc, TypeOK
  <2> QED
    BY <1>8, <2>2, <2>3
<1>9. ASSUME NEW a \in Allocs, ReceiveAlloc(a) \/ CompleteAlloc(a) PROVE TypeOK'
  BY <1>9 DEF ReceiveAlloc, CompleteAlloc, TypeOK, Restrict
<1>10. ASSUME NEW r \in Releasers, QueryAllocs(r) \/ QueryReplicas(r) \/ QueryWorkers(r)
       PROVE  TypeOK'
  <2>1. PICK to \in {"allocs", "replicas", "workers"}, kind \in SUBSET Rows :
          rel' = [rel EXCEPT ![r] = [pc |-> to, todo |-> Expired(kind)]]
    BY <1>10 DEF QueryAllocs, QueryReplicas, QueryWorkers, Query, Rows
  <2>2. [pc |-> to, todo |-> Expired(kind)] \in RelState
    BY DEF Expired, RelState
  <2> QED
    BY <1>10, <2>1, <2>2 DEF QueryAllocs, QueryReplicas, QueryWorkers, Query, TypeOK
<1>11. ASSUME NEW r \in Releasers, NEW x, Delete(r, x) PROVE TypeOK'
  <2>1. rel' \in [Releasers -> RelState]
    BY <1>11 DEF Delete, TypeOK, RelState
  <2> QED
    BY <1>11, <2>1 DEF Delete, TypeOK, Restrict
<1>12. ASSUME NEW r \in Releasers,
              EndRound(r) \/ FailRound(r) \/ \E x \in Rows : SkipRow(r, x)
       PROVE  TypeOK'
  <2>1. rel' \in [Releasers -> RelState]
    BY <1>12 DEF EndRound, FailRound, SkipRow, TypeOK, RelState, Away
  <2> QED
    BY <1>12, <2>1 DEF EndRound, FailRound, SkipRow, TypeOK
<1>13. CASE UNCHANGED vars
  BY <1>13 DEF vars, TypeOK
<1> QED
  BY <1>1, <1>2, <1>3, <1>4, <1>5, <1>6, <1>7, <1>8, <1>9, <1>10, <1>11, <1>12, <1>13
  DEF Next, Heartbeat, Round, ReleaseAlloc, DeleteReplica, DeleteWorker

\* Rows, drafts, local states and histories are what they are declared to be.
THEOREM LeasesTypeCorrect == Spec => []TypeOK
<1>1. Init => TypeOK
  BY TimeAssumption
  DEF Init, TypeOK, ReplicasFirst, Rows, Left, BeatState, RelState, Idle, Away
<1> QED
  BY <1>1, TypeStep, PTL DEF Spec

-----------------------------------------------------------------------------
(* Why heartbeats come in time. Consider the requests that will still write  *)
(* some row, and the set A of their ages; the latest request of all, whether *)
(* it will or not, has age s. As long as there is no gap, each request is    *)
(* followed by a younger one at most Period later, until the latest.         *)

\* A request of age x is the latest, or followed in time by one in A.
Followed(x, A, s) == x = s \/ \E y \in A : x - Period <= y /\ y < x

\* t is the time left to a row. It was written by a request at most Latency
\* older than some request of age k, which is followed, as are all in A that
\* are younger: the row will be written again in time.
Timely(t, ttl, A, s) ==
    \E k \in 0 .. Period + Latency :
        /\ ttl - Latency - k <= t
        /\ Followed(k, A, s)
        /\ \A x \in A : x < k => Followed(x, A, s)

\* No request in A leaves a gap.
Gapless(A, s) == \A x \in A : Followed(x, A, s)

\* The requests that will still write row r, and their ages.
Pending(r) ==
    {b \in Beaters : IF r = Worker THEN beats[b].pc = "worker"
                     ELSE beats[b].pc \in {"worker", "replicas"} /\ r \in beats[b].datasets}
Ages(r) == {beats[b].age : b \in Pending(r)}

Untouched(x) == \A r \in Releasers : x \notin rel[r].todo

WorkerTimely ==
    /\ Worker \in DOMAIN leases
    /\ Timely(leases[Worker], WorkerTTL, Ages(Worker), since)
    /\ Untouched(Worker)

\* The inductive strengthening of WorkerKept.
WorkerInv == renewing /\ faults = 0 /\ Ample(WorkerTTL) => WorkerTimely

ReplicaTimely(d) ==
    /\ d \in reported <=> d \in DOMAIN leases
    /\ d \in reported => Timely(leases[d], ReplicaTTL, Ages(d), since)
    /\ d \notin reported => Gapless(Ages(d), since)
    /\ Untouched(d)

\* The inductive strengthening of ReplicasKept.
ReplicaInv ==
    renewing /\ faults = 0 /\ Ample(WorkerTTL) /\ Ample(ReplicaTTL)
        => \A d \in Datasets : ReplicaTimely(d)

-----------------------------------------------------------------------------
(* Lemmas about ages                                                       *)

\* A row that is written in time has not expired.
LEMMA TimelyIsEnough ==
  ASSUME NEW t \in Int, NEW ttl \in Nat, Ample(ttl), NEW A \in SUBSET (0 .. Latency),
         NEW s \in 0 .. Period, Timely(t, ttl, A, s)
  PROVE  t >= 0
<1>1. PICK k \in 0 .. Period + Latency : ttl - Latency - k <= t /\ Followed(k, A, s)
  BY DEF Timely
<1>2. k <= Period + Latency
  BY <1>1
<1> QED
  BY <1>1, <1>2, TimeAssumption DEF Ample

\* Time passes for all ages alike.
LEMMA TimelyTick ==
  ASSUME NEW t \in Int, NEW ttl \in Nat, NEW A \in SUBSET (0 .. Latency),
         NEW s \in 0 .. Period, s < Period, \A x \in A : x < Latency,
         NEW B, B = {x + 1 : x \in A}
  PROVE  /\ Timely(t, ttl, A, s) => Timely(t - 1, ttl, B, s + 1)
         /\ Gapless(A, s) => Gapless(B, s + 1)
<1> USE TimeAssumption
<1>1. ASSUME NEW x \in Int, Followed(x, A, s) PROVE Followed(x + 1, B, s + 1)
  <2>1. CASE x = s
    BY <2>1 DEF Followed
  <2>2. ASSUME NEW y \in A, x - Period <= y, y < x PROVE Followed(x + 1, B, s + 1)
    <3>1. y + 1 \in B /\ y \in Int
      OBVIOUS
    <3>2. (x + 1) - Period <= y + 1 /\ y + 1 < x + 1
      BY <2>2, <3>1
    <3> QED
      BY <3>1, <3>2 DEF Followed
  <2> QED
    BY <1>1, <2>1, <2>2 DEF Followed
<1>2. ASSUME Timely(t, ttl, A, s) PROVE Timely(t - 1, ttl, B, s + 1)
  <2>1. PICK k \in 0 .. Period + Latency :
          /\ ttl - Latency - k <= t
          /\ Followed(k, A, s)
          /\ \A x \in A : x < k => Followed(x, A, s)
    BY <1>2 DEF Timely
  <2>2. k < Period + Latency
    BY <2>1 DEF Followed
  <2>3. k + 1 \in 0 .. Period + Latency /\ ttl - Latency - (k + 1) <= t - 1
    BY <2>1, <2>2
  <2>4. Followed(k + 1, B, s + 1)
    BY <1>1, <2>1
  <2>5. ASSUME NEW z \in B, z < k + 1 PROVE Followed(z, B, s + 1)
    <3>1. PICK x \in A : z = x + 1
      OBVIOUS
    <3>2. x \in Int /\ x < k
      BY <2>5, <3>1
    <3> QED
      BY <1>1, <2>1, <3>1, <3>2
  <2> QED
    BY <2>3, <2>4, <2>5 DEF Timely
<1>3. ASSUME Gapless(A, s) PROVE Gapless(B, s + 1)
  BY <1>1, <1>3 DEF Gapless
<1> QED
  BY <1>2, <1>3

\* A new request follows the latest one in time and is now the latest.
LEMMA TimelyBegin ==
  ASSUME NEW t \in Int, NEW ttl \in Nat, NEW A \in SUBSET (0 .. Latency),
         NEW s \in 0 .. Period
  PROVE  /\ Timely(t, ttl, A, s) => Timely(t, ttl, A \cup {0}, 0)
         /\ Gapless(A, s) => Gapless(A \cup {0}, 0)
<1> USE TimeAssumption
<1>1. ASSUME NEW x \in Nat, Followed(x, A, s) PROVE Followed(x, A \cup {0}, 0)
  BY <1>1 DEF Followed
<1>2. Followed(0, A \cup {0}, 0)
  BY DEF Followed
<1> QED
  BY <1>1, <1>2 DEF Timely, Gapless

\* A request of age a writes the row; it may or may not leave A. Those that
\* were followed by it are older than it, and no longer matter.
LEMMA TimelyWrite ==
  ASSUME NEW t \in Int, NEW ttl \in Nat, NEW A \in SUBSET (0 .. Latency),
         NEW s \in 0 .. Period, NEW a \in A, NEW B \in SUBSET A, A \ {a} \subseteq B,
         Timely(t, ttl, A, s) \/ Gapless(A, s)
  PROVE  Timely(ttl - a, ttl, B, s)
<1> USE TimeAssumption
<1>1. ASSUME NEW x \in Int, x <= a, Followed(x, A, s) PROVE Followed(x, B, s)
  BY <1>1 DEF Followed
<1>2. ASSUME NEW k \in 0 .. Period + Latency, k <= a, Followed(k, A, s),
             \A x \in A : x < k => Followed(x, A, s)
      PROVE  Timely(ttl - a, ttl, B, s)
  <2>1. Followed(k, B, s)
    BY <1>1, <1>2
  <2>2. \A x \in B : x < k => Followed(x, B, s)
    BY <1>1, <1>2
  <2>3. ttl - Latency - k <= ttl - a
    BY <1>2
  <2> QED
    BY <2>1, <2>2, <2>3 DEF Timely
<1>3. ASSUME \A x \in A : x <= a => Followed(x, A, s) PROVE Timely(ttl - a, ttl, B, s)
  <2>1. a \in 0 .. Period + Latency /\ a <= a
    OBVIOUS
  <2> QED
    BY <1>2, <1>3, <2>1
<1>4. CASE Gapless(A, s)
  BY <1>3, <1>4 DEF Gapless
<1>5. CASE Timely(t, ttl, A, s)
  <2>1. PICK k \in 0 .. Period + Latency :
          Followed(k, A, s) /\ \A x \in A : x < k => Followed(x, A, s)
    BY <1>5 DEF Timely
  <2>2. CASE k <= a
    BY <1>2, <2>1, <2>2
  <2>3. CASE a < k
    <3>1. \A x \in A : x <= a => Followed(x, A, s)
      BY <2>1, <2>3
    <3> QED
      BY <1>3, <3>1
  <2> QED
    BY <2>2, <2>3
<1> QED
  BY <1>4, <1>5

-----------------------------------------------------------------------------
(* How steps change the ages of the requests that will still write a row   *)

Renewable == {Worker} \cup Datasets

\* No request is older than Latency.
LEMMA AgesTyped == ASSUME TypeOK, NEW r PROVE Ages(r) \in SUBSET (0 .. Latency)
  BY DEF TypeOK, BeatState, Ages, Pending

\* Every request in progress ages by one, and has not reached Latency.
LEMMA AgesTick ==
  ASSUME TypeOK, Tick, NEW r
  PROVE  Ages(r)' = {x + 1 : x \in Ages(r)} /\ \A x \in Ages(r) : x < Latency
<1>1. Pending(r)' = Pending(r)
  BY DEF TypeOK, BeatState, Tick, Pending
<1>2. \A b \in Pending(r) : beats[b].pc # "idle"
  BY DEF Pending
<1>3. \A b \in Pending(r) : beats'[b].age = beats[b].age + 1 /\ beats[b].age < Latency
  BY <1>2 DEF TypeOK, BeatState, Tick, Pending
<1> QED
  BY <1>1, <1>3 DEF Ages

\* A new heartbeat will write every renewable row.
LEMMA AgesBegin ==
  ASSUME TypeOK, NEW b \in Beaters, BeginHeartbeat(b), NEW r \in Renewable
  PROVE  Ages(r)' = Ages(r) \cup {0}
<1>1. b \notin Pending(r) /\ Pending(r)' = Pending(r) \cup {b}
  BY RowsAssumption DEF TypeOK, BeginHeartbeat, Pending, Renewable
<1>2. beats'[b].age = 0 /\ \A c \in Beaters \ {b} : beats'[c] = beats[c]
  BY DEF TypeOK, BeginHeartbeat
<1> QED
  BY <1>1, <1>2 DEF Ages, Pending

\* A step of a heartbeat on one row leaves it to write the others.
LEMMA AgesSame ==
  ASSUME TypeOK, NEW r \in Renewable, NEW b \in Beaters,
         \/ UpdateWorkerTTL(b) /\ Worker \in DOMAIN leases /\ r # Worker
         \/ \E d \in Datasets \ {r} : PutReplica(b, d)
         \/ ReplicasDone(b)
         \/ \E a \in Allocs : UpdateAllocTTL(b, a)
         \/ EndHeartbeat(b)
  PROVE  Ages(r)' = Ages(r)
<1>1. /\ \A c \in Beaters \ {b} : beats'[c] = beats[c]
      /\ b \in Pending(r) => beats'[b].age = beats[b].age
      /\ b \in Pending(r)' <=> b \in Pending(r)
  BY RowsAssumption DEF TypeOK, BeatState, Renewable, Pending, Idle, UpdateWorkerTTL,
     PutReplica, ReplicasDone, UpdateAllocTTL, EndHeartbeat
<1>2. Pending(r)' = Pending(r)
  BY <1>1 DEF Pending
<1> QED
  BY <1>1, <1>2 DEF Ages, Pending

\* A heartbeat that writes a row will not write it again; others will.
LEMMA AgesWrite ==
  ASSUME TypeOK, NEW r \in Renewable, NEW b \in Beaters,
         \/ UpdateWorkerTTL(b) /\ Worker \in DOMAIN leases /\ r = Worker
         \/ r \in Datasets /\ PutReplica(b, r)
  PROVE  /\ beats[b].age \in Ages(r)
         /\ Ages(r)' \in SUBSET Ages(r)
         /\ Ages(r) \ {beats[b].age} \subseteq Ages(r)'
<1>1. /\ \A c \in Beaters \ {b} : beats'[c] = beats[c]
      /\ b \in Pending(r) /\ b \notin Pending(r)'
  BY RowsAssumption DEF TypeOK, BeatState, Renewable, Pending, UpdateWorkerTTL, PutReplica
<1>2. Pending(r)' = Pending(r) \ {b}
  BY <1>1 DEF Pending
<1> QED
  BY <1>1, <1>2 DEF Ages, Pending

\* Steps that are no part of a heartbeat, nor of the clock, leave ages alone.
LEMMA AgesElsewhere ==
  ASSUME NEW r, UNCHANGED <<beats, since>>
  PROVE  Ages(r)' = Ages(r) /\ since' = since
  BY DEF Ages, Pending

\* Faults are counted and a worker that has stopped stays stopped.
LEMMA FaultsGrow ==
  ASSUME TypeOK, [Next]_vars
  PROVE  faults <= faults' /\ (renewing' => renewing)
<1> USE DEF tables, client, history
<1>0. faults \in Int
  BY TimeAssumption DEF TypeOK
<1>1. CASE Tick
  BY <1>0, <1>1 DEF Tick
<1>2. CASE Stop
  BY <1>0, <1>2 DEF Stop
<1>3. ASSUME NEW b \in Beaters, BeginHeartbeat(b) \/ Heartbeat(b)
      PROVE  faults' = faults /\ renewing' = renewing
  BY <1>3 DEF BeginHeartbeat, Heartbeat, UpdateWorkerTTL, ReplicasDone, EndHeartbeat,
     PutReplica, UpdateAllocTTL
<1>4. ASSUME NEW b \in Beaters, FailHeartbeat(b)
      PROVE  faults' = faults + 1 /\ renewing' = renewing
  BY <1>4 DEF FailHeartbeat
<1>5. ASSUME NEW a \in Allocs, Claim(a) \/ PutNewAlloc(a) \/ ReceiveAlloc(a)
      PROVE  faults' = faults /\ renewing' = renewing
  BY <1>5 DEF Claim, PutNewAlloc, ReceiveAlloc
<1>6. ASSUME NEW a \in Allocs, CompleteAlloc(a)
      PROVE  faults' \in {faults, faults + 1} /\ renewing' = renewing
  BY <1>6 DEF CompleteAlloc
<1>7. ASSUME NEW r \in Releasers, Round(r)
      PROVE  faults' = faults /\ renewing' = renewing
  BY <1>7 DEF Round, QueryAllocs, QueryReplicas, QueryWorkers, Query, EndRound,
     ReleaseAlloc, DeleteReplica, DeleteWorker, Delete
<1>8. ASSUME NEW r \in Releasers, FailRound(r) \/ \E x \in Rows : SkipRow(r, x)
      PROVE  faults' = faults + 1 /\ renewing' = renewing
  BY <1>8 DEF FailRound, SkipRow
<1>9. CASE UNCHANGED vars
  BY <1>0, <1>9 DEF vars
<1>10. CASE \E b \in Beaters : BeginHeartbeat(b) \/ Heartbeat(b) \/ FailHeartbeat(b)
  BY <1>0, <1>3, <1>4, <1>10
<1>11. CASE \E a \in Allocs : Claim(a) \/ PutNewAlloc(a) \/ ReceiveAlloc(a) \/ CompleteAlloc(a)
  BY <1>0, <1>5, <1>6, <1>11
<1>12. CASE \E r \in Releasers : Round(r) \/ FailRound(r) \/ \E x \in Rows : SkipRow(r, x)
  BY <1>0, <1>7, <1>8, <1>12
<1> QED
  BY <1>1, <1>2, <1>9, <1>10, <1>11, <1>12 DEF Next

\* A query lists expired rows of its table.
LEMMA QueryTodo ==
  ASSUME TypeOK, NEW r \in Releasers,
         QueryAllocs(r) \/ QueryReplicas(r) \/ QueryWorkers(r) \/ EndRound(r)
  PROVE  /\ \E kind \in {Allocs, Datasets, {Worker}} : rel'[r].todo \subseteq Expired(kind)
         /\ \A q \in Releasers \ {r} : rel'[q] = rel[q]
<1>1. CASE QueryAllocs(r)
  BY <1>1 DEF TypeOK, QueryAllocs, Query
<1>2. CASE QueryReplicas(r)
  BY <1>2 DEF TypeOK, QueryReplicas, Query
<1>3. CASE QueryWorkers(r)
  BY <1>3 DEF TypeOK, QueryWorkers, Query
<1>4. CASE EndRound(r)
  BY <1>4 DEF TypeOK, EndRound, Away
<1> QED
  BY <1>1, <1>2, <1>3, <1>4

-----------------------------------------------------------------------------
(* The worker's row                                                        *)

\* Every step keeps the worker's row and its TTL in time.
LEMMA WorkerStep == TypeOK /\ WorkerInv /\ [Next]_vars => WorkerInv'
<1> SUFFICES ASSUME TypeOK, WorkerInv, [Next]_vars,
                    renewing', faults' = 0, Ample(WorkerTTL)
             PROVE  WorkerTimely'
  BY DEF WorkerInv, Ample
<1> USE TimeAssumption, RowsAssumption DEF tables, client, history
<1>0. Worker \in Renewable
  BY DEF Renewable
<1>1. faults = 0
  BY FaultsGrow DEF TypeOK
<1>2. renewing
  BY FaultsGrow
<1>3. /\ Worker \in DOMAIN leases
      /\ Timely(leases[Worker], WorkerTTL, Ages(Worker), since)
      /\ Untouched(Worker)
  BY <1>1, <1>2 DEF WorkerInv, WorkerTimely
<1>4. /\ Ages(Worker) \in SUBSET (0 .. Latency) /\ since \in 0 .. Period
      /\ leases[Worker] \in Int /\ WorkerTTL \in Nat
  BY <1>3, AgesTyped DEF TypeOK, Left
<1>5. leases[Worker] >= 0
  BY <1>3, <1>4, TimelyIsEnough
<1>6. ASSUME Worker \in DOMAIN leases', leases'[Worker] = leases[Worker],
             UNCHANGED <<beats, since>>, Untouched(Worker)'
      PROVE  WorkerTimely'
  BY <1>3, <1>6, AgesElsewhere DEF WorkerTimely
<1>7. CASE Tick
  <2>1. since < Period
    BY <1>2, <1>7 DEF Tick
  <2>2. Ages(Worker)' = {x + 1 : x \in Ages(Worker)} /\ \A x \in Ages(Worker) : x < Latency
    BY <1>7, AgesTick
  <2>3. since' = since + 1 /\ leases'[Worker] = leases[Worker] - 1
    BY <1>2, <1>3, <1>4, <1>5, <1>7 DEF Tick, Countdown
  <2>4. Timely(leases[Worker] - 1, WorkerTTL, Ages(Worker)', since + 1)
    BY <1>3, <1>4, <2>1, <2>2, TimelyTick
  <2>5. Worker \in DOMAIN leases' /\ Untouched(Worker)'
    BY <1>3, <1>7 DEF Tick, Untouched
  <2> QED
    BY <2>3, <2>4, <2>5 DEF WorkerTimely
<1>8. ASSUME NEW b \in Beaters, BeginHeartbeat(b) PROVE WorkerTimely'
  <2>1. Ages(Worker)' = Ages(Worker) \cup {0}
    BY <1>0, <1>8, AgesBegin
  <2>2. since' = 0 /\ leases' = leases /\ Untouched(Worker)'
    BY <1>3, <1>8 DEF BeginHeartbeat, Untouched
  <2> QED
    BY <1>3, <1>4, <2>1, <2>2, TimelyBegin DEF WorkerTimely
<1>9. ASSUME NEW b \in Beaters, UpdateWorkerTTL(b) PROVE WorkerTimely'
  <2> DEFINE a == beats[b].age
  <2>1. /\ a \in Ages(Worker) /\ Ages(Worker)' \in SUBSET Ages(Worker)
        /\ Ages(Worker) \ {a} \subseteq Ages(Worker)'
    BY <1>0, <1>3, <1>9, AgesWrite
  <2>2. Remaining(WorkerTTL, a) = WorkerTTL - a
    BY <1>4, <2>1 DEF Remaining, Ample
  <2>3. /\ Worker \in DOMAIN leases' /\ leases'[Worker] = WorkerTTL - a
        /\ since' = since /\ Untouched(Worker)'
    BY <1>3, <1>9, <2>2 DEF UpdateWorkerTTL, Set, Untouched
  <2>4. Timely(WorkerTTL - a, WorkerTTL, Ages(Worker)', since)
    BY <1>3, <1>4, <2>1, TimelyWrite
  <2> QED
    BY <2>3, <2>4 DEF WorkerTimely
<1>10. ASSUME NEW b \in Beaters,
              \/ \E d \in Datasets : PutReplica(b, d)
              \/ ReplicasDone(b)
              \/ \E a \in Allocs : UpdateAllocTTL(b, a)
              \/ EndHeartbeat(b)
       PROVE  WorkerTimely'
  <2>1. Ages(Worker)' = Ages(Worker)
    BY <1>0, <1>10, AgesSame
  <2>2. /\ Worker \in DOMAIN leases' /\ leases'[Worker] = leases[Worker]
        /\ since' = since /\ Untouched(Worker)'
    BY <1>3, <1>10 DEF PutReplica, ReplicasDone, UpdateAllocTTL, EndHeartbeat, Set, Untouched
  <2> QED
    BY <1>3, <2>1, <2>2 DEF WorkerTimely
<1>11. ASSUME NEW a \in Allocs,
              Claim(a) \/ PutNewAlloc(a) \/ ReceiveAlloc(a) \/ CompleteAlloc(a)
       PROVE  WorkerTimely'
  <2>1. /\ Worker \in DOMAIN leases' /\ leases'[Worker] = leases[Worker]
        /\ UNCHANGED <<beats, since>> /\ Untouched(Worker)'
    BY <1>3, <1>11
    DEF Claim, PutNewAlloc, ReceiveAlloc, CompleteAlloc, Set, Restrict, Untouched
  <2> QED
    BY <1>6, <2>1
<1>12. ASSUME NEW r \in Releasers,
              QueryAllocs(r) \/ QueryReplicas(r) \/ QueryWorkers(r) \/ EndRound(r)
       PROVE  WorkerTimely'
  <2>1. Worker \notin Expired(Allocs) \cup Expired(Datasets) \cup Expired({Worker})
    BY <1>4, <1>5 DEF Expired
  <2>2. PICK kind \in {Allocs, Datasets, {Worker}} : rel'[r].todo \subseteq Expired(kind)
    BY <1>12, QueryTodo
  <2>3. Worker \notin rel'[r].todo
    BY <2>1, <2>2
  <2>4. \A q \in Releasers \ {r} : rel'[q] = rel[q]
    BY <1>12, QueryTodo
  <2>5. Untouched(Worker)'
    BY <1>3, <2>3, <2>4 DEF Untouched
  <2>6. leases' = leases /\ UNCHANGED <<beats, since>>
    BY <1>12 DEF QueryAllocs, QueryReplicas, QueryWorkers, Query, EndRound
  <2> QED
    BY <1>3, <1>6, <2>5, <2>6
<1>13. ASSUME NEW r \in Releasers, NEW x, Delete(r, x) PROVE WorkerTimely'
  <2>1. x # Worker
    BY <1>3, <1>13 DEF Delete, Untouched
  <2>2. Worker \in DOMAIN leases' /\ leases'[Worker] = leases[Worker]
    BY <1>3, <1>13, <2>1 DEF Delete, Restrict
  <2>3. UNCHANGED <<beats, since>> /\ Untouched(Worker)'
    BY <1>3, <1>13 DEF TypeOK, RelState, Delete, Untouched
  <2> QED
    BY <1>6, <2>2, <2>3
<1>14. CASE UNCHANGED vars
  <2>1. leases' = leases /\ rel' = rel /\ UNCHANGED <<beats, since>>
    BY <1>14 DEF vars
  <2>2. Untouched(Worker)'
    BY <1>3, <2>1 DEF Untouched
  <2> QED
    BY <1>3, <1>6, <2>1, <2>2
<1>15. ~Stop
  BY <1>2 DEF Stop
<1>16. \A b \in Beaters : ~FailHeartbeat(b)
  BY <1>1 DEF FailHeartbeat
<1>17. \A r \in Releasers : ~FailRound(r) /\ \A x \in Rows : ~SkipRow(r, x)
  BY <1>1 DEF FailRound, SkipRow
<1>18. CASE \E b \in Beaters : BeginHeartbeat(b) \/ Heartbeat(b) \/ FailHeartbeat(b)
  BY <1>8, <1>9, <1>10, <1>16, <1>18 DEF Heartbeat
<1>19. CASE \E a \in Allocs : Claim(a) \/ PutNewAlloc(a) \/ ReceiveAlloc(a) \/ CompleteAlloc(a)
  BY <1>11, <1>19
<1>20. CASE \E r \in Releasers : Round(r) \/ FailRound(r) \/ \E x \in Rows : SkipRow(r, x)
  BY <1>12, <1>13, <1>17, <1>20 DEF Round, ReleaseAlloc, DeleteReplica, DeleteWorker
<1>21. WorkerTimely'
  BY <1>7, <1>14, <1>15, <1>18, <1>19, <1>20 DEF Next
<1> QED
  BY <1>21

-----------------------------------------------------------------------------
(* Replicas                                                                *)

\* Every step keeps the replicas that have been reported, and leaves no gap
\* before those that have not.
LEMMA ReplicaStep == TypeOK /\ WorkerInv /\ ReplicaInv /\ [Next]_vars => ReplicaInv'
<1> SUFFICES ASSUME TypeOK, WorkerInv, ReplicaInv, [Next]_vars,
                    renewing', faults' = 0, Ample(WorkerTTL), Ample(ReplicaTTL),
                    NEW d \in Datasets
             PROVE  ReplicaTimely(d)'
  BY DEF ReplicaInv, Ample
<1> USE TimeAssumption, RowsAssumption DEF tables, client, history
<1>0. d \in Renewable /\ d # Worker /\ d \notin Allocs
  BY DEF Renewable
<1>1. faults = 0
  BY FaultsGrow DEF TypeOK
<1>2. renewing
  BY FaultsGrow
<1>3. /\ d \in reported <=> d \in DOMAIN leases
      /\ d \in reported => Timely(leases[d], ReplicaTTL, Ages(d), since)
      /\ d \notin reported => Gapless(Ages(d), since)
      /\ Untouched(d)
      /\ Worker \in DOMAIN leases
  BY <1>1, <1>2 DEF ReplicaInv, ReplicaTimely, WorkerInv, WorkerTimely
<1>4. /\ Ages(d) \in SUBSET (0 .. Latency) /\ since \in 0 .. Period
      /\ d \in DOMAIN leases => leases[d] \in Int
      /\ ReplicaTTL \in Nat
  BY <1>3, AgesTyped DEF TypeOK, Left
<1>5. d \in DOMAIN leases => leases[d] >= 0
  BY <1>3, <1>4, TimelyIsEnough
<1>6. ASSUME d \in DOMAIN leases' <=> d \in DOMAIN leases,
             d \in DOMAIN leases => leases'[d] = leases[d],
             reported' = reported, Ages(d)' = Ages(d), since' = since, Untouched(d)'
      PROVE  ReplicaTimely(d)'
  BY <1>3, <1>6 DEF ReplicaTimely
<1>7. CASE Tick
  <2>1. since < Period /\ since' = since + 1
    BY <1>2, <1>7 DEF Tick
  <2>2. Ages(d)' = {x + 1 : x \in Ages(d)} /\ \A x \in Ages(d) : x < Latency
    BY <1>7, AgesTick
  <2>3. /\ DOMAIN leases' = DOMAIN leases
        /\ d \in DOMAIN leases => leases'[d] = leases[d] - 1
    BY <1>4, <1>5, <1>7 DEF Tick, Countdown
  <2>4. d \in reported => Timely(leases[d] - 1, ReplicaTTL, Ages(d)', since + 1)
    BY <1>3, <1>4, <2>1, <2>2, TimelyTick
  <2>5. d \notin reported => Gapless(Ages(d)', since + 1)
    <3>1. 0 \in Int
      OBVIOUS
    <3> QED
      BY <1>3, <1>4, <2>1, <2>2, <3>1, TimelyTick
  <2>6. reported' = reported /\ Untouched(d)'
    BY <1>3, <1>7 DEF Tick, Untouched
  <2> QED
    BY <1>3, <2>1, <2>3, <2>4, <2>5, <2>6 DEF ReplicaTimely
<1>8. ASSUME NEW b \in Beaters, BeginHeartbeat(b) PROVE ReplicaTimely(d)'
  <2>1. Ages(d)' = Ages(d) \cup {0}
    BY <1>0, <1>8, AgesBegin
  <2>2. since' = 0 /\ leases' = leases /\ reported' = reported /\ Untouched(d)'
    BY <1>3, <1>8 DEF BeginHeartbeat, Untouched
  <2>3. d \in reported => Timely(leases[d], ReplicaTTL, Ages(d)', 0)
    BY <1>3, <1>4, <2>1, TimelyBegin
  <2>4. d \notin reported => Gapless(Ages(d)', 0)
    <3>1. 0 \in Int
      OBVIOUS
    <3> QED
      BY <1>3, <1>4, <2>1, <3>1, TimelyBegin
  <2> QED
    BY <1>3, <2>2, <2>3, <2>4 DEF ReplicaTimely
<1>9. ASSUME NEW b \in Beaters, PutReplica(b, d) PROVE ReplicaTimely(d)'
  <2> DEFINE a == beats[b].age
  <2>1. /\ a \in Ages(d) /\ Ages(d)' \in SUBSET Ages(d)
        /\ Ages(d) \ {a} \subseteq Ages(d)'
    BY <1>0, <1>9, AgesWrite
  <2>2. Remaining(ReplicaTTL, a) = ReplicaTTL - a
    BY <1>4, <2>1 DEF Remaining, Ample
  <2>3. /\ d \in DOMAIN leases' /\ leases'[d] = ReplicaTTL - a
        /\ d \in reported' /\ since' = since /\ Untouched(d)'
    BY <1>3, <1>9, <2>2 DEF PutReplica, Set, Untouched
  <2>4. PICK t \in Int : Timely(t, ReplicaTTL, Ages(d), since) \/ Gapless(Ages(d), since)
    <3>1. 0 \in Int
      OBVIOUS
    <3> QED
      BY <1>3, <1>4, <3>1
  <2>5. Timely(ReplicaTTL - a, ReplicaTTL, Ages(d)', since)
    BY <1>4, <2>1, <2>4, TimelyWrite
  <2> QED
    BY <2>3, <2>5 DEF ReplicaTimely
<1>10. ASSUME NEW b \in Beaters,
              \/ UpdateWorkerTTL(b)
              \/ \E e \in Datasets \ {d} : PutReplica(b, e)
              \/ ReplicasDone(b)
              \/ \E a \in Allocs : UpdateAllocTTL(b, a)
              \/ EndHeartbeat(b)
       PROVE  ReplicaTimely(d)'
  <2>1. Ages(d)' = Ages(d)
    BY <1>0, <1>3, <1>10, AgesSame
  <2>2. /\ d \in DOMAIN leases' <=> d \in DOMAIN leases
        /\ d \in DOMAIN leases => leases'[d] = leases[d]
        /\ since' = since
    BY <1>0, <1>3, <1>10
    DEF UpdateWorkerTTL, PutReplica, ReplicasDone, UpdateAllocTTL, EndHeartbeat, Set
  <2>3. (d \in reported' <=> d \in reported) /\ Untouched(d)'
    BY <1>3, <1>10
    DEF UpdateWorkerTTL, PutReplica, ReplicasDone, UpdateAllocTTL, EndHeartbeat, Untouched
  <2> QED
    BY <1>3, <2>1, <2>2, <2>3 DEF ReplicaTimely
<1>11. ASSUME NEW a \in Allocs,
              Claim(a) \/ PutNewAlloc(a) \/ ReceiveAlloc(a) \/ CompleteAlloc(a)
       PROVE  ReplicaTimely(d)'
  <2>1. /\ d \in DOMAIN leases' <=> d \in DOMAIN leases
        /\ d \in DOMAIN leases => leases'[d] = leases[d]
        /\ UNCHANGED <<beats, since>> /\ Untouched(d)' /\ reported' = reported
    BY <1>0, <1>3, <1>11
    DEF Claim, PutNewAlloc, ReceiveAlloc, CompleteAlloc, Set, Restrict, Untouched
  <2> QED
    BY <1>6, <2>1, AgesElsewhere
<1>12. ASSUME NEW r \in Releasers,
              QueryAllocs(r) \/ QueryReplicas(r) \/ QueryWorkers(r) \/ EndRound(r)
       PROVE  ReplicaTimely(d)'
  <2>1. d \notin Expired(Allocs) \cup Expired(Datasets) \cup Expired({Worker})
    BY <1>4, <1>5 DEF Expired
  <2>2. PICK kind \in {Allocs, Datasets, {Worker}} : rel'[r].todo \subseteq Expired(kind)
    BY <1>12, QueryTodo
  <2>3. d \notin rel'[r].todo
    BY <2>1, <2>2
  <2>4. \A q \in Releasers \ {r} : rel'[q] = rel[q]
    BY <1>12, QueryTodo
  <2>5. Untouched(d)'
    BY <1>3, <2>3, <2>4 DEF Untouched
  <2>6. leases' = leases /\ reported' = reported /\ UNCHANGED <<beats, since>>
    BY <1>12 DEF QueryAllocs, QueryReplicas, QueryWorkers, Query, EndRound
  <2> QED
    BY <1>6, <2>5, <2>6, AgesElsewhere
<1>13. ASSUME NEW r \in Releasers, NEW x, Delete(r, x) PROVE ReplicaTimely(d)'
  <2>1. x # d
    BY <1>3, <1>13 DEF Delete, Untouched
  <2>2. /\ d \in DOMAIN leases' <=> d \in DOMAIN leases
        /\ d \in DOMAIN leases => leases'[d] = leases[d]
    BY <1>13, <2>1 DEF Delete, Restrict
  <2>3. UNCHANGED <<beats, since>> /\ Untouched(d)' /\ reported' = reported
    BY <1>3, <1>13 DEF TypeOK, RelState, Delete, Untouched
  <2> QED
    BY <1>6, <2>2, <2>3, AgesElsewhere
<1>14. CASE UNCHANGED vars
  <2>1. /\ leases' = leases /\ rel' = rel /\ reported' = reported
        /\ UNCHANGED <<beats, since>>
    BY <1>14 DEF vars
  <2>2. Untouched(d)'
    BY <1>3, <2>1 DEF Untouched
  <2> QED
    BY <1>6, <2>1, <2>2, AgesElsewhere
<1>15. ~Stop
  BY <1>2 DEF Stop
<1>16. \A b \in Beaters : ~FailHeartbeat(b)
  BY <1>1 DEF FailHeartbeat
<1>17. \A r \in Releasers : ~FailRound(r) /\ \A x \in Rows : ~SkipRow(r, x)
  BY <1>1 DEF FailRound, SkipRow
<1>18. CASE \E b \in Beaters : BeginHeartbeat(b) \/ Heartbeat(b) \/ FailHeartbeat(b)
  BY <1>8, <1>9, <1>10, <1>16, <1>18 DEF Heartbeat
<1>19. CASE \E a \in Allocs : Claim(a) \/ PutNewAlloc(a) \/ ReceiveAlloc(a) \/ CompleteAlloc(a)
  BY <1>11, <1>19
<1>20. CASE \E r \in Releasers : Round(r) \/ FailRound(r) \/ \E x \in Rows : SkipRow(r, x)
  BY <1>12, <1>13, <1>17, <1>20 DEF Round, ReleaseAlloc, DeleteReplica, DeleteWorker
<1> QED
  BY <1>7, <1>14, <1>15, <1>18, <1>19, <1>20 DEF Next

-----------------------------------------------------------------------------
(* Safety of leases                                                        *)

\* The first request has yet to begin, and the worker's TTL is full.
LEMMA InvInit == Init => TypeOK /\ WorkerInv /\ ReplicaInv
<1> SUFFICES ASSUME Init PROVE TypeOK /\ WorkerInv /\ ReplicaInv
  OBVIOUS
<1> USE TimeAssumption, RowsAssumption
<1>1. TypeOK
  BY DEF Init, TypeOK, ReplicasFirst, Rows, Left, BeatState, RelState, Idle, Away
<1>2. \A r \in Rows : Ages(r) = {} /\ Untouched(r)
  BY DEF Init, Rows, Ages, Pending, Untouched, Idle, Away
<1>3. Timely(WorkerTTL, WorkerTTL, {}, 0)
  <2>1. 0 \in 0 .. Period + Latency /\ WorkerTTL - Latency - 0 <= WorkerTTL
    OBVIOUS
  <2> QED
    BY <2>1 DEF Timely, Followed
<1>4. WorkerInv
  BY <1>2, <1>3 DEF Init, WorkerInv, WorkerTimely, Rows
<1>5. ReplicaInv
  BY <1>2 DEF Init, ReplicaInv, ReplicaTimely, Gapless, Rows
<1> QED
  BY <1>1, <1>4, <1>5

\* A worker that sends its heartbeats in time keeps its row.
THEOREM WorkersKept == Spec => []WorkerKept
<1>1. WorkerInv => WorkerKept
  BY DEF WorkerInv, WorkerTimely, WorkerKept
<1> QED
  BY <1>1, InvInit, TypeStep, WorkerStep, PTL DEF Spec

\* So does every replica that it has reported.
THEOREM AllReplicasKept == Spec => []ReplicasKept
<1>1. TypeOK /\ ReplicaInv => ReplicasKept
  BY DEF TypeOK, ReplicaInv, ReplicaTimely, ReplicasKept
<1> QED
  BY <1>1, InvInit, TypeStep, WorkerStep, ReplicaStep, PTL DEF Spec

\* An id that has been put is not drawn again.
DraftsFresh == DOMAIN drafts \cap placed = {}

\* Every step keeps drafts fresh and rows of allocs gone.
LEMMA GoneStep ==
  ASSUME TypeOK, DraftsFresh, [Next]_vars
  PROVE  DraftsFresh' /\ placed \ DOMAIN leases \subseteq placed' \ DOMAIN leases'
<1> USE RowsAssumption DEF tables, client, history, DraftsFresh
<1>1. CASE Tick
  BY <1>1 DEF Tick
<1>2. CASE Stop
  BY <1>2 DEF Stop
<1>3. ASSUME NEW b \in Beaters, BeginHeartbeat(b) \/ FailHeartbeat(b)
      PROVE  UNCHANGED <<leases, drafts, placed>>
  BY <1>3 DEF BeginHeartbeat, FailHeartbeat
<1>4. ASSUME NEW b \in Beaters, Heartbeat(b)
      PROVE  /\ DOMAIN leases' \ DOMAIN leases \subseteq Datasets
             /\ UNCHANGED <<drafts, placed>>
  BY <1>4 DEF Heartbeat, UpdateWorkerTTL, ReplicasDone, EndHeartbeat, PutReplica,
     UpdateAllocTTL, Set
<1>5. ASSUME NEW a \in Allocs, Claim(a) PROVE DraftsFresh' /\ UNCHANGED <<leases, placed>>
  BY <1>5 DEF Claim
<1>6. ASSUME NEW a \in Allocs, PutNewAlloc(a)
      PROVE  /\ DraftsFresh' /\ a \notin placed /\ placed \subseteq placed'
             /\ DOMAIN leases' = DOMAIN leases \cup {a}
  BY <1>6 DEF PutNewAlloc, Set, Restrict
<1>7. ASSUME NEW a \in Allocs, ReceiveAlloc(a) \/ CompleteAlloc(a)
      PROVE  DOMAIN leases' \subseteq DOMAIN leases /\ UNCHANGED <<drafts, placed>>
  BY <1>7 DEF ReceiveAlloc, CompleteAlloc, Restrict
<1>8. ASSUME NEW r \in Releasers,
             Round(r) \/ FailRound(r) \/ \E x \in Rows : SkipRow(r, x)
      PROVE  DOMAIN leases' \subseteq DOMAIN leases /\ UNCHANGED <<drafts, placed>>
  BY <1>8 DEF Round, QueryAllocs, QueryReplicas, QueryWorkers, Query, EndRound,
     ReleaseAlloc, DeleteReplica, DeleteWorker, Delete, FailRound, SkipRow, Restrict
<1>9. CASE UNCHANGED vars
  BY <1>9 DEF vars
<1>10. CASE \E b \in Beaters : BeginHeartbeat(b) \/ Heartbeat(b) \/ FailHeartbeat(b)
  BY <1>3, <1>4, <1>10 DEF TypeOK
<1>11. CASE \E a \in Allocs : Claim(a) \/ PutNewAlloc(a) \/ ReceiveAlloc(a) \/ CompleteAlloc(a)
  BY <1>5, <1>6, <1>7, <1>11
<1>12. CASE \E r \in Releasers : Round(r) \/ FailRound(r) \/ \E x \in Rows : SkipRow(r, x)
  BY <1>8, <1>12
<1> QED
  BY <1>1, <1>2, <1>9, <1>10, <1>11, <1>12 DEF Next

\* No heartbeat brings back the row of an alloc: it updates existing rows only,
\* and an alloc that has been put is not put again.
THEOREM GoneAllocsStay == Spec => AllocsStayGone
<1>1. Init => DraftsFresh
  BY DEF Init, DraftsFresh
<1>2. TypeOK /\ DraftsFresh /\ [Next]_vars
        => DraftsFresh' /\ placed \ DOMAIN leases \subseteq placed' \ DOMAIN leases'
  BY GoneStep
<1>3. TypeOK /\ DraftsFresh /\ [Next]_vars
        => [placed \ DOMAIN leases \subseteq placed' \ DOMAIN leases']_vars
  BY <1>2
<1> QED
  BY <1>1, <1>2, <1>3, LeasesTypeCorrect, PTL DEF Spec, AllocsStayGone
=============================================================================
