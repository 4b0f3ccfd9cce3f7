-------------------------- MODULE PlacementProofs --------------------------
(***************************************************************************)
(* Theorems about Placement, for any workers, sizes, page limits and       *)
(* numbers of concurrent loops.                                            *)
(***************************************************************************)
EXTENDS Placement, FiniteSetTheorems, TLAPS

-----------------------------------------------------------------------------
(* Type correctness                                                        *)

Table(f, K, V) == DOMAIN f \subseteq K /\ f \in [DOMAIN f -> V]

\* A table stays one when a row is put or deleted.
LEMMA PutTypes ==
  ASSUME NEW K, NEW V, NEW f, Table(f, K, V), NEW k \in K, NEW x \in V
  PROVE  Table(Put(f, k, x), K, V)
  BY DEF Table, Put
LEMMA WithoutTypes ==
  ASSUME NEW K, NEW V, NEW f, Table(f, K, V), NEW k
  PROVE  Table(Without(f, k), K, V)
  BY DEF Table, Without, Restrict

\* The size that is claimed is a number.
LEMMA NeedType == \A e \in Evals : Need(e) \in Nat \ {0}
  BY PlacementAssumption DEF Need

\* Steps of the workers, their rows and the index keep the types.
LEMMA RowSteps ==
  ASSUME TypeOK, NEW w \in Workers,
         RegisterWorker(w) \/ ExpireWorker(w) \/ RenewWorker(w) \/ DeleteWorker(w)
            \/ Propagate(w)
  PROVE  TypeOK'
<1> USE PlacementAssumption DEF rows, bounds
<1>1. CASE RegisterWorker(w)
  <2>1. [free |-> Offer[w], live |-> TRUE] \in Row
    BY DEF Row
  <2>2. table' = Put(table, w, [free |-> Offer[w], live |-> TRUE]) /\ Table(table, Workers, Row)
    BY <1>1 DEF RegisterWorker, TypeOK, Table
  <2>3. Table(table', Workers, Row)
    BY <2>1, <2>2, PutTypes
  <2> QED
    BY <1>1, <2>3 DEF RegisterWorker, TypeOK, Table
<1>2. CASE ExpireWorker(w)
  <2>1. table' \in [DOMAIN table' -> Row] /\ DOMAIN table' \subseteq Workers
    BY <1>2 DEF ExpireWorker, TypeOK, Row
  <2> QED
    BY <1>2, <2>1 DEF ExpireWorker, TypeOK
<1>3. CASE RenewWorker(w)
  <2>1. table' \in [DOMAIN table' -> Row] /\ DOMAIN table' \subseteq Workers
    BY <1>3 DEF RenewWorker, TypeOK, Row
  <2>2. renewals' \in 0 .. MaxRenewals
    BY <1>3 DEF RenewWorker, TypeOK
  <2> QED
    BY <1>3, <2>1, <2>2 DEF RenewWorker, TypeOK
<1>4. CASE DeleteWorker(w)
  <2>1. table' \in [DOMAIN table' -> Row] /\ DOMAIN table' \subseteq Workers
    BY <1>4 DEF DeleteWorker, TypeOK, Without, Restrict
  <2> QED
    BY <1>4, <2>1 DEF DeleteWorker, TypeOK
<1>5. CASE Propagate(w)
  <2>1. Table(index, Workers, Row) /\ Table(table, Workers, Row)
    BY DEF TypeOK, Table
  <2>2. Table(index', Workers, Row)
    <3>1. CASE w \in DOMAIN table
      <4>1. index' = Put(index, w, table[w]) /\ table[w] \in Row
        BY <1>5, <2>1, <3>1 DEF Propagate, Table
      <4> QED
        BY <2>1, <4>1, PutTypes
    <3>2. CASE w \notin DOMAIN table
      <4>1. index' = Without(index, w)
        BY <1>5, <3>2 DEF Propagate
      <4> QED
        BY <2>1, <4>1, WithoutTypes
    <3> QED
      BY <3>1, <3>2
  <2> QED
    BY <1>5, <2>2 DEF Propagate, TypeOK, Table
<1> QED
  BY <1>1, <1>2, <1>3, <1>4, <1>5

\* So do steps of the replicas.
LEMMA ReplicaSteps ==
  ASSUME TypeOK, NEW r \in Reports, PutReplica(r) \/ ExpireReplica(r) \/ DeleteReplica(r)
  PROVE  TypeOK'
<1>1. Table(replicas, Reports, BOOLEAN)
  BY DEF TypeOK, Table
<1>2. Table(replicas', Reports, BOOLEAN)
  <2>1. CASE PutReplica(r)
    <3>1. TRUE \in BOOLEAN /\ replicas' = Put(replicas, r, TRUE)
      BY <2>1 DEF PutReplica
    <3> QED
      BY <1>1, <3>1, PutTypes
  <2>2. CASE ExpireReplica(r)
    BY <1>1, <2>2 DEF ExpireReplica, Table
  <2>3. CASE DeleteReplica(r)
    <3>1. replicas' = Without(replicas, r)
      BY <2>3 DEF DeleteReplica
    <3> QED
      BY <1>1, <3>1, WithoutTypes
  <2> QED
    BY <2>1, <2>2, <2>3
<1> QED
  BY <1>2 DEF Table, PutReplica, ExpireReplica, DeleteReplica, TypeOK, rows, bounds

\* So do steps of the evals.
LEMMA EvalSteps ==
  ASSUME TypeOK, NEW e \in Evals,
         ScheduleEval(e) \/ \E w \in Workers : ReleaseAlloc(e, w)
  PROVE  TypeOK'
<1>1. CASE ScheduleEval(e)
  BY <1>1 DEF ScheduleEval, TypeOK, rows, bounds
<1>2. ASSUME NEW w \in Workers, ReleaseAlloc(e, w) PROVE TypeOK'
  <2>1. allocs' \in [Evals -> [Workers -> Nat]]
    BY <1>2 DEF ReleaseAlloc, TypeOK
  <2>2. table' \in [DOMAIN table' -> Row] /\ DOMAIN table' \subseteq Workers
    <3>1. CASE w \in DOMAIN table
      <4>1. [table[w] EXCEPT !.free = @ + Need(e)] \in Row
        BY <3>1, NeedType DEF TypeOK, Row
      <4> QED
        BY <1>2, <3>1, <4>1 DEF ReleaseAlloc, TypeOK
    <3>2. CASE w \notin DOMAIN table
      BY <1>2, <3>2 DEF ReleaseAlloc, TypeOK
    <3> QED
      BY <3>1, <3>2
  <2> QED
    BY <1>2, <2>1, <2>2 DEF ReleaseAlloc, TypeOK, bounds
<1> QED
  BY <1>1, <1>2

\* So do steps of the loops.
LEMMA LoopSteps ==
  ASSUME TypeOK, NEW s \in Schedulers,
         Scheduler(s) \/ GiveUp(s) \/ \E e \in Evals : Receive(s, e)
  PROVE  TypeOK'
<1> USE PlacementAssumption DEF SchedUnchanged, rows, bounds
<1>1. ASSUME NEW e \in Evals, Receive(s, e) PROVE TypeOK'
  <2>1. sched' \in [Schedulers -> SchedState]
    BY <1>1 DEF Receive, TypeOK, SchedState
  <2> QED
    BY <1>1, <2>1 DEF Receive, TypeOK
<1>2. CASE FindReplicas(s)
  <2> DEFINE e == sched[s].eval
  <2>1. PICK page \in Pages(Matching(Dataset[e]), ReplicaLimit) :
           sched' = [sched EXCEPT ![s] = [pc |-> "query", eval |-> e, near |-> Located(page)]]
    BY <1>2 DEF FindReplicas
  <2>2. Located(page) \in SUBSET Reports
    BY DEF Located, Pages, Matching, TypeOK
  <2>3. e \in Evals
    BY <1>2 DEF FindReplicas, TypeOK, SchedState
  <2>4. [pc |-> "query", eval |-> e, near |-> Located(page)] \in SchedState
    BY <2>2, <2>3 DEF SchedState
  <2> QED
    BY <1>2, <2>1, <2>4 DEF FindReplicas, TypeOK
<1>3. CASE Query(s)
  <2> DEFINE e == sched[s].eval
  <2>1. e \in Evals
    BY <1>3 DEF Query, TypeOK, SchedState
  <2>2. \A p \in Fetched(e) : \A w \in Freest(Candidates(p)) : w \in Workers
    BY DEF Fetched, Pages, Fitting, Candidates, Freest, TypeOK
  <2>3. \A w \in Workers : [pc |-> "claim", eval |-> e, wrk |-> w] \in SchedState
    BY <2>1 DEF SchedState
  <2>4. Idle \in SchedState
    BY DEF Idle, SchedState
  <2>5. sched' \in [Schedulers -> SchedState]
    BY <1>3, <2>2, <2>3, <2>4 DEF Query, TypeOK
  <2> QED
    BY <1>3, <2>5 DEF Query, TypeOK
<1>4. CASE Claim(s)
  <2> DEFINE e == sched[s].eval
             w == sched[s].wrk
  <2>1. e \in Evals /\ w \in Workers
    BY <1>4 DEF Claim, TypeOK, SchedState
  <2>2. sched' \in [Schedulers -> SchedState]
    <3>1. [sched[s] EXCEPT !.pc = "record"] \in SchedState /\ Idle \in SchedState
      BY <1>4 DEF Claim, TypeOK, SchedState, Idle
    <3> QED
      BY <1>4, <3>1 DEF Claim, TypeOK
  <2>3. table' \in [DOMAIN table' -> Row] /\ DOMAIN table' \subseteq Workers
    <3>1. CASE ClaimHolds(w, e)
      <4>1. [table[w] EXCEPT !.free = @ - Need(e)] \in Row
        BY <2>1, <3>1, NeedType DEF ClaimHolds, TypeOK, Row
      <4> QED
        BY <1>4, <3>1, <4>1 DEF Claim, ClaimHolds, TypeOK
    <3>2. CASE ~ClaimHolds(w, e)
      BY <1>4, <3>2 DEF Claim, TypeOK
    <3> QED
      BY <3>1, <3>2
  <2> QED
    BY <1>4, <2>2, <2>3 DEF Claim, TypeOK
<1>5. CASE PutNewAlloc(s)
  <2>1. sched[s].eval \in Evals /\ sched[s].wrk \in Workers
    BY <1>5 DEF PutNewAlloc, TypeOK, SchedState
  <2>2. sched' \in [Schedulers -> SchedState]
    <3>1. [sched[s] EXCEPT !.pc = "ack"] \in SchedState
      BY <1>5 DEF PutNewAlloc, TypeOK, SchedState
    <3> QED
      BY <1>5, <3>1 DEF PutNewAlloc, TypeOK
  <2>3. allocs' \in [Evals -> [Workers -> Nat]]
    <3>1. [allocs[sched[s].eval] EXCEPT ![sched[s].wrk] = @ + 1] \in [Workers -> Nat]
      BY <2>1 DEF TypeOK
    <3> QED
      BY <1>5, <2>1, <3>1 DEF PutNewAlloc, TypeOK
  <2> QED
    BY <1>5, <2>2, <2>3 DEF PutNewAlloc, TypeOK
<1>6. CASE DeleteMessage(s)
  <2>1. sched' \in [Schedulers -> SchedState]
    BY <1>6 DEF DeleteMessage, TypeOK, SchedState, Idle
  <2> QED
    BY <1>6, <2>1 DEF DeleteMessage, TypeOK
<1>7. CASE GiveUp(s)
  <2>1. sched' \in [Schedulers -> SchedState]
    BY <1>7 DEF GiveUp, TypeOK, SchedState, Idle
  <2>2. faults' \in 0 .. MaxFaults
    BY <1>7 DEF GiveUp, TypeOK
  <2> QED
    BY <1>7, <2>1, <2>2 DEF GiveUp, TypeOK
<1> QED
  BY <1>1, <1>2, <1>3, <1>4, <1>5, <1>6, <1>7 DEF Scheduler

\* Every row, message and loop has the form the code gives it (RegisterWorker,
\* ReceiveEvals, Schedule, releaseAlloc).
THEOREM PlacementTypeCorrect == Spec => []TypeOK
<1>1. Init => TypeOK
  BY PlacementAssumption DEF Init, TypeOK, SchedState, Idle
<1>2. TypeOK /\ [Next]_vars => TypeOK'
  <2> SUFFICES ASSUME TypeOK, [Next]_vars PROVE TypeOK'
    OBVIOUS
  <2>1. CASE UNCHANGED vars
    BY <2>1 DEF vars, TypeOK
  <2>2. CASE Next
    BY <2>2, RowSteps, ReplicaSteps, EvalSteps, LoopSteps DEF Next
  <2> QED
    BY <2>1, <2>2
<1> QED
  BY <1>1, <1>2, PTL DEF Spec

-----------------------------------------------------------------------------
(* What a page of rows may hide                                            *)

\* Rows that include a page which does not hold all matches fill it.
LEMMA FullPage ==
  ASSUME NEW match, IsFiniteSet(match), NEW limit \in Nat, NEW page \in Pages(match, limit),
         page # match, NEW T \in SUBSET match, page \subseteq T
  PROVE  Cardinality(T) >= limit
<1>1. Cardinality(page) = limit
  BY DEF Pages
<1>2. IsFiniteSet(T)
  BY FS_Subset
<1>3. Cardinality(page) <= Cardinality(T) /\ Cardinality(T) \in Nat
  BY <1>2, FS_Subset, FS_CardinalityType
<1> QED
  BY <1>1, <1>3

\* A loop is moved by its own steps only.
LEMMA OwnSteps ==
  ASSUME TypeOK, [Next]_vars, NEW s \in Schedulers, sched'[s] # sched[s]
  PROVE  (\E e \in Evals : Receive(s, e)) \/ Scheduler(s) \/ GiveUp(s)
<1>1. Next /\ sched' # sched
  BY DEF vars
<1>2. \E t \in Schedulers : (\E e \in Evals : Receive(t, e)) \/ Scheduler(t) \/ GiveUp(t)
  BY <1>1 DEF Next, RegisterWorker, ExpireWorker, RenewWorker, DeleteWorker, Propagate,
              PutReplica, ExpireReplica, DeleteReplica, ScheduleEval, ReleaseAlloc
<1>3. PICK t \in Schedulers : (\E e \in Evals : Receive(t, e)) \/ Scheduler(t) \/ GiveUp(t)
  BY <1>2
<1>4. t = s
  BY <1>3 DEF TypeOK, Scheduler, Receive, FindReplicas, Query, Claim, PutNewAlloc,
              DeleteMessage, GiveUp
<1> QED
  BY <1>3, <1>4

\* A query that no failure ends is Schedule's.
LEMMA QuerySteps ==
  ASSUME TypeOK, [Next]_vars, NEW s \in Schedulers, NoneFound(s) \/ Found(s)
  PROVE  Query(s)
<1>1. sched[s].pc = "query" /\ sched'[s].pc \in {"idle", "claim"}
  BY DEF NoneFound, Found
<1>2. Scheduler(s) \/ GiveUp(s)
  BY <1>1, OwnSteps DEF Receive
<1>3. ~GiveUp(s)
  <2>1. SUFFICES ASSUME GiveUp(s) PROVE FALSE
    OBVIOUS
  <2>2. faults' # faults
    BY <2>1 DEF GiveUp, TypeOK
  <2>3. sched'[s].pc = "idle"
    BY <2>1 DEF GiveUp, TypeOK, Idle
  <2> QED
    BY <2>2, <2>3 DEF NoneFound, Found
<1> QED
  BY <1>1, <1>2, <1>3 DEF Scheduler, FindReplicas, Claim, PutNewAlloc, DeleteMessage

\* What matches a query is finite.
LEMMA FiniteMatches ==
  ASSUME TypeOK
  PROVE  /\ \A e : IsFiniteSet(Fitting(e))
         /\ \A d : IsFiniteSet(Matching(d))
<1>1. IsFiniteSet(Reports)
  <2>1. IsFiniteSet(Datasets \X Workers)
    BY PlacementAssumption, FS_Product
  <2> QED
    BY <2>1, FS_Subset, PlacementAssumption
<1>2. \A e : Fitting(e) \in SUBSET Workers
  BY DEF Fitting, TypeOK
<1>3. \A d : Matching(d) \in SUBSET Reports
  BY DEF Matching, TypeOK
<1> QED
  BY <1>1, <1>2, <1>3, FS_Subset, PlacementAssumption

\* "Not enough capacity" is true, or expired workers fill the page (Schedule).
THEOREM NothingHidden == Spec => NoneIsHidden
<1> DEFINE fit(s) == Fitting(sched[s].eval)
           Honest(s) == NoneFound(s) =>
               Alive(fit(s)) = {} \/ Cardinality(fit(s) \ Alive(fit(s))) >= WorkerLimit
<1>1. ASSUME TypeOK, [Next]_vars, NEW s \in Schedulers, NoneFound(s), Alive(fit(s)) # {}
      PROVE  Cardinality(fit(s) \ Alive(fit(s))) >= WorkerLimit
  <2>1. Query(s)
    BY <1>1, QuerySteps
  <2>2. PICK page \in Fetched(sched[s].eval) :
           \/ Candidates(page) = {}
           \/ \E w \in Freest(Candidates(page)) :
                 sched' = [sched EXCEPT ![s] = [pc |-> "claim", eval |-> sched[s].eval, wrk |-> w]]
    BY <2>1 DEF Query
  <2>3. Candidates(page) = {}
    BY <1>1, <2>2 DEF NoneFound, TypeOK
  <2>4. page \in Pages(fit(s), WorkerLimit) /\ page \subseteq fit(s)
    BY DEF Fetched, Pages
  <2>5. page # fit(s) /\ page \subseteq fit(s) \ Alive(fit(s))
    BY <1>1, <2>3, <2>4 DEF Candidates, Alive
  <2>6. IsFiniteSet(fit(s))
    BY <1>1, FiniteMatches
  <2> QED
    BY <2>4, <2>5, <2>6, FullPage, PlacementAssumption
<1>2. TypeOK /\ [Next]_vars => \A s \in Schedulers : Honest(s)
  BY <1>1
<1>3. TypeOK /\ [Next]_vars => [\A s \in Schedulers : Honest(s)]_vars
  BY <1>2
<1> QED
  BY <1>3, PlacementTypeCorrect, PTL DEF Spec, NoneIsHidden

\* The worker claimed is live, and freer ones are passed over only if a page of
\* others comes before them (Schedule).
THEOREM SpreadOverPages == Spec => EvalsSpread
<1> DEFINE fit(s) == Fitting(sched[s].eval)
           w(s) == sched'[s].wrk
           Before(s, v) == {u \in fit(s) \ {v} : index[u].free <= index[v].free}
           Spread(s) == Found(s) =>
               /\ w(s) \in Alive(fit(s))
               /\ \A v \in Alive(fit(s)) : index[v].free > index[w(s)].free =>
                     Cardinality(Before(s, v)) >= WorkerLimit
<1>1. ASSUME TypeOK, [Next]_vars, NEW s \in Schedulers, Found(s)
      PROVE  Spread(s)
  <2>1. Query(s)
    BY <1>1, QuerySteps
  <2>2. PICK page \in Fetched(sched[s].eval) :
           \/ sched' = [sched EXCEPT ![s] = Idle]
           \/ \E u \in Freest(Candidates(page)) :
                 sched' = [sched EXCEPT ![s] = [pc |-> "claim", eval |-> sched[s].eval, wrk |-> u]]
    BY <2>1 DEF Query
  <2>3. w(s) \in Freest(Candidates(page))
    BY <1>1, <2>2 DEF Found, TypeOK, Idle
  <2>4. /\ page \in Pages(fit(s), WorkerLimit) /\ page \subseteq fit(s)
        /\ LeastFirst(page, fit(s))
    BY DEF Fetched, Pages
  <2>5. w(s) \in Alive(fit(s))
    BY <2>3, <2>4 DEF Freest, Candidates, Alive
  <2>6. ASSUME NEW v \in Alive(fit(s)), index[v].free > index[w(s)].free
        PROVE  Cardinality(Before(s, v)) >= WorkerLimit
    <3>1. v \notin page
      <4>1. SUFFICES ASSUME v \in page PROVE FALSE
        OBVIOUS
      <4>2. index[w(s)].free >= index[v].free
        BY <2>3, <4>1 DEF Freest, Candidates, Alive
      <4>3. index[w(s)].free \in Int /\ index[v].free \in Int
        BY <1>1, <2>5 DEF Alive, Fitting, TypeOK, Row
      <4> QED
        BY <2>6, <4>2, <4>3
    <3>2. page # fit(s) /\ page \subseteq Before(s, v)
      BY <2>4, <3>1 DEF LeastFirst, Alive
    <3>3. IsFiniteSet(fit(s)) /\ Before(s, v) \in SUBSET fit(s)
      BY <1>1, FiniteMatches
    <3> QED
      BY <2>4, <3>2, <3>3, FullPage, PlacementAssumption
  <2> QED
    BY <2>5, <2>6
<1>2. TypeOK /\ [Next]_vars => [\A s \in Schedulers : Spread(s)]_vars
  BY <1>1
<1> QED
  BY <1>2, PlacementTypeCorrect, PTL DEF Spec, EvalsSpread

\* A live replica of the dataset is located, or a page of other rows matches
\* (FindReplicas).
THEOREM LiveReplicasLocated == Spec => ReplicasLocated
<1> DEFINE d(s) == Dataset[sched[s].eval]
           mine(s) == {r \in DOMAIN replicas : r[1] = d(s) /\ replicas[r]}
           near(s) == sched'[s].near
           Locates(s) == sched[s].pc = "locate" /\ sched'[s].pc = "query" =>
               /\ near(s) \subseteq {r \in DOMAIN replicas : replicas[r]}
               /\ \/ mine(s) = {} \/ near(s) \cap mine(s) # {}
                  \/ Cardinality(Matching(d(s)) \ mine(s)) >= ReplicaLimit
<1>1. ASSUME TypeOK, [Next]_vars, NEW s \in Schedulers,
             sched[s].pc = "locate", sched'[s].pc = "query"
      PROVE  Locates(s)
  <2>1. FindReplicas(s)
    <3>1. (\E e \in Evals : Receive(s, e)) \/ Scheduler(s) \/ GiveUp(s)
      BY <1>1, OwnSteps
    <3>2. ~GiveUp(s)
      BY <1>1 DEF GiveUp, Idle, TypeOK
    <3> QED
      BY <1>1, <3>1, <3>2 DEF Receive, Scheduler, Query, Claim, PutNewAlloc, DeleteMessage
  <2>2. PICK page \in Pages(Matching(d(s)), ReplicaLimit) :
           sched' = [sched EXCEPT ![s] = [pc |-> "query", eval |-> sched[s].eval,
                                          near |-> Located(page)]]
    BY <2>1 DEF FindReplicas
  <2>3. near(s) = Located(page)
    BY <1>1, <2>2 DEF TypeOK
  <2>4. near(s) \subseteq {r \in DOMAIN replicas : replicas[r]}
    BY <2>3 DEF Located, Pages, Matching
  <2>5. ASSUME mine(s) # {}, near(s) \cap mine(s) = {}
        PROVE  Cardinality(Matching(d(s)) \ mine(s)) >= ReplicaLimit
    <3>1. page \subseteq Matching(d(s)) \ mine(s)
      BY <2>3, <2>5 DEF Located, Pages
    <3>2. d(s) \in Datasets
      <4>1. PICK r \in DOMAIN replicas : r[1] = d(s)
        BY <2>5
      <4>2. r \in Datasets \X Workers
        BY <1>1, PlacementAssumption DEF TypeOK
      <4> QED
        BY <4>1, <4>2
    <3>3. mine(s) \subseteq Matching(d(s))
      BY <3>2, PlacementAssumption DEF Matching
    <3>4. page # Matching(d(s))
      BY <2>5, <3>1, <3>3
    <3>5. IsFiniteSet(Matching(d(s)))
      BY <1>1, FiniteMatches
    <3> QED
      BY <3>1, <3>4, <3>5, FullPage, PlacementAssumption
  <2> QED
    BY <2>4, <2>5
<1>2. TypeOK /\ [Next]_vars => [\A s \in Schedulers : Locates(s)]_vars
  BY <1>1
<1> QED
  BY <1>2, PlacementTypeCorrect, PTL DEF Spec, ReplicasLocated

=============================================================================
