---------------------------- MODULE PoolsProofs ----------------------------
(***************************************************************************)
(* Theorems about Pools, for any pools, workers, replicas, allocs and      *)
(* numbers of concurrent functions.                                        *)
(***************************************************************************)
EXTENDS Pools, TLAPS

-----------------------------------------------------------------------------
(* Type correctness                                                        *)

\* Steps that create and disband pools keep the types.
LEMMA PoolSteps ==
  ASSUME TypeOK, NEW p \in Pools,
         CreatePoolQueue(p) \/ PutNewPool(p) \/ FailCreate(p) \/ WantDisband(p)
            \/ Disband(p) \/ FailDisband(p)
  PROVE  TypeOK'
<1>1. create' \in [Pools -> {"new", "queued", "done", "failed"}]
  BY DEF TypeOK, CreatePoolQueue, PutNewPool, FailCreate, WantDisband, Disband,
     DeletePoolQueue, UpdatePoolTTL, FailDisband, pools
<1>2. poolRow' \in [Pools -> {"none", "active", "disbanded"}]
  BY DEF TypeOK, CreatePoolQueue, PutNewPool, FailCreate, WantDisband, Disband,
     DeletePoolQueue, UpdatePoolTTL, FailDisband, pools
<1>3. queues' \subseteq Pools
  BY DEF TypeOK, CreatePoolQueue, PutNewPool, FailCreate, WantDisband, Disband,
     DeletePoolQueue, UpdatePoolTTL, FailDisband, pools
<1>4. disband' \in [Pools -> {"unwanted", "wanted", "queueGone"}]
  BY DEF TypeOK, CreatePoolQueue, PutNewPool, FailCreate, WantDisband, Disband,
     DeletePoolQueue, UpdatePoolTTL, FailDisband, pools
<1>5. faults' \in 0 .. MaxFaults
  BY PoolsAssumption DEF TypeOK, CreatePoolQueue, PutNewPool, FailCreate, WantDisband,
     Disband, DeletePoolQueue, UpdatePoolTTL, FailDisband, Fault
<1>6. UNCHANGED <<reg, wqueues, tables, beats, scan, rel>>
  BY DEF CreatePoolQueue, PutNewPool, FailCreate, WantDisband, Disband,
     DeletePoolQueue, UpdatePoolTTL, FailDisband
<1> QED
  BY <1>1, <1>2, <1>3, <1>4, <1>5, <1>6 DEF TypeOK, tables

\* What the three tables and their histories are.
TablesOK ==
    /\ home \in [Rows -> Pools \cup {NoPool}]
    /\ rows \subseteq {x \in Rows : home[x] # NoPool} /\ expired \subseteq rows

\* A row that is put has a home.
LEMMA PutTypes ==
  ASSUME TablesOK, NEW x \in Rows, NEW p \in Pools, Put(x, p)
  PROVE  TablesOK'
  BY PoolsAssumption DEF TablesOK, Put

\* Steps of the workers and their requests keep the types.
LEMMA WorkerSteps ==
  ASSUME TypeOK, NEW w \in Workers,
         CreateWorkerQueue(w) \/ PutNewWorker(w) \/ FailRegister(w) \/ BeginHeartbeat(w)
            \/ Heartbeat(w) \/ \E p \in Pools : CheckPool(w, p)
  PROVE  TypeOK'
<1>0. TablesOK /\ w \in Rows
  BY DEF TypeOK, TablesOK, Rows
<1>1. CASE CreateWorkerQueue(w)
  <2>1. [reg[w] EXCEPT !.pc = "queued"] \in RegState
    BY <1>1 DEF CreateWorkerQueue, TypeOK, RegState
  <2>2. reg' = [reg EXCEPT ![w] = [reg[w] EXCEPT !.pc = "queued"]]
    BY <1>1 DEF CreateWorkerQueue, TypeOK
  <2>3. reg' \in [Workers -> RegState]
    BY <2>1, <2>2 DEF TypeOK
  <2> QED
    BY <1>1, <2>3 DEF CreateWorkerQueue, TypeOK, pools, tables
<1>2. CASE PutNewWorker(w)
  <2>1. [reg[w] EXCEPT !.pc = "done"] \in RegState /\ reg[w].pool \in Pools
    BY <1>2 DEF PutNewWorker, TypeOK, RegState
  <2>2. reg' = [reg EXCEPT ![w] = [reg[w] EXCEPT !.pc = "done"]]
    BY <1>2 DEF PutNewWorker, TypeOK
  <2>3. reg' \in [Workers -> RegState]
    BY <2>1, <2>2 DEF TypeOK
  <2>4. TablesOK'
    BY <1>0, <1>2, <2>1, PutTypes DEF PutNewWorker
  <2> QED
    BY <1>2, <2>3, <2>4 DEF PutNewWorker, TypeOK, TablesOK, pools
<1>3. CASE FailRegister(w)
  <2>1. [reg[w] EXCEPT !.pc = "failed"] \in RegState
    BY <1>3 DEF FailRegister, TypeOK, RegState
  <2>2. reg' = [reg EXCEPT ![w] = [reg[w] EXCEPT !.pc = "failed"]]
    BY <1>3 DEF FailRegister, TypeOK
  <2>3. reg' \in [Workers -> RegState]
    BY <2>1, <2>2 DEF TypeOK
  <2>4. faults' \in 0 .. MaxFaults
    BY <1>3, PoolsAssumption DEF FailRegister, Fault, TypeOK
  <2> QED
    BY <1>3, <2>3, <2>4 DEF FailRegister, TypeOK, pools, tables
<1>4. CASE BeginHeartbeat(w)
  BY <1>4 DEF BeginHeartbeat, TypeOK, pools, tables
<1>5. CASE Heartbeat(w)
  <2>1. CASE UNCHANGED tables
    BY <1>5, <2>1 DEF Heartbeat, TypeOK, pools, tables
  <2>2. CASE w \in beats /\ RowHolds(w) /\ ~UNCHANGED tables
    <3>1. PICK R \in SUBSET {r \in Replicas : Of[r] = w},
               A \in SUBSET {a \in Allocs \cap rows : home[a] = reg[w].pool} :
             /\ rows' = rows \cup {w} \cup R
             /\ expired' = expired \ ({w} \cup R \cup A)
             /\ home' = [x \in Rows |-> IF x \in R THEN reg[w].pool ELSE home[x]]
      BY <1>5, <2>2 DEF Heartbeat
    <3>2. reg[w].pool \in Pools /\ R \subseteq Rows /\ w \in rows
      BY <2>2 DEF TypeOK, RegState, Rows, RowHolds
    <3>3. TablesOK'
      BY <1>0, <3>1, <3>2, PoolsAssumption DEF TablesOK
    <3>4. UNCHANGED <<pools, reg, wqueues, scan, rel, faults>> /\ beats' \subseteq beats
      BY <1>5 DEF Heartbeat
    <3> QED
      BY <3>3, <3>4 DEF TypeOK, TablesOK, pools
  <2>3. UNCHANGED tables \/ (w \in beats /\ RowHolds(w))
    BY <1>5 DEF Heartbeat
  <2> QED
    BY <2>1, <2>2, <2>3
<1>6. ASSUME NEW p \in Pools, CheckPool(w, p)
      PROVE  TypeOK'
  <2>1. [pc |-> "checked", pool |-> p] \in RegState
    BY DEF RegState
  <2>2. reg' \in [Workers -> RegState]
    BY <1>6, <2>1 DEF CheckPool, TypeOK
  <2> QED
    BY <1>6, <2>2 DEF CheckPool, TypeOK, pools, tables
<1> QED
  BY <1>1, <1>2, <1>3, <1>4, <1>5, <1>6

\* So do the steps of a row's own: its TTL passes, or its alloc completes.
LEMMA RowSteps ==
  ASSUME TypeOK, NEW x \in Rows, Expire(x) \/ CompleteAlloc(x)
  PROVE  TypeOK'
  BY DEF TypeOK, Expire, CompleteAlloc, pools

\* A loop of a scan that runs is set to a state it may have.
LEMMA SetLoopTypes ==
  ASSUME TypeOK, NEW h \in Scans, NEW p \in Pools, scan[h].pc = "running",
         NEW state \in {"ended", "receive", "holding"}, SetLoop(h, p, state)
  PROVE  scan' \in [Scans -> ScanState]
<1>1. scan[h] \in [pc : {"running"}, loop : Loops]
  BY DEF TypeOK, ScanState
<1>2. [scan[h].loop EXCEPT ![p] = state] \in Loops
  BY <1>1 DEF Loops
<1>3. [pc |-> "running", loop |-> [scan[h].loop EXCEPT ![p] = state]] \in ScanState
  BY <1>2 DEF ScanState
<1>4. [scan[h] EXCEPT !.loop[p] = state]
        = [pc |-> "running", loop |-> [scan[h].loop EXCEPT ![p] = state]]
  BY <1>1
<1>5. scan' = [scan EXCEPT ![h] = [scan[h] EXCEPT !.loop[p] = state]]
  BY DEF SetLoop, TypeOK
<1> QED
  BY <1>3, <1>4, <1>5 DEF TypeOK

\* Steps of HandleSchedule keep the types.
LEMMA ScanSteps ==
  ASSUME TypeOK, NEW h \in Scans,
         BeginScan(h) \/ TimeOut(h) \/ \E p \in Pools : Loop(h, p) \/ FailReceive(h, p)
  PROVE  TypeOK'
<1>0. TablesOK
  BY DEF TypeOK, TablesOK
<1>1. CASE BeginScan(h)
  <2>1. scan' \in [Scans -> ScanState]
    BY <1>1 DEF BeginScan, TypeOK, ScanState, Loops
  <2> QED
    BY <1>1, <2>1 DEF BeginScan, TypeOK, pools, tables
<1>2. CASE TimeOut(h)
  <2>1. scan' \in [Scans -> ScanState]
    BY <1>2 DEF TimeOut, TypeOK, ScanState, Idle
  <2> QED
    BY <1>2, <2>1 DEF TimeOut, TypeOK, pools, tables
<1>3. ASSUME NEW p \in Pools, ReceiveMessage(h, p)
      PROVE  TypeOK'
  <2>1. scan' \in [Scans -> ScanState]
    BY <1>3, SetLoopTypes DEF ReceiveMessage, LoopIs
  <2> QED
    BY <1>3, <2>1 DEF ReceiveMessage, TypeOK, pools, tables
<1>4. ASSUME NEW p \in Pools, PlaceNothing(h, p)
      PROVE  TypeOK'
  <2>1. scan' \in [Scans -> ScanState]
    BY <1>4, SetLoopTypes DEF PlaceNothing, LoopIs
  <2> QED
    BY <1>4, <2>1 DEF PlaceNothing, TypeOK, pools, tables
<1>5. ASSUME NEW p \in Pools, NEW a \in Allocs, PlaceEval(h, p, a)
      PROVE  TypeOK'
  <2>1. scan' \in [Scans -> ScanState]
    BY <1>5, SetLoopTypes DEF PlaceEval, LoopIs
  <2>2. TablesOK'
    BY <1>0, <1>5, PutTypes DEF PlaceEval, Rows
  <2> QED
    BY <1>5, <2>1, <2>2 DEF PlaceEval, TypeOK, TablesOK, pools
<1>6. ASSUME NEW p \in Pools, FailReceive(h, p)
      PROVE  TypeOK'
  <2>1. scan' \in [Scans -> ScanState]
    BY <1>6, SetLoopTypes DEF FailReceive, LoopIs
  <2>2. faults' \in 0 .. MaxFaults
    BY <1>6, PoolsAssumption DEF FailReceive, Fault, TypeOK
  <2> QED
    BY <1>6, <2>1, <2>2 DEF FailReceive, TypeOK, pools, tables
<1> QED
  BY <1>1, <1>2, <1>3, <1>4, <1>5, <1>6 DEF Loop

\* A release works off rows of the kind it has queried.
LEMMA ReleaseStates ==
  ASSUME NEW T \in SUBSET Pools
  PROVE  /\ Idle \in RelState /\ [pc |-> "next", todo |-> T] \in RelState
         /\ \A p \in Pools :
              /\ \A L \in SUBSET Allocs :
                    [pc |-> "allocs", todo |-> T, pool |-> p, list |-> L] \in RelState
              /\ \A L \in SUBSET Replicas :
                    [pc |-> "replicas", todo |-> T, pool |-> p, list |-> L] \in RelState
              /\ \A L \in SUBSET Workers :
                    /\ [pc |-> "workers", todo |-> T, pool |-> p, list |-> L] \in RelState
                    /\ \A w \in Workers :
                          [pc |-> "row", todo |-> T, pool |-> p, list |-> L, wrk |-> w]
                             \in RelState
  BY DEF RelState, Working, Idle

\* What a release holds, by where it is.
Holding(r) ==
    /\ rel[r].pc \in {"idle", "next", "allocs", "replicas", "workers", "row"}
    /\ rel[r].pc # "idle" => rel[r].todo \in SUBSET Pools
    /\ rel[r].pc \in {"allocs", "replicas", "workers", "row"} => rel[r].pool \in Pools
    /\ rel[r].pc = "allocs" => rel[r].list \in SUBSET Allocs
    /\ rel[r].pc = "replicas" => rel[r].list \in SUBSET Replicas
    /\ rel[r].pc \in {"workers", "row"} => rel[r].list \in SUBSET Workers
    /\ rel[r].pc = "row" => rel[r].wrk \in Workers
LEMMA ReleaseHolds ==
  ASSUME TypeOK, NEW r \in Releasers
  PROVE  Holding(r)
  BY DEF TypeOK, RelState, Working, Holding

\* Taking a row off the list leaves a list of the same kind.
LEMMA ShorterList ==
  ASSUME TypeOK, NEW r \in Releasers, rel[r].pc \in {"allocs", "replicas", "workers"}, NEW x
  PROVE  [rel[r] EXCEPT !.list = @ \ {x}] \in RelState
  BY DEF TypeOK, RelState, Working

\* The local state of a release changes to one that it may have.
LEMMA ReleaseState ==
  ASSUME TypeOK, NEW r \in Releasers,
         Round(r) \/ CutOff(r) \/ SkipWorkerRow(r) \/ \E x \in Rows : SkipRow(r, x)
  PROVE  rel' \in [Releasers -> RelState]
<1> USE ReleaseHolds DEF Holding
<1>1. SUFFICES \E s \in RelState : rel' = [rel EXCEPT ![r] = s]
  BY DEF TypeOK
<1>2. CASE BeginRound(r)
  <2>1. {p \in Pools : poolRow[p] # "none"} \in SUBSET Pools
    OBVIOUS
  <2> QED
    BY <1>2, <2>1, ReleaseStates DEF BeginRound
<1>3. ASSUME NEW p \in Pools, QueryAllocs(r, p)
      PROVE  \E s \in RelState : rel' = [rel EXCEPT ![r] = s]
  <2>1. Expired(Allocs, p) \in SUBSET Allocs /\ rel[r].todo \ {p} \in SUBSET Pools
    BY <1>3 DEF Expired, QueryAllocs
  <2> QED
    BY <1>3, <2>1, ReleaseStates DEF QueryAllocs, Query
<1>4. CASE QueryReplicas(r)
  <2>1. Expired(Replicas, rel[r].pool) \in SUBSET Replicas
    BY DEF Expired
  <2> QED
    BY <1>4, <2>1, ReleaseStates DEF QueryReplicas, Query
<1>5. CASE QueryWorkers(r)
  <2>1. Expired(Workers, rel[r].pool) \in SUBSET Workers
    BY DEF Expired
  <2> QED
    BY <1>5, <2>1, ReleaseStates DEF QueryWorkers, Query
<1>6. ASSUME NEW x \in Rows, DeleteRow(r, x) \/ SkipRow(r, x)
      PROVE  \E s \in RelState : rel' = [rel EXCEPT ![r] = s]
  <2>1. rel[r].pc \in {"allocs", "replicas", "workers"}
    BY <1>6 DEF DeleteRow, SkipRow
  <2>2. rel' = [rel EXCEPT ![r] = [rel[r] EXCEPT !.list = @ \ {x}]]
    BY <1>6 DEF DeleteRow, SkipRow, TypeOK
  <2> QED
    BY <2>1, <2>2, ShorterList
<1>7. ASSUME NEW w \in Workers, DeleteWorkerQueue(r, w)
      PROVE  \E s \in RelState : rel' = [rel EXCEPT ![r] = s]
  <2>1. rel[r].list \ {w} \in SUBSET Workers
    BY <1>7 DEF DeleteWorkerQueue
  <2>2. rel' = [rel EXCEPT ![r] =
                  [pc |-> "row", todo |-> rel[r].todo, pool |-> rel[r].pool,
                   list |-> rel[r].list \ {w}, wrk |-> w]]
    BY <1>7 DEF DeleteWorkerQueue, TypeOK
  <2> QED
    BY <1>7, <2>1, <2>2, ReleaseStates DEF DeleteWorkerQueue
<1>8. CASE DeleteWorker(r) \/ SkipWorkerRow(r)
  <2>1. rel[r].pc = "row"
    BY <1>8 DEF DeleteWorker, SkipWorkerRow
  <2>2. rel' = [rel EXCEPT ![r] =
                  [pc |-> "workers", todo |-> rel[r].todo, pool |-> rel[r].pool,
                   list |-> rel[r].list]]
    BY <1>8 DEF DeleteWorker, SkipWorkerRow, BackToWorkers, TypeOK
  <2> QED
    BY <2>1, <2>2, ReleaseStates
<1>9. CASE PoolFails(r) \/ NextPool(r)
  <2>1. rel[r].pc \in {"allocs", "replicas", "workers"}
    BY <1>9 DEF PoolFails, NextPool
  <2>2. rel' = [rel EXCEPT ![r] = [pc |-> "next", todo |-> rel[r].todo]]
    BY <1>9 DEF PoolFails, NextPool, TypeOK
  <2> QED
    BY <2>1, <2>2, ReleaseStates
<1>10. CASE EndRound(r) \/ CutOff(r)
  <2>1. rel' = [rel EXCEPT ![r] = Idle]
    BY <1>10 DEF EndRound, CutOff
  <2> QED
    BY <2>1 DEF RelState, Idle
<1> QED
  BY <1>2, <1>3, <1>4, <1>5, <1>6, <1>7, <1>8, <1>9, <1>10 DEF Round

\* Steps of HandleRelease keep the types.
LEMMA ReleaseSteps ==
  ASSUME TypeOK, NEW r \in Releasers,
         Round(r) \/ CutOff(r) \/ SkipWorkerRow(r) \/ \E x \in Rows : SkipRow(r, x)
  PROVE  TypeOK'
<1>1. rel' \in [Releasers -> RelState]
  BY ReleaseState
<1>2. /\ UNCHANGED <<pools, reg, beats, scan, home>>
      /\ wqueues' \subseteq wqueues
  BY DEF Round, BeginRound, QueryAllocs, QueryReplicas, QueryWorkers, DeleteRow,
     DeleteWorkerQueue, DeleteWorker, PoolFails, NextPool, EndRound, CutOff,
     SkipWorkerRow, SkipRow, RelUnchanged, tables
<1>3. /\ rows' \subseteq rows
      /\ expired' = expired \cap rows' \/ (expired' = expired /\ rows' = rows)
  BY DEF TypeOK, Round, BeginRound, QueryAllocs, QueryReplicas, QueryWorkers, DeleteRow,
     DeleteWorkerQueue, DeleteWorker, PoolFails, NextPool, EndRound, CutOff,
     SkipWorkerRow, SkipRow, RelUnchanged, tables
<1>4. UNCHANGED faults \/ Fault
  BY DEF Round, BeginRound, QueryAllocs, QueryReplicas, QueryWorkers, DeleteRow,
     DeleteWorkerQueue, DeleteWorker, PoolFails, NextPool, EndRound, CutOff,
     SkipWorkerRow, SkipRow
<1>5. faults' \in 0 .. MaxFaults
  BY <1>4, PoolsAssumption DEF Fault, TypeOK
<1> QED
  BY <1>1, <1>2, <1>3, <1>5 DEF TypeOK, pools

\* Every step keeps the types.
LEMMA StepTypes == TypeOK /\ [Next]_vars => TypeOK'
<1> SUFFICES ASSUME TypeOK, [Next]_vars
             PROVE  TypeOK'
  OBVIOUS
<1>1. CASE UNCHANGED vars
  BY <1>1 DEF TypeOK, vars
<1>2. CASE Next
  BY <1>2, PoolSteps, WorkerSteps, RowSteps, ScanSteps, ReleaseSteps DEF Next, Rows
<1> QED
  BY <1>1, <1>2

\* Every state of Pools has the types its variables are declared with: what a
\* loop or a release works on is of the kind it has queried, rows have the pool
\* they were put for, and only registered workers send heartbeats.
THEOREM PoolsTypeCorrect == Spec => []TypeOK
<1>1. Init => TypeOK
  BY PoolsAssumption DEF Init, TypeOK, RegState, ScanState, RelState, Idle
<1> QED
  BY <1>1, StepTypes, PTL DEF Spec

-----------------------------------------------------------------------------
(* Disbanded pools                                                         *)

\* A pool has no queue before it is created and a row once it is, and its queue
\* is gone by the time it is marked as disbanded.
QueueFirst ==
    \A p \in Pools :
        /\ create[p] = "new" => p \notin queues
        /\ create[p] = "done" <=> poolRow[p] # "none"
        /\ disband[p] # "unwanted" => create[p] = "done"
        /\ poolRow[p] = "disbanded" \/ disband[p] = "queueGone" => p \notin queues

\* Only CreatePool and DisbandPool change pools.
LEMMA OthersKeepPools ==
  ASSUME Next
  PROVE  UNCHANGED pools \/ \E p \in Pools :
            CreatePoolQueue(p) \/ PutNewPool(p) \/ FailCreate(p) \/ WantDisband(p)
               \/ Disband(p) \/ FailDisband(p)
<1>1. \A w \in Workers : CreateWorkerQueue(w) \/ PutNewWorker(w) \/ FailRegister(w)
         \/ BeginHeartbeat(w) \/ Heartbeat(w) \/ (\E p \in Pools : CheckPool(w, p))
         => UNCHANGED pools
  BY DEF CreateWorkerQueue, PutNewWorker, FailRegister, BeginHeartbeat, Heartbeat, CheckPool
<1>2. \A x \in Rows : Expire(x) \/ CompleteAlloc(x) => UNCHANGED pools
  BY DEF Expire, CompleteAlloc
<1>3. \A h \in Scans : BeginScan(h) \/ TimeOut(h)
         \/ (\E p \in Pools : Loop(h, p) \/ FailReceive(h, p)) => UNCHANGED pools
  BY DEF BeginScan, TimeOut, Loop, ReceiveMessage, PlaceNothing, PlaceEval, FailReceive
<1>4. \A r \in Releasers : Round(r) \/ CutOff(r) \/ SkipWorkerRow(r)
         \/ (\E x \in Rows : SkipRow(r, x)) => UNCHANGED pools
  BY DEF Round, BeginRound, QueryAllocs, QueryReplicas, QueryWorkers, DeleteRow,
     DeleteWorkerQueue, DeleteWorker, PoolFails, NextPool, EndRound, CutOff,
     SkipWorkerRow, SkipRow, RelUnchanged
<1> QED
  BY <1>1, <1>2, <1>3, <1>4 DEF Next, Rows

LEMMA QueueFirstHolds == Spec => []QueueFirst
<1>1. Init => QueueFirst
  BY PoolsAssumption DEF Init, QueueFirst
<1>2. TypeOK /\ QueueFirst /\ [Next]_vars => QueueFirst'
  <2> SUFFICES ASSUME TypeOK, QueueFirst, [Next]_vars
               PROVE  QueueFirst'
    OBVIOUS
  <2>1. CASE UNCHANGED pools
    BY <2>1 DEF QueueFirst, pools
  <2>2. ASSUME NEW p \in Pools, CreatePoolQueue(p)
        PROVE  QueueFirst'
    BY <2>2 DEF CreatePoolQueue, QueueFirst, TypeOK
  <2>3. ASSUME NEW p \in Pools, PutNewPool(p)
        PROVE  QueueFirst'
    BY <2>3 DEF PutNewPool, QueueFirst, TypeOK
  <2>4. ASSUME NEW p \in Pools, FailCreate(p)
        PROVE  QueueFirst'
    BY <2>4 DEF FailCreate, QueueFirst, TypeOK
  <2>5. ASSUME NEW p \in Pools, WantDisband(p)
        PROVE  QueueFirst'
    BY <2>5 DEF WantDisband, QueueFirst, TypeOK
  <2>6. ASSUME NEW p \in Pools, DeletePoolQueue(p)
        PROVE  QueueFirst'
    BY <2>6 DEF DeletePoolQueue, QueueFirst, TypeOK
  <2>7. ASSUME NEW p \in Pools, UpdatePoolTTL(p)
        PROVE  QueueFirst'
    BY <2>7 DEF UpdatePoolTTL, QueueFirst, TypeOK
  <2>8. ASSUME NEW p \in Pools, FailDisband(p)
        PROVE  QueueFirst'
    BY <2>8 DEF FailDisband, QueueFirst, TypeOK
  <2>9. CASE Next /\ ~UNCHANGED pools
    <3>1. \E p \in Pools : CreatePoolQueue(p) \/ PutNewPool(p) \/ FailCreate(p)
             \/ WantDisband(p) \/ Disband(p) \/ FailDisband(p)
      BY <2>9, OthersKeepPools
    <3> QED
      BY <3>1, <2>2, <2>3, <2>4, <2>5, <2>6, <2>7, <2>8 DEF Disband
  <2> QED
    BY <2>1, <2>9 DEF vars, pools
<1> QED
  BY <1>1, <1>2, PoolsTypeCorrect, PTL DEF Spec

\* A pool's queue goes before its row is marked, and a disbanded pool is not
\* created again: whatever calls fail, only one that could not be created leaves
\* a queue behind.
THEOREM PoolQueuesAreOwned == Spec => []PoolQueuesHaveRows
<1>1. TypeOK /\ QueueFirst => PoolQueuesHaveRows
  BY DEF TypeOK, QueueFirst, PoolQueuesHaveRows
<1> QED
  BY <1>1, PoolsTypeCorrect, QueueFirstHolds, PTL

\* A step of a worker's, on its rows or on its requests.
WorkerStep(w) ==
    CreateWorkerQueue(w) \/ PutNewWorker(w) \/ FailRegister(w) \/ BeginHeartbeat(w)
       \/ Heartbeat(w) \/ \E p \in Pools : CheckPool(w, p)
ScanStep(h) ==
    BeginScan(h) \/ TimeOut(h) \/ \E p \in Pools : Loop(h, p) \/ FailReceive(h, p)
ReleaseStep(r) ==
    Round(r) \/ CutOff(r) \/ SkipWorkerRow(r) \/ \E x \in Rows : SkipRow(r, x)
PoolStep(p) ==
    CreatePoolQueue(p) \/ PutNewPool(p) \/ FailCreate(p) \/ WantDisband(p)
       \/ Disband(p) \/ FailDisband(p)

LEMMA NextSteps ==
  ASSUME Next
  PROVE  \/ \E p \in Pools : PoolStep(p)
         \/ \E w \in Workers : WorkerStep(w)
         \/ \E x \in Rows : Expire(x)
         \/ \E a \in Allocs : CompleteAlloc(a)
         \/ \E h \in Scans : ScanStep(h)
         \/ \E r \in Releasers : ReleaseStep(r)
  BY DEF Next, PoolStep, WorkerStep, ScanStep, ReleaseStep

\* What a release changes: it only takes rows and queues away.
LEMMA ReleaseTakes ==
  ASSUME NEW r \in Releasers, ReleaseStep(r)
  PROVE  /\ UNCHANGED <<pools, reg, beats, scan, home>>
         /\ wqueues' \subseteq wqueues /\ rows' \subseteq rows
  BY DEF ReleaseStep, Round, BeginRound, QueryAllocs, QueryReplicas, QueryWorkers,
     DeleteRow, DeleteWorkerQueue, DeleteWorker, PoolFails, NextPool, EndRound, CutOff,
     SkipWorkerRow, SkipRow, RelUnchanged, tables

\* No loop takes an eval of a disbanded pool.
LEMMA LoopsStayQuiet ==
  ASSUME TypeOK, QueueFirst, NEW p \in Pools, Quiet(p), NEW k \in Scans, ScanStep(k),
         NEW h \in Scans
  PROVE  ~LoopIs(h, p, "holding")'
<1>1. p \notin queues /\ poolRow[p] = "disbanded" /\ ~LoopIs(h, p, "holding")
  BY DEF Quiet, QueueFirst
<1>2. scan[h] \in ScanState /\ scan[k] \in ScanState
  BY DEF TypeOK
<1>3. CASE k # h
  <2>1. scan'[h] = scan[h]
    BY <1>3 DEF ScanStep, BeginScan, TimeOut, Loop, ReceiveMessage, PlaceNothing,
       PlaceEval, FailReceive, SetLoop, TypeOK
  <2> QED
    BY <1>1, <2>1 DEF LoopIs
<1>4. CASE k = h
  <2>1. CASE BeginScan(h)
    BY <1>1, <2>1 DEF BeginScan, LoopIs, TypeOK
  <2>2. CASE TimeOut(h)
    BY <2>2 DEF TimeOut, LoopIs, Idle, TypeOK
  <2>3. ASSUME NEW q \in Pools, Loop(h, q) \/ FailReceive(h, q)
        PROVE  ~LoopIs(h, p, "holding")'
    <3>1. PICK state \in {"ended", "receive", "holding"} :
             SetLoop(h, q, state) /\ (q = p => state # "holding")
      BY <1>1, <2>3 DEF Loop, ReceiveMessage, PlaceNothing, PlaceEval, FailReceive
    <3>2. scan[h].pc = "running"
      BY <2>3 DEF Loop, ReceiveMessage, PlaceNothing, PlaceEval, FailReceive, LoopIs
    <3>3. scan[h] \in [pc : {"running"}, loop : Loops]
      BY <1>2, <3>2 DEF ScanState
    <3>4. scan'[h] = [scan[h] EXCEPT !.loop[q] = state]
      BY <3>1 DEF SetLoop, TypeOK
    <3>5. scan'[h].loop = [scan[h].loop EXCEPT ![q] = state] /\ scan[h].loop \in Loops
      BY <3>3, <3>4
    <3>6. scan'[h].loop[p] # "holding"
      BY <1>1, <3>1, <3>2, <3>5 DEF Loops, LoopIs
    <3> QED
      BY <3>6 DEF LoopIs
  <2> QED
    BY <1>4, <2>1, <2>2, <2>3 DEF ScanStep
<1> QED
  BY <1>3, <1>4

\* Steps other than those of the actor in question leave what it holds alone.
LEMMA WorkerStepFrame ==
  ASSUME TypeOK, NEW w \in Workers, WorkerStep(w)
  PROVE  UNCHANGED <<pools, scan, rel>> /\ \A v \in Workers \ {w} : reg'[v] = reg[v]
  BY DEF WorkerStep, CreateWorkerQueue, PutNewWorker, FailRegister, BeginHeartbeat,
     Heartbeat, CheckPool, TypeOK
LEMMA ScanStepFrame ==
  ASSUME NEW h \in Scans, ScanStep(h)
  PROVE  UNCHANGED <<pools, reg, wqueues, beats, rel>>
  BY DEF ScanStep, BeginScan, TimeOut, Loop, ReceiveMessage, PlaceNothing, PlaceEval,
     FailReceive
LEMMA PoolStepFrame ==
  ASSUME NEW p \in Pools, PoolStep(p)
  PROVE  UNCHANGED <<reg, wqueues, tables, beats, scan, rel>>
  BY DEF PoolStep, CreatePoolQueue, PutNewPool, FailCreate, WantDisband, Disband,
     DeletePoolQueue, UpdatePoolTTL, FailDisband

\* What QuietStays says of a step and a pool.
StaysQuiet(p) == Quiet(p) => Quiet(p)' /\ RowsOf(p)' \subseteq RowsOf(p)

LEMMA QuietAfterPoolStep ==
  ASSUME TypeOK, QueueFirst, NEW p \in Pools, NEW q \in Pools, PoolStep(q)
  PROVE  StaysQuiet(p)
<1> SUFFICES ASSUME Quiet(p)
             PROVE  Quiet(p)' /\ RowsOf(p)' \subseteq RowsOf(p)
  BY DEF StaysQuiet
<1>1. poolRow'[p] = "disbanded"
  BY DEF Quiet, QueueFirst, TypeOK, PoolStep, CreatePoolQueue, PutNewPool, FailCreate,
     WantDisband, Disband, DeletePoolQueue, UpdatePoolTTL, FailDisband
<1> QED
  BY <1>1, PoolStepFrame DEF Quiet, LoopIs, RowsOf, tables

LEMMA QuietAfterWorkerStep ==
  ASSUME TypeOK, NEW p \in Pools, NEW w \in Workers, WorkerStep(w)
  PROVE  StaysQuiet(p)
<1> SUFFICES ASSUME Quiet(p)
             PROVE  Quiet(p)' /\ RowsOf(p)' \subseteq RowsOf(p)
  BY DEF StaysQuiet
<1>1. poolRow[p] = "disbanded" /\ reg[w] \in RegState /\ w \in Rows
  BY DEF Quiet, TypeOK, Rows
<1>2. reg'[w].pc \in {"checked", "queued"} => reg'[w].pool # p
  BY <1>1 DEF Quiet, WorkerStep, CreateWorkerQueue, PutNewWorker, FailRegister,
     BeginHeartbeat, Heartbeat, CheckPool, Active, TypeOK, RegState
<1>3. \A v \in Workers : v \in beats' => reg'[v] = reg[v] /\ reg[v].pool # p
  <2>1. CASE BeginHeartbeat(w)
    BY <1>1, <2>1 DEF BeginHeartbeat, Quiet, Active
  <2>2. CASE ~BeginHeartbeat(w)
    <3>1. beats' \subseteq beats
      BY <2>2 DEF WorkerStep, CreateWorkerQueue, PutNewWorker, FailRegister, Heartbeat,
         CheckPool
    <3>2. w \in beats => reg'[w] = reg[w]
      BY <2>2 DEF TypeOK, WorkerStep, CreateWorkerQueue, PutNewWorker, FailRegister,
         Heartbeat, CheckPool
    <3> QED
      BY <3>1, <3>2, WorkerStepFrame DEF Quiet
  <2> QED
    BY <2>1, <2>2
<1>4. RowsOf(p)' \subseteq RowsOf(p)
  <2>1. CASE PutNewWorker(w)
    <3>1. reg[w].pool # p /\ rows' = rows \cup {w} /\ home' = [home EXCEPT ![w] = reg[w].pool]
      BY <2>1 DEF PutNewWorker, Put, Quiet
    <3> QED
      BY <1>1, <3>1 DEF RowsOf, TypeOK
  <2>2. CASE Heartbeat(w)
    <3>1. CASE UNCHANGED tables
      BY <3>1 DEF RowsOf, tables
    <3>2. CASE RowHolds(w) /\ ~UNCHANGED tables
      <4>1. PICK R \in SUBSET {r \in Replicas : Of[r] = w} :
               /\ rows' = rows \cup {w} \cup R
               /\ home' = [x \in Rows |-> IF x \in R THEN reg[w].pool ELSE home[x]]
        BY <2>2, <3>2 DEF Heartbeat
      <4>2. R \subseteq Rows /\ w \in rows /\ reg[w].pool # p /\ rows \subseteq Rows
        BY <2>2, <3>2 DEF Rows, RowHolds, Heartbeat, Quiet, TypeOK
      <4> QED
        BY <4>1, <4>2 DEF RowsOf
    <3> QED
      BY <2>2, <3>1, <3>2 DEF Heartbeat
  <2>3. CASE UNCHANGED tables
    BY <2>3 DEF RowsOf, tables
  <2> QED
    BY <2>1, <2>2, <2>3 DEF WorkerStep, CreateWorkerQueue, FailRegister, BeginHeartbeat,
       CheckPool
<1>5. \A v \in Workers : reg'[v].pc \in {"checked", "queued"} => reg'[v].pool # p
  <2>1. \A v \in Workers \ {w} : reg'[v] = reg[v]
    BY WorkerStepFrame
  <2> QED
    BY <1>2, <2>1 DEF Quiet
<1>6. \A v \in beats' : reg'[v].pool # p
  <2>1. beats' \subseteq Workers
    BY WorkerSteps DEF WorkerStep, TypeOK
  <2> QED
    BY <1>3, <2>1
<1>7. poolRow'[p] = "disbanded" /\ \A h \in Scans : ~LoopIs(h, p, "holding")'
  BY WorkerStepFrame DEF Quiet, LoopIs, pools
<1> QED
  BY <1>4, <1>5, <1>6, <1>7 DEF Quiet

LEMMA QuietAfterScanStep ==
  ASSUME TypeOK, QueueFirst, NEW p \in Pools, NEW h \in Scans, ScanStep(h)
  PROVE  StaysQuiet(p)
<1> SUFFICES ASSUME Quiet(p)
             PROVE  Quiet(p)' /\ RowsOf(p)' \subseteq RowsOf(p)
  BY DEF StaysQuiet
<1>1. RowsOf(p)' \subseteq RowsOf(p)
  <2>1. ASSUME NEW q \in Pools, NEW a \in Allocs, PlaceEval(h, q, a)
        PROVE  RowsOf(p)' \subseteq RowsOf(p)
    <3>1. q # p /\ a \in Rows
      BY <2>1 DEF PlaceEval, Quiet, Rows
    <3> QED
      BY <2>1, <3>1 DEF PlaceEval, Put, RowsOf, TypeOK
  <2>2. CASE UNCHANGED tables
    BY <2>2 DEF RowsOf, tables
  <2> QED
    BY <2>1, <2>2 DEF ScanStep, BeginScan, TimeOut, Loop, ReceiveMessage, PlaceNothing,
       FailReceive
<1>2. \A k \in Scans : ~LoopIs(k, p, "holding")'
  BY LoopsStayQuiet
<1> QED
  BY <1>1, <1>2, ScanStepFrame DEF Quiet, pools

\* Once those who have seen a pool active are done with it, a disbanded pool
\* only loses rows, for ever: no handler gets past GetActivePool any more, and
\* no loop of HandleSchedule gets an eval, since the queue has gone before.
THEOREM DisbandedStaysQuiet == Spec => QuietStays
<1> DEFINE AllStay == \A p \in Pools : Quiet(p) => Quiet(p)' /\ RowsOf(p)' \subseteq RowsOf(p)
<1>1. TypeOK /\ QueueFirst /\ [Next]_vars => AllStay
  <2> SUFFICES ASSUME TypeOK, QueueFirst, [Next]_vars, NEW p \in Pools
               PROVE  StaysQuiet(p)
    BY DEF StaysQuiet
  <2>1. ASSUME NEW r \in Releasers, ReleaseStep(r)
        PROVE  StaysQuiet(p)
    BY <2>1, ReleaseTakes DEF StaysQuiet, Quiet, LoopIs, RowsOf, pools
  <2>2. ASSUME NEW x \in Rows, Expire(x) \/ CompleteAlloc(x)
        PROVE  StaysQuiet(p)
    BY <2>2 DEF Expire, CompleteAlloc, StaysQuiet, Quiet, LoopIs, RowsOf, pools
  <2>3. CASE UNCHANGED vars
    BY <2>3 DEF StaysQuiet, Quiet, LoopIs, RowsOf, vars
  <2>4. CASE Next
    BY <2>1, <2>2, <2>4, NextSteps, QuietAfterPoolStep, QuietAfterWorkerStep,
       QuietAfterScanStep DEF Rows
  <2> QED
    BY <2>3, <2>4
<1>2. TypeOK /\ QueueFirst /\ [Next]_vars => [AllStay]_vars
  BY <1>1
<1> QED
  BY <1>2, PoolsTypeCorrect, QueueFirstHolds, PTL DEF Spec, QuietStays

-----------------------------------------------------------------------------
(* Workers and their queues                                                *)

\* A worker has a row only if its registration is done, and a queue from before
\* that on; releases work on such workers, and delete the queue before the row.
Registered ==
    /\ \A w \in Workers :
          /\ w \in rows => reg[w].pc = "done"
          /\ reg[w].pc = "queued" => w \in wqueues
    /\ \A r \in Releasers :
          /\ rel[r].pc \in {"workers", "row"} => \A w \in rel[r].list : reg[w].pc = "done"
          /\ rel[r].pc = "row" => reg[rel[r].wrk].pc = "done" /\ rel[r].wrk \notin wqueues

QueuesKept == Registered /\ QueuesHaveRows /\ RowsHaveQueues

\* Rows of workers are put by their registration alone.
LEMMA OtherRows ==
  ASSUME NEW w \in Workers
  PROVE  w \notin Allocs /\ w \notin Replicas
  BY KindsAssumption

LEMMA KeptByWorkerStep ==
  ASSUME TypeOK, QueuesKept, NEW w \in Workers, WorkerStep(w)
  PROVE  QueuesKept'
<1> USE DEF QueuesKept
<1>0. /\ UNCHANGED rel /\ \A v \in Workers \ {w} : reg'[v] = reg[v]
      /\ \A r \in Releasers : Holding(r)
  BY WorkerStepFrame, ReleaseHolds
<1>1. CASE CreateWorkerQueue(w)
  <2>1. reg'[w].pc = "queued" /\ reg[w].pc = "checked" /\ wqueues' = wqueues \cup {w}
        /\ UNCHANGED <<rows, faults>>
    BY <1>1 DEF CreateWorkerQueue, TypeOK, RegState, tables
  <2>2. Registered'
    BY <1>0, <2>1 DEF Registered, Holding
  <2> QED
    BY <1>0, <2>1, <2>2 DEF QueuesHaveRows, RowsHaveQueues, TypeOK
<1>2. CASE PutNewWorker(w)
  <2>1. reg'[w].pc = "done" /\ reg[w].pc = "queued" /\ rows' = rows \cup {w}
        /\ UNCHANGED <<wqueues, faults>>
    BY <1>2 DEF PutNewWorker, Put, TypeOK, RegState
  <2>2. Registered'
    BY <1>0, <2>1 DEF Registered, Holding
  <2> QED
    BY <1>0, <2>1, <2>2 DEF Registered, QueuesHaveRows, RowsHaveQueues, TypeOK
<1>3. CASE FailRegister(w)
  <2>1. reg'[w].pc = "failed" /\ reg[w].pc \in {"checked", "queued"} /\ faults' = faults + 1
        /\ UNCHANGED <<rows, wqueues>>
    BY <1>3 DEF FailRegister, Fault, TypeOK, RegState, tables
  <2>2. Registered'
    BY <1>0, <2>1 DEF Registered, Holding
  <2>3. RowsHaveQueues'
    BY <2>1, PoolsAssumption DEF RowsHaveQueues, TypeOK
  <2> QED
    BY <1>0, <2>1, <2>2, <2>3 DEF QueuesHaveRows, TypeOK
<1>4. CASE BeginHeartbeat(w)
  BY <1>4 DEF BeginHeartbeat, Registered, QueuesHaveRows, RowsHaveQueues, tables
<1>5. CASE Heartbeat(w)
  <2>1. UNCHANGED <<reg, wqueues, rel, faults>>
    BY <1>5 DEF Heartbeat
  <2>2. rows \subseteq rows' /\ rows' \subseteq rows \cup Replicas
    BY <1>5 DEF Heartbeat, RowHolds, tables
  <2>3. \A v \in Workers : v \in rows' <=> v \in rows
    BY <2>2, OtherRows
  <2>4. Registered'
    BY <2>1, <2>3 DEF Registered
  <2> QED
    BY <2>1, <2>3, <2>4 DEF QueuesHaveRows, RowsHaveQueues, TypeOK
<1>6. ASSUME NEW p \in Pools, CheckPool(w, p)
      PROVE  QueuesKept'
  <2>1. reg'[w].pc = "checked" /\ reg[w].pc = "new" /\ UNCHANGED <<rows, wqueues, faults>>
    BY <1>6 DEF CheckPool, TypeOK, RegState, tables
  <2>2. Registered'
    BY <1>0, <2>1 DEF Registered, Holding
  <2> QED
    BY <1>0, <2>1, <2>2 DEF QueuesHaveRows, RowsHaveQueues, TypeOK
<1> QED
  BY <1>1, <1>2, <1>3, <1>4, <1>5, <1>6 DEF WorkerStep

\* Steps that change no worker's row and no registration.
LEMMA KeptByOthers ==
  ASSUME TypeOK, QueuesKept, UNCHANGED <<reg, wqueues, rel>>,
         faults' = 0 => faults = 0,
         \A w \in Workers : w \in rows' <=> w \in rows
  PROVE  QueuesKept'
<1>1. Registered'
  BY DEF Registered, QueuesKept
<1> QED
  BY <1>1 DEF QueuesKept, QueuesHaveRows, RowsHaveQueues, TypeOK

LEMMA KeptByReleaseStep ==
  ASSUME TypeOK, QueuesKept, NEW r \in Releasers, ReleaseStep(r)
  PROVE  QueuesKept'
<1> USE DEF QueuesKept
<1>0. UNCHANGED reg /\ wqueues' \subseteq wqueues /\ rows' \subseteq rows /\ Holding(r)
  BY ReleaseTakes, ReleaseHolds
<1>1. \A q \in Releasers \ {r} : rel'[q] = rel[q]
  BY DEF TypeOK, ReleaseStep, Round, BeginRound, QueryAllocs, QueryReplicas, QueryWorkers,
     DeleteRow, DeleteWorkerQueue, DeleteWorker, PoolFails, NextPool, EndRound, CutOff,
     SkipWorkerRow, SkipRow, Query, BackToWorkers
<1>2. \A q \in Releasers : Holding(q)
  BY ReleaseHolds
<1>3. ASSUME NEW w \in Workers, DeleteWorkerQueue(r, w)
      PROVE  QueuesKept'
  <2>1. /\ rel[r].pc = "workers" /\ w \in rel[r].list /\ wqueues' = wqueues \ {w}
        /\ rel'[r] = [pc |-> "row", todo |-> rel[r].todo, pool |-> rel[r].pool,
                      list |-> rel[r].list \ {w}, wrk |-> w]
        /\ UNCHANGED <<rows, faults>>
    BY <1>3 DEF DeleteWorkerQueue, TypeOK, tables
  <2>2. reg[w].pc = "done"
    BY <2>1 DEF Registered
  <2>3. Registered'
    BY <1>0, <1>1, <1>2, <2>1, <2>2 DEF Registered, Holding
  <2>4. QueuesHaveRows'
    BY <1>0, <2>1 DEF QueuesHaveRows
  <2>5. RowsHaveQueues'
    <3> SUFFICES ASSUME faults' = 0, NEW v \in (Workers \cap rows') \ wqueues'
                 PROVE  \E q \in Releasers : rel'[q].pc = "row" /\ rel'[q].wrk = v
      BY DEF RowsHaveQueues
    <3>1. CASE v = w
      BY <2>1, <3>1
    <3>2. CASE v # w
      <4>1. PICK q \in Releasers : rel[q].pc = "row" /\ rel[q].wrk = v
        BY <2>1, <3>2 DEF RowsHaveQueues
      <4> QED
        BY <1>1, <2>1, <4>1
    <3> QED
      BY <3>1, <3>2
  <2> QED
    BY <2>3, <2>4, <2>5
<1>4. CASE DeleteWorker(r)
  <2>1. /\ rel[r].pc = "row" /\ rows' = rows \ {rel[r].wrk} /\ UNCHANGED <<wqueues, faults>>
        /\ rel'[r] = [pc |-> "workers", todo |-> rel[r].todo, pool |-> rel[r].pool,
                      list |-> rel[r].list]
    BY <1>4 DEF DeleteWorker, BackToWorkers, TypeOK
  <2>2. Registered'
    BY <1>0, <1>1, <1>2, <2>1 DEF Registered, Holding
  <2>3. QueuesHaveRows'
    BY <1>0, <2>1 DEF QueuesHaveRows, Registered
  <2>4. RowsHaveQueues'
    <3> SUFFICES ASSUME faults' = 0, NEW v \in (Workers \cap rows') \ wqueues'
                 PROVE  \E q \in Releasers : rel'[q].pc = "row" /\ rel'[q].wrk = v
      BY DEF RowsHaveQueues
    <3>1. PICK q \in Releasers : rel[q].pc = "row" /\ rel[q].wrk = v
      BY <2>1 DEF RowsHaveQueues
    <3> QED
      BY <1>1, <2>1, <3>1
  <2> QED
    BY <2>2, <2>3, <2>4
<1>5. CASE CutOff(r) \/ SkipWorkerRow(r)
  <2>1. UNCHANGED <<rows, wqueues>> /\ faults' = faults + 1
    BY <1>5 DEF CutOff, SkipWorkerRow, Fault, tables
  <2>2. /\ rel'[r].pc \in {"idle", "workers"}
        /\ rel'[r].pc = "workers" => rel[r].pc = "row" /\ rel'[r].list = rel[r].list
    BY <1>5 DEF CutOff, SkipWorkerRow, BackToWorkers, Idle, TypeOK
  <2>3. Registered'
    BY <1>0, <1>1, <1>2, <2>1, <2>2 DEF Registered, Holding
  <2>4. RowsHaveQueues'
    BY <2>1, PoolsAssumption DEF RowsHaveQueues, TypeOK
  <2> QED
    BY <1>0, <2>1, <2>3, <2>4 DEF QueuesHaveRows
<1>6. CASE QueryWorkers(r)
  <2>1. UNCHANGED <<rows, wqueues, faults>> /\ rel[r].pc = "replicas"
    BY <1>6 DEF QueryWorkers, tables
  <2>2. rel'[r].pc = "workers" /\ rel'[r].list \subseteq Workers \cap rows
    BY <1>6 DEF QueryWorkers, Query, Expired, TypeOK
  <2>3. Registered'
    BY <1>0, <1>1, <1>2, <2>1, <2>2 DEF Registered, Holding
  <2> QED
    BY <1>0, <1>1, <2>1, <2>3 DEF QueuesHaveRows, RowsHaveQueues
<1>7. ASSUME NEW x \in Rows, DeleteRow(r, x)
      PROVE  QueuesKept'
  <2>1. /\ rel[r].pc \in {"allocs", "replicas"} /\ x \in rel[r].list /\ rel'[r].pc = rel[r].pc
        /\ rows' = rows \ {x} /\ UNCHANGED <<wqueues, faults>>
    BY <1>7, <1>0 DEF DeleteRow, TypeOK, Holding, RelState, Working
  <2>2. \A w \in Workers : w \in rows' <=> w \in rows
    BY <1>0, <2>1, OtherRows DEF Holding
  <2>3. Registered'
    BY <1>0, <1>1, <1>2, <2>1, <2>2 DEF Registered, Holding
  <2> QED
    BY <1>0, <1>1, <2>1, <2>2, <2>3 DEF QueuesHaveRows, RowsHaveQueues, TypeOK
<1>8. ASSUME NEW x \in Rows, SkipRow(r, x)
      PROVE  QueuesKept'
  <2>1. UNCHANGED <<rows, wqueues>> /\ faults' = faults + 1
    BY <1>8 DEF SkipRow, Fault, tables
  <2>2. rel'[r].pc = rel[r].pc /\ rel[r].pc # "row" /\ rel'[r].list \subseteq rel[r].list
    BY <1>8, <1>0 DEF SkipRow, TypeOK, RelState, Working
  <2>3. Registered'
    BY <1>0, <1>1, <1>2, <2>1, <2>2 DEF Registered, Holding
  <2>4. RowsHaveQueues'
    BY <2>1, PoolsAssumption DEF RowsHaveQueues, TypeOK
  <2> QED
    BY <1>0, <2>1, <2>3, <2>4 DEF QueuesHaveRows
<1>9. CASE BeginRound(r) \/ (\E p \in Pools : QueryAllocs(r, p)) \/ QueryReplicas(r)
              \/ PoolFails(r) \/ NextPool(r) \/ EndRound(r)
  <2>1. UNCHANGED <<rows, wqueues>> /\ (faults' = faults \/ faults' = faults + 1)
    BY <1>9 DEF BeginRound, QueryAllocs, QueryReplicas, PoolFails, NextPool, EndRound,
       Fault, tables
  <2>2. rel[r].pc # "row" /\ rel'[r].pc \in {"idle", "next", "allocs", "replicas"}
    BY <1>9 DEF BeginRound, QueryAllocs, QueryReplicas, PoolFails, NextPool, EndRound,
       Query, Idle, TypeOK
  <2>3. Registered'
    BY <1>0, <1>1, <1>2, <2>1, <2>2 DEF Registered, Holding
  <2>4. RowsHaveQueues'
    <3>1. faults' = 0 => faults = 0
      BY <2>1, PoolsAssumption DEF TypeOK
    <3> QED
      BY <1>0, <1>1, <2>1, <2>2, <3>1 DEF RowsHaveQueues
  <2> QED
    BY <1>0, <2>1, <2>3, <2>4 DEF QueuesHaveRows
<1> QED
  BY <1>3, <1>4, <1>5, <1>6, <1>7, <1>8, <1>9 DEF ReleaseStep, Round

LEMMA QueuesKeptHolds == Spec => []QueuesKept
<1>1. Init => QueuesKept
  BY DEF Init, QueuesKept, Registered, QueuesHaveRows, RowsHaveQueues, Idle
<1>2. TypeOK /\ QueuesKept /\ [Next]_vars => QueuesKept'
  <2> SUFFICES ASSUME TypeOK, QueuesKept, [Next]_vars
               PROVE  QueuesKept'
    OBVIOUS
  <2>1. CASE UNCHANGED vars
    BY <2>1, KeptByOthers DEF vars
  <2>2. ASSUME NEW p \in Pools, PoolStep(p)
        PROVE  QueuesKept'
    <3>1. faults' = 0 => faults = 0
      BY <2>2, PoolsAssumption DEF TypeOK, PoolStep, CreatePoolQueue, PutNewPool,
         FailCreate, WantDisband, Disband, DeletePoolQueue, UpdatePoolTTL, FailDisband,
         Fault
    <3> QED
      BY <2>2, <3>1, PoolStepFrame, KeptByOthers DEF tables
  <2>3. ASSUME NEW x \in Rows, Expire(x)
        PROVE  QueuesKept'
    BY <2>3, KeptByOthers DEF Expire
  <2>4. ASSUME NEW a \in Allocs, CompleteAlloc(a)
        PROVE  QueuesKept'
    <3>1. \A w \in Workers : w \in rows' <=> w \in rows
      BY <2>4, OtherRows DEF CompleteAlloc
    <3> QED
      BY <2>4, <3>1, KeptByOthers DEF CompleteAlloc
  <2>5. ASSUME NEW h \in Scans, ScanStep(h)
        PROVE  QueuesKept'
    <3>1. \A w \in Workers : w \in rows' <=> w \in rows
      BY <2>5, OtherRows DEF ScanStep, BeginScan, TimeOut, Loop, ReceiveMessage,
         PlaceNothing, PlaceEval, FailReceive, Put, tables
    <3>2. faults' = 0 => faults = 0
      BY <2>5, PoolsAssumption DEF TypeOK, ScanStep, BeginScan, TimeOut, Loop,
         ReceiveMessage, PlaceNothing, PlaceEval, FailReceive, Fault
    <3> QED
      BY <2>5, <3>1, <3>2, ScanStepFrame, KeptByOthers
  <2>6. CASE Next
    BY <2>2, <2>3, <2>4, <2>5, <2>6, NextSteps, KeptByWorkerStep, KeptByReleaseStep
  <2> QED
    BY <2>1, <2>6
<1> QED
  BY <1>1, <1>2, PoolsTypeCorrect, PTL DEF Spec

\* The queue of a worker has a row to it, unless its registration is under way
\* or has failed: releaseWorkers deletes the queue before the row, and goes on
\* to the next worker when that fails.
THEOREM QueuesAreOwned == Spec => []QueuesHaveRows
  BY QueuesKeptHolds, PTL DEF QueuesKept

\* As long as no call fails, a worker with a row has a queue or is being
\* released right now: RegisterWorker creates the queue first, and a heartbeat
\* does not bring the row of a released worker back.
THEOREM RowsAreServed == Spec => []RowsHaveQueues
  BY QueuesKeptHolds, PTL DEF QueuesKept

=============================================================================
