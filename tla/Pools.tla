------------------------------- MODULE Pools -------------------------------
(***************************************************************************)
(* Pools from their creation to their end: who may still work for a pool   *)
(* while it is created and disbanded, what is left behind when a call in   *)
(* between fails, and how both scheduled functions go from pool to pool.   *)
(*                                                                         *)
(* Everything that carries a TTL, a worker, a replica or an alloc, is a    *)
(* row here, either expired or not.  What the rows say and how they are    *)
(* renewed one by one is in Dispatch and Leases.                           *)
(***************************************************************************)
EXTENDS Integers

CONSTANTS
    Pools,        \* random ids of pools
    NoPool,       \* the home of a row never put
    Existing,     \* pools created before the start
    Workers,      \* random ids of workers
    Replicas,     \* replica rows
    Of,           \* the worker that reports each replica
    Allocs,       \* random ids of allocs
    Failing,      \* pools whose releaseAllocs may fail every time
    Scans,        \* concurrent invocations of HandleSchedule
    Releasers,    \* concurrent invocations of HandleRelease
    MaxFaults     \* bound: calls that fail and releases cut off, elsewhere

ASSUME KindsAssumption ==
    /\ Workers \cap Replicas = {} /\ Workers \cap Allocs = {} /\ Replicas \cap Allocs = {}
    /\ Of \in [Replicas -> Workers]
ASSUME PoolsAssumption ==
    /\ NoPool \notin Pools /\ Existing \subseteq Pools /\ Failing \subseteq Pools
    /\ MaxFaults \in Nat

VARIABLES
    create,       \* progress of each CreatePool
    poolRow,      \* the pools table, and whether a row has a TTL
    queues,       \* pools whose queue exists
    disband,      \* the client's wish to disband, and progress of DisbandPool
    reg,          \* progress of each RegisterWorker
    wqueues,      \* workers whose queue exists
    home,         \* pool of each row that was ever put
    rows,         \* rows of the workers, replicas and allocs tables
    expired,      \* those whose TTL has passed
    beats,        \* workers with a SendHeartbeat past its check
    scan,         \* the receive loops of each HandleSchedule
    rel,          \* local state of each HandleRelease
    faults        \* calls that failed

pools == <<create, poolRow, queues, disband>>
tables == <<home, rows, expired>>
vars == <<create, poolRow, queues, disband, reg, wqueues, home, rows, expired,
          beats, scan, rel, faults>>

-----------------------------------------------------------------------------
Rows == Workers \cup Replicas \cup Allocs

RegState ==
         [pc : {"new"}]
    \cup [pc : {"checked", "queued", "done", "failed"}, pool : Pools]

Loops == [Pools -> {"ended", "receive", "holding"}]
ScanState == [pc : {"idle"}] \cup [pc : {"running"}, loop : Loops]

\* A release works off a list of rows of one kind.
Working(pc, kind) == [pc : {pc}, todo : SUBSET Pools, pool : Pools, list : SUBSET kind]
RelState ==
         [pc : {"idle"}]
    \cup [pc : {"next"}, todo : SUBSET Pools]
    \cup Working("allocs", Allocs) \cup Working("replicas", Replicas)
    \cup Working("workers", Workers)
    \cup [pc : {"row"}, todo : SUBSET Pools, pool : Pools, list : SUBSET Workers,
          wrk : Workers]

Idle == [pc |-> "idle"]

TypeOK ==
    /\ create \in [Pools -> {"new", "queued", "done", "failed"}]
    /\ poolRow \in [Pools -> {"none", "active", "disbanded"}]
    /\ queues \subseteq Pools
    /\ disband \in [Pools -> {"unwanted", "wanted", "queueGone"}]
    /\ reg \in [Workers -> RegState]
    /\ wqueues \subseteq Workers
    /\ home \in [Rows -> Pools \cup {NoPool}]
    /\ rows \subseteq {x \in Rows : home[x] # NoPool} /\ expired \subseteq rows
    /\ beats \subseteq {w \in Workers : reg[w].pc = "done"}
    /\ scan \in [Scans -> ScanState]
    /\ rel \in [Releasers -> RelState]
    /\ faults \in 0 .. MaxFaults

Init ==
    /\ create = [p \in Pools |-> IF p \in Existing THEN "done" ELSE "new"]
    /\ poolRow = [p \in Pools |-> IF p \in Existing THEN "active" ELSE "none"]
    /\ queues = Existing
    /\ disband = [p \in Pools |-> "unwanted"]
    /\ reg = [w \in Workers |-> [pc |-> "new"]]
    /\ wqueues = {}
    /\ home = [x \in Rows |-> NoPool] /\ rows = {} /\ expired = {}
    /\ beats = {}
    /\ scan = [h \in Scans |-> Idle]
    /\ rel = [r \in Releasers |-> Idle]
    /\ faults = 0

\* A call fails, or what makes it is cut off.
Fault == faults < MaxFaults /\ faults' = faults + 1

PutWithoutPool(x, p) ==
    /\ rows' = rows \cup {x} /\ expired' = expired \ {x}
    /\ UNCHANGED home

\* The row x of pool p is put, with a TTL in the future.
Put(x, p) ==
    /\ rows' = rows \cup {x} /\ expired' = expired \ {x}
    /\ home' = [home EXCEPT ![x] = p]

\* GetActivePool. For a disbanded pool it returns neither pool nor error, and
\* the handler fails when it uses the pool.
ActiveAnyRow(p) == poolRow[p] # "none"
Active(p) == poolRow[p] = "active"

-----------------------------------------------------------------------------
(* CreatePool and DisbandPool                                              *)

CreatePoolQueue(p) ==
    /\ create[p] = "new"
    /\ create' = [create EXCEPT ![p] = "queued"]
    /\ queues' = queues \cup {p}
    /\ UNCHANGED <<poolRow, disband, reg, wqueues, tables, beats, scan, rel, faults>>

PutNewPool(p) ==
    /\ create[p] = "queued"
    /\ create' = [create EXCEPT ![p] = "done"]
    /\ poolRow' = [poolRow EXCEPT ![p] = "active"]
    /\ UNCHANGED <<queues, disband, reg, wqueues, tables, beats, scan, rel, faults>>

FailCreate(p) ==
    /\ create[p] = "queued"
    /\ create' = [create EXCEPT ![p] = "failed"]
    /\ Fault
    /\ UNCHANGED <<poolRow, queues, disband, reg, wqueues, tables, beats, scan, rel>>

\* A client that wants to be rid of its pool calls until a call succeeds.
WantDisband(p) ==
    /\ create[p] = "done" /\ disband[p] = "unwanted" /\ poolRow[p] = "active"
    /\ disband' = [disband EXCEPT ![p] = "wanted"]
    /\ UNCHANGED <<create, poolRow, queues, reg, wqueues, tables, beats, scan, rel, faults>>

DeletePoolQueueOrNot(p) ==
    /\ disband[p] = "wanted"
    /\ \/ queues' = queues \ {p} /\ UNCHANGED faults
       \/ UNCHANGED queues /\ Fault
    /\ disband' = [disband EXCEPT ![p] = "queueGone"]
    /\ UNCHANGED <<create, poolRow, reg, wqueues, tables, beats, scan, rel>>

\* DeleteQueue succeeds as well if the queue is gone already.
DeletePoolQueue(p) ==
    /\ disband[p] = "wanted"
    /\ queues' = queues \ {p}
    /\ disband' = [disband EXCEPT ![p] = "queueGone"]
    /\ UNCHANGED <<create, poolRow, reg, wqueues, tables, beats, scan, rel, faults>>

UpdatePoolTTL(p) ==
    /\ disband[p] = "queueGone"
    /\ poolRow' = [poolRow EXCEPT ![p] = "disbanded"]
    /\ disband' = [disband EXCEPT ![p] = "unwanted"]
    /\ UNCHANGED <<create, queues, reg, wqueues, tables, beats, scan, rel, faults>>

FailDisband(p) ==
    /\ disband[p] = "queueGone"
    /\ disband' = [disband EXCEPT ![p] = "wanted"]
    /\ Fault
    /\ UNCHANGED <<create, poolRow, queues, reg, wqueues, tables, beats, scan, rel>>

-----------------------------------------------------------------------------
(* RegisterWorker and SendHeartbeat                                        *)

CheckPool(w, p) ==
    /\ reg[w].pc = "new" /\ Active(p)
    /\ reg' = [reg EXCEPT ![w] = [pc |-> "checked", pool |-> p]]
    /\ UNCHANGED <<pools, wqueues, tables, beats, scan, rel, faults>>

CreateWorkerQueue(w) ==
    /\ reg[w].pc = "checked"
    /\ reg' = [reg EXCEPT ![w].pc = "queued"]
    /\ wqueues' = wqueues \cup {w}
    /\ UNCHANGED <<pools, tables, beats, scan, rel, faults>>

PutNewWorker(w) ==
    /\ reg[w].pc = "queued"
    /\ reg' = [reg EXCEPT ![w].pc = "done"]
    /\ Put(w, reg[w].pool)
    /\ UNCHANGED <<pools, wqueues, beats, scan, rel, faults>>

FailRegister(w) ==
    /\ reg[w].pc \in {"checked", "queued"}
    /\ reg' = [reg EXCEPT ![w].pc = "failed"]
    /\ Fault
    /\ UNCHANGED <<pools, wqueues, tables, beats, scan, rel>>

BeginHeartbeat(w) ==
    /\ reg[w].pc = "done" /\ w \notin beats /\ Active(reg[w].pool)
    /\ beats' = beats \cup {w}
    /\ UNCHANGED <<pools, reg, wqueues, tables, scan, rel, faults>>

\* UpdateWorkerTTL holds for a worker that has a row. An update of a row that is
\* not there would make one.
AnyRowHolds(w) == TRUE
RowHolds(w) == w \in rows

\* If the update fails, the request ends. Otherwise replicas are put, and allocs
\* renewed, as far as the request gets.
Heartbeat(w) ==
    /\ w \in beats
    /\ beats' = beats \ {w}
    /\ \/ ~RowHolds(w) /\ UNCHANGED tables
       \/ /\ RowHolds(w)
          /\ \E R \in SUBSET {r \in Replicas : Of[r] = w},
                A \in SUBSET {a \in Allocs \cap rows : home[a] = reg[w].pool} :
                /\ rows' = rows \cup {w} \cup R
                /\ expired' = expired \ ({w} \cup R \cup A)
                /\ home' = [x \in Rows |-> IF x \in R THEN reg[w].pool ELSE home[x]]
    /\ UNCHANGED <<pools, reg, wqueues, scan, rel, faults>>

\* The TTL of a row passes.
Expire(x) ==
    /\ x \in rows \ expired
    /\ expired' = expired \cup {x}
    /\ UNCHANGED <<pools, reg, wqueues, home, rows, beats, scan, rel, faults>>

\* CompleteAlloc, for an active pool only: the row is deleted.
CompleteAlloc(a) ==
    /\ a \in rows /\ Active(home[a])
    /\ rows' = rows \ {a} /\ expired' = expired \ {a}
    /\ UNCHANGED <<pools, reg, wqueues, home, beats, scan, rel, faults>>

-----------------------------------------------------------------------------
(* HandleSchedule: a receive loop for each active pool                     *)

BeginScan(h) ==
    /\ scan[h].pc = "idle"
    /\ scan' = [scan EXCEPT ![h] = [pc |-> "running", loop |-> [p \in Pools |->
                   IF poolRow[p] = "active" THEN "receive" ELSE "ended"]]]
    /\ UNCHANGED <<pools, reg, wqueues, tables, beats, rel, faults>>

LoopIs(h, p, state) == scan[h].pc = "running" /\ scan[h].loop[p] = state
SetLoop(h, p, state) == scan' = [scan EXCEPT ![h].loop[p] = state]

\* ReceiveMessage: a queue that exists may hold an eval, one that does not is an
\* error, which ends the loop.
ReceiveMessage(h, p) ==
    /\ LoopIs(h, p, "receive")
    /\ IF p \in queues THEN SetLoop(h, p, "holding") ELSE SetLoop(h, p, "ended")
    /\ UNCHANGED <<pools, reg, wqueues, tables, beats, rel, faults>>

\* The rest of the loop's body, with a new alloc or without.
PlaceEval(h, p, a) ==
    /\ LoopIs(h, p, "holding")
    /\ home[a] = NoPool
    /\ Put(a, p)
    /\ SetLoop(h, p, "receive")
    /\ UNCHANGED <<pools, reg, wqueues, beats, rel, faults>>

PlaceNothing(h, p) ==
    /\ LoopIs(h, p, "holding")
    /\ SetLoop(h, p, "receive")
    /\ UNCHANGED <<pools, reg, wqueues, tables, beats, rel, faults>>

FailReceive(h, p) ==
    /\ LoopIs(h, p, "receive")
    /\ SetLoop(h, p, "ended")
    /\ Fault
    /\ UNCHANGED <<pools, reg, wqueues, tables, beats, rel>>

\* The function never returns by itself: Lambda ends it, and all its loops.
TimeOut(h) ==
    /\ scan[h].pc = "running"
    /\ scan' = [scan EXCEPT ![h] = Idle]
    /\ UNCHANGED <<pools, reg, wqueues, tables, beats, rel, faults>>

-----------------------------------------------------------------------------
(* HandleRelease: pool after pool                                          *)

RelUnchanged == UNCHANGED <<pools, reg, beats, scan>>

BeginRound(r) ==
    /\ rel[r].pc = "idle"
    /\ rel' = [rel EXCEPT ![r] = [pc |-> "next", todo |-> {p \in Pools : poolRow[p] # "none"}]]
    /\ UNCHANGED <<wqueues, tables, faults>> /\ RelUnchanged

\* The rows of pool p that a query for expired ones of a kind returns.
Expired(kind, p) == {x \in kind \cap expired : home[x] = p}

Query(r, pc, kind, p, todo) ==
    rel' = [rel EXCEPT ![r] = [pc |-> pc, todo |-> todo, pool |-> p, list |-> Expired(kind, p)]]

QueryAllocs(r, p) ==
    /\ rel[r].pc = "next" /\ p \in rel[r].todo
    /\ Query(r, "allocs", Allocs, p, rel[r].todo \ {p})
    /\ UNCHANGED <<wqueues, tables, faults>> /\ RelUnchanged

QueryReplicas(r) ==
    /\ rel[r].pc = "allocs" /\ rel[r].list = {}
    /\ Query(r, "replicas", Replicas, rel[r].pool, rel[r].todo)
    /\ UNCHANGED <<wqueues, tables, faults>> /\ RelUnchanged

QueryWorkers(r) ==
    /\ rel[r].pc = "replicas" /\ rel[r].list = {}
    /\ Query(r, "workers", Workers, rel[r].pool, rel[r].todo)
    /\ UNCHANGED <<wqueues, tables, faults>> /\ RelUnchanged

\* The eval of an alloc is sent on before. A pool's queue that is gone is no
\* error.
DeleteRow(r, x) ==
    /\ rel[r].pc \in {"allocs", "replicas"} /\ x \in rel[r].list
    /\ rows' = rows \ {x} /\ expired' = expired \ {x}
    /\ rel' = [rel EXCEPT ![r].list = @ \ {x}]
    /\ UNCHANGED <<wqueues, home, faults>> /\ RelUnchanged

DeleteWorkerQueueOrNot(r, w) ==
    /\ rel[r].pc = "workers" /\ w \in rel[r].list
    /\ \/ wqueues' = wqueues \ {w} /\ UNCHANGED faults
       \/ UNCHANGED wqueues /\ Fault
    /\ rel' = [rel EXCEPT ![r] = [pc |-> "row", todo |-> @.todo, pool |-> @.pool,
                                  list |-> @.list \ {w}, wrk |-> w]]
    /\ UNCHANGED tables /\ RelUnchanged
DeleteWorkerQueue(r, w) ==
    /\ rel[r].pc = "workers" /\ w \in rel[r].list
    /\ wqueues' = wqueues \ {w}
    /\ rel' = [rel EXCEPT ![r] = [pc |-> "row", todo |-> @.todo, pool |-> @.pool,
                                  list |-> @.list \ {w}, wrk |-> w]]
    /\ UNCHANGED <<tables, faults>> /\ RelUnchanged

BackToWorkers(r) ==
    rel' = [rel EXCEPT ![r] = [pc |-> "workers", todo |-> @.todo, pool |-> @.pool,
                               list |-> @.list]]

DeleteWorker(r) ==
    /\ rel[r].pc = "row"
    /\ rows' = rows \ {rel[r].wrk} /\ expired' = expired \ {rel[r].wrk}
    /\ BackToWorkers(r)
    /\ UNCHANGED <<wqueues, home, faults>> /\ RelUnchanged

\* The error of one row is logged, and the loop over the list goes on.
SkipRow(r, x) ==
    /\ rel[r].pc \in {"allocs", "replicas", "workers"} /\ x \in rel[r].list
    /\ rel' = [rel EXCEPT ![r].list = @ \ {x}]
    /\ Fault
    /\ UNCHANGED <<wqueues, tables>> /\ RelUnchanged
SkipWorkerRow(r) ==
    /\ rel[r].pc = "row"
    /\ BackToWorkers(r)
    /\ Fault
    /\ UNCHANGED <<wqueues, tables>> /\ RelUnchanged

\* An error of a query, or of sending on an eval, is logged, and the scan goes
\* on with the next pool: this one's remaining rows are left for another round.
PoolFailsEndsRound(r) ==
    /\ rel[r].pc \in {"allocs", "replicas", "workers"}
    /\ rel' = [rel EXCEPT ![r] = Idle]
    /\ \/ /\ rel[r].pc = "allocs" /\ rel[r].list # {} /\ rel[r].pool \in Failing
          /\ UNCHANGED faults
       \/ Fault
    /\ UNCHANGED <<wqueues, tables>> /\ RelUnchanged
PoolFails(r) ==
    /\ rel[r].pc \in {"allocs", "replicas", "workers"}
    /\ rel' = [rel EXCEPT ![r] = [pc |-> "next", todo |-> @.todo]]
    /\ \/ /\ rel[r].pc = "allocs" /\ rel[r].list # {} /\ rel[r].pool \in Failing
          /\ UNCHANGED faults
       \/ Fault
    /\ UNCHANGED <<wqueues, tables>> /\ RelUnchanged

NextPool(r) ==
    /\ rel[r].pc = "workers" /\ rel[r].list = {}
    /\ rel' = [rel EXCEPT ![r] = [pc |-> "next", todo |-> @.todo]]
    /\ UNCHANGED <<wqueues, tables, faults>> /\ RelUnchanged

EndRound(r) ==
    /\ rel[r].pc = "next" /\ rel[r].todo = {}
    /\ rel' = [rel EXCEPT ![r] = Idle]
    /\ UNCHANGED <<wqueues, tables, faults>> /\ RelUnchanged

CutOff(r) ==
    /\ rel[r].pc # "idle"
    /\ rel' = [rel EXCEPT ![r] = Idle]
    /\ Fault
    /\ UNCHANGED <<wqueues, tables>> /\ RelUnchanged

-----------------------------------------------------------------------------
Disband(p) == DeletePoolQueue(p) \/ UpdatePoolTTL(p)

Loop(h, p) ==
    ReceiveMessage(h, p) \/ PlaceNothing(h, p) \/ \E a \in Allocs : PlaceEval(h, p, a)

Round(r) ==
    \/ BeginRound(r) \/ QueryReplicas(r) \/ QueryWorkers(r) \/ NextPool(r) \/ EndRound(r)
    \/ \E p \in Pools : QueryAllocs(r, p)
    \/ \E x \in Rows : DeleteRow(r, x)
    \/ \E w \in Workers : DeleteWorkerQueue(r, w)
    \/ DeleteWorker(r) \/ PoolFails(r)

Next ==
    \/ \E p \in Pools :
          \/ CreatePoolQueue(p) \/ PutNewPool(p) \/ FailCreate(p)
          \/ WantDisband(p) \/ Disband(p) \/ FailDisband(p)
          \/ \E h \in Scans : Loop(h, p) \/ FailReceive(h, p)
    \/ \E w \in Workers :
          \/ CreateWorkerQueue(w) \/ PutNewWorker(w) \/ FailRegister(w)
          \/ BeginHeartbeat(w) \/ Heartbeat(w)
          \/ \E p \in Pools : CheckPool(w, p)
    \/ \E x \in Rows : Expire(x)
    \/ \E a \in Allocs : CompleteAlloc(a)
    \/ \E h \in Scans : BeginScan(h) \/ TimeOut(h)
    \/ \E r \in Releasers :
          \/ Round(r) \/ CutOff(r) \/ SkipWorkerRow(r)
          \/ \E x \in Rows : SkipRow(r, x)

Spec == Init /\ [][Next]_vars

\* Both functions are invoked every minute and run until they return or are
\* ended (infra/cloudwatch.tf, infra/lambda.tf), time passes, and a client that
\* wants to disband a pool repeats the call.
FairSpec ==
    /\ Spec
    /\ \A h \in Scans : WF_vars(BeginScan(h)) /\ WF_vars(TimeOut(h))
    /\ \A h \in Scans, p \in Pools : WF_vars(Loop(h, p))
    /\ \A r \in Releasers : WF_vars(Round(r))
    /\ \A x \in Rows : WF_vars(Expire(x))
    /\ \A p \in Pools : WF_vars(Disband(p))

-----------------------------------------------------------------------------
(* Properties                                                              *)

RowsOf(p) == {x \in rows : home[x] = p}

\* No request or loop works for p that has begun while p was active.
Quiet(p) ==
    /\ poolRow[p] = "disbanded"
    /\ \A w \in Workers : reg[w].pc \in {"checked", "queued"} => reg[w].pool # p
    /\ \A w \in beats : reg[w].pool # p
    /\ \A h \in Scans : ~LoopIs(h, p, "holding")

\* Once those who have seen a pool active are done with it, a disbanded pool
\* only loses rows, for ever: no handler gets past GetActivePool, no loop gets
\* another eval, since the queue went before the mark (DisbandPool).
QuietStays ==
    [][\A p \in Pools : Quiet(p) => Quiet(p)' /\ RowsOf(p)' \subseteq RowsOf(p)]_vars

\* A pool's queue is there only while the pool is active, unless its creation is
\* under way or has failed: disbanding leaves none behind, whichever of its two
\* calls fails and however often it is repeated (CreatePool, DisbandPool).
PoolQueuesHaveRows ==
    \A p \in queues : poolRow[p] # "active" => create[p] \in {"queued", "failed"}

\* The queue of a worker has a row to it, unless its registration is under way
\* or has failed: nothing else leaves a queue behind (RegisterWorker,
\* releaseWorkers, which deletes the queue first).
QueuesHaveRows ==
    \A w \in wqueues \ rows : reg[w].pc \in {"queued", "failed"}

\* A worker can be sent allocs, unless it is being released or a release has
\* failed half-way (releaseWorkers, RegisterWorker, which creates the queue
\* first).
RowsHaveQueues ==
    faults = 0 =>
        \A w \in (Workers \cap rows) \ wqueues :
            \E r \in Releasers : rel[r].pc = "row" /\ rel[r].wrk = w

\* A disbanded pool comes to rest: no queue, no loop, no row is left, whatever
\* was under way, and although releasing the allocs of another pool fails for
\* ever (DisbandPool, HandleSchedule, HandleRelease).
AtRest(p) ==
    /\ poolRow[p] = "disbanded" /\ p \notin queues /\ RowsOf(p) = {}
    /\ \A h \in Scans : scan[h].pc = "running" => scan[h].loop[p] = "ended"
ComesToRest == \A p \in Pools \ Failing : disband[p] = "wanted" ~> []AtRest(p)
=============================================================================
