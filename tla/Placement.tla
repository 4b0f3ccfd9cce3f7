----------------------------- MODULE Placement -----------------------------
(***************************************************************************)
(* Which worker an evaluation is placed on.  ReceiveEvals looks for        *)
(* replicas of the eval's dataset and for workers with room, claims the    *)
(* freest of those it has found and records the allocation.  Both searches *)
(* read one page of rows and leave the expired ones out afterwards, and    *)
(* the workers are read from an index that lags behind their table.        *)
(*                                                                         *)
(* Replicas and workers are those of one pool, which is part of every key. *)
(* What becomes of an eval that is lost on the way is in Dispatch, and     *)
(* when exactly a row expires in Leases.                                   *)
(***************************************************************************)
EXTENDS Integers, FiniteSets, Functions

CONSTANTS
    Evals,        \* evaluations that may be submitted
    Size,         \* the size of each
    Dataset,      \* the dataset of each, NoDataset for an eval without
    NoDataset,    \* an empty dataset id
    Datasets,     \* ids of datasets
    Prefixes,     \* pairs of dataset ids, the first a prefix of the second
    Workers,      \* random ids of workers
    Offer,        \* the capacity each registers with
    Reports,      \* pairs of a dataset and a worker that has it
    WorkerLimit,  \* rows in a page of workers
    ReplicaLimit, \* rows in a page of replicas
    Schedulers,   \* concurrent ReceiveEvals loops
    MaxRenewals,  \* bound: heartbeats of workers that have expired already
    MaxFaults     \* bound: calls that fail and loops cut off

ASSUME PlacementAssumption ==
    /\ IsFiniteSet(Workers) /\ IsFiniteSet(Datasets)
    /\ Size \in [Evals -> Int] /\ Offer \in [Workers -> Int]
    /\ Reports \subseteq Datasets \X Workers
    /\ NoDataset \notin Datasets /\ Dataset \in [Evals -> Datasets \cup {NoDataset}]
    /\ \A d \in Datasets : <<d, d>> \in Prefixes
    /\ WorkerLimit \in Nat \ {0} /\ ReplicaLimit \in Nat \ {0}
    /\ MaxRenewals \in Nat /\ MaxFaults \in Nat

VARIABLES
    table,        \* worker rows: worker -> free capacity, not expired
    index,        \* cap_idx: the same of each worker at some earlier time
    joined,       \* worker ids that have been drawn
    replicas,     \* replica rows: dataset and worker -> not expired
    queue,        \* evals in messages of the pool's queue
    allocs,       \* how often an eval is allocated to a worker
    sched,        \* local state of each loop
    renewals,     \* heartbeats that came after the row had expired
    faults        \* calls that failed and loops that were cut off

rows == <<table, index, joined>>
bounds == <<renewals, faults>>
vars == <<table, index, joined, replicas, queue, allocs, sched, renewals, faults>>

-----------------------------------------------------------------------------
Row == [free : Int, live : BOOLEAN]

\* ReceiveEvals raises a size below one.
Need(e) == IF Size[e] < 1 THEN 1 ELSE Size[e]

SchedState ==
         [pc : {"idle"}]
    \cup [pc : {"locate"}, eval : Evals]
    \cup [pc : {"query"}, eval : Evals, near : SUBSET Reports]
    \cup [pc : {"claim", "record", "ack"}, eval : Evals, wrk : Workers]

Idle == [pc |-> "idle"]

TypeOK ==
    /\ DOMAIN table \subseteq Workers /\ table \in [DOMAIN table -> Row]
    /\ DOMAIN index \subseteq Workers /\ index \in [DOMAIN index -> Row]
    /\ joined \subseteq Workers
    /\ DOMAIN replicas \subseteq Reports
    /\ replicas \in [DOMAIN replicas -> BOOLEAN]
    /\ queue \subseteq Evals
    /\ allocs \in [Evals -> [Workers -> Nat]]
    /\ sched \in [Schedulers -> SchedState]
    /\ renewals \in 0 .. MaxRenewals /\ faults \in 0 .. MaxFaults

Init ==
    /\ table = [w \in {} |-> [free |-> 0, live |-> TRUE]]
    /\ index = [w \in {} |-> [free |-> 0, live |-> TRUE]]
    /\ joined = {}
    /\ replicas = [r \in {} |-> TRUE]
    /\ queue = {}
    /\ allocs = [e \in Evals |-> [w \in Workers |-> 0]]
    /\ sched = [s \in Schedulers |-> Idle]
    /\ renewals = 0 /\ faults = 0

-----------------------------------------------------------------------------
(* Workers and their rows                                                  *)

\* f with x at k, added or replaced.
Put(f, k, x) == [j \in DOMAIN f \cup {k} |-> IF j = k THEN x ELSE f[j]]
Without(f, k) == Restrict(f, DOMAIN f \ {k})

RegisterWorker(w) ==
    /\ w \notin joined
    /\ table' = Put(table, w, [free |-> Offer[w], live |-> TRUE])
    /\ joined' = joined \cup {w}
    /\ UNCHANGED <<index, replicas, queue, allocs, sched, bounds>>

\* A worker that sends no heartbeat in time expires, and so do its replicas.
ExpireWorker(w) ==
    /\ w \in DOMAIN table /\ table[w].live
    /\ table' = [table EXCEPT ![w].live = FALSE]
    /\ UNCHANGED <<index, joined, replicas, queue, allocs, sched, bounds>>
ExpireReplica(r) ==
    /\ r \in DOMAIN replicas
    /\ replicas' = [replicas EXCEPT ![r] = FALSE]
    /\ UNCHANGED <<rows, queue, allocs, sched, bounds>>

\* SendHeartbeat: UpdateWorkerTTL, of interest when it is late, and PutReplica.
RenewWorker(w) ==
    /\ w \in DOMAIN table /\ ~table[w].live
    /\ renewals < MaxRenewals
    /\ renewals' = renewals + 1
    /\ table' = [table EXCEPT ![w].live = TRUE]
    /\ UNCHANGED <<index, joined, replicas, queue, allocs, sched, faults>>
PutReplica(r) ==
    /\ r[2] \in DOMAIN table
    /\ replicas' = Put(replicas, r, TRUE)
    /\ UNCHANGED <<rows, queue, allocs, sched, bounds>>

\* releaseWorkers and releaseReplicas
DeleteWorker(w) ==
    /\ w \in DOMAIN table /\ ~table[w].live
    /\ table' = Without(table, w)
    /\ UNCHANGED <<index, joined, replicas, queue, allocs, sched, bounds>>
DeleteReplica(r) ==
    /\ r \in DOMAIN replicas /\ ~replicas[r]
    /\ replicas' = Without(replicas, r)
    /\ UNCHANGED <<rows, queue, allocs, sched, bounds>>

\* The global index takes over the row of w as it is now, or its absence.
Propagate(w) ==
    /\ index' = IF w \in DOMAIN table THEN Put(index, w, table[w]) ELSE Without(index, w)
    /\ index' # index
    /\ UNCHANGED <<table, joined, replicas, queue, allocs, sched, bounds>>

-----------------------------------------------------------------------------
(* Evaluations come and go                                                 *)

ScheduleEval(e) ==
    /\ e \notin queue /\ \A w \in Workers : allocs[e][w] = 0
    /\ queue' = queue \cup {e}
    /\ UNCHANGED <<rows, replicas, allocs, sched, bounds>>

\* An alloc is completed or released: its size goes back to the worker's row.
ReleaseAnyAlloc(e, w) ==
    /\ allocs' = [allocs EXCEPT ![e][w] = @ - 1]
    /\ UNCHANGED <<rows, replicas, queue, sched, bounds>>
ReleaseAlloc(e, w) ==
    /\ allocs[e][w] > 0
    /\ allocs' = [allocs EXCEPT ![e][w] = @ - 1]
    /\ table' = IF w \in DOMAIN table
                THEN [table EXCEPT ![w].free = @ + Need(e)] ELSE table
    /\ UNCHANGED <<index, joined, replicas, queue, sched, bounds>>

-----------------------------------------------------------------------------
(* ReceiveEvals                                                            *)

SchedUnchanged == UNCHANGED <<index, joined, replicas, bounds>>

\* ReceiveMessage: a message can be received until it is deleted.
Receive(s, e) ==
    /\ sched[s].pc = "idle" /\ e \in queue
    /\ sched' = [sched EXCEPT ![s] =
                    IF Dataset[e] = NoDataset THEN [pc |-> "query", eval |-> e, near |-> {}]
                    ELSE [pc |-> "locate", eval |-> e]]
    /\ UNCHANGED <<table, queue, allocs>> /\ SchedUnchanged

\* A page of the rows that match: all of them, or as many as the limit says.
Pages(match, limit) ==
    {page \in SUBSET match : /\ Cardinality(page) <= limit
                             /\ page # match => Cardinality(page) = limit}

\* FindReplicas: begins_with matches rows of longer dataset ids as well. The
\* order of the rows is that of their ids and left open.
Matching(d) == {r \in DOMAIN replicas : <<d, r[1]>> \in Prefixes}
LocatedAny(page) == page
Located(page) == {r \in page : replicas[r]}

FindReplicas(s) ==
    /\ sched[s].pc = "locate"
    /\ LET e == sched[s].eval
       IN  \E page \in Pages(Matching(Dataset[e]), ReplicaLimit) :
              sched' = [sched EXCEPT ![s] = [pc |-> "query", eval |-> e,
                                             near |-> Located(page)]]
    /\ UNCHANGED <<table, queue, allocs>> /\ SchedUnchanged

\* Schedule: the index gives workers with room, those with the least first.
Fitting(e) == {w \in DOMAIN index : index[w].free >= Need(e)}
LeastFirst(page, match) ==
    \A w \in page, v \in match \ page : index[w].free <= index[v].free
FetchedOneShort(e) ==
    {page \in Pages(Fitting(e), WorkerLimit - 1) : LeastFirst(page, Fitting(e))}
Fetched(e) == {page \in Pages(Fitting(e), WorkerLimit) : LeastFirst(page, Fitting(e))}

\* Expired ones are left out, and the rest sorted.
Candidates(page) == {w \in page : index[w].live}
Fullest(cands) == {w \in cands : \A v \in cands : index[w].free <= index[v].free}
Freest(cands) == {w \in cands : \A v \in cands : index[w].free >= index[v].free}

\* Without candidates there is "not enough capacity", and the eval waits. What
\* was found near the data has no say.
Query(s) ==
    /\ sched[s].pc = "query"
    /\ LET e == sched[s].eval
       IN  \E page \in Fetched(e) :
              \/ /\ Candidates(page) = {}
                 /\ sched' = [sched EXCEPT ![s] = Idle]
              \/ \E w \in Freest(Candidates(page)) :
                    sched' = [sched EXCEPT ![s] = [pc |-> "claim", eval |-> e, wrk |-> w]]
    /\ UNCHANGED <<table, queue, allocs>> /\ SchedUnchanged

\* The claim's condition fails if the row has less room by now, or is gone.
ClaimHoldsWithRest(w, e) == w \in DOMAIN table /\ table[w].free > Need(e)
ClaimHolds(w, e) == w \in DOMAIN table /\ table[w].free >= Need(e)

Claim(s) ==
    /\ sched[s].pc = "claim"
    /\ LET e == sched[s].eval
           w == sched[s].wrk
       IN  IF ClaimHolds(w, e)
           THEN /\ table' = [table EXCEPT ![w].free = @ - Need(e)]
                /\ sched' = [sched EXCEPT ![s].pc = "record"]
           ELSE /\ sched' = [sched EXCEPT ![s] = Idle]
                /\ UNCHANGED table
    /\ UNCHANGED <<queue, allocs>> /\ SchedUnchanged

PutNewAlloc(s) ==
    /\ sched[s].pc = "record"
    /\ allocs' = [allocs EXCEPT ![sched[s].eval][sched[s].wrk] = @ + 1]
    /\ sched' = [sched EXCEPT ![s].pc = "ack"]
    /\ UNCHANGED <<table, queue>> /\ SchedUnchanged

DeleteMessage(s) ==
    /\ sched[s].pc = "ack"
    /\ queue' = queue \ {sched[s].eval}
    /\ sched' = [sched EXCEPT ![s] = Idle]
    /\ UNCHANGED <<table, allocs>> /\ SchedUnchanged

\* A call fails and the loop continues, or the Lambda is cut off.
GiveUp(s) ==
    /\ sched[s].pc # "idle"
    /\ faults < MaxFaults
    /\ faults' = faults + 1
    /\ sched' = [sched EXCEPT ![s] = Idle]
    /\ UNCHANGED <<rows, replicas, queue, allocs, renewals>>

-----------------------------------------------------------------------------
Scheduler(s) ==
    FindReplicas(s) \/ Query(s) \/ Claim(s) \/ PutNewAlloc(s) \/ DeleteMessage(s)

Next ==
    \/ \E w \in Workers :
          \/ RegisterWorker(w) \/ ExpireWorker(w) \/ RenewWorker(w)
          \/ DeleteWorker(w) \/ Propagate(w)
    \/ \E r \in Reports : PutReplica(r) \/ ExpireReplica(r) \/ DeleteReplica(r)
    \/ \E e \in Evals :
          \/ ScheduleEval(e)
          \/ \E w \in Workers : ReleaseAlloc(e, w)
          \/ \E s \in Schedulers : Receive(s, e)
    \/ \E s \in Schedulers : Scheduler(s) \/ GiveUp(s)

Spec == Init /\ [][Next]_vars

\* Loops go on, the index catches up, expired workers are released, and a
\* message on a queue that is polled again and again is given out.
FairSpec ==
    /\ Spec
    /\ \A s \in Schedulers : WF_vars(Scheduler(s))
    /\ \A w \in Workers : WF_vars(Propagate(w)) /\ WF_vars(DeleteWorker(w))
    /\ \A e \in Evals : SF_vars(\E s \in Schedulers : Receive(s, e))

-----------------------------------------------------------------------------
(* Properties                                                              *)

\* The outcomes of a query that no call's failure has ended.
NoneFound(s) == sched[s].pc = "query" /\ sched'[s].pc = "idle" /\ UNCHANGED faults
Found(s) == sched[s].pc = "query" /\ sched'[s].pc = "claim"

Alive(workers) == {w \in workers : index[w].live}

\* "Not enough capacity" is true of the index, or at least WorkerLimit expired
\* workers have hidden what there is: the page is cut off before the expired
\* are left out, and filled with the workers of least room (Schedule).
NoneIsHidden ==
    [][\A s \in Schedulers : NoneFound(s) =>
          LET fit == Fitting(sched[s].eval)
          IN  Alive(fit) = {} \/ Cardinality(fit \ Alive(fit)) >= WorkerLimit]_vars

\* Evals are spread: the worker claimed is live, and a live one that has more
\* room is only passed over if the page was full before it: at least WorkerLimit
\* others have room for the eval and no more than it has (Schedule).
EvalsSpread ==
    [][\A s \in Schedulers : Found(s) =>
          LET fit == Fitting(sched[s].eval)
              w == sched'[s].wrk
          IN  /\ w \in Alive(fit)
              /\ \A v \in Alive(fit) : index[v].free > index[w].free =>
                    Cardinality({u \in fit \ {v} : index[u].free <= index[v].free})
                        >= WorkerLimit]_vars

\* Likewise, a live replica of the dataset is located, or at least ReplicaLimit
\* others match: expired ones, and those of datasets with longer ids
\* (FindReplicas).
ReplicasLocated ==
    [][\A s \in Schedulers :
          LET d == Dataset[sched[s].eval]
              mine == {r \in DOMAIN replicas : r[1] = d /\ replicas[r]}
              near == sched'[s].near
          IN  sched[s].pc = "locate" /\ sched'[s].pc = "query" =>
                  /\ near \subseteq {r \in DOMAIN replicas : replicas[r]}
                  /\ \/ mine = {} \/ near \cap mine # {}
                     \/ Cardinality(Matching(d) \ mine) >= ReplicaLimit]_vars

\* A live worker has room for the eval.
Fits(e) == \E w \in DOMAIN table : table[w].live /\ table[w].free >= Need(e)

\* An eval is placed as long as there is room for it, although the index lags,
\* other loops win claims and expired workers hide live ones: the releaser
\* deletes those (ReceiveEvals, releaseWorkers).
EvalsPlaced == \A e \in Evals : e \in queue /\ Fits(e) ~> e \notin queue \/ ~Fits(e)
=============================================================================
