------------------------------- MODULE Leases -------------------------------
(***************************************************************************)
(* The leases of one worker: its own row, the replicas it reports and the  *)
(* allocations placed on it.  Each row carries a TTL.  SendHeartbeat moves *)
(* the TTLs into the future, row after row; HandleRelease queries what has *)
(* expired and deletes it, row after row; both run beside others of their  *)
(* kind, and neither notices what has changed since it began.              *)
(*                                                                         *)
(* Rows of different workers share nothing, so one worker is enough.  A    *)
(* TTL is kept as the time left, which Tick counts down; a heartbeat       *)
(* writes TTLs from the time it read when it began, so its age is taken    *)
(* off.  What a release does to queues and capacity is in Dispatch.        *)
(***************************************************************************)
EXTENDS Integers, Functions

CONSTANTS
    Worker,       \* the worker's row
    Datasets,     \* datasets it has a replica of, in every report
    Allocs,       \* random ids of the allocations placed on it
    Beaters,      \* concurrent SendHeartbeat requests
    Releasers,    \* concurrent invocations of HandleRelease
    WorkerTTL,    \* LINE_WORKER_TTL
    ReplicaTTL,   \* LINE_REPLICA_TTL
    AllocTTL,     \* LINE_ALLOC_TTL
    Period,       \* a worker sends heartbeats at least this often
    Latency,      \* a heartbeat is over this long after it began
    MaxFaults     \* bound: calls that fail and invocations cut off

ASSUME RowsAssumption == Worker \notin Datasets \cup Allocs /\ Datasets \cap Allocs = {}
ASSUME TimeAssumption ==
    /\ WorkerTTL \in Nat /\ ReplicaTTL \in Nat /\ AllocTTL \in Nat
    /\ Period \in Nat /\ Latency \in Nat /\ MaxFaults \in Nat

VARIABLES
    leases,       \* rows of the three tables: row -> time left, -1 if expired
    drafts,       \* allocs that have claimed capacity and have no row yet
    placed,       \* allocs ever put
    running,      \* the worker's view: allocs it reports
    renewing,     \* the worker process runs and its pool is active
    since,        \* time since its latest heartbeat began
    beats,        \* local state of each SendHeartbeat request
    rel,          \* local state of each HandleRelease invocation
    faults,       \* calls that failed and invocations that were cut off
    reported,     \* history: datasets whose replica has been put
    renewed       \* history: running allocs whose TTL has been moved

tables == <<leases, drafts, placed>>
client == <<running, renewing, since>>
history == <<faults, reported, renewed>>
vars == <<leases, drafts, placed, running, renewing, since, beats, rel, faults,
          reported, renewed>>

-----------------------------------------------------------------------------
Rows == {Worker} \cup Datasets \cup Allocs

Left == Nat \cup {-1}

BeatState == [pc : {"idle", "worker", "replicas", "allocs"},
              datasets : SUBSET Datasets, allocs : SUBSET Allocs, age : 0 .. Latency]
RelState == [pc : {"idle", "allocs", "replicas", "workers"}, todo : SUBSET Rows]

Idle == [pc |-> "idle", datasets |-> {}, allocs |-> {}, age |-> 0]
Away == [pc |-> "idle", todo |-> {}]

\* A request renews allocs once it has put all its replicas.
ReplicasFirst == \A b \in Beaters : beats[b].pc = "allocs" => beats[b].datasets = {}

TypeOK ==
    /\ DOMAIN leases \subseteq Rows /\ leases \in [DOMAIN leases -> Left]
    /\ DOMAIN drafts \subseteq Allocs /\ drafts \in [DOMAIN drafts -> Left]
    /\ placed \subseteq Allocs /\ running \subseteq Allocs
    /\ renewing \in BOOLEAN /\ since \in 0 .. Period
    /\ beats \in [Beaters -> BeatState]
    /\ ReplicasFirst
    /\ rel \in [Releasers -> RelState]
    /\ faults \in 0 .. MaxFaults
    /\ reported \subseteq Datasets /\ renewed \subseteq Allocs

\* RegisterWorker has put the worker's row.
Init ==
    /\ leases = [r \in {Worker} |-> WorkerTTL]
    /\ drafts = [a \in {} |-> 0]
    /\ placed = {} /\ running = {}
    /\ renewing = TRUE /\ since = 0
    /\ beats = [b \in Beaters |-> Idle]
    /\ rel = [r \in Releasers |-> Away]
    /\ faults = 0 /\ reported = {} /\ renewed = {}

\* The row r with t left, put or updated.
Set(r, t) == [x \in DOMAIN leases \cup {r} |-> IF x = r THEN t ELSE leases[x]]

\* now + ttl, written age after now, has this much left.
Remaining(ttl, age) == IF ttl < age THEN -1 ELSE ttl - age

-----------------------------------------------------------------------------
(* The clock. It waits for nothing but the bounds on heartbeats.           *)

Countdown(t) == IF t < 0 THEN -1 ELSE t - 1
Tick ==
    /\ renewing => since < Period
    /\ \A b \in Beaters : beats[b].pc # "idle" => beats[b].age < Latency
    /\ leases' = [r \in DOMAIN leases |-> Countdown(leases[r])]
    /\ drafts' = [a \in DOMAIN drafts |-> Countdown(drafts[a])]
    /\ since' = IF renewing THEN since + 1 ELSE since
    /\ beats' = [b \in Beaters |->
                    IF beats[b].pc = "idle" THEN beats[b]
                    ELSE [beats[b] EXCEPT !.age = @ + 1]]
    /\ UNCHANGED <<placed, running, renewing, rel, history>>

-----------------------------------------------------------------------------
(* SendHeartbeat                                                           *)

\* GetActivePool passes and the time is read. The worker reports all it has.
BeginHeartbeat(b) ==
    /\ renewing
    /\ beats[b].pc = "idle"
    /\ beats' = [beats EXCEPT ![b] = [pc |-> "worker", datasets |-> Datasets,
                                      allocs |-> running, age |-> 0]]
    /\ since' = 0
    /\ UNCHANGED <<tables, running, renewing, rel, history>>

\* A worker without a row ends the request: nothing else is renewed.
UpdateWorkerTTL(b) ==
    /\ beats[b].pc = "worker"
    /\ IF Worker \in DOMAIN leases
       THEN /\ leases' = Set(Worker, Remaining(WorkerTTL, beats[b].age))
            /\ beats' = [beats EXCEPT ![b].pc = "replicas"]
       ELSE /\ beats' = [beats EXCEPT ![b] = Idle]
            /\ UNCHANGED leases
    /\ UNCHANGED <<drafts, placed, client, rel, history>>

PutReplicaOnce(b, d) ==
    /\ beats[b].pc = "replicas"
    /\ d \in beats[b].datasets
    /\ IF d \in DOMAIN leases
       THEN /\ beats' = [beats EXCEPT ![b] = Idle]
            /\ UNCHANGED <<leases, reported>>
       ELSE /\ leases' = Set(d, Remaining(ReplicaTTL, beats[b].age))
            /\ beats' = [beats EXCEPT ![b].datasets = @ \ {d}]
            /\ reported' = reported \cup {d}
    /\ UNCHANGED <<drafts, placed, client, rel, faults, renewed>>

\* The put has no condition: it creates the row or replaces it.
PutReplica(b, d) ==
    /\ beats[b].pc = "replicas"
    /\ d \in beats[b].datasets
    /\ leases' = Set(d, Remaining(ReplicaTTL, beats[b].age))
    /\ beats' = [beats EXCEPT ![b].datasets = @ \ {d}]
    /\ reported' = reported \cup {d}
    /\ UNCHANGED <<drafts, placed, client, rel, faults, renewed>>

ReplicasLeft(b) ==
    /\ beats[b].pc = "replicas"
    /\ beats' = [beats EXCEPT ![b].pc = "allocs"]
    /\ UNCHANGED <<tables, client, rel, history>>

ReplicasDone(b) ==
    /\ beats[b].pc = "replicas" /\ beats[b].datasets = {}
    /\ beats' = [beats EXCEPT ![b].pc = "allocs"]
    /\ UNCHANGED <<tables, client, rel, history>>

UpdateAnyAllocTTL(b, a) ==
    /\ beats[b].pc = "allocs"
    /\ a \in beats[b].allocs
    /\ leases' = Set(a, Remaining(AllocTTL, beats[b].age))
    /\ beats' = [beats EXCEPT ![b].allocs = @ \ {a}]
    /\ UNCHANGED <<drafts, placed, client, rel, history>>

\* An alloc without a row ends the request, whatever is left to be renewed.
UpdateAllocTTL(b, a) ==
    /\ beats[b].pc = "allocs"
    /\ a \in beats[b].allocs
    /\ IF a \in DOMAIN leases
       THEN /\ leases' = Set(a, Remaining(AllocTTL, beats[b].age))
            /\ beats' = [beats EXCEPT ![b].allocs = @ \ {a}]
            /\ renewed' = renewed \cup ({a} \cap running)
       ELSE /\ beats' = [beats EXCEPT ![b] = Idle]
            /\ UNCHANGED <<leases, renewed>>
    /\ UNCHANGED <<drafts, placed, client, rel, faults, reported>>

EndHeartbeat(b) ==
    /\ beats[b].pc = "allocs" /\ beats[b].allocs = {}
    /\ beats' = [beats EXCEPT ![b] = Idle]
    /\ UNCHANGED <<tables, client, rel, history>>

\* A call fails, or the request is lost or cut off.
FailHeartbeat(b) ==
    /\ beats[b].pc # "idle"
    /\ faults < MaxFaults
    /\ faults' = faults + 1
    /\ beats' = [beats EXCEPT ![b] = Idle]
    /\ UNCHANGED <<tables, client, rel, reported, renewed>>

-----------------------------------------------------------------------------
(* Where allocations come from and go to                                   *)

\* Schedule claims capacity of the worker and sets the TTL of the new alloc.
Claim(a) ==
    /\ Worker \in DOMAIN leases
    /\ a \notin placed \cup DOMAIN drafts
    /\ drafts' = [x \in DOMAIN drafts \cup {a} |->
                    IF x = a THEN AllocTTL ELSE drafts[x]]
    /\ UNCHANGED <<leases, placed, client, beats, rel, history>>

PutNewAlloc(a) ==
    /\ a \in DOMAIN drafts
    /\ leases' = Set(a, drafts[a])
    /\ drafts' = Restrict(drafts, DOMAIN drafts \ {a})
    /\ placed' = placed \cup {a}
    /\ UNCHANGED <<client, beats, rel, history>>

\* ReceiveAllocs deletes no message, so the worker may receive an alloc late
\* and again.
ReceiveAlloc(a) ==
    /\ renewing
    /\ a \in placed \ running
    /\ running' = running \cup {a}
    /\ UNCHANGED <<tables, renewing, since, beats, rel, history>>

\* The row is deleted first: if giving the size back fails, the worker gets an
\* error and goes on reporting the alloc.
CompleteAlloc(a) ==
    /\ renewing
    /\ a \in running \cap DOMAIN leases
    /\ leases' = Restrict(leases, DOMAIN leases \ {a})
    /\ renewed' = renewed \ {a}
    /\ \/ running' = running \ {a} /\ UNCHANGED faults
       \/ faults < MaxFaults /\ faults' = faults + 1 /\ UNCHANGED running
    /\ UNCHANGED <<drafts, placed, renewing, since, beats, rel, reported>>

\* The process ends or loses its network, or the pool is disbanded.
Stop ==
    /\ renewing
    /\ renewing' = FALSE /\ since' = 0
    /\ UNCHANGED <<tables, running, beats, rel, history>>

-----------------------------------------------------------------------------
(* HandleRelease                                                           *)

ExpiredOrDue(kind) == {r \in kind \cap DOMAIN leases : leases[r] <= 0}

\* The index lags behind the table by less than the clock can tell.
Expired(kind) == {r \in kind \cap DOMAIN leases : leases[r] < 0}

\* Move invocation r on to the next query, and list what it returns.
Query(r, from, to, kind) ==
    /\ rel[r].pc = from /\ rel[r].todo = {}
    /\ rel' = [rel EXCEPT ![r] = [pc |-> to, todo |-> Expired(kind)]]
    /\ UNCHANGED <<tables, client, beats, history>>

QueryAllocs(r)   == Query(r, "idle", "allocs", Allocs)
QueryReplicas(r) == Query(r, "allocs", "replicas", Datasets)
QueryWorkers(r)  == Query(r, "replicas", "workers", {Worker})

\* Delete the row x that the query returned, whatever its TTL is by now.
Delete(r, x) ==
    /\ x \in rel[r].todo
    /\ leases' = Restrict(leases, DOMAIN leases \ {x})
    /\ rel' = [rel EXCEPT ![r].todo = @ \ {x}]
    /\ UNCHANGED <<drafts, placed, client, beats, history>>

\* The size given back first: an error, once the worker's row is gone.
ReleaseAllocCreditFirst(r, a) ==
    /\ rel[r].pc = "allocs" /\ a \in rel[r].todo
    /\ leases' = Restrict(leases, DOMAIN leases \ IF Worker \in DOMAIN leases THEN {a} ELSE {})
    /\ rel' = [rel EXCEPT ![r].todo = @ \ {a}]
    /\ UNCHANGED <<drafts, placed, client, beats, history>>

ReleaseAlloc(r, a)  == rel[r].pc = "allocs" /\ Delete(r, a)
DeleteReplica(r, d) == rel[r].pc = "replicas" /\ Delete(r, d)
DeleteWorker(r)     == rel[r].pc = "workers" /\ Delete(r, Worker)

\* The error of one row is logged, and the loop goes on.
SkipRow(r, x) ==
    /\ rel[r].pc # "idle" /\ x \in rel[r].todo
    /\ faults < MaxFaults
    /\ faults' = faults + 1
    /\ rel' = [rel EXCEPT ![r].todo = @ \ {x}]
    /\ UNCHANGED <<tables, client, beats, reported, renewed>>

EndRound(r) ==
    /\ rel[r].pc = "workers" /\ rel[r].todo = {}
    /\ rel' = [rel EXCEPT ![r] = Away]
    /\ UNCHANGED <<tables, client, beats, history>>

\* A query or a send fails, or the invocation is cut off.
FailRound(r) ==
    /\ rel[r].pc # "idle"
    /\ faults < MaxFaults
    /\ faults' = faults + 1
    /\ rel' = [rel EXCEPT ![r] = Away]
    /\ UNCHANGED <<tables, client, beats, reported, renewed>>

-----------------------------------------------------------------------------
Heartbeat(b) ==
    \/ UpdateWorkerTTL(b) \/ ReplicasDone(b) \/ EndHeartbeat(b)
    \/ \E d \in Datasets : PutReplica(b, d)
    \/ \E a \in Allocs : UpdateAllocTTL(b, a)

Round(r) ==
    \/ QueryAllocs(r) \/ QueryReplicas(r) \/ QueryWorkers(r) \/ EndRound(r)
    \/ \E a \in Allocs : ReleaseAlloc(r, a)
    \/ \E d \in Datasets : DeleteReplica(r, d)
    \/ DeleteWorker(r)

Next ==
    \/ Tick \/ Stop
    \/ \E b \in Beaters : BeginHeartbeat(b) \/ Heartbeat(b) \/ FailHeartbeat(b)
    \/ \E a \in Allocs : Claim(a) \/ PutNewAlloc(a) \/ ReceiveAlloc(a) \/ CompleteAlloc(a)
    \/ \E r \in Releasers : Round(r) \/ FailRound(r) \/ \E x \in Rows : SkipRow(r, x)

Spec == Init /\ [][Next]_vars

\* Time passes, requests in progress move on, and HandleRelease is invoked
\* again and again (infra/lambda.tf: every minute).
FairSpec ==
    /\ Spec
    /\ WF_vars(Tick)
    /\ \A b \in Beaters : WF_vars(Heartbeat(b))
    /\ \A r \in Releasers : WF_vars(Round(r))

-----------------------------------------------------------------------------
(* Properties                                                              *)

\* A TTL is long enough if it outlasts the longest gap between heartbeats, the
\* time the next one takes, and the time by which an older one, written last,
\* has moved the TTL back.
Ample(ttl) == Period + 2 * Latency <= ttl

\* A worker whose heartbeats are sent in time and do not fail keeps its row,
\* although two of them may overlap and the older one write last, and although
\* releasers act on lists made earlier (UpdateWorkerTTL, releaseWorkers).
WorkerKept ==
    renewing /\ faults = 0 /\ Ample(WorkerTTL) => Worker \in DOMAIN leases

\* Likewise, a replica stays once it has been reported (PutReplica,
\* releaseReplicas).
ReplicasKept ==
    renewing /\ faults = 0 /\ Ample(WorkerTTL) /\ Ample(ReplicaTTL)
        => reported \subseteq DOMAIN leases

\* An alloc that has been completed or released never comes back, however late
\* a heartbeat still reports it (UpdateAllocTTL, releaseAlloc).
AllocsStayGone == [][placed \ DOMAIN leases \subseteq placed' \ DOMAIN leases']_vars

\* Once the worker has stopped, every row it had or still gets disappears for
\* good: those a late heartbeat puts, those of allocs put late, and those whose
\* release has failed (HandleRelease).
EverythingReleased == ~renewing ~> [](DOMAIN leases = {})
=============================================================================
