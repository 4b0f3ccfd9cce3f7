------------------------------ MODULE Dispatch ------------------------------
(***************************************************************************)
(* The life of an evaluation in one pool of the line service: submitted to *)
(* the pool's scheduling queue, placed on a worker by HandleSchedule,      *)
(* completed by the worker or, once its allocation has expired, sent again *)
(* by HandleRelease until it has used up its retries.                      *)
(*                                                                         *)
(* The scheduler, the releaser and the API handlers are Lambda functions   *)
(* that share nothing but DynamoDB tables and SQS queues, so every call to *)
(* one of these services is an action of its own and any number of         *)
(* invocations interleave.  Every row and every queue is keyed by its      *)
(* pool, so one pool is enough.  Clocks are left out: a heartbeat may or   *)
(* may not have come in time, so a TTL query returns any subset of the     *)
(* rows.                                                                   *)
(***************************************************************************)
EXTENDS Integers, FiniteSets, Functions

CONSTANTS
    Evals,        \* evaluations that clients submit
    Size,         \* [Evals -> Int]: the requested size, not validated
    Workers,      \* the random ids RegisterWorker hands out
    Capacity,     \* [Workers -> Int]: the offered capacity, not validated
    Schedulers,   \* concurrent invocations of ReceiveEvals for this pool
    Releasers,    \* concurrent invocations of HandleRelease
    Completers,   \* concurrent CompleteAlloc requests
    MaxRetry,     \* MAX_RETRY
    MaxMsgs,      \* bound: messages ever sent to the pool queue
    MaxAllocs     \* bound: allocation ids ever drawn

ASSUME SizeAssumption == Size \in [Evals -> Int]
ASSUME CapacityAssumption == Capacity \in [Workers -> Int]
ASSUME MaxRetryAssumption == MaxRetry \in Nat
ASSUME BoundAssumption == MaxMsgs \in Nat /\ MaxAllocs \in Nat

VARIABLES
    queueExists,  \* the pool's scheduling queue has not been deleted
    disbanded,    \* the pool row has a TTL
    queue,        \* messages in the scheduling queue
    sent,         \* messages ever sent to it; numbers the next one
    dead,         \* evals in the scheduling dead letter queue
    cap,          \* rows of the workers table: worker -> free capacity
    reg,          \* progress of the RegisterWorker request for each id
    wqueues,      \* workers whose queue exists
    allocs,       \* rows of the allocs table
    drawn,        \* allocation ids ever drawn; numbers the next one
    notified,     \* ids of allocations posted on a worker queue
    sched,        \* local state of each ReceiveEvals loop
    rel,          \* local state of each HandleRelease invocation
    comp,         \* local state of each CompleteAlloc request
    accepted,     \* history: evals the API has accepted
    made,         \* history: the tries for which an alloc row was put
    done,         \* history: evals a worker has completed
    returned,     \* history: ids of allocations whose size was given back
    doubled       \* history: workers given the same allocation back twice

poolVars    == <<queueExists, disbanded>>
queueVars   == <<queue, sent>>
workerVars  == <<cap, reg, wqueues>>
allocVars   == <<allocs, drawn, notified>>
creditVars  == <<cap, returned, doubled>>
historyVars == <<accepted, made, done, returned, doubled>>
vars == <<queueExists, disbanded, queue, sent, dead, cap, reg, wqueues, allocs,
          drawn, notified, sched, rel, comp, accepted, made, done, returned, doubled>>

-----------------------------------------------------------------------------
(* Data. An eval travels in a message with the number of allocations       *)
(* already made for it; an alloc row embeds the eval with its retry.       *)

Message == [id : Nat, eval : Evals, retry : Nat]
Alloc   == [id : Nat, wrk : Workers, eval : Evals, retry : Nat]
Letter  == [eval : Evals, retry : Nat]

\* ReceiveEvals raises a size below one; claim and release use the result.
Need(e) == IF Size[e] < 1 THEN 1 ELSE Size[e]

SchedState ==
         [pc : {"idle"}]
    \cup [pc : {"received"}, msg : Message]
    \cup [pc : {"chosen", "claimed"}, msg : Message, wrk : Workers]
    \cup [pc : {"recorded"}, msg : Message, alloc : Alloc]
    \cup [pc : {"posted"}, msg : Message]

RelState ==
         [pc : {"idle"}]
    \cup [pc : {"allocs"}, todo : SUBSET Alloc]
    \cup [pc : {"delete", "credit"}, todo : SUBSET Alloc, cur : Alloc]
    \cup [pc : {"workers"}, wtodo : SUBSET Workers]
    \cup [pc : {"deregister"}, wtodo : SUBSET Workers, wcur : Workers]

CompState ==
         [pc : {"idle"}]
    \cup [pc : {"active"}, id : Nat]
    \cup [pc : {"delete", "credit"}, cur : Alloc]

Idle == [pc |-> "idle"]

TypeOK ==
    /\ queueExists \in BOOLEAN /\ disbanded \in BOOLEAN
    /\ queue \subseteq Message /\ sent \in Nat
    /\ dead \subseteq Letter
    /\ DOMAIN cap \subseteq Workers /\ cap \in [DOMAIN cap -> Int]
    /\ reg \in [Workers -> {"absent", "checked", "queued", "member"}]
    /\ wqueues \subseteq Workers
    /\ allocs \subseteq Alloc /\ drawn \in Nat /\ notified \subseteq Nat
    /\ sched \in [Schedulers -> SchedState]
    /\ rel \in [Releasers -> RelState]
    /\ comp \in [Completers -> CompState]
    /\ accepted \subseteq Evals /\ made \subseteq Letter /\ done \subseteq Evals
    /\ returned \subseteq Nat /\ doubled \subseteq Workers

Init ==
    /\ queueExists = TRUE /\ disbanded = FALSE
    /\ queue = {} /\ sent = 0 /\ dead = {}
    /\ cap = [w \in {} |-> 0]
    /\ reg = [w \in Workers |-> "absent"]
    /\ wqueues = {}
    /\ allocs = {} /\ drawn = 0 /\ notified = {}
    /\ sched = [s \in Schedulers |-> Idle]
    /\ rel = [r \in Releasers |-> Idle]
    /\ comp = [c \in Completers |-> Idle]
    /\ accepted = {} /\ made = {} /\ done = {} /\ returned = {} /\ doubled = {}

\* SendMessage to the pool queue, while it exists.
SendEval(e, retry) ==
    /\ sent < MaxMsgs
    /\ queue' = queue \cup {[id |-> sent + 1, eval |-> e, retry |-> retry]}
    /\ sent' = sent + 1

-----------------------------------------------------------------------------
(* API handlers (Mux)                                                      *)

\* ScheduleEval. GetActivePool passes before the send, but DisbandPool deletes
\* the queue before it marks the pool, so the send alone decides.
ScheduleEval(e) ==
    /\ queueExists
    /\ e \notin accepted
    /\ SendEval(e, 0)
    /\ accepted' = accepted \cup {e}
    /\ UNCHANGED <<poolVars, dead, workerVars, allocVars, sched, rel, comp,
                   made, done, returned, doubled>>

\* RegisterWorker: GetActivePool, then CreateQueue, then PutNewWorker. A
\* request that fails halfway is one that takes no further step.
CheckPool(w) ==
    /\ reg[w] = "absent"
    /\ ~disbanded
    /\ reg' = [reg EXCEPT ![w] = "checked"]
    /\ UNCHANGED <<poolVars, queueVars, dead, cap, wqueues, allocVars, sched,
                   rel, comp, historyVars>>

CreateWorkerQueue(w) ==
    /\ reg[w] = "checked"
    /\ reg' = [reg EXCEPT ![w] = "queued"]
    /\ wqueues' = wqueues \cup {w}
    /\ UNCHANGED <<poolVars, queueVars, dead, cap, allocVars, sched, rel, comp,
                   historyVars>>

PutNewWorker(w) ==
    /\ reg[w] = "queued"
    /\ reg' = [reg EXCEPT ![w] = "member"]
    /\ cap' = [x \in DOMAIN cap \cup {w} |-> IF x = w THEN Capacity[w] ELSE cap[x]]
    /\ UNCHANGED <<poolVars, queueVars, dead, wqueues, allocVars, sched, rel,
                   comp, historyVars>>

\* DisbandPool: DeleteQueue, with the messages in it, then UpdatePoolTTL.
DeletePoolQueue ==
    /\ queueExists
    /\ queueExists' = FALSE
    /\ queue' = {}
    /\ UNCHANGED <<disbanded, sent, dead, workerVars, allocVars, sched, rel, comp,
                   historyVars>>

MarkDisbanded ==
    /\ ~queueExists /\ ~disbanded
    /\ disbanded' = TRUE
    /\ UNCHANGED <<queueExists, queueVars, dead, workerVars, allocVars, sched,
                   rel, comp, historyVars>>

-----------------------------------------------------------------------------
(* HandleSchedule: one ReceiveEvals loop per scheduler                     *)

SchedUnchanged == UNCHANGED <<poolVars, sent, dead, reg, wqueues, rel, comp,
                              accepted, done, returned, doubled>>

\* ReceiveMessage. The visibility timeout is one second and delivery is at
\* least once, so a message stays receivable until it is deleted.
Receive(s) ==
    /\ sched[s].pc = "idle"
    /\ \E m \in queue : sched' = [sched EXCEPT ![s] = [pc |-> "received", msg |-> m]]
    /\ UNCHANGED <<queue, cap, allocVars, made>>
    /\ SchedUnchanged

\* The query of Schedule for a worker with room; which one is Placement's.
Choose(s) ==
    /\ sched[s].pc = "received"
    /\ \E w \in DOMAIN cap :
          /\ cap[w] >= Need(sched[s].msg.eval)
          /\ sched' = [sched EXCEPT ![s] =
                          [pc |-> "chosen", msg |-> sched[s].msg, wrk |-> w]]
    /\ UNCHANGED <<queue, cap, allocVars, made>>
    /\ SchedUnchanged

\* The size is raised before it is put in the claim.
ClaimedAsSubmitted(e) == Size[e]
Claimed(e) == Need(e)

\* ConditionExpression of the claim; it also fails when the row is gone.
ClaimHoldsAnyRow(w, e) == w \in DOMAIN cap
ClaimHolds(w, e) == w \in DOMAIN cap /\ cap[w] >= Claimed(e)

Claim(s) ==
    /\ sched[s].pc = "chosen"
    /\ LET w == sched[s].wrk
           m == sched[s].msg
       IN  /\ ClaimHolds(w, m.eval)
           /\ cap' = [cap EXCEPT ![w] = @ - Claimed(m.eval)]
           /\ sched' = [sched EXCEPT ![s] = [pc |-> "claimed", msg |-> m, wrk |-> w]]
    /\ UNCHANGED <<queue, allocVars, made>>
    /\ SchedUnchanged

\* The allocation Schedule returns for a claim, under a fresh random id.
NewAllocCountingDown(m, w) ==
    [id |-> drawn + 1, wrk |-> w, eval |-> m.eval, retry |-> m.retry - 1]
NewAllocSkippingOne(m, w) ==
    [id |-> drawn + 1, wrk |-> w, eval |-> m.eval, retry |-> m.retry + 2]
NewAlloc(m, w) ==
    [id |-> drawn + 1, wrk |-> w, eval |-> m.eval, retry |-> m.retry + 1]

PutNewAllocIgnoringError(s) ==
    /\ sched[s].pc = "claimed"
    /\ sched' = [sched EXCEPT ![s] =
                    [pc |-> "recorded", msg |-> sched[s].msg,
                     alloc |-> NewAlloc(sched[s].msg, sched[s].wrk)]]
    /\ UNCHANGED <<queue, cap, allocVars, made>>
    /\ SchedUnchanged
PutNewAlloc(s) ==
    /\ sched[s].pc = "claimed"
    /\ drawn < MaxAllocs
    /\ LET a == NewAlloc(sched[s].msg, sched[s].wrk)
       IN  /\ allocs' = allocs \cup {a}
           /\ made' = made \cup {[eval |-> a.eval, retry |-> a.retry]}
           /\ sched' = [sched EXCEPT ![s] =
                           [pc |-> "recorded", msg |-> sched[s].msg, alloc |-> a]]
    /\ drawn' = drawn + 1
    /\ UNCHANGED <<queue, cap, notified>>
    /\ SchedUnchanged

\* SendMessage to the worker's queue.
Notify(s) ==
    /\ sched[s].pc = "recorded"
    /\ sched[s].alloc.wrk \in wqueues
    /\ notified' = notified \cup {sched[s].alloc.id}
    /\ sched' = [sched EXCEPT ![s] = [pc |-> "posted", msg |-> sched[s].msg]]
    /\ UNCHANGED <<queue, cap, allocs, drawn, made>>
    /\ SchedUnchanged

\* DeleteMessage on the pool queue.
Ack(s) ==
    /\ sched[s].pc = "posted"
    /\ queue' = queue \ {sched[s].msg}
    /\ sched' = [sched EXCEPT ![s] = Idle]
    /\ UNCHANGED <<cap, allocVars, made>>
    /\ SchedUnchanged

\* Some call failed or found no room (continue), or the Lambda timed out: the
\* message is left in the queue and nothing done so far is undone.
GiveUpAndAck(s) ==
    /\ sched[s].pc # "idle"
    /\ sched' = [sched EXCEPT ![s] = Idle]
    /\ queue' = queue \ {sched[s].msg}
    /\ UNCHANGED <<cap, allocVars, made>>
    /\ SchedUnchanged
GiveUp(s) ==
    /\ sched[s].pc # "idle"
    /\ sched' = [sched EXCEPT ![s] = Idle]
    /\ UNCHANGED <<queue, cap, allocVars, made>>
    /\ SchedUnchanged

Scheduler(s) ==
    \/ Receive(s) \/ Choose(s) \/ Claim(s) \/ PutNewAlloc(s) \/ Notify(s)
    \/ Ack(s) \/ GiveUp(s)

-----------------------------------------------------------------------------
(* releaseAlloc, called by HandleRelease and by CompleteAlloc              *)

\* UpdateItem "SET cap = cap + size": it has no condition, but fails on a row
\* that is gone, since there is no cap to add to.
CreditOrCreate(a) ==
    /\ cap' = [x \in DOMAIN cap \cup {a.wrk} |->
                  IF x # a.wrk THEN cap[x]
                  ELSE (IF x \in DOMAIN cap THEN cap[x] ELSE 0) + Need(a.eval)]
    /\ returned' = returned \cup {a.id}
    /\ doubled' = IF a.id \in returned THEN doubled \cup {a.wrk} ELSE doubled
Credit(a) ==
    IF a.wrk \in DOMAIN cap
    THEN /\ cap' = [cap EXCEPT ![a.wrk] = @ + Need(a.eval)]
         /\ returned' = returned \cup {a.id}
         /\ doubled' = IF a.id \in returned THEN doubled \cup {a.wrk} ELSE doubled
    ELSE UNCHANGED creditVars

-----------------------------------------------------------------------------
(* HandleRelease: releaseAllocs, then releaseWorkers                       *)

RelUnchanged == UNCHANGED <<poolVars, reg, drawn, notified, sched, comp, accepted,
                            made, done>>

\* The query for expired allocations.
QueryAllocs(r) ==
    /\ rel[r].pc = "idle"
    /\ \E todo \in SUBSET allocs :
          rel' = [rel EXCEPT ![r] = [pc |-> "allocs", todo |-> todo]]
    /\ UNCHANGED <<queueVars, dead, cap, wqueues, allocs, returned, doubled>>
    /\ RelUnchanged

ExhaustedEarly(a) == a.retry + 1 >= MaxRetry
ExhaustedLate(a) == a.retry > MaxRetry
Exhausted(a) == a.retry >= MaxRetry

\* One expired allocation: its eval goes to the dead letter queue or back to
\* the pool queue. Only a missing pool queue is passed over.
Resend(r) ==
    /\ rel[r].pc = "allocs"
    /\ \E a \in rel[r].todo :
          /\ IF Exhausted(a)
             THEN /\ dead' = dead \cup {[eval |-> a.eval, retry |-> a.retry]}
                  /\ UNCHANGED queueVars
             ELSE /\ UNCHANGED dead
                  /\ IF queueExists THEN SendEval(a.eval, a.retry)
                                    ELSE UNCHANGED queueVars
          /\ rel' = [rel EXCEPT ![r] =
                        [pc |-> "delete", todo |-> rel[r].todo \ {a}, cur |-> a]]
    /\ UNCHANGED <<cap, wqueues, allocs, returned, doubled>>
    /\ RelUnchanged

\* DeleteItem of the alloc row, whether or not it is still there.
DeleteExpired(r) ==
    /\ rel[r].pc = "delete"
    /\ allocs' = allocs \ {rel[r].cur}
    /\ rel' = [rel EXCEPT ![r].pc = "credit"]
    /\ UNCHANGED <<queueVars, dead, cap, wqueues, returned, doubled>>
    /\ RelUnchanged

CreditExpired(r) ==
    /\ rel[r].pc = "credit"
    /\ Credit(rel[r].cur)
    /\ rel' = [rel EXCEPT ![r] = [pc |-> "allocs", todo |-> rel[r].todo]]
    /\ UNCHANGED <<queueVars, dead, wqueues, allocs>>
    /\ RelUnchanged

\* releaseAlloc fails at its first or second call: logged, on to the next.
SkipAllocOrResend(r) ==
    /\ \/ /\ rel[r].pc \in {"delete", "credit"}
          /\ rel' = [rel EXCEPT ![r] = [pc |-> "allocs", todo |-> rel[r].todo]]
       \/ /\ rel[r].pc = "allocs"
          /\ \E a \in rel[r].todo :
                rel' = [rel EXCEPT ![r] =
                           [pc |-> "delete", todo |-> rel[r].todo \ {a}, cur |-> a]]
    /\ UNCHANGED <<queueVars, dead, cap, wqueues, allocs, returned, doubled>>
    /\ RelUnchanged
SkipAlloc(r) ==
    /\ rel[r].pc \in {"delete", "credit"}
    /\ rel' = [rel EXCEPT ![r] = [pc |-> "allocs", todo |-> rel[r].todo]]
    /\ UNCHANGED <<queueVars, dead, cap, wqueues, allocs, returned, doubled>>
    /\ RelUnchanged

\* All expired allocations are handled; the query for expired workers.
QueryWorkers(r) ==
    /\ rel[r].pc = "allocs"
    /\ rel[r].todo = {}
    /\ \E wtodo \in SUBSET DOMAIN cap :
          rel' = [rel EXCEPT ![r] = [pc |-> "workers", wtodo |-> wtodo]]
    /\ UNCHANGED <<queueVars, dead, cap, wqueues, allocs, returned, doubled>>
    /\ RelUnchanged

DeleteWorkerQueue(r) ==
    /\ rel[r].pc = "workers"
    /\ \E w \in rel[r].wtodo :
          /\ wqueues' = wqueues \ {w}
          /\ rel' = [rel EXCEPT ![r] =
                        [pc |-> "deregister", wtodo |-> rel[r].wtodo \ {w}, wcur |-> w]]
    /\ UNCHANGED <<queueVars, dead, cap, allocs, returned, doubled>>
    /\ RelUnchanged

\* DeleteWorker; a row that is gone already is an error that is only logged.
DeleteWorker(r) ==
    /\ rel[r].pc = "deregister"
    /\ cap' = Restrict(cap, DOMAIN cap \ {rel[r].wcur})
    /\ rel' = [rel EXCEPT ![r] = [pc |-> "workers", wtodo |-> rel[r].wtodo]]
    /\ UNCHANGED <<queueVars, dead, wqueues, allocs, returned, doubled>>
    /\ RelUnchanged

\* DeleteQueue or DeleteWorker fails: logged, on to the next worker.
SkipWorker(r) ==
    /\ \/ /\ rel[r].pc = "workers"
          /\ \E w \in rel[r].wtodo :
                rel' = [rel EXCEPT ![r].wtodo = @ \ {w}]
       \/ /\ rel[r].pc = "deregister"
          /\ rel' = [rel EXCEPT ![r] = [pc |-> "workers", wtodo |-> rel[r].wtodo]]
    /\ UNCHANGED <<queueVars, dead, cap, wqueues, allocs, returned, doubled>>
    /\ RelUnchanged

\* The round ends, a query or a SendMessage fails (return), or the Lambda
\* times out.
EndRound(r) ==
    /\ rel[r].pc # "idle"
    /\ rel' = [rel EXCEPT ![r] = Idle]
    /\ UNCHANGED <<queueVars, dead, cap, wqueues, allocs, returned, doubled>>
    /\ RelUnchanged

Releaser(r) ==
    \/ QueryAllocs(r) \/ Resend(r) \/ DeleteExpired(r) \/ CreditExpired(r)
    \/ SkipAlloc(r) \/ QueryWorkers(r) \/ DeleteWorkerQueue(r) \/ DeleteWorker(r)
    \/ SkipWorker(r) \/ EndRound(r)

-----------------------------------------------------------------------------
(* CompleteAlloc: a worker learns the id of an allocation from its queue   *)

CompUnchanged ==
    UNCHANGED <<poolVars, queueVars, dead, reg, wqueues, drawn, notified, sched,
                rel, accepted, made>>

\* GetActivePool
BeginComplete(c) ==
    /\ comp[c].pc = "idle"
    /\ ~disbanded
    /\ \E i \in notified : comp' = [comp EXCEPT ![c] = [pc |-> "active", id |-> i]]
    /\ UNCHANGED <<cap, allocs, done, returned, doubled>>
    /\ CompUnchanged

GetAlloc(c) ==
    /\ comp[c].pc = "active"
    /\ \E a \in allocs :
          /\ a.id = comp[c].id
          /\ comp' = [comp EXCEPT ![c] = [pc |-> "delete", cur |-> a]]
    /\ UNCHANGED <<cap, allocs, done, returned, doubled>>
    /\ CompUnchanged

DeleteCompleted(c) ==
    /\ comp[c].pc = "delete"
    /\ allocs' = allocs \ {comp[c].cur}
    /\ done' = done \cup {comp[c].cur.eval}
    /\ comp' = [comp EXCEPT ![c].pc = "credit"]
    /\ UNCHANGED <<cap, returned, doubled>>
    /\ CompUnchanged

CreditCompleted(c) ==
    /\ comp[c].pc = "credit"
    /\ Credit(comp[c].cur)
    /\ comp' = [comp EXCEPT ![c] = Idle]
    /\ UNCHANGED <<allocs, done>>
    /\ CompUnchanged

\* A call fails, the alloc is gone, or the Lambda times out.
AbortComplete(c) ==
    /\ comp[c].pc # "idle"
    /\ comp' = [comp EXCEPT ![c] = Idle]
    /\ UNCHANGED <<cap, allocs, done, returned, doubled>>
    /\ CompUnchanged

Completer(c) ==
    \/ BeginComplete(c) \/ GetAlloc(c) \/ DeleteCompleted(c) \/ CreditCompleted(c)
    \/ AbortComplete(c)

-----------------------------------------------------------------------------
Next ==
    \/ \E e \in Evals : ScheduleEval(e)
    \/ \E w \in Workers : CheckPool(w) \/ CreateWorkerQueue(w) \/ PutNewWorker(w)
    \/ DeletePoolQueue
    \/ MarkDisbanded
    \/ \E s \in Schedulers : Scheduler(s)
    \/ \E r \in Releasers : Releaser(r)
    \/ \E c \in Completers : Completer(c)

Spec == Init /\ [][Next]_vars

-----------------------------------------------------------------------------
(* Properties                                                              *)

\* A claim never takes more than a worker has: free capacity stays at zero or
\* above, or at what a worker with a negative offer registered with. The query
\* and the claim of Schedule are two calls, and other schedulers claim between
\* them (handle_schedule.go, the ConditionExpression of the claim).
NoOverclaim == \A w \in DOMAIN cap : cap[w] >= 0 \/ cap[w] >= Capacity[w]

\* Every copy of an alloc from which its size may still be given back: its row,
\* and what releasers and completers hold of rows they have read.
Copies ==
    allocs
        \cup (UNION {rel[r].todo :
                r \in {x \in Releasers : rel[x].pc \in {"allocs", "delete", "credit"}}})
        \cup {rel[r].cur : r \in {x \in Releasers : rel[x].pc \in {"delete", "credit"}}}
        \cup {comp[c].cur : c \in {x \in Completers : comp[x].pc \in {"delete", "credit"}}}

\* The allocs on w not given back yet, and the claims with no row yet, each
\* with its size.
Outstanding(w) ==
    [a \in {b \in Copies : b.wrk = w /\ b.id \notin returned} |-> Need(a.eval)]
Claims(w) ==
    [s \in {x \in Schedulers : sched[x].pc = "claimed" /\ sched[x].wrk = w} |->
        Need(sched[s].msg.eval)]

\* The sum of the values of a function, as the number of its units: each x has
\* the units <<x, 1>> to <<x, size[x]>>.
Units(size) == UNION {{x} \X (1 .. size[x]) : x \in DOMAIN size}
Total(size) == Cardinality(Units(size))

\* No capacity is invented: what is free, what is claimed and what may still be
\* given back never exceed what the worker offered, unless an alloc on it was
\* given back twice. Claims, failed puts, completions and releases, working from
\* copies of rows that others have deleted, all meet in this sum (Schedule,
\* PutNewAlloc, releaseAlloc).
CapacityAccounted ==
    \A w \in DOMAIN cap \ doubled :
        cap[w] + Total(Outstanding(w)) + Total(Claims(w)) <= Capacity[w]

MostRetries == IF MaxRetry < 1 THEN 1 ELSE MaxRetry

\* Retries are counted across queue, alloc rows and dead letter queue: no alloc
\* is made for an eval that has used its retries up, and only such an eval is
\* given up (handle_release.go, MaxRetry; handle_schedule.go, eval.Retry + 1).
RetryBound ==
    /\ \A m \in queue : m.retry = 0 \/ m.retry < MaxRetry
    /\ \A a \in allocs : a.retry \in 1 .. MostRetries
    /\ \A d \in dead : d.retry \in MaxRetry .. MostRetries

TriesMade(e, n) == \A k \in 1 .. n : [eval |-> e, retry |-> k] \in made

\* No try is skipped: an eval is only given up after an alloc row was put for
\* each of its tries, although its count travels through several messages and
\* rows, any of them duplicated (handle_schedule.go, eval.Retry + 1;
\* handle_release.go, the re-sent eval).
EveryTryMade == \A d \in dead : TriesMade(d.eval, d.retry)

MessageOk(m) ==
    /\ m.eval \in accepted
    /\ m.retry = 0 \/ m.retry < MaxRetry
    /\ TriesMade(m.eval, m.retry)

AllocOk(a) ==
    /\ a.eval \in accepted
    /\ a.retry \in 1 .. MostRetries
    /\ TriesMade(a.eval, a.retry)

\* Every message, row and local copy, however old, is about an accepted eval
\* and counts tries that were made: what RetryBound and EveryTryMade rest on
\* (the snapshots that ReceiveEvals, releaseAllocs and CompleteAlloc work from).
Provenance ==
    /\ \A m \in queue : MessageOk(m)
    /\ \A s \in Schedulers : sched[s].pc # "idle" => MessageOk(sched[s].msg)
    /\ \A a \in allocs : AllocOk(a)
    /\ \A r \in Releasers : rel[r].pc \in {"allocs", "delete", "credit"} =>
          \A a \in rel[r].todo : AllocOk(a)
    /\ \A c \in Completers : comp[c].pc = "delete" => AllocOk(comp[c].cur)
    /\ \A d \in dead : d.retry \in MaxRetry .. MostRetries /\ TriesMade(d.eval, d.retry)

Settled(e) == e \in done \/ \E d \in dead : d.eval = e

\* An eval is settled, or some message or alloc row still carries it that has
\* at least n tries behind it.
Carried(e, n) ==
    \/ Settled(e)
    \/ \E m \in queue : m.eval = e /\ m.retry >= n
    \/ \E a \in allocs : a.eval = e /\ a.retry >= n

\* While the pool has its queue, an accepted eval is never lost: a scheduler
\* deletes its message and a releaser deletes its alloc row, each in the belief
\* that the eval lives on elsewhere, with duplicates of both around and any call
\* of either failing (ReceiveEvals, releaseAllocs, CompleteAlloc).
EvalNeverLost == queueExists => \A e \in accepted : Carried(e, 0)

\* The eval of alloc a outlives the deletion of a's row.
Forwarded(a) ==
    \/ Settled(a.eval)
    \/ \E m \in queue : m.eval = a.eval /\ m.retry >= a.retry
    \/ \E b \in allocs : b.eval = a.eval /\ b.retry > a.retry

\* Why nothing is lost: before a message is deleted its eval has an alloc, or
\* something later than it; before an expired alloc row is deleted its eval is
\* on a queue, or something later than that. The order on tries makes two
\* deletions that rely on each other impossible.
HandedOver ==
    queueExists =>
        /\ \A s \in Schedulers : sched[s].pc \in {"recorded", "posted"} =>
              Carried(sched[s].msg.eval, sched[s].msg.retry + 1)
        /\ \A r \in Releasers : rel[r].pc = "delete" => Forwarded(rel[r].cur)

\* The standing of each eval, as its submitter sees it: owed only as long as
\* something really carries it.
Standing ==
    [e \in Evals |->
        IF Settled(e) THEN "settled"
        ELSE IF e \notin accepted THEN "new"
        ELSE IF queueExists /\ Carried(e, 0) THEN "owed"
        ELSE "dropped"]

L == INSTANCE Ledger WITH open <- queueExists, status <- Standing

\* The pool keeps its promise: evals move from new to owed to settled and
\* never back, and owed ones are dropped only as DisbandPool deletes the queue.
KeepsLedger == L!Spec

\* A worker's row, once deleted, never comes back: late claims and releases of
\* its allocations find no row and create none, or the pool would schedule onto
\* a worker that has no queue (releaseAlloc, Schedule, DeleteWorker).
NoResurrection ==
    [][\A w \in Workers : w \notin DOMAIN cap /\ reg[w] = "member" =>
          w \notin DOMAIN cap']_vars
=============================================================================
