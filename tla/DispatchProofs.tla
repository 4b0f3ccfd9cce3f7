--------------------------- MODULE DispatchProofs ---------------------------
(***************************************************************************)
(* Theorems about Dispatch, for any number of evals, workers and           *)
(* concurrent invocations.                                                 *)
(***************************************************************************)
EXTENDS Dispatch, TLAPS

-----------------------------------------------------------------------------
(* Local states                                                            *)

\* A claimed size is at least one, whatever was submitted.
LEMMA NeedPositive == \A e \in Evals : Need(e) \in Int /\ Need(e) >= 1
  BY SizeAssumption DEF Need

\* What each local state of a scheduler holds.
LEMMA SchedFields ==
  ASSUME NEW x \in SchedState
  PROVE  /\ x.pc \in {"idle", "received", "chosen", "claimed", "recorded", "posted"}
         /\ x.pc # "idle" => x.msg \in Message
         /\ x.pc \in {"chosen", "claimed"} => x.wrk \in Workers
         /\ x.pc = "recorded" => x.alloc \in Alloc
  BY DEF SchedState

\* The local states a scheduler moves to are typed.
LEMMA SchedMade ==
  ASSUME NEW m \in Message
  PROVE  /\ Idle \in SchedState
         /\ [pc |-> "received", msg |-> m] \in SchedState
         /\ [pc |-> "posted", msg |-> m] \in SchedState
         /\ \A w \in Workers : /\ [pc |-> "chosen", msg |-> m, wrk |-> w] \in SchedState
                               /\ [pc |-> "claimed", msg |-> m, wrk |-> w] \in SchedState
         /\ \A a \in Alloc : [pc |-> "recorded", msg |-> m, alloc |-> a] \in SchedState
  BY DEF SchedState, Idle

\* What each local state of a releaser holds.
LEMMA RelFields ==
  ASSUME NEW x \in RelState
  PROVE  /\ x.pc \in {"idle", "allocs", "delete", "credit", "workers", "deregister"}
         /\ x.pc \in {"allocs", "delete", "credit"} => x.todo \subseteq Alloc
         /\ x.pc \in {"delete", "credit"} =>
               /\ x.cur \in Alloc
               /\ x = [pc |-> x.pc, todo |-> x.todo, cur |-> x.cur]
         /\ x.pc \in {"workers", "deregister"} => x.wtodo \subseteq Workers
         /\ x.pc = "workers" => x = [pc |-> "workers", wtodo |-> x.wtodo]
         /\ x.pc = "deregister" => x.wcur \in Workers
  BY DEF RelState

\* The local states a releaser moves to are typed.
LEMMA RelMade ==
  /\ Idle \in RelState
  /\ \A todo \in SUBSET Alloc :
        /\ [pc |-> "allocs", todo |-> todo] \in RelState
        /\ \A a \in Alloc : /\ [pc |-> "delete", todo |-> todo, cur |-> a] \in RelState
                            /\ [pc |-> "credit", todo |-> todo, cur |-> a] \in RelState
  /\ \A wtodo \in SUBSET Workers :
        /\ [pc |-> "workers", wtodo |-> wtodo] \in RelState
        /\ \A w \in Workers :
              [pc |-> "deregister", wtodo |-> wtodo, wcur |-> w] \in RelState
  BY DEF RelState, Idle

\* What each local state of a completion request holds.
LEMMA CompFields ==
  ASSUME NEW x \in CompState
  PROVE  /\ x.pc \in {"idle", "active", "delete", "credit"}
         /\ x.pc = "active" => x.id \in Nat
         /\ x.pc \in {"delete", "credit"} => /\ x.cur \in Alloc
                                             /\ x = [pc |-> x.pc, cur |-> x.cur]
  BY DEF CompState

\* The local states a completion request moves to are typed.
LEMMA CompMade ==
  /\ Idle \in CompState
  /\ \A i \in Nat : [pc |-> "active", id |-> i] \in CompState
  /\ \A a \in Alloc : /\ [pc |-> "delete", cur |-> a] \in CompState
                      /\ [pc |-> "credit", cur |-> a] \in CompState
  BY DEF CompState, Idle

-----------------------------------------------------------------------------
(* Type correctness                                                        *)

\* Every step of the API handlers, DisbandPool included, keeps the types.
LEMMA TypeApi ==
  ASSUME TypeOK,
         \/ \E e \in Evals : ScheduleEval(e)
         \/ \E w \in Workers : CheckPool(w) \/ CreateWorkerQueue(w) \/ PutNewWorker(w)
         \/ DeletePoolQueue
         \/ MarkDisbanded
  PROVE  TypeOK'
<1>1. ASSUME NEW e \in Evals, ScheduleEval(e) PROVE TypeOK'
  BY <1>1 DEF TypeOK, ScheduleEval, SendEval, Message, poolVars, workerVars, allocVars
<1>2. ASSUME NEW w \in Workers, CheckPool(w) PROVE TypeOK'
  BY <1>2 DEF TypeOK, CheckPool, poolVars, queueVars, allocVars, historyVars
<1>3. ASSUME NEW w \in Workers, CreateWorkerQueue(w) PROVE TypeOK'
  BY <1>3 DEF TypeOK, CreateWorkerQueue, poolVars, queueVars, allocVars, historyVars
<1>4. ASSUME NEW w \in Workers, PutNewWorker(w) PROVE TypeOK'
  BY <1>4, CapacityAssumption
  DEF TypeOK, PutNewWorker, poolVars, queueVars, allocVars, historyVars
<1>5. CASE DeletePoolQueue
  BY <1>5 DEF TypeOK, DeletePoolQueue, workerVars, allocVars, historyVars
<1>6. CASE MarkDisbanded
  BY <1>6 DEF TypeOK, MarkDisbanded, queueVars, workerVars, allocVars, historyVars
<1> QED
  BY <1>1, <1>2, <1>3, <1>4, <1>5, <1>6

\* Every step of a ReceiveEvals loop keeps the types.
LEMMA TypeScheduler ==
  ASSUME TypeOK, NEW s \in Schedulers, Scheduler(s)
  PROVE  TypeOK'
<1> USE DEF SchedUnchanged, poolVars, allocVars
<1>0. sched[s] \in SchedState
  BY DEF TypeOK
<1>1. CASE Receive(s)
  <2> PICK m \in queue : sched' = [sched EXCEPT ![s] = [pc |-> "received", msg |-> m]]
    BY <1>1 DEF Receive
  <2> QED
    BY <1>1, SchedMade DEF TypeOK, Receive
<1>2. CASE Choose(s)
  <2>1. sched[s].msg \in Message
    BY <1>0, <1>2, SchedFields DEF Choose
  <2> QED
    BY <1>2, <2>1, SchedMade DEF TypeOK, Choose
<1>3. CASE Claim(s)
  <2>1. sched[s].msg \in Message /\ sched[s].wrk \in Workers
    BY <1>0, <1>3, SchedFields DEF Claim
  <2>2. sched[s].msg.eval \in Evals
    BY <2>1 DEF Message
  <2>3. cap' \in [DOMAIN cap -> Int]
    BY <1>3, <2>2, NeedPositive DEF TypeOK, Claim, Claimed, ClaimHolds
  <2>4. sched' \in [Schedulers -> SchedState]
    BY <1>3, <2>1, SchedMade DEF TypeOK, Claim
  <2> QED
    BY <1>3, <2>3, <2>4 DEF TypeOK, Claim
<1>4. CASE PutNewAlloc(s)
  <2> DEFINE a == NewAlloc(sched[s].msg, sched[s].wrk)
  <2>1. sched[s].msg \in Message /\ sched[s].wrk \in Workers
    BY <1>0, <1>4, SchedFields DEF PutNewAlloc
  <2>2. a \in Alloc /\ [eval |-> a.eval, retry |-> a.retry] \in Letter
    BY <2>1 DEF TypeOK, NewAlloc, Message, Alloc, Letter
  <2>3. sched' \in [Schedulers -> SchedState]
    BY <1>4, <2>1, <2>2, SchedMade DEF TypeOK, PutNewAlloc
  <2>4. /\ allocs' = allocs \cup {a}
        /\ made' = made \cup {[eval |-> a.eval, retry |-> a.retry]}
    BY <1>4 DEF PutNewAlloc
  <2> HIDE DEF a
  <2> QED
    BY <1>4, <2>2, <2>3, <2>4 DEF TypeOK, PutNewAlloc
<1>5. CASE Notify(s)
  <2>1. sched[s].msg \in Message /\ sched[s].alloc.id \in Nat
    BY <1>0, <1>5, SchedFields DEF Notify, Alloc
  <2> QED
    BY <1>5, <2>1, SchedMade DEF TypeOK, Notify
<1>6. CASE Ack(s)
  <2>1. Idle \in SchedState
    BY SchedMade, <1>0, <1>6, SchedFields DEF Ack
  <2> QED
    BY <1>6, <2>1 DEF TypeOK, Ack
<1>7. CASE GiveUp(s)
  <2>1. Idle \in SchedState
    BY SchedMade, <1>0, <1>7, SchedFields DEF GiveUp
  <2> QED
    BY <1>7, <2>1 DEF TypeOK, GiveUp
<1> QED
  BY <1>1, <1>2, <1>3, <1>4, <1>5, <1>6, <1>7 DEF Scheduler

\* Giving capacity back keeps the tables of workers typed.
LEMMA TypeCredit ==
  ASSUME TypeOK, NEW a \in Alloc, Credit(a)
  PROVE  /\ DOMAIN cap' = DOMAIN cap
         /\ cap' \in [DOMAIN cap -> Int]
         /\ returned' \subseteq Nat
         /\ doubled' \subseteq Workers
<1>1. a.eval \in Evals /\ a.id \in Nat /\ a.wrk \in Workers
  BY DEF Alloc
<1>2. Need(a.eval) \in Int
  BY <1>1, NeedPositive
<1> QED
  BY <1>1, <1>2 DEF TypeOK, Credit, creditVars

\* Every step of a HandleRelease invocation keeps the types.
LEMMA TypeReleaser ==
  ASSUME TypeOK, NEW r \in Releasers, Releaser(r)
  PROVE  TypeOK'
<1> USE DEF RelUnchanged, poolVars, queueVars
<1>0. rel[r] \in RelState
  BY DEF TypeOK
<1>1. CASE QueryAllocs(r)
  BY <1>1, RelMade DEF TypeOK, QueryAllocs
<1>2. CASE Resend(r)
  <2>1. rel[r].todo \subseteq Alloc
    BY <1>0, <1>2, RelFields DEF Resend
  <2>2. PICK a \in rel[r].todo :
           /\ IF Exhausted(a)
              THEN /\ dead' = dead \cup {[eval |-> a.eval, retry |-> a.retry]}
                   /\ UNCHANGED queueVars
              ELSE /\ UNCHANGED dead
                   /\ IF queueExists THEN SendEval(a.eval, a.retry)
                                     ELSE UNCHANGED queueVars
           /\ rel' = [rel EXCEPT ![r] =
                         [pc |-> "delete", todo |-> rel[r].todo \ {a}, cur |-> a]]
    BY <1>2 DEF Resend
  <2>3. a.eval \in Evals /\ a.retry \in Nat
    BY <2>1 DEF Alloc
  <2>4. rel' \in [Releasers -> RelState]
    BY <2>1, <2>2, RelMade DEF TypeOK
  <2>5. queue' \subseteq Message /\ sent' \in Nat /\ dead' \subseteq Letter
    BY <2>2, <2>3 DEF TypeOK, SendEval, Message, Letter
  <2> QED
    BY <1>2, <2>4, <2>5 DEF TypeOK, Resend
<1>3. CASE DeleteExpired(r)
  <2>1. [rel[r] EXCEPT !.pc = "credit"] \in RelState
    <3>1. /\ rel[r].todo \in SUBSET Alloc /\ rel[r].cur \in Alloc
          /\ rel[r] = [pc |-> "delete", todo |-> rel[r].todo, cur |-> rel[r].cur]
      BY <1>0, <1>3, RelFields DEF DeleteExpired
    <3>2. [rel[r] EXCEPT !.pc = "credit"]
             = [pc |-> "credit", todo |-> rel[r].todo, cur |-> rel[r].cur]
      BY <3>1
    <3> QED
      BY <3>1, <3>2, RelMade
  <2> QED
    BY <1>3, <2>1 DEF TypeOK, DeleteExpired
<1>4. CASE CreditExpired(r)
  <2>1. rel[r].cur \in Alloc /\ rel[r].todo \subseteq Alloc
    BY <1>0, <1>4, RelFields DEF CreditExpired
  <2>2. rel' \in [Releasers -> RelState]
    BY <1>4, <2>1, RelMade DEF TypeOK, CreditExpired
  <2>3. /\ DOMAIN cap' = DOMAIN cap /\ cap' \in [DOMAIN cap -> Int]
        /\ returned' \subseteq Nat /\ doubled' \subseteq Workers
    BY <1>4, <2>1, TypeCredit DEF CreditExpired
  <2> QED
    BY <1>4, <2>2, <2>3 DEF TypeOK, CreditExpired
<1>5. CASE SkipAlloc(r)
  <2>1. rel[r].todo \subseteq Alloc
    BY <1>0, <1>5, RelFields DEF SkipAlloc
  <2> QED
    BY <1>5, <2>1, RelMade DEF TypeOK, SkipAlloc
<1>6. CASE QueryWorkers(r)
  <2>1. PICK wtodo \in SUBSET DOMAIN cap :
           rel' = [rel EXCEPT ![r] = [pc |-> "workers", wtodo |-> wtodo]]
    BY <1>6 DEF QueryWorkers
  <2>2. wtodo \in SUBSET Workers
    BY <2>1 DEF TypeOK
  <2> QED
    BY <1>6, <2>1, <2>2, RelMade DEF TypeOK, QueryWorkers
<1>7. CASE DeleteWorkerQueue(r)
  <2>1. rel[r].wtodo \subseteq Workers
    BY <1>0, <1>7, RelFields DEF DeleteWorkerQueue
  <2>2. PICK w \in rel[r].wtodo :
           rel' = [rel EXCEPT ![r] =
                      [pc |-> "deregister", wtodo |-> rel[r].wtodo \ {w}, wcur |-> w]]
    BY <1>7 DEF DeleteWorkerQueue
  <2>4. w \in Workers /\ rel[r].wtodo \ {w} \in SUBSET Workers
    BY <2>1
  <2>5. rel' \in [Releasers -> RelState]
    BY <2>2, <2>4, RelMade DEF TypeOK
  <2>3. wqueues' \subseteq Workers
    BY <1>7 DEF TypeOK, DeleteWorkerQueue
  <2> QED
    BY <1>7, <2>3, <2>5 DEF TypeOK, DeleteWorkerQueue
<1>8. CASE DeleteWorker(r)
  <2>1. rel[r].wtodo \subseteq Workers
    BY <1>0, <1>8, RelFields DEF DeleteWorker
  <2> QED
    BY <1>8, <2>1, RelMade DEF TypeOK, DeleteWorker, Restrict
<1>9. CASE SkipWorker(r)
  <2>1. rel[r].wtodo \subseteq Workers
    BY <1>0, <1>9, RelFields DEF SkipWorker
  <2>2. ASSUME rel[r].pc = "workers" PROVE rel' \in [Releasers -> RelState]
    <3>1. PICK w \in rel[r].wtodo : rel' = [rel EXCEPT ![r].wtodo = @ \ {w}]
      BY <1>9, <2>2 DEF SkipWorker
    <3>2. rel[r] = [pc |-> "workers", wtodo |-> rel[r].wtodo]
      BY <1>0, <2>2, RelFields
    <3>3. [rel[r] EXCEPT !.wtodo = @ \ {w}]
             = [pc |-> "workers", wtodo |-> rel[r].wtodo \ {w}]
      BY <3>2
    <3>4. rel' = [rel EXCEPT ![r] = [rel[r] EXCEPT !.wtodo = @ \ {w}]]
      BY <3>1
    <3>5. rel' = [rel EXCEPT ![r] = [pc |-> "workers", wtodo |-> rel[r].wtodo \ {w}]]
      BY <3>3, <3>4
    <3>6. rel[r].wtodo \ {w} \in SUBSET Workers
      BY <2>1
    <3> QED
      BY <3>5, <3>6, RelMade DEF TypeOK
  <2>3. ASSUME rel[r].pc # "workers" PROVE rel' \in [Releasers -> RelState]
    BY <1>9, <2>1, <2>3, RelMade DEF TypeOK, SkipWorker
  <2>4. rel' \in [Releasers -> RelState]
    BY <2>2, <2>3
  <2> QED
    BY <1>9, <2>4 DEF TypeOK, SkipWorker
<1>10. CASE EndRound(r)
  BY <1>10, RelMade DEF TypeOK, EndRound
<1> QED
  BY <1>1, <1>2, <1>3, <1>4, <1>5, <1>6, <1>7, <1>8, <1>9, <1>10 DEF Releaser

\* Every step of a CompleteAlloc request keeps the types.
LEMMA TypeCompleter ==
  ASSUME TypeOK, NEW c \in Completers, Completer(c)
  PROVE  TypeOK'
<1> USE DEF CompUnchanged, poolVars, queueVars
<1>0. comp[c] \in CompState
  BY DEF TypeOK
<1>1. CASE BeginComplete(c)
  <2>1. comp' \in [Completers -> CompState]
    BY <1>1, CompMade DEF TypeOK, BeginComplete
  <2> QED
    BY <1>1, <2>1 DEF TypeOK, BeginComplete
<1>2. CASE GetAlloc(c)
  <2>1. comp' \in [Completers -> CompState]
    BY <1>2, CompMade DEF TypeOK, GetAlloc
  <2> QED
    BY <1>2, <2>1 DEF TypeOK, GetAlloc
<1>3. CASE DeleteCompleted(c)
  <2>1. comp[c].cur \in Alloc /\ [comp[c] EXCEPT !.pc = "credit"] \in CompState
    BY <1>0, <1>3, CompFields, CompMade DEF DeleteCompleted
  <2> QED
    BY <1>3, <2>1 DEF TypeOK, DeleteCompleted, Alloc
<1>4. CASE CreditCompleted(c)
  <2>1. comp[c].cur \in Alloc
    BY <1>0, <1>4, CompFields DEF CreditCompleted
  <2>2. /\ DOMAIN cap' = DOMAIN cap /\ cap' \in [DOMAIN cap -> Int]
        /\ returned' \subseteq Nat /\ doubled' \subseteq Workers
    BY <1>4, <2>1, TypeCredit DEF CreditCompleted
  <2> QED
    BY <1>4, <2>2, CompMade DEF TypeOK, CreditCompleted
<1>5. CASE AbortComplete(c)
  BY <1>5, CompMade DEF TypeOK, AbortComplete
<1> QED
  BY <1>1, <1>2, <1>3, <1>4, <1>5 DEF Completer

\* A stuttering step keeps the types.
LEMMA TypeStutter == TypeOK /\ UNCHANGED vars => TypeOK'
  BY DEF TypeOK, vars

\* Every step keeps the types.
LEMMA TypeStep ==
  ASSUME TypeOK, [Next]_vars
  PROVE  TypeOK'
  BY TypeApi, TypeScheduler, TypeReleaser, TypeCompleter, TypeStutter DEF Next

\* TypeOK is an invariant: whatever interleaving of the three functions, every
\* row, message and local state keeps its shape.
THEOREM TypeCorrect == Spec => []TypeOK
<1>1. Init => TypeOK
  <2> SUFFICES ASSUME Init PROVE TypeOK
    OBVIOUS
  <2>1. Idle \in RelState /\ Idle \in CompState
    BY RelMade, CompMade
  <2>2. Idle \in SchedState
    BY DEF SchedState, Idle
  <2>3. DOMAIN cap = {} /\ cap \in [DOMAIN cap -> Int]
    BY DEF Init
  <2> QED
    BY <2>1, <2>2, <2>3 DEF Init, TypeOK
<1>2. TypeOK /\ [Next]_vars => TypeOK'
  BY TypeStep
<1> QED
  BY <1>1, <1>2, PTL DEF Spec

-----------------------------------------------------------------------------
(* Capacity is never claimed twice                                         *)

\* The steps that write the capacity of a worker.
LEMMA CapSteps ==
  ASSUME [Next]_vars
  PROVE  \/ UNCHANGED <<cap, returned, doubled>>
         \/ \E x \in Workers : PutNewWorker(x)
         \/ \E s \in Schedulers : Claim(s)
         \/ \E r \in Releasers : CreditExpired(r) \/ DeleteWorker(r)
         \/ \E c \in Completers : CreditCompleted(c)
  BY DEF Next, ScheduleEval, CheckPool, CreateWorkerQueue, DeletePoolQueue,
         MarkDisbanded, Scheduler, Receive, Choose, PutNewAlloc, Notify, Ack, GiveUp,
         SchedUnchanged, Releaser, QueryAllocs, Resend, DeleteExpired, SkipAlloc,
         QueryWorkers, DeleteWorkerQueue, SkipWorker, EndRound, Completer, BeginComplete,
         GetAlloc, DeleteCompleted, AbortComplete, workerVars, historyVars, vars

\* Giving an alloc's size back raises one row and lowers none.
LEMMA CreditRaises ==
  ASSUME TypeOK, NEW a \in Alloc, Credit(a), NEW w \in DOMAIN cap'
  PROVE  w \in DOMAIN cap /\ cap[w] \in Int /\ cap'[w] \in Int /\ cap'[w] >= cap[w]
<1>1. a.eval \in Evals
  BY DEF Alloc
<1>2. Need(a.eval) \in Int /\ Need(a.eval) >= 1
  BY <1>1, NeedPositive
<1>3. w \in DOMAIN cap /\ cap[w] \in Int /\ cap' \in [DOMAIN cap -> Int]
  BY TypeCredit DEF TypeOK
<1> QED
  BY <1>2, <1>3 DEF Credit, creditVars

\* No step takes a worker below both zero and its offer.
LEMMA NoOverclaimStep ==
  ASSUME TypeOK, NoOverclaim, Next
  PROVE  NoOverclaim'
<1> SUFFICES ASSUME NEW w \in DOMAIN cap'
             PROVE  cap'[w] >= 0 \/ cap'[w] >= Capacity[w]
  BY DEF NoOverclaim
<1>1. CASE UNCHANGED cap
  BY <1>1 DEF NoOverclaim
<1>2. ASSUME NEW x \in Workers, PutNewWorker(x)
      PROVE  cap'[w] >= 0 \/ cap'[w] >= Capacity[w]
  <2>1. CASE w = x
    <3>1. cap'[w] = Capacity[w] /\ Capacity[w] \in Int
      BY <1>2, <2>1, CapacityAssumption DEF PutNewWorker
    <3> QED
      BY <3>1
  <2>2. CASE w # x
    <3>1. w \in DOMAIN cap /\ cap'[w] = cap[w]
      BY <1>2, <2>2 DEF PutNewWorker
    <3> QED
      BY <3>1 DEF NoOverclaim
  <2> QED
    BY <2>1, <2>2
<1>3. ASSUME NEW s \in Schedulers, Claim(s)
      PROVE  cap'[w] >= 0 \/ cap'[w] >= Capacity[w]
  <2>1. sched[s] \in SchedState /\ sched[s].pc = "chosen"
    BY <1>3 DEF TypeOK, Claim
  <2>2. sched[s].msg.eval \in Evals
    BY <2>1, SchedFields DEF Message
  <2>3. Claimed(sched[s].msg.eval) \in Int
    BY <2>2, NeedPositive DEF Claimed
  <2> QED
    BY <1>3, <2>3 DEF Claim, ClaimHolds, NoOverclaim, TypeOK
<1>4. ASSUME NEW a \in Alloc, Credit(a)
      PROVE  cap'[w] >= 0 \/ cap'[w] >= Capacity[w]
  <2>1. w \in DOMAIN cap /\ cap[w] \in Int /\ cap'[w] \in Int /\ cap'[w] >= cap[w]
    BY <1>4, CreditRaises
  <2>2. Capacity[w] \in Int
    BY <2>1, CapacityAssumption DEF TypeOK
  <2> QED
    BY <2>1, <2>2 DEF NoOverclaim
<1>5. ASSUME NEW r \in Releasers, CreditExpired(r)
      PROVE  rel[r].cur \in Alloc /\ Credit(rel[r].cur)
  BY <1>5, RelFields DEF TypeOK, CreditExpired
<1>6. ASSUME NEW c \in Completers, CreditCompleted(c)
      PROVE  comp[c].cur \in Alloc /\ Credit(comp[c].cur)
  BY <1>6, CompFields DEF TypeOK, CreditCompleted
<1>7. ASSUME NEW r \in Releasers, DeleteWorker(r)
      PROVE  cap'[w] >= 0 \/ cap'[w] >= Capacity[w]
  BY <1>7 DEF DeleteWorker, Restrict, NoOverclaim
<1>8. \/ UNCHANGED cap
      \/ \E x \in Workers : PutNewWorker(x)
      \/ \E s \in Schedulers : Claim(s)
      \/ \E r \in Releasers : CreditExpired(r) \/ DeleteWorker(r)
      \/ \E c \in Completers : CreditCompleted(c)
  BY CapSteps
<1> QED
  BY <1>1, <1>2, <1>3, <1>4, <1>5, <1>6, <1>7, <1>8

\* NoOverclaim is an invariant: the condition on the claim makes up for the
\* staleness of the query before it, however many schedulers run.
THEOREM NeverOverclaims == Spec => []NoOverclaim
<1>1. Init => NoOverclaim
  BY DEF Init, NoOverclaim
<1>2. TypeOK /\ NoOverclaim /\ [Next]_vars => NoOverclaim'
  BY NoOverclaimStep DEF NoOverclaim, vars
<1> QED
  BY <1>1, <1>2, TypeCorrect, PTL DEF Spec

-----------------------------------------------------------------------------
(* A deregistered worker stays deregistered                                *)

\* Only registering adds a row for a worker, and it does so for a new one.
LEMMA RowsGrow ==
  ASSUME TypeOK, [Next]_vars, NEW w \in DOMAIN cap', w \notin DOMAIN cap
  PROVE  PutNewWorker(w)
<1>1. ASSUME NEW x \in Workers, PutNewWorker(x) PROVE PutNewWorker(w)
  BY <1>1 DEF PutNewWorker
<1>2. ASSUME NEW s \in Schedulers, Claim(s) PROVE DOMAIN cap' = DOMAIN cap
  BY <1>2 DEF Claim, TypeOK
<1>3. ASSUME NEW r \in Releasers, CreditExpired(r) PROVE DOMAIN cap' = DOMAIN cap
  BY <1>3, RelFields, TypeCredit DEF TypeOK, CreditExpired
<1>4. ASSUME NEW c \in Completers, CreditCompleted(c) PROVE DOMAIN cap' = DOMAIN cap
  BY <1>4, CompFields, TypeCredit DEF TypeOK, CreditCompleted
<1>5. ASSUME NEW r \in Releasers, DeleteWorker(r) PROVE DOMAIN cap' \subseteq DOMAIN cap
  BY <1>5 DEF DeleteWorker, Restrict
<1>6. \/ UNCHANGED cap
      \/ \E x \in Workers : PutNewWorker(x)
      \/ \E s \in Schedulers : Claim(s)
      \/ \E r \in Releasers : CreditExpired(r) \/ DeleteWorker(r)
      \/ \E c \in Completers : CreditCompleted(c)
  BY CapSteps
<1> QED
  BY <1>1, <1>2, <1>3, <1>4, <1>5, <1>6

\* The row of a deleted worker never reappears: the late credits of its allocs
\* and the late claims on it all miss.
THEOREM NeverResurrects == Spec => NoResurrection
<1>1. TypeOK /\ [Next]_vars =>
        [\A w \in Workers : w \notin DOMAIN cap /\ reg[w] = "member" =>
            w \notin DOMAIN cap']_vars
  BY RowsGrow DEF PutNewWorker
<1> QED
  BY <1>1, TypeCorrect, PTL DEF Spec, NoResurrection

-----------------------------------------------------------------------------
(* Provenance                                                              *)

\* A record of tries is never shortened, so what was true of a message or an
\* alloc stays true.
LEMMA OkGrows ==
  ASSUME accepted \subseteq accepted', made \subseteq made'
  PROVE  /\ \A m : MessageOk(m) => MessageOk(m)'
         /\ \A a : AllocOk(a) => AllocOk(a)'
         /\ \A e, n : TriesMade(e, n) => TriesMade(e, n)'
  BY DEF MessageOk, AllocOk, TriesMade

\* No step of the API handlers breaks Provenance.
LEMMA ProvenanceApi ==
  ASSUME TypeOK, Provenance,
         \/ \E e \in Evals : ScheduleEval(e)
         \/ \E w \in Workers : CheckPool(w) \/ CreateWorkerQueue(w) \/ PutNewWorker(w)
         \/ DeletePoolQueue
         \/ MarkDisbanded
  PROVE  Provenance'
<1>1. ASSUME NEW e \in Evals, ScheduleEval(e) PROVE Provenance'
  <2>0. PICK m : m = [id |-> sent + 1, eval |-> e, retry |-> 0]
    OBVIOUS
  <2>1. /\ accepted \subseteq accepted' /\ made' = made
        /\ UNCHANGED <<sched, rel, comp, allocs, dead>>
        /\ queue' = queue \cup {m}
        /\ e \in accepted'
    BY <1>1, <2>0 DEF ScheduleEval, SendEval, allocVars
  <2>2. MessageOk(m)'
    BY <2>0, <2>1 DEF MessageOk, TriesMade
  <2> QED
    BY <2>1, <2>2, OkGrows DEF Provenance
<1>2. ASSUME UNCHANGED <<accepted, made, sched, rel, comp, allocs, dead>>, queue' \subseteq queue
      PROVE  Provenance'
  BY <1>2, OkGrows DEF Provenance
<1> QED
  BY <1>1, <1>2 DEF CheckPool, CreateWorkerQueue, PutNewWorker, DeletePoolQueue,
     MarkDisbanded, queueVars, allocVars, historyVars

\* No step of a ReceiveEvals loop breaks Provenance: the alloc it puts counts
\* one try more than the message, and that try is made by putting it.
LEMMA ProvenanceScheduler ==
  ASSUME TypeOK, Provenance, NEW s \in Schedulers, Scheduler(s)
  PROVE  Provenance'
<1>1. CASE PutNewAlloc(s)
  <2> PICK m, a : m = sched[s].msg /\ a = NewAlloc(m, sched[s].wrk)
    OBVIOUS
  <2>1. /\ UNCHANGED <<accepted, queue, rel, comp, dead>>
        /\ allocs' = allocs \cup {a}
        /\ made' = made \cup {[eval |-> a.eval, retry |-> a.retry]}
        /\ sched' = [sched EXCEPT ![s] = [pc |-> "recorded", msg |-> m, alloc |-> a]]
    BY <1>1 DEF PutNewAlloc, SchedUnchanged
  <2>2. MessageOk(m) /\ m \in Message
    BY <1>1, SchedFields DEF PutNewAlloc, Provenance, TypeOK
  <2>3. a.eval = m.eval /\ a.retry = m.retry + 1 /\ m.retry \in Nat
    BY <2>2 DEF NewAlloc, Message
  <2>4. a.retry \in 1 .. MostRetries
    BY <2>2, <2>3, MaxRetryAssumption DEF MessageOk, MostRetries
  <2>5. TriesMade(a.eval, a.retry)'
    <3> SUFFICES ASSUME NEW k \in 1 .. m.retry + 1
                 PROVE  [eval |-> m.eval, retry |-> k] \in made'
      BY <2>1, <2>3 DEF TriesMade
    <3>1. CASE k = m.retry + 1
      BY <2>1, <2>3, <3>1
    <3>2. CASE k \in 1 .. m.retry
      BY <2>1, <2>2, <3>2 DEF MessageOk, TriesMade
    <3> QED
      BY <2>3, <3>1, <3>2
  <2>6. AllocOk(a)'
    BY <2>1, <2>2, <2>3, <2>4, <2>5 DEF AllocOk, MessageOk
  <2>7. MessageOk(m)'
    BY <2>1, <2>2, OkGrows
  <2> QED
    BY <2>1, <2>6, <2>7, OkGrows DEF Provenance, TypeOK
<1>2. ASSUME UNCHANGED <<accepted, made, rel, comp, allocs, dead>>,
             queue' \subseteq queue,
             NEW x, sched' = [sched EXCEPT ![s] = x],
             x.pc # "idle" => MessageOk(x.msg)
      PROVE  Provenance'
  BY <1>2, OkGrows DEF Provenance, TypeOK
<1>3. CASE Receive(s)
  BY <1>2, <1>3 DEF Receive, SchedUnchanged, allocVars, Provenance
<1>4. CASE Choose(s)
  BY <1>2, <1>4 DEF Choose, SchedUnchanged, allocVars, Provenance
<1>5. CASE Claim(s)
  BY <1>2, <1>5 DEF Claim, SchedUnchanged, allocVars, Provenance
<1>6. CASE Notify(s)
  BY <1>2, <1>6 DEF Notify, SchedUnchanged, Provenance
<1>7. CASE Ack(s)
  BY <1>2, <1>7 DEF Ack, SchedUnchanged, allocVars, Idle
<1>8. CASE GiveUp(s)
  BY <1>2, <1>8 DEF GiveUp, SchedUnchanged, allocVars, Idle
<1> QED
  BY <1>1, <1>3, <1>4, <1>5, <1>6, <1>7, <1>8 DEF Scheduler

\* No step of HandleRelease breaks Provenance: an eval is sent again only with
\* retries left, and given up only with none.
LEMMA ProvenanceReleaser ==
  ASSUME TypeOK, Provenance, NEW r \in Releasers, Releaser(r)
  PROVE  Provenance'
<1> DEFINE CopiesOk(x) == x.pc \in {"allocs", "delete", "credit"} =>
                           \A a \in x.todo : AllocOk(a)
<1>0. rel[r] \in RelState /\ CopiesOk(rel[r])
  BY DEF TypeOK, Provenance
<1>1. ASSUME UNCHANGED <<accepted, made, sched, comp, queue, dead>>,
             allocs' \subseteq allocs,
             NEW x, rel' = [rel EXCEPT ![r] = x], CopiesOk(x)
      PROVE  Provenance'
  BY <1>1, OkGrows DEF Provenance, TypeOK
<1>2. CASE Resend(r)
  <2>1. PICK a \in rel[r].todo :
           /\ IF Exhausted(a)
              THEN /\ dead' = dead \cup {[eval |-> a.eval, retry |-> a.retry]}
                   /\ UNCHANGED queueVars
              ELSE /\ UNCHANGED dead
                   /\ IF queueExists THEN SendEval(a.eval, a.retry)
                                     ELSE UNCHANGED queueVars
           /\ rel' = [rel EXCEPT ![r] =
                         [pc |-> "delete", todo |-> rel[r].todo \ {a}, cur |-> a]]
    BY <1>2 DEF Resend
  <2>2. AllocOk(a) /\ CopiesOk(rel[r]) /\ rel[r].pc = "allocs"
    BY <1>0, <1>2, <2>1 DEF Resend
  <2>3. a.retry \in Nat /\ a.retry \in 1 .. MostRetries
    BY <2>2, MaxRetryAssumption DEF AllocOk, MostRetries
  <2>4. UNCHANGED <<accepted, made, sched, comp, allocs>>
    BY <1>2 DEF Resend, RelUnchanged
  <2>5. \A x \in Releasers : CopiesOk(rel[x])'
    BY <2>1, <2>2, <2>4, OkGrows DEF Provenance, TypeOK
  <2>6. \A m \in queue' : MessageOk(m)'
    <3>1. CASE queue' = queue
      BY <2>4, <3>1, OkGrows DEF Provenance
    <3>2. CASE ~Exhausted(a) /\ queueExists
      <4> DEFINE m == [id |-> sent + 1, eval |-> a.eval, retry |-> a.retry]
      <4>1. queue' = queue \cup {m}
        BY <2>1, <3>2 DEF SendEval
      <4>2. MessageOk(m)
        BY <2>2, <2>3, <3>2, MaxRetryAssumption DEF Exhausted, MessageOk, AllocOk
      <4> HIDE DEF m
      <4> QED
        BY <2>4, <4>1, <4>2, OkGrows DEF Provenance
    <3> QED
      BY <2>1, <3>1, <3>2 DEF queueVars
  <2>7. \A d \in dead' : d.retry \in MaxRetry .. MostRetries /\ TriesMade(d.eval, d.retry)'
    <3>1. CASE dead' = dead
      BY <2>4, <3>1, OkGrows DEF Provenance
    <3>2. CASE Exhausted(a)
      <4> DEFINE d == [eval |-> a.eval, retry |-> a.retry]
      <4>1. dead' = dead \cup {d}
        BY <2>1, <3>2
      <4>2. d.retry \in MaxRetry .. MostRetries
        BY <2>3, <3>2, MaxRetryAssumption DEF Exhausted
      <4>3. TriesMade(d.eval, d.retry)
        BY <2>2 DEF AllocOk
      <4> HIDE DEF d
      <4> QED
        BY <2>4, <4>1, <4>2, <4>3, OkGrows DEF Provenance
    <3> QED
      BY <2>1, <3>1, <3>2
  <2> QED
    BY <2>4, <2>5, <2>6, <2>7, OkGrows DEF Provenance
<1>3. CASE QueryAllocs(r)
  <2> PICK todo \in SUBSET allocs : rel' = [rel EXCEPT ![r] = [pc |-> "allocs", todo |-> todo]]
    BY <1>3 DEF QueryAllocs
  <2> QED
    BY <1>1, <1>3 DEF QueryAllocs, RelUnchanged, queueVars, Provenance
<1>4. CASE DeleteExpired(r)
  <2>1. CopiesOk([rel[r] EXCEPT !.pc = "credit"])
    BY <1>0, <1>4, RelFields DEF DeleteExpired
  <2>2. rel' = [rel EXCEPT ![r] = [rel[r] EXCEPT !.pc = "credit"]]
    BY <1>4 DEF DeleteExpired
  <2>3. /\ UNCHANGED <<accepted, made, sched, comp, queue, dead>>
        /\ allocs' \subseteq allocs
    BY <1>4 DEF DeleteExpired, RelUnchanged, queueVars
  <2> HIDE DEF CopiesOk
  <2> QED
    BY <1>1, <2>1, <2>2, <2>3
<1>5. CASE CreditExpired(r)
  BY <1>0, <1>1, <1>5 DEF CreditExpired, RelUnchanged, queueVars
<1>6. CASE SkipAlloc(r)
  BY <1>0, <1>1, <1>6 DEF SkipAlloc, RelUnchanged, queueVars
<1>7. CASE QueryWorkers(r)
  BY <1>1, <1>7 DEF QueryWorkers, RelUnchanged, queueVars
<1>8. CASE DeleteWorkerQueue(r)
  BY <1>1, <1>8 DEF DeleteWorkerQueue, RelUnchanged, queueVars
<1>9. CASE DeleteWorker(r)
  BY <1>1, <1>9 DEF DeleteWorker, RelUnchanged, queueVars
<1>10. CASE SkipWorker(r)
  <2>1. CASE rel[r].pc = "workers"
    <3>1. PICK w \in rel[r].wtodo : rel' = [rel EXCEPT ![r].wtodo = @ \ {w}]
      BY <1>10, <2>1 DEF SkipWorker
    <3>2. CopiesOk([rel[r] EXCEPT !.wtodo = @ \ {w}])
      BY <1>0, <2>1, RelFields
    <3>3. rel' = [rel EXCEPT ![r] = [rel[r] EXCEPT !.wtodo = @ \ {w}]]
      BY <3>1
    <3>4. UNCHANGED <<accepted, made, sched, comp, queue, dead, allocs>>
      BY <1>10 DEF SkipWorker, RelUnchanged, queueVars
    <3> HIDE DEF CopiesOk
    <3> QED
      BY <1>1, <3>2, <3>3, <3>4
  <2>2. CASE rel[r].pc # "workers"
    BY <1>1, <1>10, <2>2 DEF SkipWorker, RelUnchanged, queueVars
  <2> QED
    BY <2>1, <2>2
<1>11. CASE EndRound(r)
  BY <1>1, <1>11 DEF EndRound, RelUnchanged, queueVars, Idle
<1> QED
  BY <1>2, <1>3, <1>4, <1>5, <1>6, <1>7, <1>8, <1>9, <1>10, <1>11 DEF Releaser

\* No step of CompleteAlloc breaks Provenance.
LEMMA ProvenanceCompleter ==
  ASSUME TypeOK, Provenance, NEW c \in Completers, Completer(c)
  PROVE  Provenance'
<1>1. ASSUME UNCHANGED <<accepted, made, sched, rel, queue, dead>>,
             allocs' \subseteq allocs,
             NEW x, comp' = [comp EXCEPT ![c] = x],
             x.pc = "delete" => AllocOk(x.cur)
      PROVE  Provenance'
  BY <1>1, OkGrows DEF Provenance, TypeOK
<1>2. CASE BeginComplete(c)
  BY <1>1, <1>2 DEF BeginComplete, CompUnchanged, queueVars
<1>3. CASE GetAlloc(c)
  BY <1>1, <1>3 DEF GetAlloc, CompUnchanged, queueVars, Provenance
<1>4. CASE DeleteCompleted(c)
  <2>1. comp' = [comp EXCEPT ![c] = [comp[c] EXCEPT !.pc = "credit"]]
    BY <1>4 DEF DeleteCompleted
  <2>2. [comp[c] EXCEPT !.pc = "credit"].pc # "delete"
    BY <1>4, CompFields DEF DeleteCompleted, TypeOK
  <2> QED
    BY <1>1, <1>4, <2>1, <2>2 DEF DeleteCompleted, CompUnchanged, queueVars
<1>5. CASE CreditCompleted(c)
  BY <1>1, <1>5 DEF CreditCompleted, CompUnchanged, queueVars, Idle
<1>6. CASE AbortComplete(c)
  BY <1>1, <1>6 DEF AbortComplete, CompUnchanged, queueVars, Idle
<1> QED
  BY <1>2, <1>3, <1>4, <1>5, <1>6 DEF Completer

\* Provenance is an invariant.
THEOREM ProvenanceHolds == Spec => []Provenance
<1>1. Init => Provenance
  BY DEF Init, Provenance, Idle
<1>2. TypeOK /\ Provenance /\ UNCHANGED vars => Provenance'
  BY OkGrows DEF vars, Provenance
<1>3. TypeOK /\ Provenance /\ [Next]_vars => Provenance'
  BY <1>2, ProvenanceApi, ProvenanceScheduler, ProvenanceReleaser, ProvenanceCompleter
  DEF Next
<1> QED
  BY <1>1, <1>3, TypeCorrect, PTL DEF Spec

\* Retries are bounded: nothing is tried more often than MaxRetry allows
\* (releaseAllocs).
THEOREM RetriesBounded == Spec => []RetryBound
<1>1. Provenance => RetryBound
  BY DEF Provenance, MessageOk, AllocOk, RetryBound
<1> QED
  BY <1>1, ProvenanceHolds, PTL

\* An eval on the dead letter queue has had all its tries: a retry is counted
\* only when an alloc is made (Schedule, releaseAllocs).
THEOREM DeadAfterAllTries == Spec => []EveryTryMade
<1>1. Provenance => EveryTryMade
  BY DEF Provenance, MessageOk, AllocOk, EveryTryMade
<1> QED
  BY <1>1, ProvenanceHolds, PTL

-----------------------------------------------------------------------------
(* No eval is lost                                                         *)

\* Where nothing is deleted, every eval is carried as far as it was.
LEMMA CarriedGrows ==
  ASSUME queue \subseteq queue', allocs \subseteq allocs', dead \subseteq dead', done \subseteq done'
  PROVE  /\ \A e, n : Carried(e, n) => Carried(e, n)'
         /\ \A a : Forwarded(a) => Forwarded(a)'
  BY DEF Carried, Forwarded, Settled

\* Deleting a message loses nothing: the scheduler that deletes it has made an
\* alloc one try further, and whatever has become of that one is further still.
LEMMA AckKeeps ==
  ASSUME TypeOK, HandedOver, queueExists, NEW s \in Schedulers, Ack(s)
  PROVE  /\ \A e \in Evals, n \in Nat : Carried(e, n) => Carried(e, n)'
         /\ \A a \in Alloc : Forwarded(a) => Forwarded(a)'
<1> PICK m : m = sched[s].msg
  OBVIOUS
<1>1. m \in Message
  BY SchedFields DEF TypeOK, Ack
<1>2. Carried(m.eval, m.retry + 1)
  BY DEF HandedOver, Ack
<1>3. queue' = queue \ {m} /\ UNCHANGED <<allocs, dead, done>>
  BY DEF Ack, SchedUnchanged, allocVars
<1>4. m.retry \in Nat /\ \A x \in queue : x.retry \in Nat
  BY <1>1 DEF TypeOK, Message
<1>5. \A a \in allocs : a.retry \in Nat
  BY DEF TypeOK, Alloc
<1>6. \/ Settled(m.eval)
      \/ \E x \in queue' : x.eval = m.eval /\ x.retry >= m.retry + 1
      \/ \E a \in allocs : a.eval = m.eval /\ a.retry >= m.retry + 1
  BY <1>2, <1>3, <1>4 DEF Carried
<1>7. \A e : Settled(e)' <=> Settled(e)
  BY <1>3 DEF Settled
<1>8. ASSUME NEW e \in Evals, NEW n \in Nat, Carried(e, n) PROVE Carried(e, n)'
  <2>1. CASE e = m.eval /\ n <= m.retry
    BY <1>3, <1>4, <1>5, <1>6, <1>7, <2>1 DEF Carried
  <2>2. CASE ~(e = m.eval /\ n <= m.retry)
    BY <1>3, <1>4, <1>7, <1>8, <2>2 DEF Carried
  <2> QED
    BY <2>1, <2>2
<1>9. ASSUME NEW b \in Alloc, Forwarded(b) PROVE Forwarded(b)'
  <2>0. b.retry \in Nat
    BY DEF Alloc
  <2>1. CASE b.eval = m.eval /\ b.retry <= m.retry
    BY <1>3, <1>4, <1>5, <1>6, <1>7, <2>0, <2>1 DEF Forwarded
  <2>2. CASE ~(b.eval = m.eval /\ b.retry <= m.retry)
    BY <1>3, <1>4, <1>7, <1>9, <2>0, <2>2 DEF Forwarded
  <2> QED
    BY <2>1, <2>2
<1> QED
  BY <1>8, <1>9

\* Deleting an expired row loses nothing: its eval was sent on before, and
\* whatever has become of that message is at least as far.
LEMMA DeleteExpiredKeeps ==
  ASSUME TypeOK, HandedOver, queueExists, NEW r \in Releasers, DeleteExpired(r)
  PROVE  /\ \A e \in Evals, n \in Nat : Carried(e, n) => Carried(e, n)'
         /\ \A a \in Alloc : Forwarded(a) => Forwarded(a)'
<1> PICK c : c = rel[r].cur
  OBVIOUS
<1>1. c \in Alloc
  BY RelFields DEF TypeOK, DeleteExpired
<1>2. Forwarded(c)
  BY DEF HandedOver, DeleteExpired
<1>3. allocs' = allocs \ {c} /\ UNCHANGED <<queue, dead, done>>
  BY DEF DeleteExpired, RelUnchanged, queueVars
<1>4. c.retry \in Nat /\ \A x \in queue : x.retry \in Nat
  BY <1>1 DEF TypeOK, Message, Alloc
<1>5. \A a \in allocs : a.retry \in Nat
  BY DEF TypeOK, Alloc
<1>6. \/ Settled(c.eval)
      \/ \E x \in queue : x.eval = c.eval /\ x.retry >= c.retry
      \/ \E a \in allocs' : a.eval = c.eval /\ a.retry > c.retry
  BY <1>2, <1>3, <1>4 DEF Forwarded
<1>7. \A e : Settled(e)' <=> Settled(e)
  BY <1>3 DEF Settled
<1>8. ASSUME NEW e \in Evals, NEW n \in Nat, Carried(e, n) PROVE Carried(e, n)'
  <2>1. CASE e = c.eval /\ n <= c.retry
    BY <1>3, <1>4, <1>5, <1>6, <1>7, <2>1 DEF Carried
  <2>2. CASE ~(e = c.eval /\ n <= c.retry)
    BY <1>3, <1>4, <1>7, <1>8, <2>2 DEF Carried
  <2> QED
    BY <2>1, <2>2
<1>9. ASSUME NEW b \in Alloc, Forwarded(b) PROVE Forwarded(b)'
  <2>0. b.retry \in Nat
    BY DEF Alloc
  <2>1. CASE b.eval = c.eval /\ b.retry < c.retry
    BY <1>3, <1>4, <1>5, <1>6, <1>7, <2>0, <2>1 DEF Forwarded
  <2>2. CASE ~(b.eval = c.eval /\ b.retry < c.retry)
    BY <1>3, <1>4, <1>7, <1>9, <2>0, <2>2 DEF Forwarded
  <2> QED
    BY <2>1, <2>2
<1> QED
  BY <1>8, <1>9

\* Completing an alloc settles its eval, and disturbs no other.
LEMMA DeleteCompletedKeeps ==
  ASSUME TypeOK, NEW c \in Completers, DeleteCompleted(c)
  PROVE  /\ \A e \in Evals, n \in Nat : Carried(e, n) => Carried(e, n)'
         /\ \A a \in Alloc : Forwarded(a) => Forwarded(a)'
<1> PICK d : d = comp[c].cur
  OBVIOUS
<1>1. /\ allocs' = allocs \ {d} /\ done' = done \cup {d.eval}
      /\ UNCHANGED <<queue, dead>>
  BY DEF DeleteCompleted, CompUnchanged, queueVars
<1>2. \A e : Settled(e) => Settled(e)'
  BY <1>1 DEF Settled
<1>3. Settled(d.eval)'
  BY <1>1 DEF Settled
<1>4. ASSUME NEW e \in Evals, NEW n \in Nat, Carried(e, n) PROVE Carried(e, n)'
  BY <1>1, <1>2, <1>3, <1>4 DEF Carried
<1>5. ASSUME NEW b \in Alloc, Forwarded(b) PROVE Forwarded(b)'
  BY <1>1, <1>2, <1>3, <1>5 DEF Forwarded
<1> QED
  BY <1>4, <1>5

\* The queue is not deleted and created again.
LEMMA QueueGone == TypeOK /\ Next /\ queueExists' => queueExists
  BY DEF TypeOK, Next, ScheduleEval, CheckPool, CreateWorkerQueue, PutNewWorker,
         DeletePoolQueue, MarkDisbanded, Scheduler, Receive, Choose, Claim,
         PutNewAlloc, Notify, Ack, GiveUp, Releaser, QueryAllocs, Resend,
         DeleteExpired, CreditExpired, SkipAlloc, QueryWorkers, DeleteWorkerQueue,
         DeleteWorker, SkipWorker, EndRound, Completer, BeginComplete, GetAlloc,
         DeleteCompleted, CreditCompleted, AbortComplete, poolVars, SchedUnchanged,
         RelUnchanged, CompUnchanged

\* While the pool has its queue, no step takes an eval back.
LEMMA CarriedKept ==
  ASSUME TypeOK, HandedOver, Next, queueExists'
  PROVE  /\ \A e \in Evals, n \in Nat : Carried(e, n) => Carried(e, n)'
         /\ \A a \in Alloc : Forwarded(a) => Forwarded(a)'
<1>0. queueExists
  BY QueueGone
<1>1. \/ /\ queue \subseteq queue' /\ allocs \subseteq allocs'
         /\ dead \subseteq dead' /\ done \subseteq done'
      \/ \E s \in Schedulers : Ack(s)
      \/ \E r \in Releasers : DeleteExpired(r)
      \/ \E c \in Completers : DeleteCompleted(c)
  <2>1. ASSUME NEW e \in Evals, ScheduleEval(e)
        PROVE  queue \subseteq queue' /\ UNCHANGED <<allocs, dead, done>>
    BY <2>1 DEF ScheduleEval, SendEval, allocVars
  <2>2. ASSUME NEW w \in Workers, CheckPool(w) \/ CreateWorkerQueue(w) \/ PutNewWorker(w)
        PROVE  UNCHANGED <<queue, allocs, dead, done>>
    BY <2>2 DEF CheckPool, CreateWorkerQueue, PutNewWorker, queueVars, allocVars, historyVars
  <2>3. ~DeletePoolQueue
    BY DEF DeletePoolQueue
  <2>4. ASSUME MarkDisbanded
        PROVE  UNCHANGED <<queue, allocs, dead, done>>
    BY <2>4 DEF MarkDisbanded, queueVars, allocVars, historyVars
  <2>5. ASSUME NEW s \in Schedulers, Scheduler(s), ~Ack(s)
        PROVE  UNCHANGED <<queue, dead, done>> /\ allocs \subseteq allocs'
    BY <2>5 DEF Scheduler, Receive, Choose, Claim, PutNewAlloc, Notify, GiveUp,
                SchedUnchanged, allocVars
  <2>6. ASSUME NEW r \in Releasers, Releaser(r), ~DeleteExpired(r)
        PROVE  queue \subseteq queue' /\ dead \subseteq dead' /\ UNCHANGED <<allocs, done>>
    BY <2>6 DEF Releaser, QueryAllocs, Resend, SendEval, CreditExpired, SkipAlloc,
                QueryWorkers, DeleteWorkerQueue, DeleteWorker, SkipWorker, EndRound,
                RelUnchanged, queueVars
  <2>7. ASSUME NEW c \in Completers, Completer(c), ~DeleteCompleted(c)
        PROVE  UNCHANGED <<queue, dead, allocs, done>>
    BY <2>7 DEF Completer, BeginComplete, GetAlloc, CreditCompleted, AbortComplete,
                CompUnchanged, queueVars
  <2> QED
    BY <2>1, <2>2, <2>3, <2>4, <2>5, <2>6, <2>7 DEF Next
<1> QED
  BY <1>0, <1>1, CarriedGrows, AckKeeps, DeleteExpiredKeeps, DeleteCompletedKeeps

\* A scheduler that is about to delete a message has handed its eval over.
LEMMA HandedOverSchedulers ==
  ASSUME TypeOK, HandedOver, Next, queueExists', NEW s \in Schedulers,
         sched'[s].pc \in {"recorded", "posted"}
  PROVE  Carried(sched[s].msg.eval, sched[s].msg.retry + 1)'
<1> PICK m : m = sched'[s].msg
  OBVIOUS
<1> SUFFICES Carried(m.eval, m.retry + 1)'
  OBVIOUS
<1>0. queueExists
  BY QueueGone
<1>1. ASSUME sched[s].pc \in {"recorded", "posted"}, sched[s].msg = m
      PROVE  Carried(m.eval, m.retry + 1)'
  <2>1. m.eval \in Evals /\ m.retry + 1 \in Nat
    BY <1>1, SchedFields DEF TypeOK, Message
  <2>2. Carried(m.eval, m.retry + 1)
    BY <1>0, <1>1 DEF HandedOver
  <2> QED
    BY <2>1, <2>2, CarriedKept
<1>2. CASE sched'[s] = sched[s]
  BY <1>1, <1>2
<1>3. CASE PutNewAlloc(s)
  <2> PICK a : a = NewAlloc(sched[s].msg, sched[s].wrk)
    OBVIOUS
  <2>1. a \in allocs' /\ m = sched[s].msg /\ m \in Message
    BY <1>3, SchedFields DEF PutNewAlloc, TypeOK
  <2>2. a.eval = m.eval /\ a.retry = m.retry + 1 /\ m.retry \in Nat
    BY <2>1 DEF NewAlloc, Message
  <2>3. a.retry >= m.retry + 1
    BY <2>2
  <2> QED
    BY <2>1, <2>2, <2>3 DEF Carried
<1>4. CASE Notify(s)
  <2>1. sched[s].pc = "recorded" /\ sched[s].msg = m
    BY <1>4 DEF Notify, TypeOK
  <2> QED
    BY <1>1, <2>1
<1>5. ASSUME NEW t \in Schedulers, Scheduler(t)
      PROVE  sched'[s] = sched[s] \/ PutNewAlloc(s) \/ Notify(s)
  <2>1. CASE t # s
    BY <1>5, <2>1 DEF Scheduler, Receive, Choose, Claim, PutNewAlloc, Notify, Ack,
                      GiveUp, TypeOK
  <2>2. CASE t = s
    BY <1>5, <2>2 DEF Scheduler, Receive, Choose, Claim, Ack, GiveUp, Idle, TypeOK
  <2> QED
    BY <2>1, <2>2
<1>6. UNCHANGED sched \/ \E t \in Schedulers : Scheduler(t)
  BY DEF Next, ScheduleEval, CheckPool, CreateWorkerQueue, PutNewWorker,
         DeletePoolQueue, MarkDisbanded, Releaser, QueryAllocs, Resend,
         DeleteExpired, CreditExpired, SkipAlloc, QueryWorkers, DeleteWorkerQueue,
         DeleteWorker, SkipWorker, EndRound, Completer, BeginComplete, GetAlloc,
         DeleteCompleted, CreditCompleted, AbortComplete, RelUnchanged, CompUnchanged
<1> QED
  BY <1>2, <1>3, <1>4, <1>5, <1>6

\* A releaser that is about to delete a row has sent its eval on.
LEMMA HandedOverReleasers ==
  ASSUME TypeOK, HandedOver, Next, queueExists', NEW r \in Releasers,
         rel'[r].pc = "delete"
  PROVE  Forwarded(rel[r].cur)'
<1> PICK c : c = rel'[r].cur
  OBVIOUS
<1> SUFFICES Forwarded(c)'
  OBVIOUS
<1>0. queueExists
  BY QueueGone
<1>1. CASE rel'[r] = rel[r]
  <2>1. c \in Alloc /\ Forwarded(c)
    BY <1>0, <1>1, RelFields DEF HandedOver, TypeOK
  <2> QED
    BY <2>1, CarriedKept
<1>2. CASE Resend(r)
  <2>1. PICK a \in rel[r].todo :
           /\ IF Exhausted(a)
              THEN /\ dead' = dead \cup {[eval |-> a.eval, retry |-> a.retry]}
                   /\ UNCHANGED queueVars
              ELSE /\ UNCHANGED dead
                   /\ IF queueExists THEN SendEval(a.eval, a.retry)
                                     ELSE UNCHANGED queueVars
           /\ rel' = [rel EXCEPT ![r] =
                         [pc |-> "delete", todo |-> rel[r].todo \ {a}, cur |-> a]]
    BY <1>2 DEF Resend
  <2>2. c = a
    BY <2>1 DEF TypeOK
  <2>3. a.retry \in Nat
    BY <1>2, <2>1, RelFields DEF TypeOK, Resend, Alloc
  <2>4. CASE Exhausted(a)
    <3> PICK d : d = [eval |-> a.eval, retry |-> a.retry]
      OBVIOUS
    <3>1. d \in dead' /\ d.eval = a.eval
      BY <2>1, <2>4
    <3> QED
      BY <2>2, <3>1 DEF Forwarded, Settled
  <2>5. CASE ~Exhausted(a)
    <3> PICK m : m = [id |-> sent + 1, eval |-> a.eval, retry |-> a.retry]
      OBVIOUS
    <3>1. m \in queue' /\ m.eval = a.eval /\ m.retry >= a.retry
      BY <1>0, <2>1, <2>3, <2>5 DEF SendEval
    <3> QED
      BY <2>2, <3>1 DEF Forwarded
  <2> QED
    BY <2>4, <2>5
<1>3. ASSUME NEW q \in Releasers, Releaser(q)
      PROVE  rel'[r] = rel[r] \/ Resend(r)
  <2>1. CASE q # r
    BY <1>3, <2>1 DEF Releaser, QueryAllocs, Resend, DeleteExpired, CreditExpired,
                      SkipAlloc, QueryWorkers, DeleteWorkerQueue, DeleteWorker,
                      SkipWorker, EndRound, TypeOK
  <2>2. CASE q = r
    <3>1. ASSUME DeleteExpired(r) PROVE FALSE
      BY <3>1, RelFields DEF DeleteExpired, TypeOK
    <3>2. ASSUME SkipWorker(r) PROVE FALSE
      <4>1. CASE rel[r].pc = "workers"
        <5>1. PICK w : rel' = [rel EXCEPT ![r] = [rel[r] EXCEPT !.wtodo = @ \ {w}]]
          BY <3>2, <4>1 DEF SkipWorker
        <5>2. rel[r] = [pc |-> "workers", wtodo |-> rel[r].wtodo]
          BY <4>1, RelFields DEF TypeOK
        <5>3. [rel[r] EXCEPT !.wtodo = @ \ {w}].pc = "workers"
          BY <5>2
        <5> QED
          BY <5>1, <5>3 DEF TypeOK
      <4>2. CASE rel[r].pc # "workers"
        BY <3>2, <4>2 DEF SkipWorker, TypeOK
      <4> QED
        BY <4>1, <4>2
    <3> QED
      BY <1>3, <2>2, <3>1, <3>2 DEF Releaser, QueryAllocs, CreditExpired, SkipAlloc,
         QueryWorkers, DeleteWorkerQueue, DeleteWorker, EndRound, Idle, TypeOK
  <2> QED
    BY <2>1, <2>2
<1>4. UNCHANGED rel \/ \E q \in Releasers : Releaser(q)
  BY DEF Next, ScheduleEval, CheckPool, CreateWorkerQueue, PutNewWorker,
         DeletePoolQueue, MarkDisbanded, Scheduler, Receive, Choose, Claim,
         PutNewAlloc, Notify, Ack, GiveUp, Completer, BeginComplete, GetAlloc,
         DeleteCompleted, CreditCompleted, AbortComplete, SchedUnchanged, CompUnchanged
<1> QED
  BY <1>1, <1>2, <1>3, <1>4

\* HandedOver is an invariant: each deletion is covered before it happens.
THEOREM AlwaysHandedOver == Spec => []HandedOver
<1>1. Init => HandedOver
  BY DEF Init, HandedOver, Idle
<1>2. TypeOK /\ HandedOver /\ Next => HandedOver'
  BY HandedOverSchedulers, HandedOverReleasers DEF HandedOver
<1>3. HandedOver /\ UNCHANGED vars => HandedOver'
  BY DEF HandedOver, Carried, Forwarded, Settled, vars
<1> QED
  BY <1>1, <1>2, <1>3, TypeCorrect, PTL DEF Spec

\* EvalNeverLost is an invariant: as long as the pool has its queue, every
\* accepted eval is settled, on a queue or on a worker, whatever fails.
THEOREM EvalsNeverLost == Spec => []EvalNeverLost
<1>1. Init => EvalNeverLost
  BY DEF Init, EvalNeverLost
<1>2. ASSUME TypeOK, HandedOver, EvalNeverLost, Next
      PROVE  EvalNeverLost'
  <2> SUFFICES ASSUME queueExists', NEW e \in accepted' PROVE Carried(e, 0)'
    BY DEF EvalNeverLost
  <2>0. queueExists
    BY <1>2, QueueGone
  <2>1. CASE e \in accepted
    <3>1. e \in Evals /\ Carried(e, 0)
      BY <1>2, <2>0, <2>1 DEF EvalNeverLost, TypeOK
    <3> QED
      BY <1>2, <3>1, CarriedKept
  <2>2. CASE ScheduleEval(e)
    <3> PICK m : m = [id |-> sent + 1, eval |-> e, retry |-> 0]
      OBVIOUS
    <3>1. m \in queue' /\ m.eval = e /\ m.retry >= 0
      BY <2>2 DEF ScheduleEval, SendEval
    <3> QED
      BY <3>1 DEF Carried
  <2>3. accepted' = accepted \/ \E f \in Evals : ScheduleEval(f)
    BY <1>2 DEF Next, CheckPool, CreateWorkerQueue, PutNewWorker, DeletePoolQueue,
         MarkDisbanded, Scheduler, Receive, Choose, Claim, PutNewAlloc, Notify, Ack,
         GiveUp, Releaser, QueryAllocs, Resend, DeleteExpired, CreditExpired,
         SkipAlloc, QueryWorkers, DeleteWorkerQueue, DeleteWorker, SkipWorker,
         EndRound, Completer, BeginComplete, GetAlloc, DeleteCompleted,
         CreditCompleted, AbortComplete, SchedUnchanged, RelUnchanged,
         CompUnchanged, historyVars
  <2>4. e \in accepted \/ ScheduleEval(e)
    BY <2>3 DEF ScheduleEval
  <2> QED
    BY <2>1, <2>2, <2>4
<1>3. EvalNeverLost /\ UNCHANGED vars => EvalNeverLost'
  BY DEF EvalNeverLost, Carried, Settled, vars
<1> QED
  BY <1>1, <1>2, <1>3, TypeCorrect, AlwaysHandedOver, PTL DEF Spec

-----------------------------------------------------------------------------
(* The pool keeps its promise                                              *)

\* Every step of the pool is a step of the ledger or leaves it unchanged.
LEMMA LedgerStep ==
  ASSUME TypeOK, Provenance, EvalNeverLost, EvalNeverLost', Next
  PROVE  L!Next \/ UNCHANGED L!ledgerVars
<1> DEFINE S(e) == IF Settled(e) THEN "settled"
                   ELSE IF e \notin accepted THEN "new"
                   ELSE IF queueExists THEN "owed"
                   ELSE "dropped"
<1>0. /\ Standing = [e \in Evals |-> S(e)]
      /\ Standing' = [e \in Evals |-> S(e)']
  <2>1. Standing = [e \in Evals |-> S(e)]
    BY DEF Standing, EvalNeverLost
  <2>2. Standing' = [e \in Evals |-> S(e)']
    BY DEF Standing, EvalNeverLost
  <2> QED
    BY <2>1, <2>2
<1>1. ASSUME UNCHANGED <<queueExists, accepted>>,
             \A e \in Evals : Settled(e)' <=> Settled(e)
      PROVE  UNCHANGED L!ledgerVars
  BY <1>0, <1>1 DEF L!ledgerVars
<1>2. ASSUME UNCHANGED <<queueExists, accepted>>, NEW x \in Evals, x \in accepted,
             \A e \in Evals : Settled(e)' <=> Settled(e) \/ e = x
      PROVE  L!Next \/ UNCHANGED L!ledgerVars
  <2>1. CASE Settled(x)
    BY <1>1, <1>2, <2>1
  <2>2. CASE ~Settled(x)
    <3>1. Standing[x] \in {"owed", "dropped"}
      BY <1>0, <1>2, <2>2
    <3>2. Standing' = [Standing EXCEPT ![x] = "settled"]
      BY <1>0, <1>2
    <3>3. L!Settle(x)
      BY <1>2, <3>1, <3>2 DEF L!Settle
    <3> QED
      BY <3>3 DEF L!Next
  <2> QED
    BY <2>1, <2>2
<1>3. ASSUME NEW x \in Evals, ScheduleEval(x)
      PROVE  L!Next \/ UNCHANGED L!ledgerVars
  <2>1. /\ queueExists /\ queueExists' /\ x \notin accepted
        /\ accepted' = accepted \cup {x}
        /\ \A e \in Evals : Settled(e)' <=> Settled(e)
    BY <1>3 DEF ScheduleEval, poolVars, Settled
  <2>2. CASE Settled(x)
    <3>1. Standing' = Standing
      BY <1>0, <2>1, <2>2
    <3> QED
      BY <1>3, <3>1 DEF L!ledgerVars, ScheduleEval, poolVars
  <2>3. CASE ~Settled(x)
    <3>1. Standing[x] = "new" /\ Standing' = [Standing EXCEPT ![x] = "owed"]
      BY <1>0, <2>1, <2>3
    <3>2. L!Accept(x)
      BY <1>3, <2>1, <3>1 DEF L!Accept, ScheduleEval, poolVars
    <3> QED
      BY <3>2 DEF L!Next
  <2> QED
    BY <2>2, <2>3
<1>4. CASE DeletePoolQueue
  <2>1. /\ queueExists /\ queueExists' = FALSE
        /\ accepted' = accepted
        /\ \A e \in Evals : Settled(e)' <=> Settled(e)
    BY <1>4 DEF DeletePoolQueue, historyVars, Settled
  <2>2. Standing' = [e \in Evals |-> IF Standing[e] = "owed" THEN "dropped" ELSE Standing[e]]
    BY <1>0, <2>1
  <2>3. L!Close
    BY <2>1, <2>2 DEF L!Close
  <2> QED
    BY <2>3 DEF L!Next
<1>5. ASSUME NEW r \in Releasers, Resend(r)
      PROVE  L!Next \/ UNCHANGED L!ledgerVars
  <2>1. PICK a \in rel[r].todo :
           IF Exhausted(a)
           THEN dead' = dead \cup {[eval |-> a.eval, retry |-> a.retry]}
           ELSE UNCHANGED dead
    BY <1>5 DEF Resend
  <2>2. a.eval \in accepted /\ a.eval \in Evals
    BY <1>5, <2>1 DEF Resend, Provenance, AllocOk, TypeOK
  <2>3. UNCHANGED <<queueExists, accepted, done>>
    BY <1>5 DEF Resend, RelUnchanged, poolVars
  <2>4. CASE Exhausted(a)
    <3> PICK d : d = [eval |-> a.eval, retry |-> a.retry]
      OBVIOUS
    <3>0. dead' = dead \cup {d} /\ d.eval = a.eval
      BY <2>1, <2>4
    <3>1. \A e \in Evals : Settled(e)' <=> Settled(e) \/ e = a.eval
      BY <2>3, <3>0 DEF Settled
    <3> QED
      BY <1>2, <2>2, <2>3, <3>1
  <2>5. CASE ~Exhausted(a)
    <3>1. \A e \in Evals : Settled(e)' <=> Settled(e)
      BY <2>1, <2>3, <2>5 DEF Settled
    <3> QED
      BY <1>1, <2>3, <3>1
  <2> QED
    BY <2>4, <2>5
<1>6. ASSUME NEW c \in Completers, DeleteCompleted(c)
      PROVE  L!Next \/ UNCHANGED L!ledgerVars
  <2>1. comp[c].cur.eval \in accepted /\ comp[c].cur.eval \in Evals
    BY <1>6 DEF DeleteCompleted, Provenance, AllocOk, TypeOK
  <2>2. /\ UNCHANGED <<queueExists, accepted, dead>>
        /\ done' = done \cup {comp[c].cur.eval}
    BY <1>6 DEF DeleteCompleted, CompUnchanged, poolVars
  <2>3. \A e \in Evals : Settled(e)' <=> Settled(e) \/ e = comp[c].cur.eval
    BY <2>2 DEF Settled
  <2> QED
    BY <1>2, <2>1, <2>2, <2>3
<1>7. ASSUME UNCHANGED <<queueExists, accepted, dead, done>>
      PROVE  UNCHANGED L!ledgerVars
  <2>1. \A e \in Evals : Settled(e)' <=> Settled(e)
    BY <1>7 DEF Settled
  <2> QED
    BY <1>1, <1>7, <2>1
<1>8. \/ \E e \in Evals : ScheduleEval(e)
      \/ DeletePoolQueue
      \/ \E r \in Releasers : Resend(r)
      \/ \E c \in Completers : DeleteCompleted(c)
      \/ UNCHANGED <<queueExists, accepted, dead, done>>
  BY DEF Next, CheckPool, CreateWorkerQueue, PutNewWorker, MarkDisbanded,
         Scheduler, Receive, Choose, Claim, PutNewAlloc, Notify, Ack, GiveUp,
         Releaser, QueryAllocs, DeleteExpired, CreditExpired, SkipAlloc,
         QueryWorkers, DeleteWorkerQueue, DeleteWorker, SkipWorker, EndRound,
         Completer, BeginComplete, GetAlloc, CreditCompleted, AbortComplete,
         SchedUnchanged, RelUnchanged, CompUnchanged, poolVars, historyVars
<1> QED
  BY <1>3, <1>4, <1>5, <1>6, <1>7, <1>8

\* Dispatch implements Ledger: an accepted eval is owed until it is completed
\* or dead-lettered, and is dropped only by disbanding the pool.
THEOREM LedgerKept == Spec => KeepsLedger
<1>1. Init => L!Init
  <2> SUFFICES ASSUME Init PROVE L!Init
    OBVIOUS
  <2>1. \A e \in Evals : ~Settled(e) /\ e \notin accepted
    BY DEF Init, Settled
  <2>2. Standing = [e \in Evals |-> "new"]
    BY <2>1 DEF Standing
  <2> QED
    BY <2>2 DEF Init, L!Init
<1>2. UNCHANGED vars => UNCHANGED L!ledgerVars
  BY DEF vars, L!ledgerVars, Standing, Settled, Carried
<1>3. TypeOK /\ Provenance /\ EvalNeverLost /\ EvalNeverLost' /\ [Next]_vars
        => [L!Next]_L!ledgerVars
  BY <1>2, LedgerStep
<1> QED
  BY <1>1, <1>3, TypeCorrect, ProvenanceHolds, EvalsNeverLost, PTL DEF Spec, L!Spec, KeepsLedger
=============================================================================
