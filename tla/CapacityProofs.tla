--------------------------- MODULE CapacityProofs ---------------------------
(***************************************************************************)
(* No capacity is invented: what a worker has free, what is claimed of it  *)
(* and what may still be given back to it never exceed what it offered,    *)
(* for any number of evals, workers and concurrent invocations.            *)
(***************************************************************************)
EXTENDS DispatchProofs, FiniteSetTheorems

-----------------------------------------------------------------------------
(* Sums. size and less are functions with finitely many values, each a     *)
(* natural number.                                                         *)

\* An element of value n has n units.
LEMMA UnitsOfOne ==
  ASSUME NEW x, NEW n \in Nat
  PROVE  IsFiniteSet({x} \X (1 .. n)) /\ Cardinality({x} \X (1 .. n)) = n
<1>1. IsFiniteSet({x}) /\ Cardinality({x}) = 1
  BY FS_Singleton
<1>2. IsFiniteSet(1 .. n) /\ Cardinality(1 .. n) = n
  BY FS_Interval
<1>3. /\ IsFiniteSet({x} \X (1 .. n))
      /\ Cardinality({x} \X (1 .. n)) = Cardinality({x}) * Cardinality(1 .. n)
  BY <1>1, <1>2, FS_Product
<1> QED
  BY <1>1, <1>2, <1>3

\* A finite function has finitely many units.
LEMMA TotalType ==
  ASSUME NEW size, IsFiniteSet(DOMAIN size), \A x \in DOMAIN size : size[x] \in Nat
  PROVE  IsFiniteSet(Units(size)) /\ Total(size) \in Nat
<1> DEFINE Of(x) == {x} \X (1 .. size[x])
           S == {Of(x) : x \in DOMAIN size}
           f == [x \in DOMAIN size |-> Of(x)]
<1>1. f \in Surjection(DOMAIN size, S)
  <2>1. f \in [DOMAIN size -> S]
    OBVIOUS
  <2>2. \A T \in S : \E x \in DOMAIN size : f[x] = T
    OBVIOUS
  <2> QED
    BY <2>1, <2>2, Zenon DEF Surjection
<1>2. IsFiniteSet(S)
  BY <1>1, FS_Surjection
<1>3. \A x \in DOMAIN size : IsFiniteSet(Of(x))
  BY UnitsOfOne
<1>4. IsFiniteSet(UNION S)
  BY <1>2, <1>3, FS_UNION
<1> QED
  BY <1>4, FS_CardinalityType DEF Units, Total

\* A function of nothing has the sum zero.
LEMMA TotalNone ==
  ASSUME NEW size, DOMAIN size = {}
  PROVE  Total(size) = 0
<1>1. Units(size) = {}
  BY DEF Units
<1> QED
  BY <1>1, FS_EmptySet DEF Total

\* One element more adds at most its value to the sum.
LEMMA TotalPlus ==
  ASSUME NEW size, IsFiniteSet(DOMAIN size), \A y \in DOMAIN size : size[y] \in Nat,
         NEW more, NEW x, NEW n \in Nat,
         DOMAIN more \subseteq DOMAIN size \cup {x},
         \A y \in DOMAIN more : more[y] = IF y = x THEN n ELSE size[y]
  PROVE  Total(more) \in Nat /\ Total(more) <= Total(size) + n
<1> DEFINE new == {x} \X (1 .. n)
<1>1. IsFiniteSet(new) /\ Cardinality(new) = n
  BY UnitsOfOne
<1>2. IsFiniteSet(Units(size)) /\ Total(size) \in Nat
  BY TotalType
<1>3. Units(more) \subseteq Units(size) \cup new
  BY DEF Units
<1> HIDE DEF new
<1>4. /\ IsFiniteSet(Units(size) \cup new)
      /\ Cardinality(Units(size) \cup new) <= Total(size) + n
  <2>1. Cardinality(Units(size) \cap new) \in Nat
    BY <1>1, <1>2, FS_Intersection, FS_CardinalityType
  <2> QED
    BY <1>1, <1>2, <2>1, FS_Union DEF Total
<1>5. Cardinality(Units(more)) \in Nat
  BY <1>3, <1>4, FS_Subset, FS_CardinalityType
<1>6. Cardinality(Units(more)) <= Cardinality(Units(size) \cup new)
  BY <1>3, <1>4, FS_Subset
<1>7. Cardinality(Units(size) \cup new) \in Nat
  BY <1>4, FS_CardinalityType
<1> QED
  BY <1>2, <1>4, <1>5, <1>6, <1>7 DEF Total

\* A part of a sum is no more than the sum.
LEMMA TotalPart ==
  ASSUME NEW size, IsFiniteSet(DOMAIN size), \A y \in DOMAIN size : size[y] \in Nat,
         NEW part, DOMAIN part \subseteq DOMAIN size,
         \A y \in DOMAIN part : part[y] = size[y]
  PROVE  Total(part) \in Nat /\ Total(part) <= Total(size)
<1>1. Units(part) \subseteq Units(size)
  BY DEF Units
<1>2. IsFiniteSet(Units(size))
  BY TotalType
<1> QED
  BY <1>1, <1>2, FS_Subset, FS_CardinalityType DEF Total

\* One element less takes at least its value from the sum.
LEMMA TotalMinus ==
  ASSUME NEW size, IsFiniteSet(DOMAIN size), \A y \in DOMAIN size : size[y] \in Nat,
         NEW x \in DOMAIN size, NEW less, DOMAIN less \subseteq DOMAIN size \ {x},
         \A y \in DOMAIN less : less[y] = size[y]
  PROVE  Total(less) \in Nat /\ Total(less) + size[x] <= Total(size)
<1> DEFINE old == {x} \X (1 .. size[x])
<1>1. IsFiniteSet(old) /\ Cardinality(old) = size[x]
  BY UnitsOfOne
<1>2. IsFiniteSet(Units(size)) /\ Total(size) \in Nat
  BY TotalType
<1>3. Units(less) \cup old \subseteq Units(size)
  BY DEF Units
<1>4. Units(less) \cap old = {}
  BY DEF Units
<1> HIDE DEF old
<1>5. IsFiniteSet(Units(less))
  BY <1>2, <1>3, FS_Subset
<1>6. Cardinality(Units(less) \cup old) = Cardinality(Units(less)) + Cardinality(old)
  <2>1. /\ Cardinality(Units(less)) \in Nat /\ Cardinality(old) \in Nat
        /\ Cardinality(Units(less) \cap old) = 0
    BY <1>1, <1>4, <1>5, FS_EmptySet, FS_CardinalityType
  <2>2. Cardinality(Units(less) \cup old)
          = Cardinality(Units(less)) + Cardinality(old) - Cardinality(Units(less) \cap old)
    BY <1>1, <1>5, FS_Union
  <2> QED
    BY <2>1, <2>2
<1>7. Cardinality(Units(less) \cup old) <= Cardinality(Units(size))
  BY <1>2, <1>3, FS_Subset
<1>8. Cardinality(Units(less)) \in Nat
  BY <1>5, FS_CardinalityType
<1>9. size[x] \in Nat
  OBVIOUS
<1> QED
  BY <1>1, <1>2, <1>6, <1>7, <1>8, <1>9 DEF Total

-----------------------------------------------------------------------------
(* The inductive invariant                                                 *)

AllClaims == {s \in Schedulers : sched[s].pc = "claimed"}

\* Only workers that have registered are known to any row or local state, so a
\* new row starts with nothing outstanding on it.
OnlyMembers ==
    /\ \A w \in DOMAIN cap : reg[w] = "member"
    /\ \A a \in Copies : reg[a.wrk] = "member"
    /\ \A s \in Schedulers : sched[s].pc \in {"chosen", "claimed"} =>
          reg[sched[s].wrk] = "member"

\* The sums of CapacityAccounted are finite, whatever the constants.
FewHolders == IsFiniteSet(Copies) /\ IsFiniteSet(AllClaims)

\* What makes CapacityAccounted inductive: its sum counts every copy from which
\* a size may be given back, so a copy that outlives its row changes nothing.
Accounts == OnlyMembers /\ FewHolders /\ CapacityAccounted

\* Where a copy of an alloc may be.
LEMMA CopyPlaces ==
  ASSUME NEW a
  PROVE  a \in Copies <=>
           \/ a \in allocs
           \/ \E r \in Releasers : /\ rel[r].pc \in {"allocs", "delete", "credit"}
                                   /\ a \in rel[r].todo
           \/ \E r \in Releasers : /\ rel[r].pc \in {"delete", "credit"}
                                   /\ a = rel[r].cur
           \/ \E c \in Completers : /\ comp[c].pc \in {"delete", "credit"}
                                    /\ a = comp[c].cur
  BY DEF Copies

\* Every copy is an alloc.
LEMMA CopiesTyped ==
  ASSUME TypeOK
  PROVE  Copies \subseteq Alloc
<1>1. ASSUME NEW r \in Releasers
      PROVE  /\ rel[r].pc \in {"allocs", "delete", "credit"} => rel[r].todo \subseteq Alloc
             /\ rel[r].pc \in {"delete", "credit"} => rel[r].cur \in Alloc
  BY RelFields DEF TypeOK
<1>2. ASSUME NEW c \in Completers
      PROVE  comp[c].pc \in {"delete", "credit"} => comp[c].cur \in Alloc
  BY CompFields DEF TypeOK
<1> SUFFICES ASSUME NEW a \in Copies PROVE a \in Alloc
  OBVIOUS
<1>3. CASE a \in allocs
  BY <1>3 DEF TypeOK
<1> QED
  BY <1>1, <1>2, <1>3, CopyPlaces

\* The sums over a worker's allocs and claims are sums of natural numbers.
LEMMA SumsTyped ==
  ASSUME TypeOK, FewHolders, NEW w
  PROVE  /\ IsFiniteSet(DOMAIN Outstanding(w))
         /\ \A a \in DOMAIN Outstanding(w) : Outstanding(w)[a] \in Nat
         /\ Total(Outstanding(w)) \in Nat
         /\ IsFiniteSet(DOMAIN Claims(w))
         /\ \A s \in DOMAIN Claims(w) : Claims(w)[s] \in Nat
         /\ Total(Claims(w)) \in Nat
<1>1. IsFiniteSet(DOMAIN Outstanding(w))
  <2>1. DOMAIN Outstanding(w) \in SUBSET Copies
    BY DEF Outstanding
  <2> QED
    BY <2>1, FS_Subset DEF FewHolders
<1>2. ASSUME NEW a \in DOMAIN Outstanding(w) PROVE Outstanding(w)[a] \in Nat
  <2>1. a \in Copies /\ Outstanding(w)[a] = Need(a.eval)
    BY DEF Outstanding
  <2>2. a.eval \in Evals
    BY <2>1, CopiesTyped DEF Alloc
  <2> QED
    BY <2>1, <2>2, NeedPositive
<1>3. IsFiniteSet(DOMAIN Claims(w))
  <2>1. DOMAIN Claims(w) \in SUBSET AllClaims
    BY DEF Claims, AllClaims
  <2> QED
    BY <2>1, FS_Subset DEF FewHolders
<1>4. ASSUME NEW s \in DOMAIN Claims(w) PROVE Claims(w)[s] \in Nat
  <2>1. s \in Schedulers /\ sched[s].pc = "claimed" /\ Claims(w)[s] = Need(sched[s].msg.eval)
    BY DEF Claims
  <2>2. sched[s].msg.eval \in Evals
    BY <2>1, SchedFields DEF TypeOK, Message
  <2> QED
    BY <2>1, <2>2, NeedPositive
<1> QED
  BY <1>1, <1>2, <1>3, <1>4, TotalType

\* Where a copy of an alloc may be after a step.
LEMMA CopyPlacesNext ==
  ASSUME NEW a
  PROVE  a \in Copies' <=>
           \/ a \in allocs'
           \/ \E r \in Releasers : /\ rel'[r].pc \in {"allocs", "delete", "credit"}
                                   /\ a \in rel'[r].todo
           \/ \E r \in Releasers : /\ rel'[r].pc \in {"delete", "credit"}
                                   /\ a = rel'[r].cur
           \/ \E c \in Completers : /\ comp'[c].pc \in {"delete", "credit"}
                                    /\ a = comp'[c].cur
  BY DEF Copies

\* Copies are only made of what has a copy: a releaser makes none but of rows
\* and of what it holds already.
LEMMA CopiesReleaser ==
  ASSUME TypeOK, NEW r \in Releasers, Releaser(r)
  PROVE  Copies' \subseteq Copies
<1> DEFINE Holds(x) == (IF x.pc \in {"allocs", "delete", "credit"} THEN x.todo ELSE {})
                         \cup (IF x.pc \in {"delete", "credit"} THEN {x.cur} ELSE {})
<1>1. /\ allocs' \subseteq allocs /\ comp' = comp
      /\ \A q \in Releasers \ {r} : rel'[q] = rel[q]
  BY DEF TypeOK, Releaser, QueryAllocs, Resend, DeleteExpired, CreditExpired, SkipAlloc,
         QueryWorkers, DeleteWorkerQueue, DeleteWorker, SkipWorker, EndRound, RelUnchanged
<1>2. Holds(rel'[r]) \subseteq allocs \cup Holds(rel[r])
  <2>0. rel[r] \in RelState /\ r \in DOMAIN rel
    BY DEF TypeOK
  <2>1. CASE QueryAllocs(r)
    BY <2>0, <2>1 DEF QueryAllocs
  <2>2. CASE Resend(r)
    BY <2>0, <2>2 DEF Resend
  <2>3. CASE DeleteExpired(r) \/ CreditExpired(r) \/ SkipAlloc(r)
    <3>1. rel[r].pc \in {"delete", "credit"}
      BY <2>3 DEF DeleteExpired, CreditExpired, SkipAlloc
    <3>2. rel[r] = [pc |-> rel[r].pc, todo |-> rel[r].todo, cur |-> rel[r].cur]
      BY <2>0, <3>1, RelFields
    <3>3. \/ rel'[r] = [pc |-> "credit", todo |-> rel[r].todo, cur |-> rel[r].cur]
          \/ rel'[r] = [pc |-> "allocs", todo |-> rel[r].todo]
      BY <2>0, <2>3, <3>2 DEF DeleteExpired, CreditExpired, SkipAlloc
    <3> QED
      BY <3>1, <3>3
  <2>4. CASE QueryWorkers(r) \/ DeleteWorkerQueue(r) \/ DeleteWorker(r) \/ SkipWorker(r)
    <3>1. rel'[r].pc \in {"workers", "deregister"}
      <4>1. CASE SkipWorker(r) /\ rel[r].pc = "workers"
        BY <2>0, <4>1, RelFields DEF SkipWorker
      <4>2. CASE SkipWorker(r) /\ rel[r].pc # "workers"
        BY <2>0, <4>2 DEF SkipWorker
      <4> QED
        BY <2>0, <2>4, <4>1, <4>2 DEF QueryWorkers, DeleteWorkerQueue, DeleteWorker
    <3> QED
      BY <3>1
  <2>5. CASE EndRound(r)
    BY <2>0, <2>5 DEF EndRound, Idle
  <2> QED
    BY <2>1, <2>2, <2>3, <2>4, <2>5 DEF Releaser
<1> SUFFICES ASSUME NEW a \in Copies' PROVE a \in Copies
  OBVIOUS
<1>3. \A q \in Releasers : a \in Holds(rel[q]) => a \in Copies
  BY CopyPlaces
<1>4. ASSUME NEW q \in Releasers, a \in Holds(rel'[q]) PROVE a \in Copies
  <2>1. CASE q = r
    BY <1>2, <1>3, <1>4, <2>1, CopyPlaces
  <2>2. CASE q # r
    BY <1>1, <1>3, <1>4, <2>2
  <2> QED
    BY <2>1, <2>2
<1>5. \/ a \in allocs'
      \/ \E q \in Releasers : a \in Holds(rel'[q])
      \/ \E c \in Completers : comp'[c].pc \in {"delete", "credit"} /\ a = comp'[c].cur
  BY CopyPlacesNext
<1> HIDE DEF Holds
<1> QED
  BY <1>1, <1>4, <1>5, CopyPlaces

\* A completion request makes none but of the row it reads.
LEMMA CopiesCompleter ==
  ASSUME TypeOK, NEW c \in Completers, Completer(c)
  PROVE  Copies' \subseteq Copies
<1>1. /\ allocs' \subseteq allocs /\ rel' = rel
      /\ \A d \in Completers \ {c} : comp'[d] = comp[d]
  BY DEF TypeOK, Completer, BeginComplete, GetAlloc, DeleteCompleted, CreditCompleted,
         AbortComplete, CompUnchanged
<1>2. comp'[c].pc \in {"delete", "credit"} =>
         \/ comp'[c].cur \in allocs
         \/ comp[c].pc \in {"delete", "credit"} /\ comp'[c].cur = comp[c].cur
  <2>0. comp[c] \in CompState /\ c \in DOMAIN comp
    BY DEF TypeOK
  <2>1. CASE GetAlloc(c)
    BY <2>0, <2>1 DEF GetAlloc
  <2>2. CASE DeleteCompleted(c)
    <3>1. comp[c] = [pc |-> "delete", cur |-> comp[c].cur]
      BY <2>0, <2>2, CompFields DEF DeleteCompleted
    <3> QED
      BY <2>0, <2>2, <3>1 DEF DeleteCompleted
  <2>3. CASE BeginComplete(c) \/ CreditCompleted(c) \/ AbortComplete(c)
    BY <2>0, <2>3 DEF BeginComplete, CreditCompleted, AbortComplete, Idle
  <2> QED
    BY <2>1, <2>2, <2>3 DEF Completer
<1> SUFFICES ASSUME NEW a \in Copies' PROVE a \in Copies
  OBVIOUS
<1> QED
  BY <1>1, <1>2, CopyPlaces, CopyPlacesNext

\* So the only copy that is new is the row a scheduler puts.
LEMMA CopiesStep ==
  ASSUME TypeOK, [Next]_vars
  PROVE  \/ Copies' \subseteq Copies
         \/ \E s \in Schedulers :
               /\ PutNewAlloc(s)
               /\ Copies' \subseteq Copies \cup {NewAlloc(sched[s].msg, sched[s].wrk)}
<1>1. CASE UNCHANGED <<allocs, rel, comp>>
  BY <1>1 DEF Copies
<1>2. ASSUME NEW s \in Schedulers, PutNewAlloc(s)
      PROVE  Copies' \subseteq Copies \cup {NewAlloc(sched[s].msg, sched[s].wrk)}
  <2>1. /\ allocs' = allocs \cup {NewAlloc(sched[s].msg, sched[s].wrk)}
        /\ rel' = rel /\ comp' = comp
    BY <1>2 DEF PutNewAlloc, SchedUnchanged
  <2> QED
    BY <2>1, CopyPlaces, CopyPlacesNext
<1>3. \/ UNCHANGED <<allocs, rel, comp>>
      \/ \E s \in Schedulers : PutNewAlloc(s)
      \/ \E r \in Releasers : Releaser(r)
      \/ \E c \in Completers : Completer(c)
  BY DEF Next, ScheduleEval, CheckPool, CreateWorkerQueue, PutNewWorker, DeletePoolQueue,
         MarkDisbanded, Scheduler, Receive, Choose, Claim, Notify, Ack, GiveUp,
         SchedUnchanged, allocVars, vars
<1> QED
  BY <1>1, <1>2, <1>3, CopiesReleaser, CopiesCompleter

-----------------------------------------------------------------------------
(* Steps                                                                   *)

\* A claim is made by Claim alone, one at a time.
LEMMA ClaimSteps ==
  ASSUME TypeOK, [Next]_vars
  PROVE  \/ \A s \in Schedulers : sched'[s].pc = "claimed" => sched'[s] = sched[s]
         \/ \E s \in Schedulers :
               /\ Claim(s)
               /\ \A x \in Schedulers \ {s} : sched'[x] = sched[x]
<1>1. ASSUME NEW s \in Schedulers, Scheduler(s)
      PROVE  /\ \A x \in Schedulers \ {s} : sched'[x] = sched[x]
             /\ Claim(s) \/ sched'[s].pc # "claimed"
  BY <1>1 DEF TypeOK, Scheduler, Receive, Choose, PutNewAlloc, Notify, Ack, GiveUp, Claim,
              Idle
<1>2. sched' = sched \/ \E s \in Schedulers : Scheduler(s)
  BY DEF Next, ScheduleEval, CheckPool, CreateWorkerQueue, PutNewWorker,
       DeletePoolQueue, MarkDisbanded, Releaser, QueryAllocs, Resend, DeleteExpired,
       CreditExpired, SkipAlloc, QueryWorkers, DeleteWorkerQueue, DeleteWorker, SkipWorker,
       EndRound, RelUnchanged, Completer, BeginComplete, GetAlloc, DeleteCompleted,
       CreditCompleted, AbortComplete, CompUnchanged, vars
<1> QED
  BY <1>1, <1>2

\* No step makes a worker unknown, or known to others before it registered.
LEMMA OnlyMembersStep ==
  ASSUME TypeOK, OnlyMembers, [Next]_vars
  PROVE  OnlyMembers'
<1>1. ASSUME NEW w \in Workers, reg[w] = "member" PROVE reg'[w] = "member"
  BY <1>1 DEF TypeOK, Next, ScheduleEval, CheckPool, CreateWorkerQueue, PutNewWorker,
       DeletePoolQueue, MarkDisbanded, Scheduler, Receive, Choose, Claim, PutNewAlloc, Notify,
       Ack, GiveUp, SchedUnchanged, Releaser, QueryAllocs, Resend, DeleteExpired,
       CreditExpired, SkipAlloc, QueryWorkers, DeleteWorkerQueue, DeleteWorker, SkipWorker,
       EndRound, RelUnchanged, Completer, BeginComplete, GetAlloc, DeleteCompleted,
       CreditCompleted, AbortComplete, CompUnchanged, workerVars, vars
<1>2. ASSUME NEW s \in Schedulers, Scheduler(s)
      PROVE  \A x \in Schedulers : sched'[x].pc \in {"chosen", "claimed"} =>
                sched'[x].wrk \in Workers /\ reg[sched'[x].wrk] = "member"
  <2>1. \A x \in Schedulers : x # s => sched'[x] = sched[x]
    BY <1>2 DEF TypeOK, Scheduler, Receive, Choose, Claim, PutNewAlloc, Notify, Ack, GiveUp
  <2>2. sched'[s].pc \in {"chosen", "claimed"} =>
           \/ sched'[s].wrk \in DOMAIN cap
           \/ sched[s].pc = "chosen" /\ sched'[s].wrk = sched[s].wrk
    BY <1>2 DEF TypeOK, Scheduler, Receive, Choose, Claim, PutNewAlloc, Notify, Ack, GiveUp,
                Idle
  <2>3. \A x \in Schedulers : sched[x].pc \in {"chosen", "claimed"} => sched[x].wrk \in Workers
    BY SchedFields DEF TypeOK
  <2> QED
    BY <2>1, <2>2, <2>3 DEF OnlyMembers, TypeOK
<1>3. \A x \in Schedulers : sched'[x].pc \in {"chosen", "claimed"} =>
         sched'[x].wrk \in Workers /\ reg[sched'[x].wrk] = "member"
  <2>1. CASE sched' = sched
    BY <2>1, SchedFields DEF OnlyMembers, TypeOK
  <2> QED
    BY <1>2, <2>1 DEF Next, ScheduleEval, CheckPool, CreateWorkerQueue, PutNewWorker,
       DeletePoolQueue, MarkDisbanded, Releaser, QueryAllocs, Resend, DeleteExpired,
       CreditExpired, SkipAlloc, QueryWorkers, DeleteWorkerQueue, DeleteWorker, SkipWorker,
       EndRound, RelUnchanged, Completer, BeginComplete, GetAlloc, DeleteCompleted,
       CreditCompleted, AbortComplete, CompUnchanged, vars
<1>4. \A w \in DOMAIN cap' : w \in Workers /\ reg'[w] = "member"
  <2> SUFFICES ASSUME NEW w \in DOMAIN cap' PROVE w \in Workers /\ reg'[w] = "member"
    OBVIOUS
  <2>1. w \in Workers
    <3>1. TypeOK'
      BY TypeStep
    <3> QED
      BY <3>1 DEF TypeOK
  <2>2. CASE w \in DOMAIN cap
    BY <1>1, <2>1, <2>2 DEF OnlyMembers
  <2>3. CASE w \notin DOMAIN cap
    <3>1. PutNewWorker(w)
      BY <2>1, <2>3, RowsGrow
    <3> QED
      BY <2>1, <3>1 DEF PutNewWorker, TypeOK
  <2> QED
    BY <2>1, <2>2, <2>3
<1>5. \A a \in Copies' : a.wrk \in Workers /\ reg[a.wrk] = "member"
  <2>1. \A a \in Copies : a.wrk \in Workers /\ reg[a.wrk] = "member"
    BY CopiesTyped DEF OnlyMembers, Alloc
  <2>2. ASSUME NEW s \in Schedulers, PutNewAlloc(s)
        PROVE  LET a == NewAlloc(sched[s].msg, sched[s].wrk)
               IN  a.wrk \in Workers /\ reg[a.wrk] = "member"
    BY <2>2, SchedFields DEF TypeOK, PutNewAlloc, NewAlloc, OnlyMembers
  <2> QED
    BY <2>1, <2>2, CopiesStep
<1> QED
  BY <1>1, <1>3, <1>4, <1>5 DEF OnlyMembers

\* A step adds at most one copy and one claim.
LEMMA FewHoldersStep ==
  ASSUME TypeOK, FewHolders, [Next]_vars
  PROVE  FewHolders'
<1>1. IsFiniteSet(Copies')
  <2>1. PICK a : Copies' \in SUBSET (Copies \cup {a})
    BY CopiesStep
  <2>2. IsFiniteSet(Copies \cup {a})
    BY FS_AddElement DEF FewHolders
  <2> QED
    BY <2>1, <2>2, FS_Subset
<1>2. IsFiniteSet(AllClaims')
  <2>1. PICK s : AllClaims' \in SUBSET (AllClaims \cup {s})
    BY ClaimSteps DEF AllClaims
  <2>2. IsFiniteSet(AllClaims \cup {s})
    BY FS_AddElement DEF FewHolders
  <2> QED
    BY <2>1, <2>2, FS_Subset
<1> QED
  BY <1>1, <1>2 DEF FewHolders

\* What is outstanding on a worker does not grow by anything but a new row.
LEMMA OutstandingShrinks ==
  ASSUME TypeOK, FewHolders, Copies' \subseteq Copies, returned \subseteq returned', NEW w
  PROVE  Total(Outstanding(w))' \in Nat /\ Total(Outstanding(w))' <= Total(Outstanding(w))
<1>1. DOMAIN Outstanding(w)' \subseteq DOMAIN Outstanding(w)
  BY DEF Outstanding
<1>2. \A a \in DOMAIN Outstanding(w)' : Outstanding(w)'[a] = Outstanding(w)[a]
  BY <1>1 DEF Outstanding
<1> QED
  BY <1>1, <1>2, SumsTyped, TotalPart

\* What is claimed of a worker does not grow by anything but a claim.
LEMMA ClaimsShrink ==
  ASSUME TypeOK, FewHolders, NEW w,
         \A s \in Schedulers : sched'[s].pc = "claimed" => sched'[s] = sched[s]
  PROVE  Total(Claims(w))' \in Nat /\ Total(Claims(w))' <= Total(Claims(w))
<1>1. DOMAIN Claims(w)' \subseteq DOMAIN Claims(w)
  BY DEF Claims
<1>2. \A s \in DOMAIN Claims(w)' : Claims(w)'[s] = Claims(w)[s]
  BY <1>1 DEF Claims
<1> QED
  BY <1>1, <1>2, SumsTyped, TotalPart

\* A new worker has all it offered: nothing is outstanding on it.
LEMMA RegistrationAccounted ==
  ASSUME TypeOK, Accounts, NEW w \in Workers, PutNewWorker(w)
  PROVE  /\ w \notin DOMAIN cap
         /\ cap'[w] = Capacity[w]
         /\ Total(Outstanding(w))' = 0 /\ Total(Claims(w))' = 0
<1>1. w \notin DOMAIN cap /\ cap'[w] = Capacity[w]
  BY DEF PutNewWorker, Accounts, OnlyMembers
<1>2. DOMAIN Outstanding(w)' = {}
  BY DEF PutNewWorker, Accounts, OnlyMembers, Outstanding, Copies, allocVars, historyVars
<1>3. DOMAIN Claims(w)' = {}
  BY DEF PutNewWorker, Accounts, OnlyMembers, Claims
<1> QED
  BY <1>1, <1>2, <1>3, TotalNone

\* What a claim takes from the free capacity is claimed by it.
LEMMA ClaimAccounted ==
  ASSUME TypeOK, FewHolders, NEW s \in Schedulers, Claim(s),
         \A x \in Schedulers \ {s} : sched'[x] = sched[x],
         NEW w \in DOMAIN cap
  PROVE  /\ cap'[w] \in Int
         /\ Total(Claims(w))' \in Nat
         /\ cap'[w] + Total(Claims(w))' <= cap[w] + Total(Claims(w))
<1> DEFINE m == sched[s].msg
           v == sched[s].wrk
<1>1. m.eval \in Evals
  BY SchedFields DEF TypeOK, Claim, Message
<1>2. Need(m.eval) \in Nat
  BY <1>1, NeedPositive
<1>3. /\ sched'[s] = [pc |-> "claimed", msg |-> m, wrk |-> v]
      /\ cap' = [cap EXCEPT ![v] = @ - Need(m.eval)]
  BY DEF Claim, Claimed, TypeOK
<1>4. /\ cap[w] \in Int
      /\ IsFiniteSet(DOMAIN Claims(w)) /\ Total(Claims(w)) \in Nat
      /\ \A x \in DOMAIN Claims(w) : Claims(w)[x] \in Nat
  BY SumsTyped DEF TypeOK
<1>5. CASE w = v
  <2>1. DOMAIN Claims(w)' \subseteq DOMAIN Claims(w) \cup {s}
    BY DEF Claims
  <2>2. \A x \in DOMAIN Claims(w)' :
           Claims(w)'[x] = IF x = s THEN Need(m.eval) ELSE Claims(w)[x]
    BY <1>3 DEF Claims
  <2>3. /\ Total(Claims(w))' \in Nat
        /\ Total(Claims(w))' <= Total(Claims(w)) + Need(m.eval)
    BY <1>2, <1>4, <2>1, <2>2, TotalPlus
  <2>4. cap'[w] = cap[w] - Need(m.eval)
    BY <1>3, <1>5
  <2> QED
    BY <1>2, <1>4, <2>3, <2>4
<1>6. CASE w # v
  <2>1. DOMAIN Claims(w)' \subseteq DOMAIN Claims(w)
    BY <1>3, <1>6 DEF Claims
  <2>2. \A x \in DOMAIN Claims(w)' : Claims(w)'[x] = Claims(w)[x]
    BY <1>3, <1>6 DEF Claims
  <2>3. Total(Claims(w))' \in Nat /\ Total(Claims(w))' <= Total(Claims(w))
    BY <1>4, <2>1, <2>2, TotalPart
  <2>4. cap'[w] = cap[w]
    BY <1>3, <1>6
  <2> QED
    BY <1>4, <2>3, <2>4
<1> QED
  BY <1>5, <1>6

\* A row takes over what the claim for it held.
LEMMA PutAccounted ==
  ASSUME TypeOK, FewHolders, NEW s \in Schedulers, PutNewAlloc(s),
         Copies' \subseteq Copies \cup {NewAlloc(sched[s].msg, sched[s].wrk)},
         NEW w
  PROVE  /\ Total(Outstanding(w))' \in Nat /\ Total(Claims(w))' \in Nat
         /\ Total(Outstanding(w))' + Total(Claims(w))'
               <= Total(Outstanding(w)) + Total(Claims(w))
<1> DEFINE m == sched[s].msg
           a == NewAlloc(m, sched[s].wrk)
<1>1. /\ sched[s].pc = "claimed" /\ returned' = returned
      /\ sched'[s].pc = "recorded"
      /\ \A x \in Schedulers \ {s} : sched'[x] = sched[x]
  BY DEF PutNewAlloc, SchedUnchanged, TypeOK
<1>2. a.eval = m.eval /\ a.wrk = sched[s].wrk
  BY DEF NewAlloc
<1>3. m.eval \in Evals
  BY <1>1, SchedFields DEF TypeOK, Message
<1>4. Need(m.eval) \in Nat
  BY <1>3, NeedPositive
<1>5. /\ IsFiniteSet(DOMAIN Claims(w)) /\ Total(Claims(w)) \in Nat
      /\ \A x \in DOMAIN Claims(w) : Claims(w)[x] \in Nat
      /\ IsFiniteSet(DOMAIN Outstanding(w)) /\ Total(Outstanding(w)) \in Nat
      /\ \A x \in DOMAIN Outstanding(w) : Outstanding(w)[x] \in Nat
  BY SumsTyped
<1> HIDE DEF a
<1>6. CASE w = sched[s].wrk
  <2>1. /\ s \in DOMAIN Claims(w) /\ Claims(w)[s] = Need(m.eval)
        /\ DOMAIN Claims(w)' \subseteq DOMAIN Claims(w) \ {s}
        /\ \A x \in DOMAIN Claims(w)' : Claims(w)'[x] = Claims(w)[x]
    BY <1>1, <1>6 DEF Claims
  <2>2. /\ Total(Claims(w))' \in Nat
        /\ Total(Claims(w))' + Need(m.eval) <= Total(Claims(w))
    BY <1>5, <2>1, TotalMinus
  <2>3. /\ DOMAIN Outstanding(w)' \subseteq DOMAIN Outstanding(w) \cup {a}
        /\ \A x \in DOMAIN Outstanding(w)' :
              Outstanding(w)'[x] = IF x = a THEN Need(m.eval) ELSE Outstanding(w)[x]
    BY <1>1, <1>2 DEF Outstanding, a
  <2>4. /\ Total(Outstanding(w))' \in Nat
        /\ Total(Outstanding(w))' <= Total(Outstanding(w)) + Need(m.eval)
    BY <1>4, <1>5, <2>3, TotalPlus
  <2> QED
    BY <1>4, <1>5, <2>2, <2>4
<1>7. CASE w # sched[s].wrk
  <2>1. Total(Claims(w))' \in Nat /\ Total(Claims(w))' <= Total(Claims(w))
    BY <1>1, ClaimsShrink
  <2>2. /\ DOMAIN Outstanding(w)' \subseteq DOMAIN Outstanding(w)
        /\ \A x \in DOMAIN Outstanding(w)' : Outstanding(w)'[x] = Outstanding(w)[x]
    BY <1>1, <1>2, <1>7 DEF Outstanding, a
  <2>3. Total(Outstanding(w))' \in Nat /\ Total(Outstanding(w))' <= Total(Outstanding(w))
    BY <1>5, <2>2, TotalPart
  <2> QED
    BY <1>5, <2>1, <2>3
<1> QED
  BY <1>6, <1>7

\* What is given back was outstanding, or is given back for a second time.
LEMMA CreditAccounted ==
  ASSUME TypeOK, FewHolders, NEW a \in Copies, Credit(a), Copies' \subseteq Copies,
         NEW w \in DOMAIN cap', w \notin doubled'
  PROVE  /\ w \in DOMAIN cap /\ w \notin doubled /\ cap'[w] \in Int
         /\ Total(Outstanding(w))' \in Nat
         /\ cap'[w] + Total(Outstanding(w))' <= cap[w] + Total(Outstanding(w))
<1>1. a \in Alloc /\ a.eval \in Evals
  BY CopiesTyped DEF Alloc
<1>2. Need(a.eval) \in Nat
  BY <1>1, NeedPositive
<1>3. w \in DOMAIN cap /\ w \notin doubled /\ cap[w] \in Int /\ returned \subseteq returned'
  BY <1>1, TypeCredit DEF Credit, creditVars, TypeOK
<1>4. /\ IsFiniteSet(DOMAIN Outstanding(w)) /\ Total(Outstanding(w)) \in Nat
      /\ \A x \in DOMAIN Outstanding(w) : Outstanding(w)[x] \in Nat
  BY SumsTyped
<1>5. CASE w = a.wrk
  <2>1. a.id \notin returned /\ returned' = returned \cup {a.id}
    BY <1>3, <1>5 DEF Credit
  <2>2. /\ a \in DOMAIN Outstanding(w) /\ Outstanding(w)[a] = Need(a.eval)
        /\ DOMAIN Outstanding(w)' \subseteq DOMAIN Outstanding(w) \ {a}
        /\ \A x \in DOMAIN Outstanding(w)' : Outstanding(w)'[x] = Outstanding(w)[x]
    BY <1>5, <2>1 DEF Outstanding
  <2>3. /\ Total(Outstanding(w))' \in Nat
        /\ Total(Outstanding(w))' + Need(a.eval) <= Total(Outstanding(w))
    BY <1>4, <2>2, TotalMinus
  <2>4. cap'[w] = cap[w] + Need(a.eval)
    BY <1>3, <1>5 DEF Credit
  <2> QED
    BY <1>2, <1>3, <1>4, <2>3, <2>4
<1>6. CASE w # a.wrk
  <2>1. cap'[w] = cap[w]
    BY <1>3, <1>6 DEF Credit, creditVars
  <2> QED
    BY <1>3, <1>4, <2>1, OutstandingShrinks
<1> QED
  BY <1>5, <1>6

\* No step lets the sum on a worker exceed its offer.
LEMMA CapacityAccountedStep ==
  ASSUME TypeOK, Accounts, [Next]_vars
  PROVE  CapacityAccounted'
<1> DEFINE Used(w) == Total(Outstanding(w)) + Total(Claims(w))
<1> SUFFICES ASSUME NEW w \in DOMAIN cap', w \notin doubled'
             PROVE  /\ cap'[w] \in Int
                    /\ Total(Outstanding(w))' \in Nat /\ Total(Claims(w))' \in Nat
                    /\ cap'[w] + Used(w)' <= Capacity[w]
  BY DEF CapacityAccounted
<1>1. FewHolders /\ CapacityAccounted
  BY DEF Accounts
<1>2. w \in Workers /\ cap'[w] \in Int /\ Capacity[w] \in Int
  <2>1. TypeOK'
    BY TypeStep
  <2> QED
    BY <2>1, CapacityAssumption DEF TypeOK
<1>3. /\ Total(Outstanding(w)) \in Nat /\ Total(Claims(w)) \in Nat
      /\ w \in DOMAIN cap => cap[w] \in Int
      /\ w \in DOMAIN cap /\ w \notin doubled => cap[w] + Used(w) <= Capacity[w]
  BY <1>1, SumsTyped DEF CapacityAccounted, TypeOK
<1>4. CASE PutNewWorker(w)
  BY <1>2, <1>4, RegistrationAccounted
<1>5. ASSUME NEW s \in Schedulers, Claim(s),
             \A x \in Schedulers \ {s} : sched'[x] = sched[x]
      PROVE  /\ Total(Outstanding(w))' \in Nat /\ Total(Claims(w))' \in Nat
             /\ cap'[w] + Used(w)' <= Capacity[w]
  <2>1. /\ doubled' = doubled /\ returned' = returned /\ Copies' = Copies
        /\ w \in DOMAIN cap
    BY <1>5 DEF Claim, SchedUnchanged, Copies, allocVars, TypeOK
  <2>2. /\ Total(Claims(w))' \in Nat
        /\ cap'[w] + Total(Claims(w))' <= cap[w] + Total(Claims(w))
    BY <1>1, <1>5, <2>1, ClaimAccounted
  <2>3. /\ Total(Outstanding(w))' \in Nat
        /\ Total(Outstanding(w))' <= Total(Outstanding(w))
    BY <1>1, <2>1, OutstandingShrinks
  <2> QED
    BY <1>2, <1>3, <2>1, <2>2, <2>3
<1>6. ASSUME NEW s \in Schedulers, PutNewAlloc(s),
             Copies' \subseteq Copies \cup {NewAlloc(sched[s].msg, sched[s].wrk)}
      PROVE  /\ Total(Outstanding(w))' \in Nat /\ Total(Claims(w))' \in Nat
             /\ cap'[w] + Used(w)' <= Capacity[w]
  <2>1. cap' = cap /\ doubled' = doubled
    BY <1>6 DEF PutNewAlloc, SchedUnchanged
  <2>2. /\ Total(Outstanding(w))' \in Nat /\ Total(Claims(w))' \in Nat
        /\ Used(w)' <= Used(w)
    BY <1>1, <1>6, PutAccounted
  <2> QED
    BY <1>2, <1>3, <2>1, <2>2
<1>7. ASSUME NEW a \in Copies, Credit(a), Copies' \subseteq Copies, sched' = sched
      PROVE  /\ Total(Outstanding(w))' \in Nat /\ Total(Claims(w))' \in Nat
             /\ cap'[w] + Used(w)' <= Capacity[w]
  <2>1. /\ w \in DOMAIN cap /\ w \notin doubled
        /\ Total(Outstanding(w))' \in Nat
        /\ cap'[w] + Total(Outstanding(w))' <= cap[w] + Total(Outstanding(w))
    BY <1>1, <1>7, CreditAccounted
  <2>2. Total(Claims(w))' \in Nat /\ Total(Claims(w))' <= Total(Claims(w))
    BY <1>1, <1>7, ClaimsShrink
  <2> QED
    BY <1>2, <1>3, <2>1, <2>2
<1>8. ASSUME w \in DOMAIN cap, cap'[w] = cap[w], UNCHANGED <<returned, doubled>>,
             Copies' \subseteq Copies,
             \A s \in Schedulers : sched'[s].pc = "claimed" => sched'[s] = sched[s]
      PROVE  /\ Total(Outstanding(w))' \in Nat /\ Total(Claims(w))' \in Nat
             /\ cap'[w] + Used(w)' <= Capacity[w]
  <2>1. Total(Outstanding(w))' \in Nat /\ Total(Outstanding(w))' <= Total(Outstanding(w))
    BY <1>1, <1>8, OutstandingShrinks
  <2>2. Total(Claims(w))' \in Nat /\ Total(Claims(w))' <= Total(Claims(w))
    BY <1>1, <1>8, ClaimsShrink
  <2> QED
    BY <1>2, <1>3, <1>8, <2>1, <2>2
<1>9. CASE \E r \in Releasers : CreditExpired(r)
  <2>1. PICK r \in Releasers : CreditExpired(r)
    BY <1>9
  <2>2. rel[r].cur \in Copies /\ Credit(rel[r].cur) /\ sched' = sched
    BY <2>1 DEF CreditExpired, Copies, RelUnchanged
  <2>3. Copies' \subseteq Copies
    BY <2>1, CopiesReleaser DEF Releaser
  <2> QED
    BY <1>2, <1>7, <2>2, <2>3
<1>10. CASE \E c \in Completers : CreditCompleted(c)
  <2>1. PICK c \in Completers : CreditCompleted(c)
    BY <1>10
  <2>2. comp[c].cur \in Copies /\ Credit(comp[c].cur) /\ sched' = sched
    BY <2>1 DEF CreditCompleted, Copies, CompUnchanged
  <2>3. Copies' \subseteq Copies
    BY <2>1, CopiesCompleter DEF Completer
  <2> QED
    BY <1>2, <1>7, <2>2, <2>3
<1>11. CASE \E x \in Workers : PutNewWorker(x) /\ x # w
  BY <1>2, <1>8, <1>11 DEF PutNewWorker, Copies, allocVars, historyVars
<1>12. CASE \E r \in Releasers : DeleteWorker(r)
  <2>1. PICK r \in Releasers : DeleteWorker(r)
    BY <1>12
  <2>2. /\ w \in DOMAIN cap /\ cap'[w] = cap[w] /\ UNCHANGED <<returned, doubled, sched>>
    BY <2>1 DEF DeleteWorker, Restrict, RelUnchanged
  <2>3. Copies' \subseteq Copies
    BY <2>1, CopiesReleaser DEF Releaser
  <2> QED
    BY <1>2, <1>8, <2>2, <2>3
<1>13. CASE UNCHANGED <<cap, returned, doubled>>
  <2>1. CASE /\ Copies' \subseteq Copies
             /\ \A s \in Schedulers : sched'[s].pc = "claimed" => sched'[s] = sched[s]
    BY <1>2, <1>8, <1>13, <2>1
  <2> QED
    BY <1>2, <1>5, <1>6, <2>1, CopiesStep, ClaimSteps
<1>14. CASE \E s \in Schedulers : Claim(s)
  <2>1. PICK s \in Schedulers : Claim(s)
    BY <1>14
  <2>2. \A x \in Schedulers \ {s} : sched'[x] = sched[x]
    BY <2>1 DEF Claim, TypeOK
  <2> QED
    BY <1>2, <1>5, <2>1, <2>2
<1> QED
  BY <1>2, <1>4, <1>9, <1>10, <1>11, <1>12, <1>13, <1>14, CapSteps

\* Accounts is an invariant.
LEMMA AlwaysAccounts == Spec => []Accounts
<1>1. Init => Accounts
  <2> SUFFICES ASSUME Init PROVE Accounts
    OBVIOUS
  <2>1. Copies = {} /\ AllClaims = {} /\ DOMAIN cap = {}
    BY DEF Init, Copies, AllClaims, Idle
  <2>2. \A s \in Schedulers : sched[s].pc = "idle"
    BY DEF Init, Idle
  <2>3. OnlyMembers /\ CapacityAccounted
    BY <2>1, <2>2 DEF OnlyMembers, CapacityAccounted
  <2>4. FewHolders
    BY <2>1, FS_EmptySet DEF FewHolders
  <2> QED
    BY <2>3, <2>4 DEF Accounts
<1>2. TypeOK /\ Accounts /\ [Next]_vars => Accounts'
  BY OnlyMembersStep, FewHoldersStep, CapacityAccountedStep DEF Accounts
<1> QED
  BY <1>1, <1>2, TypeCorrect, PTL DEF Spec

\* CapacityAccounted is an invariant, however many invocations of the three
\* functions there are and whatever sizes and capacities they are given: claims,
\* rows and credits pass each unit on without ever counting it twice, except for
\* an alloc that two of them give back.
THEOREM CapacityNeverInvented == Spec => []CapacityAccounted
<1>1. Accounts => CapacityAccounted
  BY DEF Accounts
<1> QED
  BY <1>1, AlwaysAccounts, PTL
=============================================================================
