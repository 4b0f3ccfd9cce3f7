----------------------------- MODULE MCDispatch -----------------------------
(* Instances of Dispatch for TLC, and the properties that sum sizes.       *)
EXTENDS Dispatch, FiniteSetsExt, TLC

CONSTANT e1

SizeMixed   == [e \in Evals |-> IF e = e1 THEN 0 ELSE 2]
CapacityOne == [w \in Workers |-> 1]
CapacityTwo == [w \in Workers |-> 2]

Processes == Permutations(Schedulers) \cup Permutations(Releasers)
                \cup Permutations(Completers)

-----------------------------------------------------------------------------
(* Statements of the code's comments and docs that do not hold             *)

\* "conditionally update their capacity if it fits" (handle_schedule.go:74):
\* the allocs on a worker fit what it offered.
AllocsFit ==
    \A w \in DOMAIN cap :
        MapThenSumSet(LAMBDA a : Need(a.eval), {a \in allocs : a.wrk = w}) <= Capacity[w]

\* "reschedule expired allocation" (handle_release.go:202): an eval is only
\* sent again for an allocation that is still there.
OnlyLiveRescheduled ==
    [][\A m \in queue' \ queue : m.retry > 0 =>
          \E a \in allocs : a.eval = m.eval /\ a.retry = m.retry]_vars

AllIdle ==
    /\ \A s \in Schedulers : sched[s].pc = "idle"
    /\ \A r \in Releasers : rel[r].pc = "idle"
    /\ \A c \in Completers : comp[c].pc = "idle"

\* "release allocated capacity back to the worker" (infra/lambda.tf:3): when
\* nothing is allocated and no request runs, a worker has all it offered.
CapacityComesBack ==
    AllIdle /\ allocs = {} => \A w \in DOMAIN cap : cap[w] >= Capacity[w]
=============================================================================
