------------------------------ MODULE Activity ------------------------------
(***************************************************************************)
(* What a worker promises the service that waits for its tasks: while the  *)
(* service waits, a task gets one container, which is left alone until it  *)
(* ends of itself and the service has been told how; only then, or after   *)
(* the service has stopped waiting, is the container removed.  How often a *)
(* task is received, listed and reported on the way is not promised, nor   *)
(* that a task no longer waited for is not run again.                      *)
(***************************************************************************)
CONSTANT Tasks

VARIABLES
    stage,    \* [Tasks -> Open \cup Closed]
    held      \* tasks that have a container

activityVars == <<stage, held>>

\* A task that is waited for has no container, one that works or one that has
\* ended in a result not told yet.
Open == {"waiting", "working", "ok", "bad"}
Closed == {"succeeded", "failed", "timedout"}

Init ==
    /\ stage = [t \in Tasks |-> "waiting"]
    /\ held = {}

Create(t) ==
    /\ t \notin held
    /\ held' = held \cup {t}
    /\ stage' = IF stage[t] \in Closed THEN stage ELSE [stage EXCEPT ![t] = "working"]

End(t, result) ==
    /\ stage[t] = "working"
    /\ stage' = [stage EXCEPT ![t] = result]
    /\ UNCHANGED held

Tell(t) ==
    /\ stage[t] \in {"ok", "bad"}
    /\ stage' = [stage EXCEPT ![t] = IF stage[t] = "ok" THEN "succeeded" ELSE "failed"]
    /\ UNCHANGED held

TimeOut(t) ==
    /\ stage[t] \in Open
    /\ stage' = [stage EXCEPT ![t] = "timedout"]
    /\ UNCHANGED held

Remove(t) ==
    /\ stage[t] \in Closed
    /\ held' = held \ {t}
    /\ UNCHANGED stage

Next ==
    \E t \in Tasks :
        \/ Create(t) \/ End(t, "ok") \/ End(t, "bad") \/ Tell(t) \/ TimeOut(t) \/ Remove(t)

Spec == Init /\ [][Next]_activityVars
=============================================================================
