---------------------------- MODULE MCWorkerLoop ----------------------------
(* Instances of WorkerLoop for TLC, and what the comments in work/main.go   *)
(* say that does not hold.                                                  *)
EXTENDS WorkerLoop

\* "the container loop feeds running task tokens to the feedback loop by
\* polling" (main.go:303): a container that is up is reported again.
RunningTasksReported ==
    \A t \in Tasks : StatusOf(t) = "up" ~>
        Reporting(t) \/ StatusOf(t) # "up" \/ report.pc = "spinning" \/ scanner = "ended"

\* "delete message, state is persisted in Docker" (main.go:288).
StatePersisted == \A t \in Tasks \ queue : t \in persisted

\* "break // end of tar archive" (main.go:429): the archive comes to an end.
ArchiveEnds == report.pc = "output" ~> report.pc \in {"idle", "report"}

\* "container is not yet done: still in progress" (main.go:352): a container
\* that has been created gets started, or is removed.
CreatedInProgress ==
    \A t \in Tasks : StatusOf(t) = "created" ~> StatusOf(t) # "created"
=============================================================================
