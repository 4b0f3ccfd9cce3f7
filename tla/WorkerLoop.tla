----------------------------- MODULE WorkerLoop -----------------------------
(***************************************************************************)
(* The worker process.  One goroutine takes tokens from a channel and a    *)
(* task from the queue for each; one lists the containers every few        *)
(* seconds, into a pipe, and hands out tokens for the room it sees; one    *)
(* scans the pipe; the main loop reports what is scanned to the service    *)
(* that waits for the tasks and removes containers it no longer waits for. *)
(*                                                                         *)
(* Docker keeps its containers, the queue its messages and the service its *)
(* tasks when the process ends.  Tasks are distinct activity tokens; the   *)
(* name of a container is derived from its task's.                         *)
(***************************************************************************)
EXTENDS Integers, FiniteSets, Functions

CONSTANTS
    Tasks,        \* activity tokens
    None,
    Cap,          \* room, and the buffer of capCh
    MaxRuns,      \* bound: goroutines that run one task at a time
    MaxFaults     \* bound: calls that fail, and restarts

ASSUME WorkerAssumption ==
    /\ IsFiniteSet(Tasks) /\ None \notin Tasks /\ Cap \in Nat \ {0}
    /\ MaxRuns \in Nat \ {0} /\ MaxFaults \in Nat

VARIABLES
    queue,        \* tasks whose message has not been deleted
    containers,   \* Docker's containers: task -> status
    service,      \* what the service holds of each task
    tokens,       \* messages in capCh
    receiver,     \* the goroutine that receives tasks
    running,      \* goroutines about to run a container for a task
    deleting,     \* goroutines about to delete a task's message
    lister,       \* the goroutine that lists containers
    pipe,         \* lines written, not read yet
    lines,        \* lines read by the scanner, not sent on yet
    scanner,      \* whether the goroutine that scans the pipe still does
    report,       \* the main loop, and the line it deals with
    err,          \* the variable err of main, shared by most goroutines
    faults,       \* calls that failed, and restarts
    persisted,    \* history: tasks that ever had a container
    exited        \* history: how containers of a task exited of themselves

outside == <<queue, containers, service>>
starting == <<receiver, running, deleting>>
listing == <<lister, pipe, lines, scanner>>
history == <<persisted, exited>>
vars == <<queue, containers, service, tokens, receiver, running, deleting,
          lister, pipe, lines, scanner, report, err, faults, persisted, exited>>

-----------------------------------------------------------------------------
\* A container that was created and could not be started stays "created";
\* "bad" is an exit code other than 0 and every status that is not understood.
Status == {"created", "up", "ok", "bad"}
ASSUME StatusAssumption == None \notin Status
Line == [task : Tasks, status : Status]

ReceiverState == [pc : {"take", "receive", "received", "decode", "decoded", "returned"},
                  task : Tasks \cup {None}]
ListerState == [pc : {"idle", "writing", "listed", "pushing"},
                failed : BOOLEAN, n : Nat, push : Nat]
ReportState == [pc : {"idle", "output", "spinning", "report", "stop", "rm"},
                line : Line \cup {None}]

Receiving == [pc |-> "take", task |-> None]
Waiting == [pc |-> "idle", failed |-> FALSE, n |-> 0, push |-> 0]
Selecting == [pc |-> "idle", line |-> None]
Nobody == [t \in Tasks |-> 0]

TypeOK ==
    /\ queue \subseteq Tasks
    /\ DOMAIN containers \subseteq Tasks /\ containers \in [DOMAIN containers -> Status]
    /\ service \in [Tasks -> {"open", "succeeded", "failed", "timedout"}]
    /\ tokens \in 0 .. Cap
    /\ receiver \in ReceiverState
    /\ running \in [Tasks -> 0 .. MaxRuns] /\ deleting \in [Tasks -> 0 .. MaxRuns]
    /\ lister \in ListerState /\ lister.push <= Cap
    /\ pipe \subseteq Line /\ lines \subseteq Line /\ scanner \in {"reading", "ended"}
    /\ report \in ReportState
    /\ err \in BOOLEAN /\ faults \in 0 .. MaxFaults
    /\ persisted \subseteq Tasks /\ exited \subseteq Tasks \X {"ok", "bad"}

Init ==
    /\ queue = Tasks
    /\ containers = [t \in {} |-> "up"]
    /\ service = [t \in Tasks |-> "open"]
    /\ tokens = 0 /\ receiver = Receiving
    /\ running = Nobody /\ deleting = Nobody
    /\ lister = Waiting /\ pipe = {} /\ lines = {} /\ scanner = "reading"
    /\ report = Selecting
    /\ err = FALSE /\ faults = 0
    /\ persisted = {} /\ exited = {}

\* A call that may fail: it does so at the cost of a fault.
Works == faults' = faults
Fails == faults < MaxFaults /\ faults' = faults + 1

-----------------------------------------------------------------------------
(* The receiving goroutine                                                 *)

TakeToken ==
    /\ receiver.pc = "take" /\ tokens > 0
    /\ tokens' = tokens - 1
    /\ receiver' = [receiver EXCEPT !.pc = "receive"]
    /\ UNCHANGED <<outside, running, deleting, listing, report, err, faults, history>>

\* A message stays until it is deleted, so it may be received again; a poll
\* that does not wait may miss what is there.
ReceiveMessage(t) ==
    /\ receiver.pc = "receive"
    /\ t \in queue /\ running[t] + deleting[t] < MaxRuns
    /\ receiver' = [pc |-> "received", task |-> t]
    /\ err' = FALSE
    /\ UNCHANGED <<outside, tokens, running, deleting, listing, report, faults, history>>

ReceiveNothing ==
    /\ receiver.pc = "receive"
    /\ receiver' = [pc |-> "received", task |-> None]
    /\ err' \in BOOLEAN
    /\ IF err' THEN Fails ELSE Works
    /\ UNCHANGED <<outside, tokens, running, deleting, listing, report, history>>

\* What is checked is err as it is now, whoever has assigned it.
CheckReceived ==
    /\ receiver.pc = "received"
    /\ receiver' = CASE err -> [pc |-> "returned", task |-> None]
                     [] ~err /\ receiver.task = None -> Receiving
                     [] OTHER -> [receiver EXCEPT !.pc = "decode"]
    /\ UNCHANGED <<outside, tokens, running, deleting, listing, report, err, faults, history>>

Decode ==
    /\ receiver.pc = "decode"
    /\ receiver' = [receiver EXCEPT !.pc = "decoded"]
    /\ err' \in BOOLEAN
    /\ IF err' THEN Fails ELSE Works
    /\ UNCHANGED <<outside, tokens, running, deleting, listing, report, history>>

StartTask ==
    /\ receiver.pc = "decoded"
    /\ IF err
       THEN /\ receiver' = [pc |-> "returned", task |-> None]
            /\ UNCHANGED running
       ELSE /\ receiver' = Receiving
            /\ running' = [running EXCEPT ![receiver.task] = @ + 1]
    /\ UNCHANGED <<outside, tokens, deleting, listing, report, err, faults, history>>

DockerRunChecked(t) ==
    /\ running[t] > 0
    /\ running' = [running EXCEPT ![t] = @ - 1]
    /\ \E s \in IF t \in DOMAIN containers THEN {None} ELSE {None, "created", "up"} :
          /\ IF s = "up" \/ t \in DOMAIN containers THEN Works ELSE Fails
          /\ deleting' = IF s = None THEN deleting ELSE [deleting EXCEPT ![t] = @ + 1]
          /\ containers' = IF s = None THEN containers
                           ELSE [x \in DOMAIN containers \cup {t} |->
                                    IF x = t THEN s ELSE containers[x]]
          /\ persisted' = IF s = None THEN persisted ELSE persisted \cup {t}
    /\ UNCHANGED <<queue, service, tokens, receiver, listing, report, err, exited>>

\* docker run: an existing name makes it fail, like a missing image. The result
\* is not looked at.
DockerRun(t) ==
    /\ running[t] > 0
    /\ running' = [running EXCEPT ![t] = @ - 1]
    /\ deleting' = [deleting EXCEPT ![t] = @ + 1]
    /\ \E s \in IF t \in DOMAIN containers THEN {None} ELSE {None, "created", "up"} :
          /\ IF s = "up" \/ t \in DOMAIN containers THEN Works ELSE Fails
          /\ containers' = IF s = None THEN containers
                           ELSE [x \in DOMAIN containers \cup {t} |->
                                    IF x = t THEN s ELSE containers[x]]
          /\ persisted' = IF s = None THEN persisted ELSE persisted \cup {t}
    /\ UNCHANGED <<queue, service, tokens, receiver, listing, report, err, exited>>

DeleteMessageAnyTime(t) ==
    /\ running[t] + deleting[t] > 0
    /\ deleting' = [deleting EXCEPT ![t] = IF @ > 0 THEN @ - 1 ELSE @]
    /\ \/ queue' = queue \ {t} /\ Works
       \/ UNCHANGED queue /\ Fails
    /\ UNCHANGED <<containers, service, tokens, receiver, running, listing, report,
                   err, history>>
DeleteMessage(t) ==
    /\ deleting[t] > 0
    /\ deleting' = [deleting EXCEPT ![t] = @ - 1]
    /\ \/ queue' = queue \ {t} /\ Works
       \/ UNCHANGED queue /\ Fails
    /\ UNCHANGED <<containers, service, tokens, receiver, running, listing, report,
                   err, history>>

-----------------------------------------------------------------------------
(* The listing goroutine                                                   *)

LinesOf(ts) == {[task |-> t, status |-> containers[t]] : t \in ts}

ListRunning ==
    /\ lister.pc = "idle"
    /\ LET ts == {t \in DOMAIN containers : containers[t] = "up"} IN
          /\ pipe' = LinesOf(ts)
          /\ lister' = [pc |-> "writing", failed |-> FALSE, n |-> Cardinality(ts), push |-> 0]
    /\ UNCHANGED <<outside, tokens, starting, lines, scanner, report, err, faults, history>>

\* docker ps -a on a tick. If it fails, some lines may have been written.
ListContainers ==
    /\ lister.pc = "idle"
    /\ \E ts \in SUBSET DOMAIN containers, failed \in BOOLEAN :
          /\ IF failed THEN Fails ELSE Works /\ ts = DOMAIN containers
          /\ pipe' = LinesOf(ts)
          /\ lister' = [pc |-> "writing", failed |-> failed, n |-> Cardinality(ts), push |-> 0]
    /\ UNCHANGED <<outside, tokens, starting, lines, scanner, report, err, history>>

\* A write to the pipe returns when all of it has been read.
Listed ==
    /\ lister.pc = "writing" /\ pipe = {}
    /\ lister' = [lister EXCEPT !.pc = "listed", !.failed = FALSE]
    /\ err' = lister.failed
    /\ UNCHANGED <<outside, tokens, starting, pipe, lines, scanner, report, faults, history>>

CountRoomAndOne ==
    /\ lister.pc = "listed"
    /\ lister' = IF err \/ lister.n > Cap THEN Waiting
                 ELSE [Waiting EXCEPT !.pc = "pushing", !.push = Cap - lister.n]
    /\ UNCHANGED <<outside, tokens, starting, pipe, lines, scanner, report, err, faults, history>>

\* The tokens that are still in the channel are not taken into account.
CountRoom ==
    /\ lister.pc = "listed"
    /\ lister' = IF err \/ lister.n >= Cap THEN Waiting
                 ELSE [Waiting EXCEPT !.pc = "pushing", !.push = Cap - lister.n]
    /\ UNCHANGED <<outside, tokens, starting, pipe, lines, scanner, report, err, faults, history>>

PushToken ==
    /\ lister.pc = "pushing" /\ tokens < Cap
    /\ tokens' = tokens + 1
    /\ lister' = IF lister.push = 1 THEN Waiting ELSE [lister EXCEPT !.push = @ - 1]
    /\ UNCHANGED <<outside, starting, pipe, lines, scanner, report, err, faults, history>>

-----------------------------------------------------------------------------
(* The scanning goroutine and the main loop                                *)

\* The scanner reads on when it has no line left, and gets some of what has
\* been written.
ScanPipe ==
    /\ scanner = "reading" /\ lines = {} /\ pipe # {}
    /\ lines' \in SUBSET pipe \ {{}}
    /\ pipe' = pipe \ lines'
    /\ UNCHANGED <<outside, tokens, starting, lister, scanner, report, err, faults, history>>

\* A line that does not fit in its buffer ends the scanner. Nobody reads the pipe
\* any more.
EndScan ==
    /\ scanner = "reading" /\ lines = {} /\ pipe # {}
    /\ scanner' = "ended"
    /\ Fails
    /\ UNCHANGED <<outside, tokens, starting, lister, pipe, lines, report, err, history>>

SelectEnded ==
    /\ report.pc = "idle"
    /\ \E l \in lines :
          /\ report' = IF l.status \in {"created", "up"} THEN Selecting
                       ELSE [pc |-> IF l.status = "ok" THEN "output" ELSE "report", line |-> l]
          /\ lines' = lines \ {l}
    /\ UNCHANGED <<outside, tokens, starting, lister, pipe, scanner, err, faults, history>>

SelectStarted ==
    /\ report.pc = "idle"
    /\ \E l \in lines :
          /\ report' = IF l.status = "created" THEN Selecting
                       ELSE [pc |-> IF l.status = "ok" THEN "output" ELSE "report", line |-> l]
          /\ lines' = lines \ {l}
    /\ UNCHANGED <<outside, tokens, starting, lister, pipe, scanner, err, faults, history>>

SelectStatus ==
    /\ report.pc = "idle"
    /\ \E l \in lines :
          /\ report' = [pc |-> IF l.status = "ok" THEN "output" ELSE "report", line |-> l]
          /\ lines' = lines \ {l}
    /\ UNCHANGED <<outside, tokens, starting, lister, pipe, scanner, err, faults, history>>

\* The output's id is read from a tar archive. An archive that is cut off gives
\* the same error again and again, and the loop over its entries continues.
ReadOutput ==
    /\ report.pc = "output"
    /\ \/ report' = [report EXCEPT !.pc = "report"] /\ Works
       \/ report' = [report EXCEPT !.pc = "spinning"] /\ Fails
    /\ UNCHANGED <<outside, tokens, starting, listing, err, history>>

OutcomeUnsigned(status) ==
    CASE status = "bad" -> "failed"
      [] status = "up" -> "open"
      [] OTHER -> "succeeded"

\* The task's fate that a status stands for; "open" is a heartbeat.
Outcome(status) ==
    CASE status \in {"created", "up"} -> "open"
      [] status = "ok" -> "succeeded"
      [] OTHER -> "failed"

ReportOrStop ==
    /\ report.pc = "report"
    /\ LET t == report.line.task IN
       \/ /\ service[t] = "open" /\ Works
          /\ service' = [service EXCEPT ![t] = Outcome(report.line.status)]
          /\ report' = Selecting
       \/ /\ IF service[t] # "open" THEN Works ELSE Fails
          /\ report' = [report EXCEPT !.pc = "stop"]
          /\ UNCHANGED service
    /\ UNCHANGED <<queue, containers, tokens, starting, listing, err, history>>

\* The service accepts a heartbeat or an outcome while it waits for the task,
\* and says that the task has timed out if it does not.
Report ==
    /\ report.pc = "report"
    /\ LET t == report.line.task IN
       \/ /\ service[t] = "open" /\ Works
          /\ service' = [service EXCEPT ![t] = Outcome(report.line.status)]
          /\ report' = Selecting
       \/ /\ service[t] # "open" /\ Works
          /\ report' = [report EXCEPT !.pc = "stop"]
          /\ UNCHANGED service
       \/ /\ Fails
          /\ report' = Selecting
          /\ UNCHANGED service
    /\ UNCHANGED <<queue, containers, tokens, starting, listing, err, history>>

\* A container that handles the signal chooses its exit code.
DockerStop ==
    /\ report.pc = "stop"
    /\ report' = [report EXCEPT !.pc = "rm"]
    /\ LET t == report.line.task IN
       \/ /\ Works
          /\ \E s \in {"ok", "bad"} :
                containers' = [x \in DOMAIN containers |->
                                  IF x = t /\ containers[t] = "up" THEN s ELSE containers[x]]
       \/ Fails /\ UNCHANGED containers
    /\ UNCHANGED <<queue, service, tokens, starting, listing, err, history>>

\* Docker removes no container that is up.
DockerRm ==
    /\ report.pc = "rm"
    /\ report' = Selecting
    /\ LET t == report.line.task IN
       \/ /\ Works
          /\ containers' = Restrict(containers,
                              {x \in DOMAIN containers : x # t \/ containers[x] = "up"})
       \/ Fails /\ UNCHANGED containers
    /\ UNCHANGED <<queue, service, tokens, starting, listing, err, history>>

-----------------------------------------------------------------------------
(* What happens elsewhere                                                  *)

ContainerExits(t) ==
    /\ t \in DOMAIN containers /\ containers[t] = "up"
    /\ \E s \in {"ok", "bad"} :
          /\ containers' = [containers EXCEPT ![t] = s]
          /\ exited' = exited \cup {<<t, s>>}
    /\ UNCHANGED <<queue, service, tokens, starting, listing, report, err, faults, persisted>>

TaskTimesOut(t) ==
    /\ service[t] = "open"
    /\ service' = [service EXCEPT ![t] = "timedout"]
    /\ UNCHANGED <<queue, containers, tokens, starting, listing, report, err, faults, history>>

\* The goroutines that ship logs assign err too.
LogsAssignErr ==
    /\ persisted # {}
    /\ err' = ~err
    /\ IF err' THEN Fails ELSE Works
    /\ UNCHANGED <<outside, tokens, starting, listing, report, history>>

\* The process is ended by a signal and started again.
Restart ==
    /\ Fails
    /\ tokens' = 0 /\ receiver' = Receiving
    /\ running' = Nobody /\ deleting' = Nobody
    /\ lister' = Waiting /\ pipe' = {} /\ lines' = {} /\ scanner' = "reading"
    /\ report' = Selecting /\ err' = FALSE
    /\ UNCHANGED <<outside, history>>

-----------------------------------------------------------------------------
Receiver ==
    \/ TakeToken \/ ReceiveNothing \/ CheckReceived \/ Decode \/ StartTask
    \/ \E t \in Tasks : ReceiveMessage(t)
Lister == ListContainers \/ Listed \/ CountRoom \/ PushToken
MainLoop == SelectStatus \/ ReadOutput \/ Report \/ DockerStop \/ DockerRm

Next ==
    \/ Receiver \/ Lister \/ ScanPipe \/ EndScan \/ MainLoop
    \/ \E t \in Tasks : DockerRun(t) \/ DeleteMessage(t) \/ ContainerExits(t) \/ TaskTimesOut(t)
    \/ LogsAssignErr \/ Restart

Spec == Init /\ [][Next]_vars

\* Goroutines run, and a queue polled again and again gives out the messages it
\* has. Containers need not end.
FairSpec ==
    /\ Spec
    /\ WF_vars(Receiver) /\ WF_vars(Lister) /\ WF_vars(ScanPipe)
    /\ WF_vars(MainLoop)
    /\ SF_vars(\E t \in Tasks : ReceiveMessage(t))
    /\ \A t \in Tasks : WF_vars(DockerRun(t)) /\ WF_vars(DeleteMessage(t))

-----------------------------------------------------------------------------
(* Properties                                                              *)

\* A task has succeeded or failed only if a container of it has exited so, and
\* not because the loop itself has stopped it or reported an old line late
\* (the feedback loop).
OutcomesTrue ==
    \A t \in Tasks :
        /\ service[t] = "succeeded" => <<t, "ok">> \in exited
        /\ service[t] = "failed" => <<t, "bad">> \in exited

\* While the service waits for a task that has ever had a container, it still
\* has it: none is removed before its outcome is known, and none is run twice
\* (the feedback loop, docker run).
ContainersKept ==
    \A t \in persisted : service[t] = "open" => t \in DOMAIN containers

\* The stage of each task, as the service and Docker show it. Docker does not
\* tell a container that was stopped from one that ended of itself.
Stage ==
    [t \in Tasks |->
        IF service[t] # "open" THEN service[t]
        ELSE IF t \notin DOMAIN containers THEN "waiting"
        ELSE IF containers[t] \in {"created", "up"} THEN "working"
        ELSE IF <<t, containers[t]>> \in exited THEN containers[t]
        ELSE "stopped"]

A == INSTANCE Activity WITH stage <- Stage, held <- DOMAIN containers

\* The worker keeps its promise: a task that is waited for is in one container,
\* nothing but its own end brings that to an end, and the end that is told is
\* the end of the container that is there, although it is told from a line that
\* was listed earlier, perhaps after others were (the feedback loop).
ServesActivity == A!Spec

\* As long as no call fails, a task whose message has been deleted has had a
\* container: what the queue forgets is persisted in Docker, although docker run
\* is not waited for by the loop and its result is not looked at (the receiving
\* goroutine).
TasksKept == faults = 0 => Tasks \ queue \subseteq persisted

\* The receiving or the scanning goroutine has returned, or the main loop reads
\* for ever.
Stuck == receiver.pc = "returned" \/ scanner = "ended" \/ report.pc = "spinning"

StatusOf(t) == IF t \in DOMAIN containers THEN containers[t] ELSE None
Reporting(t) == report.pc = "report" /\ report.line.task = t

\* Every container that is up is reported again, although the listing waits for
\* room in the token channel (the container, scan and feedback loops).
HeartbeatsGoOn ==
    \A t \in Tasks : StatusOf(t) = "up" ~> Reporting(t) \/ StatusOf(t) # "up" \/ Stuck

\* A container that has ended is removed, so that its room is given out again
\* (the second report of an outcome, answered by TaskTimedOut).
RoomComesBack ==
    \A t \in Tasks : StatusOf(t) \in {"ok", "bad"} ~> t \notin DOMAIN containers \/ Stuck

\* The container of a task that the service no longer waits for is removed,
\* whatever its status, a container included that was never started and counts
\* as in progress on every listing (the feedback loop).
ClosedRemoved ==
    \A t \in Tasks :
        service[t] # "open" /\ t \in DOMAIN containers ~> t \notin DOMAIN containers \/ Stuck

\* As many containers as there is room for have not ended.
Full == Cardinality({t \in DOMAIN containers : containers[t] \in {"created", "up"}}) >= Cap

\* Every task's message is received and deleted, unless there is no room for it:
\* also a message that is received again, its first deletion having failed, while
\* the task's container is there and makes docker run fail (the receiving
\* goroutine).
QueueDrains == \A t \in Tasks : t \in queue ~> t \notin queue \/ Full \/ Stuck
=============================================================================
