-------------------------- MODULE WorkerLoopProofs --------------------------
(***************************************************************************)
(* Theorems about WorkerLoop, for any number of tasks and tokens.          *)
(***************************************************************************)
EXTENDS WorkerLoop, FiniteSetTheorems, TLAPS

-----------------------------------------------------------------------------
(* Type correctness                                                        *)

\* Goroutines of one task are bounded because the receiver, which alone starts
\* them, looks at their number before it has the task.
RunsBounded ==
    \A t \in Tasks :
        /\ running[t] + deleting[t] <= MaxRuns
        /\ receiver.task = t => running[t] + deleting[t] < MaxRuns

\* The main loop deals with a line unless it waits for one.
HasLine == report.pc # "idle" => report.line \in Line

\* The lister hands out a token only while some are left.
HasTokens == lister.pc = "pushing" => lister.push > 0

\* The inductive strengthening of TypeOK.
TypeInv == TypeOK /\ RunsBounded /\ HasLine /\ HasTokens

\* Nothing but the receiver, the runners and the lister is concerned.
LEMMA TypeElsewhere ==
  ASSUME TypeInv,
         UNCHANGED <<queue, tokens, receiver, running, deleting, lister, err>>,
         DOMAIN containers' \subseteq Tasks, containers' \in [DOMAIN containers' -> Status],
         service' \in [Tasks -> {"open", "succeeded", "failed", "timedout"}],
         pipe' \subseteq Line, lines' \subseteq Line, scanner' \in {"reading", "ended"},
         report' \in ReportState, HasLine',
         Works \/ Fails, persisted' = persisted,
         exited' \subseteq Tasks \X {"ok", "bad"}
  PROVE  TypeInv'
  BY WorkerAssumption DEF TypeInv, TypeOK, RunsBounded, HasTokens, Works, Fails

\* Steps of the receiving goroutine keep the types.
LEMMA TypeReceiver == TypeInv /\ Receiver => TypeInv'
<1> SUFFICES ASSUME TypeInv, Receiver PROVE TypeInv'
  OBVIOUS
<1> USE WorkerAssumption DEF TypeInv, TypeOK, RunsBounded, HasLine, HasTokens, ReceiverState,
                             outside, listing, history, Works, Fails, Receiving
<1>1. CASE TakeToken
  BY <1>1 DEF TakeToken
<1>2. CASE ReceiveNothing
  BY <1>2 DEF ReceiveNothing
<1>3. CASE CheckReceived
  <2>1. receiver' \in ReceiverState
    BY <1>3 DEF CheckReceived
  <2>2. receiver'.task \in {None, receiver.task}
    BY <1>3 DEF CheckReceived
  <2> QED
    BY <1>3, <2>1, <2>2 DEF CheckReceived
<1>4. CASE Decode
  BY <1>4 DEF Decode
<1>5. CASE StartTask
  <2>1. CASE err
    BY <1>5, <2>1 DEF StartTask
  <2>2. CASE ~err
    BY <1>5, <2>2 DEF StartTask
  <2> QED
    BY <2>1, <2>2
<1>6. ASSUME NEW t \in Tasks, ReceiveMessage(t) PROVE TypeInv'
  BY <1>6 DEF ReceiveMessage
<1> QED
  BY <1>1, <1>2, <1>3, <1>4, <1>5, <1>6 DEF Receiver

\* So do those of the goroutines it starts.
LEMMA TypeRuns ==
  ASSUME NEW t \in Tasks, TypeInv, DockerRun(t) \/ DeleteMessage(t)
  PROVE  TypeInv'
<1> USE WorkerAssumption DEF TypeInv, TypeOK, RunsBounded, HasLine, HasTokens,
                             outside, listing, history, Works, Fails
<1>1. CASE DockerRun(t)
  <2>1. PICK s \in {None, "created", "up"} :
          /\ containers' = IF s = None THEN containers
                           ELSE [x \in DOMAIN containers \cup {t} |->
                                    IF x = t THEN s ELSE containers[x]]
          /\ persisted' = IF s = None THEN persisted ELSE persisted \cup {t}
          /\ Works \/ Fails
    BY <1>1 DEF DockerRun
  <2>2. DOMAIN containers' \subseteq Tasks /\ containers' \in [DOMAIN containers' -> Status]
    BY <2>1 DEF Status
  <2>3. /\ running' \in [Tasks -> 0 .. MaxRuns] /\ deleting' \in [Tasks -> 0 .. MaxRuns]
        /\ \A x \in Tasks : running'[x] + deleting'[x] = running[x] + deleting[x]
    <3> HIDE DEF TypeInv, TypeOK, RunsBounded
    <3>1. /\ running \in [Tasks -> 0 .. MaxRuns] /\ deleting \in [Tasks -> 0 .. MaxRuns]
          /\ running[t] + deleting[t] <= MaxRuns
      BY DEF TypeInv, TypeOK, RunsBounded
    <3>2. /\ running[t] > 0
          /\ running' = [running EXCEPT ![t] = @ - 1]
          /\ deleting' = [deleting EXCEPT ![t] = @ + 1]
      BY <1>1 DEF DockerRun
    <3>3. /\ running[t] - 1 \in 0 .. MaxRuns /\ deleting[t] + 1 \in 0 .. MaxRuns
          /\ (running[t] - 1) + (deleting[t] + 1) = running[t] + deleting[t]
      BY <3>1, <3>2
    <3> QED
      BY <3>1, <3>2, <3>3
  <2> QED
    BY <1>1, <2>1, <2>2, <2>3 DEF DockerRun
<1>2. CASE DeleteMessage(t)
  BY <1>2 DEF DeleteMessage
<1> QED
  BY <1>1, <1>2

\* And those of the listing goroutine.
LEMMA TypeLister == TypeInv /\ Lister => TypeInv'
<1> SUFFICES ASSUME TypeInv, Lister PROVE TypeInv'
  OBVIOUS
<1> USE WorkerAssumption DEF TypeInv, TypeOK, RunsBounded, HasLine, HasTokens, ListerState,
                             outside, starting, history, Works, Fails, Waiting
<1>1. CASE ListContainers
  <2>1. PICK ts \in SUBSET DOMAIN containers, failed \in BOOLEAN :
          /\ pipe' = LinesOf(ts)
          /\ lister' = [pc |-> "writing", failed |-> failed, n |-> Cardinality(ts), push |-> 0]
    BY <1>1 DEF ListContainers
  <2>2. Cardinality(ts) \in Nat
    BY FS_Subset, FS_CardinalityType
  <2>3. LinesOf(ts) \subseteq Line
    BY DEF LinesOf, Line
  <2>4. Works \/ Fails
    BY <1>1 DEF ListContainers
  <2> QED
    BY <1>1, <2>1, <2>2, <2>3, <2>4 DEF ListContainers
<1>2. CASE Listed
  BY <1>2 DEF Listed
<1>3. CASE CountRoom
  <2>1. lister.n < Cap => Cap - lister.n \in 1 .. Cap
    OBVIOUS
  <2>2. /\ lister' \in ListerState /\ lister'.push <= Cap
        /\ lister'.pc = "pushing" => lister'.push > 0
    <3>1. CASE err \/ lister.n >= Cap
      BY <1>3, <3>1 DEF CountRoom
    <3>2. CASE ~(err \/ lister.n >= Cap)
      <4>1. lister' = [pc |-> "pushing", failed |-> FALSE, n |-> 0, push |-> Cap - lister.n]
        BY <1>3, <3>2 DEF CountRoom
      <4>2. Cap - lister.n \in 1 .. Cap
        BY <2>1, <3>2
      <4> QED
        BY <4>1, <4>2
    <3> QED
      BY <3>1, <3>2
  <2> QED
    BY <1>3, <2>2 DEF CountRoom
<1>4. CASE PushToken
  BY <1>4 DEF PushToken
<1> QED
  BY <1>1, <1>2, <1>3, <1>4 DEF Lister

\* And those of the main loop.
LEMMA TypeMainLoop == TypeInv /\ MainLoop => TypeInv'
<1> SUFFICES ASSUME TypeInv, MainLoop PROVE TypeInv'
  OBVIOUS
<1> USE DEF outside, starting, listing, history
<1>0. /\ report \in ReportState /\ HasLine
      /\ DOMAIN containers \subseteq Tasks /\ containers \in [DOMAIN containers -> Status]
      /\ service \in [Tasks -> {"open", "succeeded", "failed", "timedout"}]
      /\ pipe \subseteq Line /\ lines \subseteq Line /\ scanner \in {"reading", "ended"}
      /\ exited \subseteq Tasks \X {"ok", "bad"}
  BY DEF TypeInv, TypeOK
<1>1. CASE SelectStatus
  <2>1. report' \in ReportState /\ HasLine' /\ lines' \subseteq Line
    BY <1>0, <1>1 DEF SelectStatus, ReportState, HasLine
  <2> QED
    BY <1>0, <1>1, <2>1, TypeElsewhere DEF SelectStatus, Works
<1>2. CASE ReadOutput
  <2>1. report' \in ReportState /\ HasLine'
    BY <1>0, <1>2 DEF ReadOutput, ReportState, HasLine
  <2> QED
    BY <1>0, <1>2, <2>1, TypeElsewhere DEF ReadOutput
<1>3. CASE Report
  <2>1. report' \in ReportState /\ HasLine'
    BY <1>0, <1>3 DEF Report, ReportState, HasLine, Selecting
  <2>2. service' \in [Tasks -> {"open", "succeeded", "failed", "timedout"}]
    BY <1>0, <1>3 DEF Report, Outcome
  <2> QED
    BY <1>0, <1>3, <2>1, <2>2, TypeElsewhere DEF Report
<1>4. CASE DockerStop
  <2>1. report' \in ReportState /\ HasLine'
    BY <1>0, <1>4 DEF DockerStop, ReportState, HasLine
  <2>2. DOMAIN containers' \subseteq Tasks /\ containers' \in [DOMAIN containers' -> Status]
    BY <1>0, <1>4 DEF DockerStop, Status
  <2> QED
    BY <1>0, <1>4, <2>1, <2>2, TypeElsewhere DEF DockerStop
<1>5. CASE DockerRm
  <2>1. report' \in ReportState /\ HasLine'
    BY <1>0, <1>5 DEF DockerRm, ReportState, HasLine, Selecting
  <2>2. DOMAIN containers' \subseteq Tasks /\ containers' \in [DOMAIN containers' -> Status]
    BY <1>0, <1>5 DEF DockerRm, Restrict
  <2> QED
    BY <1>0, <1>5, <2>1, <2>2, TypeElsewhere DEF DockerRm
<1> QED
  BY <1>1, <1>2, <1>3, <1>4, <1>5 DEF MainLoop

\* A process that has just begun has nothing in hand.
LEMMA AtRest ==
  ASSUME receiver' = Receiving, running' = Nobody, deleting' = Nobody,
         lister' = Waiting, report' = Selecting, tokens' = 0, err' = FALSE
  PROVE  /\ RunsBounded' /\ HasLine' /\ HasTokens'
         /\ receiver' \in ReceiverState /\ lister' \in ListerState /\ lister'.push <= Cap
         /\ report' \in ReportState /\ tokens' \in 0 .. Cap /\ err' \in BOOLEAN
         /\ running' \in [Tasks -> 0 .. MaxRuns] /\ deleting' \in [Tasks -> 0 .. MaxRuns]
<1>1. RunsBounded' /\ HasLine' /\ HasTokens'
  BY WorkerAssumption
  DEF RunsBounded, HasLine, HasTokens, Receiving, Nobody, Waiting, Selecting
<1>2. /\ receiver' \in ReceiverState /\ lister' \in ListerState /\ lister'.push <= Cap
      /\ report' \in ReportState /\ tokens' \in 0 .. Cap
  BY WorkerAssumption
  DEF Receiving, Waiting, Selecting, ReceiverState, ListerState, ReportState
<1>3. err' \in BOOLEAN
  OBVIOUS
<1>4. running' \in [Tasks -> 0 .. MaxRuns] /\ deleting' \in [Tasks -> 0 .. MaxRuns]
  BY WorkerAssumption DEF Nobody
<1> QED
  BY <1>1, <1>2, <1>3, <1>4

\* Every step keeps the types and the bounds they rest on.
LEMMA TypeInvStep == TypeInv /\ [Next]_vars => TypeInv'
<1> SUFFICES ASSUME TypeInv, [Next]_vars PROVE TypeInv'
  OBVIOUS
<1>0. /\ report \in ReportState /\ HasLine
      /\ DOMAIN containers \subseteq Tasks /\ containers \in [DOMAIN containers -> Status]
      /\ service \in [Tasks -> {"open", "succeeded", "failed", "timedout"}]
      /\ pipe \subseteq Line /\ lines \subseteq Line /\ scanner \in {"reading", "ended"}
      /\ exited \subseteq Tasks \X {"ok", "bad"}
  BY DEF TypeInv, TypeOK
<1>1. CASE ScanPipe \/ EndScan
  BY <1>0, <1>1, TypeElsewhere
  DEF ScanPipe, EndScan, HasLine, Works, outside, starting, history
<1>2. ASSUME NEW t \in Tasks, ContainerExits(t) PROVE TypeInv'
  <2>1. PICK s \in {"ok", "bad"} : /\ containers' = [containers EXCEPT ![t] = s]
                                  /\ exited' = exited \cup {<<t, s>>}
    BY <1>2 DEF ContainerExits
  <2>2. DOMAIN containers' \subseteq Tasks /\ containers' \in [DOMAIN containers' -> Status]
    BY <1>0, <2>1 DEF Status
  <2>3. exited' \subseteq Tasks \X {"ok", "bad"}
    BY <1>0, <2>1
  <2> QED
    BY <1>0, <1>2, <2>2, <2>3, TypeElsewhere
    DEF ContainerExits, HasLine, Works, starting, listing
<1>3. ASSUME NEW t \in Tasks, TaskTimesOut(t) PROVE TypeInv'
  BY <1>0, <1>3, TypeElsewhere DEF TaskTimesOut, HasLine, Works, starting, listing, history
<1>4. CASE LogsAssignErr
  <2>1. err' \in BOOLEAN
    BY <1>4, Zenon DEF LogsAssignErr
  <2>2. /\ UNCHANGED <<outside, tokens, starting, listing, report, history>>
        /\ Works \/ Fails
    BY <1>4 DEF LogsAssignErr
  <2> QED
    BY <2>1, <2>2, WorkerAssumption
    DEF TypeInv, TypeOK, RunsBounded, HasLine, HasTokens,
        Works, Fails, outside, starting, listing, history
<1>5. CASE Restart
  <2>1. faults' \in 0 .. MaxFaults
    BY <1>5, WorkerAssumption DEF Restart, Fails, TypeInv, TypeOK
  <2> QED
    BY <1>5, <2>1, AtRest DEF Restart, TypeInv, TypeOK, outside, history
<1>6. CASE UNCHANGED vars
  BY <1>6 DEF vars, TypeInv, TypeOK, RunsBounded, HasLine, HasTokens
<1> QED
  BY <1>1, <1>2, <1>3, <1>4, <1>5, <1>6, TypeReceiver, TypeLister, TypeMainLoop, TypeRuns
  DEF Next

LEMMA TypeInvInit == Init => TypeInv
<1> SUFFICES ASSUME Init PROVE TypeInv
  OBVIOUS
<1>1. RunsBounded /\ HasLine /\ HasTokens
  BY WorkerAssumption
  DEF Init, RunsBounded, HasLine, HasTokens, Receiving, Nobody, Waiting, Selecting
<1>2. DOMAIN containers = {} /\ containers \in [DOMAIN containers -> Status]
  BY DEF Init
<1>3. /\ receiver \in ReceiverState /\ lister \in ListerState /\ lister.push <= Cap
      /\ report \in ReportState
      /\ running \in [Tasks -> 0 .. MaxRuns] /\ deleting \in [Tasks -> 0 .. MaxRuns]
  BY WorkerAssumption
  DEF Init, Receiving, Nobody, Waiting, Selecting, ReceiverState, ListerState, ReportState
<1>4. err \in BOOLEAN
  BY DEF Init
<1>5. /\ queue \subseteq Tasks /\ tokens \in 0 .. Cap /\ faults \in 0 .. MaxFaults
      /\ service \in [Tasks -> {"open", "succeeded", "failed", "timedout"}]
      /\ pipe \subseteq Line /\ lines \subseteq Line /\ scanner \in {"reading", "ended"}
      /\ persisted \subseteq Tasks /\ exited \subseteq Tasks \X {"ok", "bad"}
  BY WorkerAssumption DEF Init
<1> QED
  BY <1>1, <1>2, <1>3, <1>4, <1>5 DEF TypeInv, TypeOK

\* The local states of the goroutines, the channel, the pipe and what is outside
\* are what they are declared to be.
THEOREM WorkerTypeCorrect == Spec => []TypeOK
<1>1. TypeInv => TypeOK
  BY DEF TypeInv
<1> QED
  BY <1>1, TypeInvInit, TypeInvStep, PTL DEF Spec

-----------------------------------------------------------------------------
(* Outcomes                                                                *)

\* An end that is told of a task the service waits for has happened: the loop
\* has not stopped its container, as it stops none whose task is open.
Truthful(t, status) ==
    service[t] = "open" /\ status \in {"ok", "bad"} => <<t, status>> \in exited

\* Containers, and the lines made from them, however late they are read.
LinesTrue ==
    /\ \A t \in DOMAIN containers : Truthful(t, containers[t])
    /\ \A l \in pipe \cup lines : Truthful(l.task, l.status)
    /\ report.pc # "idle" => Truthful(report.line.task, report.line.status)

\* The loop stops and removes containers of tasks that are not open.
StopsClosed == report.pc \in {"stop", "rm"} => service[report.line.task] # "open"

\* The inductive strengthening of OutcomesTrue and ContainersKept.
OutcomeInv == LinesTrue /\ StopsClosed /\ OutcomesTrue /\ ContainersKept

\* Steps that leave containers, lines, reports and the service alone.
LEMMA OutcomeElsewhere ==
  ASSUME OutcomeInv,
         UNCHANGED <<containers, service, report, persisted, exited>>,
         pipe' \cup lines' \subseteq pipe \cup lines
  PROVE  OutcomeInv'
  BY DEF OutcomeInv, LinesTrue, Truthful, StopsClosed, OutcomesTrue, ContainersKept

\* Every step keeps outcomes true and the containers of open tasks.
LEMMA OutcomeStep == TypeInv /\ OutcomeInv /\ [Next]_vars => OutcomeInv'
<1> SUFFICES ASSUME TypeInv, OutcomeInv, [Next]_vars PROVE OutcomeInv'
  OBVIOUS
<1> USE DEF OutcomeInv, LinesTrue, Truthful, StopsClosed, OutcomesTrue, ContainersKept,
            outside, starting, listing, history
<1>0. /\ DOMAIN containers \subseteq Tasks /\ persisted \subseteq Tasks
      /\ service \in [Tasks -> {"open", "succeeded", "failed", "timedout"}]
      /\ HasLine /\ report \in ReportState
      /\ pipe \subseteq Line /\ lines \subseteq Line /\ scanner \in {"reading", "ended"}
      /\ exited \subseteq Tasks \X {"ok", "bad"}
  BY DEF TypeInv, TypeOK
<1>1. CASE Receiver \/ UNCHANGED vars \/ LogsAssignErr \/ Listed \/ CountRoom \/ PushToken
  BY <1>1, OutcomeElsewhere
  DEF Receiver, TakeToken, ReceiveNothing, CheckReceived, Decode, StartTask, ReceiveMessage,
      vars, LogsAssignErr, Listed, CountRoom, PushToken
<1>2. CASE ListContainers
  <2>1. PICK ts \in SUBSET DOMAIN containers : pipe' = LinesOf(ts)
    BY <1>2 DEF ListContainers
  <2>2. \A l \in pipe' : Truthful(l.task, l.status)
    BY <2>1 DEF LinesOf
  <2> QED
    BY <1>2, <2>2 DEF ListContainers
<1>3. CASE ScanPipe \/ EndScan
  BY <1>3, OutcomeElsewhere DEF ScanPipe, EndScan
<1>4. CASE SelectStatus
  BY <1>4 DEF SelectStatus
<1>5. CASE ReadOutput
  <2>1. report'.line = report.line /\ report'.pc \in {"report", "spinning"}
    BY <1>0, <1>5 DEF ReadOutput, ReportState
  <2> QED
    BY <1>5, <2>1 DEF ReadOutput
<1>6. CASE Report
  <2>1. report.line.task \in Tasks /\ report.line.status \in Status
    BY <1>0, <1>6 DEF Report, HasLine, Line
  <2>2. CASE service' = service
    <3>1. \/ report' = Selecting
          \/ /\ service[report.line.task] # "open"
             /\ report'.line = report.line /\ report'.pc = "stop"
      BY <1>0, <1>6, <2>2 DEF Report, ReportState
    <3>2. report.pc # "idle"
      BY <1>6 DEF Report
    <3> QED
      BY <1>6, <2>2, <3>1, <3>2 DEF Report, Selecting
  <2>3. CASE /\ service[report.line.task] = "open"
             /\ service' = [service EXCEPT ![report.line.task] = Outcome(report.line.status)]
             /\ report' = Selecting
    <3>1. \A t \in Tasks : service'[t] = "open" => service[t] = "open"
      BY <1>0, <2>1, <2>3
    <3>2. OutcomesTrue'
      BY <1>0, <1>6, <2>1, <2>3 DEF Report, Outcome, Status
    <3>3. LinesTrue'
      BY <1>0, <1>6, <2>3, <3>1 DEF Report, Selecting, Line
    <3> QED
      BY <1>0, <1>6, <2>3, <3>1, <3>2, <3>3 DEF Report, Selecting
  <2> QED
    BY <1>6, <2>2, <2>3 DEF Report
<1>7. CASE DockerStop
  <2>1. DOMAIN containers' = DOMAIN containers
    BY <1>7 DEF DockerStop
  <2>2. \A t \in DOMAIN containers : service[t] = "open" => containers'[t] = containers[t]
    BY <1>7 DEF DockerStop
  <2> QED
    BY <1>7, <2>1, <2>2 DEF DockerStop
<1>8. CASE DockerRm
  <2>1. DOMAIN containers' \subseteq DOMAIN containers
    BY <1>8 DEF DockerRm, Restrict
  <2>2. \A t \in DOMAIN containers' : containers'[t] = containers[t]
    BY <1>8 DEF DockerRm, Restrict
  <2>3. \A t \in DOMAIN containers : service[t] = "open" => t \in DOMAIN containers'
    BY <1>8 DEF DockerRm, Restrict
  <2> QED
    BY <1>8, <2>1, <2>2, <2>3 DEF DockerRm, Selecting
<1>9. ASSUME NEW t \in Tasks, DockerRun(t) PROVE OutcomeInv'
  <2>1. PICK s \in {None, "created", "up"} :
          /\ containers' = IF s = None THEN containers
                           ELSE [x \in DOMAIN containers \cup {t} |->
                                    IF x = t THEN s ELSE containers[x]]
          /\ persisted' = IF s = None THEN persisted ELSE persisted \cup {t}
          /\ t \in DOMAIN containers => s = None
    BY <1>9 DEF DockerRun
  <2>2. CASE s = None
    BY <1>9, <2>1, <2>2 DEF DockerRun
  <2>3. CASE s # None
    BY <1>9, <2>1, <2>3 DEF DockerRun
  <2> QED
    BY <2>2, <2>3
<1>10. ASSUME NEW t \in Tasks, DeleteMessage(t) PROVE OutcomeInv'
  BY <1>10, OutcomeElsewhere DEF DeleteMessage
<1>11. ASSUME NEW t \in Tasks, ContainerExits(t) PROVE OutcomeInv'
  <2>1. PICK s \in {"ok", "bad"} : /\ containers' = [containers EXCEPT ![t] = s]
                                  /\ exited' = exited \cup {<<t, s>>}
    BY <1>11 DEF ContainerExits
  <2> QED
    BY <1>0, <1>11, <2>1 DEF ContainerExits
<1>12. ASSUME NEW t \in Tasks, TaskTimesOut(t) PROVE OutcomeInv'
  <2>1. \A x \in Tasks : service'[x] \notin {"timedout"} => service'[x] = service[x]
    BY <1>0, <1>12 DEF TaskTimesOut
  <2>2. LinesTrue'
    BY <1>0, <1>12, <2>1 DEF TaskTimesOut, HasLine, Line
  <2>3. StopsClosed'
    BY <1>0, <1>12, <2>1 DEF TaskTimesOut, HasLine, Line
  <2> QED
    BY <1>0, <1>12, <2>1, <2>2, <2>3 DEF TaskTimesOut
<1>13. CASE Restart
  BY <1>13 DEF Restart, Selecting
<1> QED
  BY <1>1, <1>2, <1>3, <1>4, <1>5, <1>6, <1>7, <1>8, <1>9, <1>10, <1>11, <1>12, <1>13
  DEF Next, Lister, MainLoop

LEMMA OutcomeInit == Init => OutcomeInv
  BY DEF Init, OutcomeInv, LinesTrue, StopsClosed, OutcomesTrue, ContainersKept, Selecting

\* What the service learns of a task's end is what its container did.
THEOREM OutcomesAreTrue == Spec => []OutcomesTrue
<1>1. OutcomeInv => OutcomesTrue
  BY DEF OutcomeInv
<1> QED
  BY <1>1, TypeInvInit, TypeInvStep, OutcomeInit, OutcomeStep, PTL DEF Spec

\* No container is removed, and no task run again, while the service waits.
THEOREM OpenContainersKept == Spec => []ContainersKept
<1>1. OutcomeInv => ContainersKept
  BY DEF OutcomeInv
<1> QED
  BY <1>1, TypeInvInit, TypeInvStep, OutcomeInit, OutcomeStep, PTL DEF Spec

-----------------------------------------------------------------------------
(* The worker keeps its promise                                            *)

\* An end that is told of a task the service waits for is that of the container
\* the task has.
Current(l) ==
    service[l.task] = "open" /\ l.status \in {"ok", "bad"} =>
        l.task \in DOMAIN containers /\ containers[l.task] = l.status

LinesCurrent ==
    /\ \A l \in pipe \cup lines : Current(l)
    /\ report.pc # "idle" => Current(report.line)

\* A container that has ended stays as it is while the service waits for its
\* task.
LEMMA EndedStays ==
  ASSUME TypeInv, OutcomeInv, [Next]_vars, NEW t \in Tasks, service'[t] = "open"
  PROVE  /\ service[t] = "open"
         /\ t \in DOMAIN containers /\ containers[t] \in {"ok", "bad"} =>
               t \in DOMAIN containers' /\ containers'[t] = containers[t]
<1> USE DEF outside, starting, listing, history
<1>0. /\ DOMAIN containers \subseteq Tasks /\ containers \in [DOMAIN containers -> Status]
      /\ service \in [Tasks -> {"open", "succeeded", "failed", "timedout"}]
      /\ report \in ReportState /\ HasLine /\ StopsClosed
  BY DEF TypeInv, TypeOK, OutcomeInv
<1>1. CASE UNCHANGED <<containers, service>>
  BY <1>1
<1>2. CASE Report
  <2>1. report.line.task \in Tasks
    BY <1>0, <1>2 DEF Report, HasLine, Line
  <2> QED
    BY <1>0, <1>2, <2>1 DEF Report
<1>3. CASE DockerStop
  BY <1>0, <1>3 DEF DockerStop, StopsClosed
<1>4. CASE DockerRm
  BY <1>0, <1>4 DEF DockerRm, StopsClosed, Restrict
<1>5. ASSUME NEW x \in Tasks, DockerRun(x)
      PROVE  /\ service' = service
             /\ \A y \in DOMAIN containers : y \in DOMAIN containers' /\ containers'[y] = containers[y]
  <2>1. PICK s \in {None, "created", "up"} :
          /\ containers' = IF s = None THEN containers
                           ELSE [y \in DOMAIN containers \cup {x} |->
                                    IF y = x THEN s ELSE containers[y]]
          /\ x \in DOMAIN containers => s = None
    BY <1>5 DEF DockerRun
  <2> QED
    BY <1>5, <2>1 DEF DockerRun
<1>6. ASSUME NEW x \in Tasks, ContainerExits(x)
      PROVE  /\ service' = service
             /\ t \in DOMAIN containers /\ containers[t] \in {"ok", "bad"} =>
                   t \in DOMAIN containers' /\ containers'[t] = containers[t]
  BY <1>0, <1>6 DEF ContainerExits
<1>7. ASSUME NEW x \in Tasks, TaskTimesOut(x)
      PROVE  containers' = containers /\ service[t] = "open"
  BY <1>0, <1>7 DEF TaskTimesOut
<1> QED
  BY <1>0, <1>1, <1>2, <1>3, <1>4, <1>5, <1>6, <1>7
  DEF Next, Receiver, TakeToken, ReceiveNothing, CheckReceived, Decode, StartTask,
      ReceiveMessage, DeleteMessage, Lister, ListContainers, Listed, CountRoom, PushToken,
      ScanPipe, EndScan, MainLoop, SelectStatus, ReadOutput, LogsAssignErr, Restart, vars

\* What a line says is taken from the containers or from another line.
LEMMA LinesComeFrom ==
  ASSUME TypeInv, [Next]_vars
  PROVE  /\ \/ pipe' \cup lines' \subseteq pipe \cup lines
            \/ /\ pipe' \subseteq LinesOf(DOMAIN containers) /\ lines' = lines
               /\ UNCHANGED <<containers, service>>
         /\ report'.pc # "idle" =>
               \/ report'.line \in lines
               \/ report.pc # "idle" /\ report'.line = report.line
<1> USE DEF outside, starting, listing, history
<1>0. report \in ReportState /\ HasLine
  BY DEF TypeInv, TypeOK
<1>1. CASE ListContainers
  BY <1>1 DEF ListContainers, LinesOf
<1>2. CASE ScanPipe
  BY <1>2 DEF ScanPipe
<1>3. CASE SelectStatus
  BY <1>3 DEF SelectStatus
<1>4. CASE ReadOutput \/ Report \/ DockerStop \/ DockerRm
  <2>1. UNCHANGED <<pipe, lines>>
    BY <1>4 DEF ReadOutput, Report, DockerStop, DockerRm
  <2>2. report' = Selecting \/ (report.pc # "idle" /\ report'.line = report.line)
    BY <1>0, <1>4 DEF ReadOutput, Report, DockerStop, DockerRm, ReportState
  <2> QED
    BY <2>1, <2>2 DEF Selecting
<1>5. CASE UNCHANGED <<pipe, lines, report>>
  BY <1>5
<1>6. CASE Restart
  BY <1>6 DEF Restart, Selecting
<1> QED
  BY <1>1, <1>2, <1>3, <1>4, <1>5, <1>6
  DEF Next, Receiver, TakeToken, ReceiveNothing, CheckReceived, Decode, StartTask,
      ReceiveMessage, DockerRun, DeleteMessage, Lister, Listed, CountRoom, PushToken,
      EndScan, MainLoop, LogsAssignErr, ContainerExits, TaskTimesOut, vars

\* Lines never grow old as long as they matter: until the service stops waiting
\* they say what the container still is.
LEMMA LinesCurrentStep ==
  ASSUME TypeInv, OutcomeInv, LinesCurrent, [Next]_vars
  PROVE  LinesCurrent'
<1>0. /\ pipe \subseteq Line /\ lines \subseteq Line /\ HasLine
      /\ DOMAIN containers \subseteq Tasks
  BY DEF TypeInv, TypeOK
<1>1. ASSUME NEW l \in Line, Current(l) PROVE Current(l)'
  BY <1>1, EndedStays DEF Current, Line
<1>2. \A l \in pipe' \cup lines' : Current(l)'
  <2>1. CASE pipe' \cup lines' \subseteq pipe \cup lines
    BY <1>0, <1>1, <2>1 DEF LinesCurrent
  <2>2. CASE /\ pipe' \subseteq LinesOf(DOMAIN containers) /\ lines' = lines
             /\ UNCHANGED <<containers, service>>
    BY <2>2 DEF LinesCurrent, LinesOf, Current
  <2> QED
    BY <2>1, <2>2, LinesComeFrom
<1>3. ASSUME report'.pc # "idle" PROVE Current(report.line)'
  <2>1. PICK l \in Line : Current(l) /\ report'.line = l
    BY <1>0, <1>3, LinesComeFrom DEF LinesCurrent, HasLine
  <2> QED
    BY <1>1, <2>1 DEF Current
<1> QED
  BY <1>2, <1>3 DEF LinesCurrent

\* The stage of one task.
StageOf(t) ==
    IF service[t] # "open" THEN service[t]
    ELSE IF t \notin DOMAIN containers THEN "waiting"
    ELSE IF containers[t] \in {"created", "up"} THEN "working"
    ELSE IF <<t, containers[t]>> \in exited THEN containers[t]
    ELSE "stopped"

\* Every step of the worker, of Docker and of the service is a step of the
\* contract, or leaves it unchanged.
LEMMA ActivityStep ==
  ASSUME TypeInv, OutcomeInv, LinesCurrent, Next
  PROVE  A!Next \/ UNCHANGED A!activityVars
<1> USE DEF outside, starting, listing, history
<1>0. /\ DOMAIN containers \subseteq Tasks /\ containers \in [DOMAIN containers -> Status]
      /\ service \in [Tasks -> {"open", "succeeded", "failed", "timedout"}]
      /\ HasLine /\ StopsClosed
  BY DEF TypeInv, TypeOK, OutcomeInv
<1>1. Stage = [t \in Tasks |-> StageOf(t)] /\ Stage' = [t \in Tasks |-> StageOf(t)']
  BY DEF Stage, StageOf
<1>2. ASSUME UNCHANGED DOMAIN containers, \A t \in Tasks : StageOf(t)' = StageOf(t)
      PROVE  UNCHANGED A!activityVars
  BY <1>1, <1>2 DEF A!activityVars
<1>3. ASSUME NEW t \in Tasks, \A x \in Tasks \ {t} : StageOf(x)' = StageOf(x)
      PROVE  Stage[t] = StageOf(t) /\ Stage' = [Stage EXCEPT ![t] = StageOf(t)']
  BY <1>1, <1>3
<1>4. CASE Report
  <2> PICK t : t = report.line.task
    OBVIOUS
  <2>1. /\ report.pc = "report" /\ report.line \in Line /\ t \in Tasks
        /\ UNCHANGED <<containers, exited>>
    BY <1>0, <1>4 DEF Report, HasLine, Line
  <2>2. CASE service' = service
    BY <1>2, <2>1, <2>2 DEF StageOf
  <2>3. CASE /\ service[t] = "open"
             /\ service' = [service EXCEPT ![t] = Outcome(report.line.status)]
    <3>1. CASE report.line.status \in {"created", "up"}
      <4>1. service' = service
        BY <1>0, <2>1, <2>3, <3>1 DEF Outcome
      <4> QED
        BY <2>2, <4>1
    <3>2. CASE report.line.status \in {"ok", "bad"}
      <4>1. /\ t \in DOMAIN containers /\ containers[t] = report.line.status
            /\ <<t, containers[t]>> \in exited
        BY <2>1, <2>3, <3>2 DEF LinesCurrent, Current, OutcomeInv, LinesTrue, Truthful
      <4>2. StageOf(t) = containers[t] /\ containers[t] \in {"ok", "bad"}
        BY <2>3, <3>2, <4>1 DEF StageOf
      <4>3. StageOf(t)' = IF containers[t] = "ok" THEN "succeeded" ELSE "failed"
        BY <1>0, <2>1, <2>3, <3>2, <4>1 DEF StageOf, Outcome
      <4>4. \A x \in Tasks \ {t} : StageOf(x)' = StageOf(x)
        BY <1>0, <2>1, <2>3 DEF StageOf
      <4>5. A!Tell(t)
        BY <1>3, <2>1, <4>2, <4>3, <4>4 DEF A!Tell
      <4> QED
        BY <2>1, <4>5 DEF A!Next
    <3> QED
      BY <2>1, <3>1, <3>2 DEF Line, Status
  <2> QED
    BY <1>4, <2>2, <2>3 DEF Report
<1>5. CASE DockerStop
  <2>1. DOMAIN containers' = DOMAIN containers
    BY <1>5 DEF DockerStop
  <2>2. \A t \in DOMAIN containers : service[t] = "open" => containers'[t] = containers[t]
    BY <1>0, <1>5 DEF DockerStop, StopsClosed
  <2> QED
    BY <1>2, <1>5, <2>1, <2>2 DEF DockerStop, StageOf
<1>6. CASE DockerRm
  <2> PICK t : t = report.line.task
    OBVIOUS
  <2>1. t \in Tasks /\ service[t] # "open" /\ UNCHANGED <<service, exited>>
    BY <1>0, <1>6 DEF DockerRm, StopsClosed, HasLine, Line
  <2>2. \/ containers' = containers
        \/ /\ DOMAIN containers' = DOMAIN containers \ {t}
           /\ \A x \in DOMAIN containers' : containers'[x] = containers[x]
    <3> DEFINE stay == {x \in DOMAIN containers : x # t \/ containers[x] = "up"}
    <3>1. stay = DOMAIN containers \/ stay = DOMAIN containers \ {t}
      OBVIOUS
    <3>2. containers' = containers \/ containers' = [x \in stay |-> containers[x]]
      BY <1>6 DEF DockerRm, Restrict
    <3> HIDE DEF stay
    <3> QED
      BY <1>0, <3>1, <3>2
  <2>3. \A x \in Tasks : StageOf(x)' = StageOf(x)
    BY <2>1, <2>2 DEF StageOf
  <2>4. CASE containers' = containers
    BY <1>2, <2>3, <2>4
  <2>5. CASE DOMAIN containers' = DOMAIN containers \ {t}
    <3>1. Stage[t] \in A!Closed
      BY <1>0, <1>1, <2>1 DEF StageOf, A!Closed
    <3>2. A!Remove(t)
      BY <1>1, <2>3, <2>5, <3>1 DEF A!Remove
    <3> QED
      BY <2>1, <3>2 DEF A!Next
  <2> QED
    BY <2>2, <2>4, <2>5
<1>7. ASSUME NEW t \in Tasks, DockerRun(t) PROVE A!Next \/ UNCHANGED A!activityVars
  <2>1. PICK s \in {None, "created", "up"} :
          /\ containers' = IF s = None THEN containers
                           ELSE [x \in DOMAIN containers \cup {t} |->
                                    IF x = t THEN s ELSE containers[x]]
          /\ t \in DOMAIN containers => s = None
    BY <1>7 DEF DockerRun
  <2>2. UNCHANGED <<service, exited>>
    BY <1>7 DEF DockerRun
  <2>3. CASE s = None
    BY <1>2, <2>1, <2>2, <2>3 DEF StageOf
  <2>4. CASE s # None
    <3>1. /\ t \notin DOMAIN containers /\ DOMAIN containers' = DOMAIN containers \cup {t}
          /\ containers'[t] \in {"created", "up"}
          /\ \A x \in DOMAIN containers : containers'[x] = containers[x]
      BY <2>1, <2>4
    <3>2. \A x \in Tasks \ {t} : StageOf(x)' = StageOf(x)
      BY <2>2, <3>1 DEF StageOf
    <3>3. CASE service[t] = "open"
      <4>1. StageOf(t) = "waiting" /\ StageOf(t)' = "working"
        BY <2>2, <3>1, <3>3 DEF StageOf
      <4>2. A!Create(t)
        BY <1>3, <3>1, <3>2, <4>1 DEF A!Create, A!Closed
      <4> QED
        BY <4>2 DEF A!Next
    <3>4. CASE service[t] # "open"
      <4>1. Stage' = Stage /\ Stage[t] \in A!Closed
        BY <1>0, <1>1, <2>2, <3>2, <3>4 DEF StageOf, A!Closed
      <4>2. A!Create(t)
        BY <3>1, <4>1 DEF A!Create
      <4> QED
        BY <4>2 DEF A!Next
    <3> QED
      BY <3>3, <3>4
  <2> QED
    BY <2>3, <2>4
<1>8. ASSUME NEW t \in Tasks, ContainerExits(t) PROVE A!Next \/ UNCHANGED A!activityVars
  <2>1. PICK s \in {"ok", "bad"} : /\ containers' = [containers EXCEPT ![t] = s]
                                  /\ exited' = exited \cup {<<t, s>>}
    BY <1>8 DEF ContainerExits
  <2>2. /\ t \in DOMAIN containers /\ containers[t] = "up" /\ service' = service
        /\ DOMAIN containers' = DOMAIN containers
    BY <1>8, <2>1 DEF ContainerExits
  <2>3. \A x \in Tasks \ {t} : StageOf(x)' = StageOf(x)
    BY <1>0, <2>1, <2>2 DEF StageOf
  <2>4. CASE service[t] = "open"
    <3>1. StageOf(t) = "working" /\ StageOf(t)' = s
      BY <1>0, <2>1, <2>2, <2>4 DEF StageOf
    <3>2. A!End(t, s)
      BY <1>3, <2>2, <2>3, <3>1 DEF A!End
    <3> QED
      BY <3>2 DEF A!Next
  <2>5. CASE service[t] # "open"
    <3>1. \A x \in Tasks : StageOf(x)' = StageOf(x)
      BY <2>2, <2>3, <2>5 DEF StageOf
    <3> QED
      BY <1>2, <2>2, <3>1
  <2> QED
    BY <2>4, <2>5
<1>9. ASSUME NEW t \in Tasks, TaskTimesOut(t) PROVE A!Next
  <2>1. /\ service[t] = "open" /\ service' = [service EXCEPT ![t] = "timedout"]
        /\ UNCHANGED <<containers, exited>>
    BY <1>9 DEF TaskTimesOut
  <2>2. \A x \in Tasks \ {t} : StageOf(x)' = StageOf(x)
    BY <1>0, <2>1 DEF StageOf
  <2>3. StageOf(t)' = "timedout"
    BY <1>0, <2>1 DEF StageOf
  <2>4. StageOf(t) \in A!Open
    BY <1>0, <2>1 DEF StageOf, A!Open, OutcomeInv, LinesTrue, Truthful, Status
  <2>5. A!TimeOut(t)
    BY <1>3, <2>1, <2>2, <2>3, <2>4 DEF A!TimeOut
  <2> QED
    BY <2>5 DEF A!Next
<1>10. CASE UNCHANGED <<containers, service, exited>>
  BY <1>2, <1>10 DEF StageOf
<1> QED
  BY <1>4, <1>5, <1>6, <1>7, <1>8, <1>9, <1>10
  DEF Next, Receiver, TakeToken, ReceiveNothing, CheckReceived, Decode, StartTask,
      ReceiveMessage, DeleteMessage, Lister, ListContainers, Listed, CountRoom, PushToken,
      ScanPipe, EndScan, MainLoop, SelectStatus, ReadOutput, LogsAssignErr, Restart

\* WorkerLoop implements Activity: one container per task that is waited for,
\* left alone until its own end has been told, whatever fails or restarts.
THEOREM ActivityServed == Spec => ServesActivity
<1>1. Init => A!Init /\ LinesCurrent
  BY DEF Init, A!Init, Stage, LinesCurrent, Selecting
<1>2. UNCHANGED vars => UNCHANGED A!activityVars
  BY DEF vars, A!activityVars, Stage
<1>3. TypeInv /\ OutcomeInv /\ LinesCurrent /\ [Next]_vars
        => LinesCurrent' /\ [A!Next]_A!activityVars
  BY <1>2, ActivityStep, LinesCurrentStep
<1> QED
  BY <1>1, <1>3, TypeInvInit, TypeInvStep, OutcomeInit, OutcomeStep, PTL
  DEF Spec, A!Spec, ServesActivity

-----------------------------------------------------------------------------
(* Messages                                                                *)

\* The inductive strengthening of TasksKept: a message is about to be deleted,
\* or a container there, only for tasks that have had a container.
KeptInv ==
    faults = 0 =>
        /\ Tasks \ queue \subseteq persisted
        /\ DOMAIN containers \subseteq persisted
        /\ \A t \in Tasks : deleting[t] > 0 => t \in persisted

LEMMA KeptStep == TypeInv /\ KeptInv /\ [Next]_vars => KeptInv'
<1> SUFFICES ASSUME TypeInv, KeptInv, [Next]_vars, faults' = 0
             PROVE  /\ Tasks \ queue' \subseteq persisted'
                    /\ DOMAIN containers' \subseteq persisted'
                    /\ \A t \in Tasks : deleting'[t] > 0 => t \in persisted'
  BY DEF KeptInv
<1> USE DEF outside, starting, listing, history, Works, Fails
<1>0. faults \in Nat /\ deleting \in [Tasks -> 0 .. MaxRuns] /\ MaxRuns \in Nat
  BY WorkerAssumption DEF TypeInv, TypeOK
<1>1. faults = 0
  <2>1. faults' = faults \/ faults' = faults + 1
    BY DEF Next, Receiver, Lister, MainLoop, TakeToken, ReceiveMessage, ReceiveNothing,
       CheckReceived, Decode, StartTask, DockerRun, DeleteMessage, ListContainers, Listed,
       CountRoom, PushToken, ScanPipe, EndScan, SelectStatus, ReadOutput, Report,
       DockerStop, DockerRm, ContainerExits, TaskTimesOut, LogsAssignErr, Restart, vars
  <2> QED
    BY <1>0, <2>1
<1>2. /\ Tasks \ queue \subseteq persisted
      /\ DOMAIN containers \subseteq persisted
      /\ \A t \in Tasks : deleting[t] > 0 => t \in persisted
  BY <1>1 DEF KeptInv
<1>3. CASE UNCHANGED <<queue, containers, deleting, persisted>>
  BY <1>2, <1>3
<1>4. ASSUME NEW t \in Tasks, DockerRun(t)
      PROVE  /\ Tasks \ queue' \subseteq persisted'
             /\ DOMAIN containers' \subseteq persisted'
             /\ \A u \in Tasks : deleting'[u] > 0 => u \in persisted'
  <2>1. PICK s \in {None, "created", "up"} :
          /\ containers' = IF s = None THEN containers
                           ELSE [x \in DOMAIN containers \cup {t} |->
                                    IF x = t THEN s ELSE containers[x]]
          /\ persisted' = IF s = None THEN persisted ELSE persisted \cup {t}
          /\ s = "up" \/ t \in DOMAIN containers
          /\ t \in DOMAIN containers => s = None
    BY <1>0, <1>1, <1>4 DEF DockerRun
  <2>2. t \in persisted' /\ persisted \subseteq persisted'
    BY <1>2, <2>1, StatusAssumption DEF Status
  <2>3. queue' = queue /\ deleting' = [deleting EXCEPT ![t] = @ + 1]
    BY <1>4 DEF DockerRun
  <2>4. DOMAIN containers' \subseteq persisted'
    BY <1>2, <2>1, <2>2
  <2> QED
    BY <1>0, <1>2, <2>2, <2>3, <2>4
<1>5. ASSUME NEW t \in Tasks, DeleteMessage(t)
      PROVE  /\ Tasks \ queue' \subseteq persisted'
             /\ DOMAIN containers' \subseteq persisted'
             /\ \A u \in Tasks : deleting'[u] > 0 => u \in persisted'
  <2>1. /\ deleting[t] > 0 /\ deleting' = [deleting EXCEPT ![t] = @ - 1]
        /\ UNCHANGED <<containers, persisted>> /\ (queue' = queue \ {t} \/ queue' = queue)
    BY <1>5 DEF DeleteMessage
  <2>2. \A u \in Tasks : deleting'[u] > 0 => deleting[u] > 0
    BY <1>0, <2>1
  <2> QED
    BY <1>2, <2>1, <2>2
<1>6. CASE DockerStop \/ DockerRm
  <2>1. UNCHANGED <<queue, deleting, persisted>>
    BY <1>6 DEF DockerStop, DockerRm
  <2>2. DOMAIN containers' \subseteq DOMAIN containers
    BY <1>6 DEF DockerStop, DockerRm, Restrict
  <2> QED
    BY <1>2, <2>1, <2>2
<1>7. ASSUME NEW t \in Tasks, ContainerExits(t)
      PROVE  /\ Tasks \ queue' \subseteq persisted'
             /\ DOMAIN containers' \subseteq persisted'
             /\ \A u \in Tasks : deleting'[u] > 0 => u \in persisted'
  BY <1>2, <1>7 DEF ContainerExits
<1>8. CASE Restart
  BY <1>0, <1>1, <1>8 DEF Restart
<1>9. CASE Receiver \/ Lister \/ ScanPipe \/ EndScan \/ SelectStatus \/ ReadOutput \/ Report
              \/ LogsAssignErr \/ UNCHANGED vars \/ \E t \in Tasks : TaskTimesOut(t)
  <2>1. UNCHANGED <<queue, containers, deleting, persisted>>
    BY <1>9 DEF Receiver, Lister, TakeToken, ReceiveMessage, ReceiveNothing,
       CheckReceived, Decode, StartTask, ListContainers, Listed, CountRoom, PushToken,
       ScanPipe, EndScan, SelectStatus, ReadOutput, Report, TaskTimesOut, LogsAssignErr,
       vars
  <2> QED
    BY <1>3, <2>1
<1> QED
  BY <1>4, <1>5, <1>6, <1>7, <1>8, <1>9 DEF Next, MainLoop

\* As long as no call fails, the message of a task is deleted only once Docker
\* has had a container for it.
THEOREM NoTaskForgotten == Spec => []TasksKept
<1>1. Init => KeptInv
  BY DEF Init, KeptInv, Nobody
<1>2. KeptInv => TasksKept
  BY DEF KeptInv, TasksKept
<1> QED
  BY <1>1, <1>2, TypeInvInit, TypeInvStep, KeptStep, PTL DEF Spec
=============================================================================
