----------------------------- MODULE LogShipper -----------------------------
(***************************************************************************)
(* How the worker process ships the log of one container.  When it sees    *)
(* the container for the first time, one goroutine follows `docker logs',  *)
(* one scans its lines into a channel, and another collects them in a      *)
(* batch and puts the batch on a log stream, when it is large enough or    *)
(* nothing has come for a while.  Each put carries the token that the put  *)
(* before it returned; the service refuses any other.                      *)
(*                                                                         *)
(* Lines are numbered in the order the container wrote them.  A token is   *)
(* the number of puts before it, 0 for none.                               *)
(***************************************************************************)
EXTENDS Integers, Sequences, Functions

CONSTANTS
    Lines,        \* number of lines the container writes
    LongAt,       \* bound: lines that may be the first the scanner cannot take
    BufSize,      \* bufSize: of the channel, and of a batch
    MaxFaults     \* bound: calls that fail, and restarts

ASSUME ShipperAssumption ==
    Lines \in Nat /\ LongAt \subseteq 1 .. Lines /\ BufSize \in Nat \ {0} /\ MaxFaults \in Nat

VARIABLES
    pipe,         \* whether `docker logs' writes to the scanner
    long,         \* the first line of 64 KiB or more, Lines + 1 if there is none
    next,         \* the line that is scanned next
    scan,         \* where the goroutine that scans the log is
    evCh,         \* lines in the channel
    pusher,       \* where the goroutine that pushes logs is
    logsEvIn,     \* its input: the batch, the token, whether it has a name
    reply,        \* the token in the answer to its latest put
    err,          \* the variable err of main, shared by most goroutines
    exists,       \* the log stream has been created
    stream,       \* lines in the log stream
    puts,         \* puts accepted
    faults,       \* calls that failed, and restarts
    sent          \* history: lines sent on the channel by this process

scanner == <<pipe, long, next, scan, evCh>>
remote == <<exists, stream, puts>>
vars == <<pipe, long, next, scan, evCh, pusher, logsEvIn, reply, err, exists, stream,
          puts, faults, sent>>

Line == 1 .. Lines
Unnamed == [events |-> <<>>, token |-> 0, named |-> FALSE]

TypeOK ==
    /\ pipe \in {"unseen", "open", "ended"}
    /\ long \in 1 .. Lines + 1 /\ next \in 1 .. long
    /\ scan \in {"scan", "parsed", "send", "ended"}
    /\ scan \in {"parsed", "send"} => next < long
    /\ evCh \in Seq(Line) /\ Len(evCh) <= BufSize
    /\ pusher \in {"select", "create", "created", "put", "answered"}
    /\ logsEvIn \in [events : Seq(Line), token : Nat, named : BOOLEAN]
    /\ pusher \notin {"select"} => logsEvIn.events # <<>>
    /\ reply \in Nat
    /\ err \in BOOLEAN
    /\ exists \in BOOLEAN /\ stream \in Seq(Line) /\ puts \in Nat
    /\ faults \in 0 .. MaxFaults /\ sent \subseteq Line

Init ==
    /\ pipe = "unseen"
    /\ long \in LongAt \cup {Lines + 1}
    /\ next = 1 /\ scan = "scan" /\ evCh = <<>>
    /\ pusher = "select" /\ logsEvIn = Unnamed /\ reply = 0
    /\ err = FALSE
    /\ exists = FALSE /\ stream = <<>> /\ puts = 0
    /\ faults = 0 /\ sent = {}

Works == faults' = faults
Fails == faults < MaxFaults /\ faults' = faults + 1

-----------------------------------------------------------------------------
(* The logging routine and pipeLogs                                        *)

\* A container in the listing has not been seen before by this process: its
\* goroutines are started. They never are a second time.
FollowContainer ==
    /\ pipe = "unseen"
    /\ pipe' = "open"
    /\ UNCHANGED <<long, next, scan, evCh, pusher, logsEvIn, reply, err, remote, faults, sent>>

\* `docker logs' ends after the last line, or fails before. Nobody closes the
\* pipe, and the scanner goes on waiting. A scanner that has ended leaves
\* `docker logs', and the wait for it, blocked in a write.
EndPipe ==
    /\ pipe = "open" /\ scan # "ended"
    /\ pipe' = "ended"
    /\ \/ next > Lines /\ err' = FALSE /\ Works
       \/ err' = TRUE /\ Fails
    /\ UNCHANGED <<long, next, scan, evCh, pusher, logsEvIn, reply, remote, sent>>

-----------------------------------------------------------------------------
(* scanLogs                                                                *)

ParseTime ==
    /\ pipe = "open" /\ scan = "scan" /\ next < long
    /\ scan' = "parsed"
    /\ err' \in BOOLEAN
    /\ IF err' THEN Fails ELSE Works
    /\ UNCHANGED <<pipe, long, next, evCh, pusher, logsEvIn, reply, remote, sent>>

\* A line whose time cannot be parsed is passed over, and so is one that err is
\* assigned in the meantime for.
CheckTime ==
    /\ scan = "parsed"
    /\ IF err THEN scan' = "scan" /\ next' = next + 1
              ELSE scan' = "send" /\ UNCHANGED next
    /\ UNCHANGED <<pipe, long, evCh, pusher, logsEvIn, reply, err, remote, faults, sent>>

SendEventAnyway ==
    /\ scan = "send"
    /\ evCh' = Append(evCh, next) /\ sent' = sent \cup {next}
    /\ scan' = "scan" /\ next' = next + 1
    /\ UNCHANGED <<pipe, long, pusher, logsEvIn, reply, err, remote, faults>>

SendEventOrDrop ==
    /\ scan = "send"
    /\ IF Len(evCh) = BufSize
       THEN UNCHANGED <<evCh, sent>>
       ELSE evCh' = Append(evCh, next) /\ sent' = sent \cup {next}
    /\ scan' = "scan" /\ next' = next + 1
    /\ UNCHANGED <<pipe, long, pusher, logsEvIn, reply, err, remote, faults>>

\* A full channel makes the scanner wait.
SendEvent ==
    /\ scan = "send" /\ Len(evCh) < BufSize
    /\ evCh' = Append(evCh, next) /\ sent' = sent \cup {next}
    /\ scan' = "scan" /\ next' = next + 1
    /\ UNCHANGED <<pipe, long, pusher, logsEvIn, reply, err, remote, faults>>

\* A line that does not fit in the scanner's buffer is an error. It is logged,
\* and the scanner returns without closing the pipe.
EndScan ==
    /\ pipe = "open" /\ scan = "scan" /\ next = long /\ long <= Lines
    /\ scan' = "ended"
    /\ UNCHANGED <<pipe, long, next, evCh, pusher, logsEvIn, reply, err, remote, faults, sent>>

-----------------------------------------------------------------------------
(* pushLogs                                                                *)

\* put begins by creating the stream, unless it has.
Put(in) == IF in.named THEN "put" ELSE "create"

ReceiveEventFromRoom ==
    /\ pusher = "select" /\ evCh # <<>> /\ Len(logsEvIn.events) < BufSize
    /\ logsEvIn' = [logsEvIn EXCEPT !.events = Append(@, Head(evCh))]
    /\ evCh' = Tail(evCh)
    /\ pusher' = IF Len(logsEvIn'.events) >= BufSize THEN Put(logsEvIn) ELSE "select"
    /\ UNCHANGED <<pipe, long, next, scan, reply, err, remote, faults, sent>>
ReceiveEvent ==
    /\ pusher = "select" /\ evCh # <<>>
    /\ logsEvIn' = [logsEvIn EXCEPT !.events = Append(@, Head(evCh))]
    /\ evCh' = Tail(evCh)
    /\ pusher' = IF Len(logsEvIn'.events) >= BufSize THEN Put(logsEvIn) ELSE "select"
    /\ UNCHANGED <<pipe, long, next, scan, reply, err, remote, faults, sent>>


\* No event for a while.
BufTimeout ==
    /\ pusher = "select" /\ logsEvIn.events # <<>>
    /\ pusher' = Put(logsEvIn)
    /\ UNCHANGED <<scanner, logsEvIn, reply, err, remote, faults, sent>>

\* The name of the stream is the same in every run of the process, and a stream
\* that exists is not created again.
CreateLogStream ==
    /\ pusher = "create"
    /\ pusher' = "created"
    /\ \/ ~exists /\ exists' = TRUE /\ err' = FALSE /\ Works
       \/ ~exists /\ exists' = TRUE /\ err' = TRUE /\ Fails
       \/ exists /\ err' = TRUE /\ Works /\ UNCHANGED exists
       \/ err' = TRUE /\ Fails /\ UNCHANGED exists
    /\ UNCHANGED <<scanner, logsEvIn, reply, stream, puts, sent>>

CheckCreated ==
    /\ pusher = "created"
    /\ IF err
       THEN pusher' = "select" /\ UNCHANGED logsEvIn
       ELSE pusher' = "put" /\ logsEvIn' = [logsEvIn EXCEPT !.named = TRUE]
    /\ UNCHANGED <<scanner, reply, err, remote, faults, sent>>

\* The answer to a put that has been accepted may be lost.
PutLogEvents ==
    /\ pusher = "put"
    /\ pusher' = "answered"
    /\ \/ /\ logsEvIn.token = puts
          /\ stream' = stream \o logsEvIn.events /\ puts' = puts + 1
          /\ \/ reply' = puts + 1 /\ err' = FALSE /\ Works
             \/ reply' = 0 /\ err' = TRUE /\ Fails
       \/ /\ IF logsEvIn.token = puts THEN Fails ELSE Works
          /\ reply' = 0 /\ err' = TRUE
          /\ UNCHANGED <<stream, puts>>
    /\ UNCHANGED <<scanner, logsEvIn, exists, sent>>

CheckPutRenewed ==
    /\ pusher = "answered"
    /\ pusher' = "select"
    /\ logsEvIn' = IF err THEN [logsEvIn EXCEPT !.token = puts]
                   ELSE [logsEvIn EXCEPT !.events = <<>>, !.token = reply]
    /\ UNCHANGED <<scanner, reply, err, remote, faults, sent>>

\* After an error the batch is kept and the token is, too.
CheckPut ==
    /\ pusher = "answered"
    /\ pusher' = "select"
    /\ logsEvIn' = IF err THEN logsEvIn ELSE [logsEvIn EXCEPT !.events = <<>>, !.token = reply]
    /\ UNCHANGED <<scanner, reply, err, remote, faults, sent>>

-----------------------------------------------------------------------------
\* Other goroutines assign err.
OthersAssignErr ==
    /\ err' = ~err
    /\ IF err' THEN Fails ELSE Works
    /\ UNCHANGED <<scanner, pusher, logsEvIn, reply, remote, sent>>

\* The process is ended and started again: `docker logs' begins anew.
Restart ==
    /\ Fails
    /\ pipe' = "unseen" /\ next' = 1 /\ scan' = "scan" /\ evCh' = <<>>
    /\ pusher' = "select" /\ logsEvIn' = Unnamed /\ reply' = 0
    /\ err' = FALSE /\ sent' = {}
    /\ UNCHANGED <<long, remote>>

Scanner == ParseTime \/ CheckTime \/ SendEvent \/ EndScan
Pusher == ReceiveEvent \/ CreateLogStream \/ CheckCreated \/ PutLogEvents \/ CheckPut

Next ==
    \/ FollowContainer \/ EndPipe \/ Scanner \/ Pusher \/ BufTimeout
    \/ OthersAssignErr \/ Restart

Spec == Init /\ [][Next]_vars
\* A select picks any case that is ready, so one that is again and again is
\* picked in the end.
FairSpec ==
    /\ Spec
    /\ WF_vars(FollowContainer) /\ WF_vars(Scanner) /\ WF_vars(Pusher) /\ WF_vars(BufTimeout)
    /\ SF_vars(ReceiveEvent)

-----------------------------------------------------------------------------
(* Properties                                                              *)

\* Every line is in the stream at most once, and lines are in order, although
\* batches are put again after an error (pushLogs).
ShippedInOrder == \A i, j \in DOMAIN stream : i < j => stream[i] < stream[j]

\* The first n - 1 lines of the log.
LogBefore(n) == [i \in 1 .. n - 1 |-> i]

\* The batch, until a put of it has been answered.
Unshipped == IF pusher = "answered" THEN <<>> ELSE logsEvIn.events

\* Lines are lost in failures only: while none has happened, the stream, the
\* batch and the channel hold the log up to the line being scanned, each line
\* once, however fast the lines come and wherever the batches are cut
\* (scanLogs, pushLogs).
WholeUnlessFailed == faults = 0 => stream \o Unshipped \o evCh = LogBefore(next)

\* The process cannot put anything on the stream any more: it has the wrong
\* token, or a stream it does not know it has created.
OutOfStep ==
    /\ pusher = "select"
    /\ IF logsEvIn.named THEN logsEvIn.token # puts ELSE exists


\* Unless `docker logs' fails, the log is read to its end, or to the first line
\* that does not fit in the scanner's buffer: whatever happens to the puts, also
\* if every later one is refused, the pusher goes on receiving, so that the
\* scanner and with it `docker logs' never wait for good before (pushLogs,
\* scanLogs).
LogRead == <>[](next = long \/ pipe = "ended")
=============================================================================
