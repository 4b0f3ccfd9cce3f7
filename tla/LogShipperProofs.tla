-------------------------- MODULE LogShipperProofs --------------------------
(***************************************************************************)
(* Theorems about LogShipper, for logs and batches of any length.          *)
(***************************************************************************)
EXTENDS LogShipper, SequenceTheorems, TLAPS

-----------------------------------------------------------------------------
(* Order                                                                   *)

Rising(s) == \A i, j \in DOMAIN s : i < j => s[i] < s[j]

\* All of s comes before all of t.
Before(s, t) == \A i \in DOMAIN s, j \in DOMAIN t : s[i] < t[j]

\* All of s comes before line n.
Below(s, n) == \A i \in DOMAIN s : s[i] < n

\* What is on its way to the stream is in order.
InFlight ==
    /\ Rising(logsEvIn.events) /\ Rising(evCh)
    /\ Before(logsEvIn.events, evCh)
    /\ Below(logsEvIn.events, next) /\ Below(evCh, next)

\* The stream ends before what a process that holds the latest token has yet to
\* put on it; and without a put it is empty, whoever holds no token.
TokenGuards ==
    /\ puts = 0 => stream = <<>>
    /\ logsEvIn.token = puts =>
          /\ Before(stream, logsEvIn.events) /\ Before(stream, evCh) /\ Below(stream, next)
    /\ pusher = "answered" /\ reply = puts => Before(stream, evCh) /\ Below(stream, next)
    /\ logsEvIn.token <= puts /\ reply <= puts

\* The inductive strengthening of ShippedInOrder.
OrderInv == Rising(stream) /\ InFlight /\ TokenGuards

\* Concatenation keeps order.
LEMMA RisingConcat ==
  ASSUME NEW s \in Seq(Line), NEW t \in Seq(Line), Rising(s), Rising(t), Before(s, t)
  PROVE  Rising(s \o t)
  BY DEF Rising, Before, Line

\* What comes after both parts comes after their concatenation.
LEMMA BeforeConcat ==
  ASSUME NEW s \in Seq(Line), NEW t \in Seq(Line), NEW u \in Seq(Line), NEW n \in Int
  PROVE  /\ Before(s, u) /\ Before(t, u) => Before(s \o t, u)
         /\ Below(s, n) /\ Below(t, n) => Below(s \o t, n)
<1>1. Before(s, u) /\ Before(t, u) => Before(s \o t, u)
  BY DEF Before, Line
<1>2. Below(s, n) /\ Below(t, n) => Below(s \o t, n)
  BY DEF Below, Line
<1> QED
  BY <1>1, <1>2

\* A line after all others may be appended.
LEMMA RisingAppend ==
  ASSUME NEW s \in Seq(Line), NEW n \in Line, Rising(s), Below(s, n)
  PROVE  Rising(Append(s, n)) /\ Below(Append(s, n), n + 1)
  BY ShipperAssumption DEF Rising, Below, Line

\* The first event of the channel moves to the end of the batch.
LEMMA BeforeMove ==
  ASSUME NEW s \in Seq(Line), NEW b \in Seq(Line), NEW c \in Seq(Line), c # <<>>,
         NEW n \in Int
  PROVE  /\ Rising(b) /\ Before(b, c) => Rising(Append(b, Head(c)))
         /\ Rising(c) => Rising(Tail(c))
         /\ Rising(c) /\ Before(b, c) => Before(Append(b, Head(c)), Tail(c))
         /\ Before(s, b) /\ Before(s, c) => Before(s, Append(b, Head(c))) /\ Before(s, Tail(c))
         /\ Below(b, n) /\ Below(c, n) => Below(Append(b, Head(c)), n) /\ Below(Tail(c), n)
<1>1. /\ Head(c) = c[1] /\ 1 \in DOMAIN c
      /\ Tail(c) \in Seq(Line) /\ Len(Tail(c)) = Len(c) - 1
      /\ \A i \in DOMAIN Tail(c) : i + 1 \in DOMAIN c /\ Tail(c)[i] = c[i + 1]
  BY ShipperAssumption DEF Line
<1>2. /\ DOMAIN Append(b, Head(c)) = 1 .. Len(b) + 1
      /\ \A i \in 1 .. Len(b) : Append(b, Head(c))[i] = b[i]
      /\ Append(b, Head(c))[Len(b) + 1] = c[1]
      /\ DOMAIN b = 1 .. Len(b) /\ Len(b) \in Nat
  BY <1>1
<1>3. DOMAIN Tail(c) = 1 .. Len(c) - 1 /\ DOMAIN c = 1 .. Len(c) /\ Len(c) \in Nat
  BY <1>1
<1> HIDE DEF Line
<1>4. Rising(b) /\ Before(b, c) => Rising(Append(b, Head(c)))
  BY <1>1, <1>2 DEF Rising, Before
<1>5. Rising(c) => Rising(Tail(c))
  BY <1>1, <1>3 DEF Rising
<1>6. Rising(c) /\ Before(b, c) => Before(Append(b, Head(c)), Tail(c))
  BY <1>1, <1>2, <1>3 DEF Rising, Before
<1>7. Before(s, b) /\ Before(s, c) => Before(s, Append(b, Head(c))) /\ Before(s, Tail(c))
  <2>1. Before(s, b) /\ Before(s, c) => Before(s, Append(b, Head(c)))
    BY <1>1, <1>2, <1>3 DEF Before
  <2>2. Before(s, c) => Before(s, Tail(c))
    BY <1>1 DEF Before
  <2> QED
    BY <2>1, <2>2
<1>8. Below(b, n) /\ Below(c, n) => Below(Append(b, Head(c)), n) /\ Below(Tail(c), n)
  BY <1>1, <1>2 DEF Below
<1> QED
  BY <1>4, <1>5, <1>6, <1>7, <1>8

-----------------------------------------------------------------------------
(* Type correctness                                                        *)

Batch == [events : Seq(Line), token : Nat, named : BOOLEAN]

\* The parts of TypeOK, by the goroutine that writes them.
ScannerType ==
    /\ pipe \in {"unseen", "open", "ended"}
    /\ long \in 1 .. Lines + 1 /\ next \in 1 .. long
    /\ scan \in {"scan", "parsed", "send", "ended"}
    /\ scan \in {"parsed", "send"} => next < long
    /\ evCh \in Seq(Line) /\ Len(evCh) <= BufSize
    /\ sent \subseteq Line
PusherType ==
    /\ pusher \in {"select", "create", "created", "put", "answered"}
    /\ logsEvIn \in Batch
    /\ pusher # "select" => logsEvIn.events # <<>>
RemoteType == exists \in BOOLEAN /\ stream \in Seq(Line) /\ puts \in Nat /\ reply \in Nat
FaultType == err \in BOOLEAN /\ faults \in 0 .. MaxFaults

LEMMA TypeParts == TypeOK <=> ScannerType /\ PusherType /\ RemoteType /\ FaultType
  BY DEF TypeOK, ScannerType, PusherType, RemoteType, FaultType, Batch

LEMMA ShipperTypeInit == Init => TypeOK
<1> SUFFICES ASSUME Init PROVE TypeOK
  OBVIOUS
<1> USE ShipperAssumption DEF Init
<1>1. <<>> \in Seq(Line) /\ Len(<<>>) = 0 /\ 0 \in Nat
  OBVIOUS
<1>2. ScannerType
  <2>1. long \in 1 .. Lines + 1 /\ 1 \in 1 .. long /\ 0 <= BufSize
    OBVIOUS
  <2> QED
    BY <1>1, <2>1, Zenon DEF ScannerType
<1>3. PusherType
  <2>1. Unnamed \in Batch
    BY <1>1, Zenon DEF Unnamed, Batch
  <2> QED
    BY <2>1 DEF PusherType
<1>4. RemoteType
  BY <1>1, Zenon DEF RemoteType
<1>5. FaultType
  <2>1. 0 \in 0 .. MaxFaults
    OBVIOUS
  <2> QED
    BY <2>1, Zenon DEF FaultType
<1> QED
  BY <1>2, <1>3, <1>4, <1>5, TypeParts

LEMMA FaultStep == FaultType /\ [Next]_vars => FaultType'
<1> SUFFICES ASSUME FaultType, [Next]_vars PROVE FaultType'
  OBVIOUS
<1>1. err' \in BOOLEAN
  BY Zenon
  DEF FaultType, Next, Scanner, Pusher, vars, FollowContainer, EndPipe, ParseTime, CheckTime,
      SendEvent, EndScan, ReceiveEvent, BufTimeout, CreateLogStream, CheckCreated, PutLogEvents, CheckPut,
      OthersAssignErr, Restart
<1>2. Works \/ Fails
  BY Zenon
  DEF Next, Scanner, Pusher, vars, FollowContainer, EndPipe, ParseTime, CheckTime,
      SendEvent, EndScan, ReceiveEvent, BufTimeout, CreateLogStream, CheckCreated, PutLogEvents, CheckPut,
      OthersAssignErr, Restart, Works, Fails
<1>3. faults' \in 0 .. MaxFaults
  BY <1>2, ShipperAssumption DEF FaultType, Works, Fails
<1> QED
  BY <1>1, <1>3 DEF FaultType

LEMMA ScannerTypeStep == ScannerType /\ [Next]_vars => ScannerType'
<1> SUFFICES ASSUME ScannerType, [Next]_vars PROVE ScannerType'
  OBVIOUS
<1> USE ShipperAssumption DEF ScannerType
<1>1. CASE ParseTime \/ CheckTime \/ EndScan
  BY <1>1 DEF ParseTime, CheckTime, EndScan
<1>2. CASE SendEvent
  <2>1. /\ Len(evCh) < BufSize /\ evCh' = Append(evCh, next)
        /\ sent' = sent \cup {next} /\ next \in Line
    BY <1>2 DEF SendEvent, Line
  <2>2. evCh' \in Seq(Line) /\ Len(evCh') <= BufSize /\ sent' \subseteq Line
    BY <2>1
  <2>3. next' \in 1 .. long /\ scan' = "scan" /\ UNCHANGED <<pipe, long>>
    BY <1>2 DEF SendEvent
  <2> QED
    BY <2>2, <2>3
<1>3. CASE ReceiveEvent
  <2>1. Tail(evCh) \in Seq(Line) /\ Len(Tail(evCh)) <= BufSize
    BY <1>3 DEF ReceiveEvent
  <2> QED
    BY <1>3, <2>1 DEF ReceiveEvent
<1>4. CASE BufTimeout \/ CreateLogStream \/ CheckCreated \/ PutLogEvents \/ CheckPut
           \/ OthersAssignErr \/ UNCHANGED vars
  <2>1. UNCHANGED <<scanner, sent>>
    BY <1>4, Zenon
    DEF BufTimeout, CreateLogStream, CheckCreated, PutLogEvents, CheckPut,
        OthersAssignErr, vars, scanner
  <2> QED
    BY <2>1 DEF scanner
<1>5. CASE FollowContainer \/ EndPipe
  BY <1>5 DEF FollowContainer, EndPipe
<1>6. CASE Restart
  <2>1. 1 \in 1 .. long /\ <<>> \in Seq(Line) /\ Len(<<>>) <= BufSize
    OBVIOUS
  <2> QED
    BY <1>6, <2>1, Zenon DEF Restart
<1> QED
  BY <1>1, <1>2, <1>3, <1>4, <1>5, <1>6 DEF Next, Scanner, Pusher

LEMMA RemoteStep == PusherType /\ RemoteType /\ [Next]_vars => RemoteType'
<1> SUFFICES ASSUME PusherType, RemoteType, [Next]_vars PROVE RemoteType'
  OBVIOUS
<1>1. exists' \in BOOLEAN
  BY Zenon
  DEF RemoteType, Next, Scanner, Pusher, vars, remote, FollowContainer, EndPipe, ParseTime,
      CheckTime, SendEvent, EndScan, ReceiveEvent, BufTimeout, CreateLogStream, CheckCreated, PutLogEvents,
      CheckPut, OthersAssignErr, Restart
<1>2. CASE PutLogEvents
  <2>1. logsEvIn.events \in Seq(Line)
    BY DEF PusherType, Batch
  <2>2. stream \o logsEvIn.events \in Seq(Line)
    BY <2>1, ConcatProperties DEF RemoteType
  <2>3. stream' \in {stream, stream \o logsEvIn.events}
    BY <1>2, Zenon DEF PutLogEvents
  <2>4. puts' \in {puts, puts + 1} /\ reply' \in {0, puts + 1}
    BY <1>2, Zenon DEF PutLogEvents
  <2>5. stream' \in Seq(Line) /\ puts' \in Nat /\ reply' \in Nat
    <3>1. stream' \in Seq(Line)
      BY <2>2, <2>3, Zenon DEF RemoteType
    <3>2. puts' \in Nat /\ reply' \in Nat
      BY <2>4 DEF RemoteType
    <3> QED
      BY <3>1, <3>2
  <2> QED
    BY <1>1, <2>5, Zenon DEF RemoteType
<1>3. CASE ~PutLogEvents
  <2>1. UNCHANGED <<stream, puts>> /\ (reply' = 0 \/ UNCHANGED reply)
    BY <1>3, Zenon
    DEF Next, Scanner, Pusher, vars, remote, FollowContainer, EndPipe, ParseTime,
        CheckTime, SendEvent, EndScan, ReceiveEvent, BufTimeout, CreateLogStream, CheckCreated, CheckPut,
        OthersAssignErr, Restart
  <2> QED
    BY <1>1, <2>1 DEF RemoteType
<1> QED
  BY <1>2, <1>3

LEMMA PusherTypeStep ==
  ScannerType /\ PusherType /\ RemoteType /\ FaultType /\ [Next]_vars => PusherType'
<1> SUFFICES ASSUME ScannerType, PusherType, RemoteType, FaultType, [Next]_vars
             PROVE  PusherType'
  OBVIOUS
<1>1. CASE ReceiveEvent
  <2>1. /\ Head(evCh) \in Line /\ logsEvIn.events \in Seq(Line) /\ logsEvIn \in Batch
    BY <1>1 DEF ReceiveEvent, ScannerType, PusherType, Batch
  <2>2. /\ Append(logsEvIn.events, Head(evCh)) \in Seq(Line)
        /\ Append(logsEvIn.events, Head(evCh)) # <<>>
    BY <2>1
  <2>3. logsEvIn' = [logsEvIn EXCEPT !.events = Append(logsEvIn.events, Head(evCh))]
    BY <1>1 DEF ReceiveEvent
  <2>4. logsEvIn' \in Batch /\ logsEvIn'.events # <<>>
    BY <2>1, <2>2, <2>3, Zenon DEF Batch
  <2>5. pusher' \in {"select", "create", "put"}
    BY <1>1, Zenon DEF ReceiveEvent, Put
  <2> QED
    BY <2>4, <2>5 DEF PusherType
<1>2. CASE CheckCreated
  <2>1. pusher' \in {"select", "put"} /\ pusher # "select"
    BY <1>2 DEF CheckCreated
  <2>2. logsEvIn' \in Batch /\ logsEvIn'.events = logsEvIn.events
    BY <1>2 DEF CheckCreated, PusherType, Batch
  <2> QED
    BY <2>1, <2>2 DEF PusherType
<1>3. CASE CheckPut
  <2>1. <<>> \in Seq(Line)
    OBVIOUS
  <2>2. [logsEvIn EXCEPT !.events = <<>>, !.token = reply] \in Batch
    BY <2>1 DEF PusherType, RemoteType, Batch
  <2>3. logsEvIn' \in Batch
    BY <1>3, <2>2, Zenon DEF CheckPut, PusherType
  <2> QED
    BY <1>3, <2>3 DEF CheckPut, PusherType
<1>4. CASE BufTimeout
  BY <1>4 DEF BufTimeout, Put, PusherType
<1>5. CASE CreateLogStream
  BY <1>5 DEF CreateLogStream, PusherType
<1>6. CASE PutLogEvents
  BY <1>6 DEF PutLogEvents, PusherType
<1>7. CASE Restart
  <2>1. Unnamed \in Batch
    BY DEF Unnamed, Batch
  <2> QED
    BY <1>7, <2>1 DEF Restart, PusherType
<1>8. CASE FollowContainer \/ EndPipe \/ Scanner \/ OthersAssignErr \/ UNCHANGED vars
  <2>1. UNCHANGED <<pusher, logsEvIn>>
    BY <1>8, Zenon
    DEF FollowContainer, EndPipe, Scanner, ParseTime, CheckTime, SendEvent, EndScan,
        OthersAssignErr, vars
  <2> QED
    BY <2>1 DEF PusherType
<1> QED
  BY <1>1, <1>2, <1>3, <1>4, <1>5, <1>6, <1>7, <1>8 DEF Next, Scanner, Pusher

LEMMA ShipperTypeStep == TypeOK /\ [Next]_vars => TypeOK'
<1> SUFFICES ASSUME TypeOK, [Next]_vars PROVE TypeOK'
  OBVIOUS
<1>1. ScannerType /\ PusherType /\ RemoteType /\ FaultType
  BY TypeParts
<1>2. ScannerType' /\ PusherType' /\ RemoteType' /\ FaultType'
  BY <1>1, ScannerTypeStep, PusherTypeStep, RemoteStep, FaultStep
<1> QED
  BY <1>2
  DEF TypeOK, ScannerType, PusherType, RemoteType, FaultType, Batch

\* The channel and the batch hold lines, and the channel never too many.
THEOREM ShipperTypeCorrect == Spec => []TypeOK
  BY ShipperTypeInit, ShipperTypeStep, PTL DEF Spec

-----------------------------------------------------------------------------
(* The stream                                                              *)

\* Every step keeps the stream, and what is on its way to it, in order.
LEMMA OrderStep == TypeOK /\ OrderInv /\ [Next]_vars => OrderInv'
<1> SUFFICES ASSUME TypeOK, OrderInv, [Next]_vars PROVE OrderInv'
  OBVIOUS
<1> USE DEF OrderInv, InFlight, TokenGuards, remote, scanner
<1>0. /\ next \in 1 .. long /\ long \in 1 .. Lines + 1 /\ evCh \in Seq(Line) /\ stream \in Seq(Line)
      /\ logsEvIn \in [events : Seq(Line), token : Nat, named : BOOLEAN]
      /\ reply \in Nat /\ puts \in Nat /\ Lines \in Nat
  BY ShipperAssumption DEF TypeOK
<1>1. CASE \/ FollowContainer \/ EndPipe \/ ParseTime \/ EndScan \/ BufTimeout
           \/ CreateLogStream \/ OthersAssignErr \/ UNCHANGED vars
  <2>1. /\ UNCHANGED <<next, evCh, logsEvIn, reply, stream, puts>>
        /\ pusher' = "answered" => pusher = "answered"
    BY <1>1
    DEF FollowContainer, EndPipe, ParseTime, EndScan, BufTimeout, CreateLogStream,
        OthersAssignErr, vars, Put
  <2> QED
    BY <2>1
<1>2. CASE CheckTime \/ SendEvent
  <2>1. Below(evCh, next + 1) /\ Below(logsEvIn.events, next + 1)
        /\ (Below(stream, next) => Below(stream, next + 1))
    BY <1>0 DEF Below, Line
  <2>2. CASE CheckTime
    BY <2>1, <2>2 DEF CheckTime
  <2>3. CASE SendEvent
    <3>1. next \in Line /\ evCh' = Append(evCh, next)
      BY <1>0, <2>3 DEF SendEvent, TypeOK, Line
    <3>2. Rising(evCh') /\ Below(evCh', next')
      BY <1>0, <2>3, <3>1, RisingAppend DEF SendEvent
    <3>3. \A s \in Seq(Line) : Before(s, evCh) /\ Below(s, next) => Before(s, evCh')
      BY <1>0, <3>1 DEF Before, Below
    <3> QED
      BY <1>0, <2>1, <2>3, <3>2, <3>3 DEF SendEvent
  <2> QED
    BY <1>2, <2>2, <2>3
<1>3. CASE ReceiveEvent
  <2>1. /\ logsEvIn'.events = Append(logsEvIn.events, Head(evCh)) /\ evCh' = Tail(evCh)
        /\ logsEvIn'.token = logsEvIn.token /\ pusher' # "answered"
    BY <1>0, <1>3 DEF ReceiveEvent, Put
  <2>2. InFlight'
    BY <1>0, <1>3, <2>1, BeforeMove DEF ReceiveEvent
  <2>3. Before(stream, logsEvIn.events) /\ Before(stream, evCh)
           => Before(stream, logsEvIn.events)' /\ Before(stream, evCh)'
    BY <1>0, <1>3, <2>1, BeforeMove DEF ReceiveEvent
  <2> QED
    BY <1>3, <2>1, <2>2, <2>3 DEF ReceiveEvent
<1>4. CASE CheckCreated
  <2>1. logsEvIn'.events = logsEvIn.events /\ logsEvIn'.token = logsEvIn.token
    BY <1>0, <1>4 DEF CheckCreated
  <2> QED
    BY <1>4, <2>1 DEF CheckCreated
<1>5. CASE PutLogEvents
  <2>1. CASE logsEvIn.token = puts /\ stream' = stream \o logsEvIn.events /\ puts' = puts + 1
             /\ reply' \in {0, puts + 1}
    <3>1. Rising(stream')
      BY <1>0, <2>1, RisingConcat
    <3>2. Before(stream', evCh) /\ Below(stream', next)
      BY <1>0, <2>1, BeforeConcat
    <3> QED
      BY <1>0, <1>5, <2>1, <3>1, <3>2 DEF PutLogEvents
  <2>2. CASE reply' = 0 /\ UNCHANGED <<stream, puts>>
    <3>1. puts = 0 => Before(stream, evCh) /\ Below(stream, next)
      BY DEF Before, Below
    <3> QED
      BY <1>0, <1>5, <2>2, <3>1 DEF PutLogEvents
  <2> QED
    BY <1>5, <2>1, <2>2 DEF PutLogEvents
<1>6. CASE CheckPut
  <2>1. CASE err
    BY <1>6, <2>1 DEF CheckPut
  <2>2. CASE ~err
    <3>1. logsEvIn'.events = <<>> /\ logsEvIn'.token = reply
      BY <1>0, <1>6, <2>2 DEF CheckPut
    <3>2. /\ Rising(<<>>) /\ Below(<<>>, next)
          /\ Before(stream, <<>>) /\ Before(<<>>, evCh)
      BY DEF Rising, Before, Below
    <3> QED
      BY <1>6, <3>1, <3>2 DEF CheckPut
  <2> QED
    BY <2>1, <2>2
<1>7. CASE Restart
  <2>1. /\ logsEvIn'.events = <<>> /\ logsEvIn'.token = 0 /\ evCh' = <<>> /\ pusher' = "select"
        /\ stream' = stream /\ puts' = puts
    BY <1>7 DEF Restart, Unnamed
  <2>2. /\ Rising(<<>>) /\ Before(<<>>, <<>>) /\ Below(<<>>, next')
        /\ Before(stream, <<>>)
    BY DEF Rising, Before, Below
  <2>3. puts = 0 => Below(stream, next')
    BY DEF Below
  <2> QED
    BY <1>0, <1>7, <2>1, <2>2, <2>3 DEF Restart
<1> QED
  BY <1>1, <1>2, <1>3, <1>4, <1>5, <1>6, <1>7 DEF Next, Scanner, Pusher

LEMMA OrderInit == Init => OrderInv
  BY DEF Init, OrderInv, InFlight, TokenGuards, Rising, Before, Below, Unnamed

\* However often a batch is put again, each line is in the stream at most once
\* and after those before it.
THEOREM StreamsInOrder == Spec => []ShippedInOrder
<1>1. OrderInv => ShippedInOrder
  BY DEF OrderInv, Rising, ShippedInOrder
<1> QED
  BY <1>1, ShipperTypeInit, ShipperTypeStep, OrderInit, OrderStep, PTL DEF Spec
-----------------------------------------------------------------------------
(* No line is lost without a failure                                       *)

\* A run without a failure: no error is seen, the pusher holds the latest token,
\* and it knows whether the stream has been created.
Flawless ==
    /\ ~err
    /\ IF pusher = "answered" THEN reply = puts ELSE logsEvIn.token = puts
    /\ IF pusher = "created" THEN exists ELSE exists = logsEvIn.named
    /\ pusher = "create" => ~logsEvIn.named

\* The inductive strengthening of WholeUnlessFailed.
WholeInv == (faults = 0 => Flawless) /\ WholeUnlessFailed

\* A step after which there has been no failure is not one.
LEMMA NoFailure ==
  ASSUME TypeOK, [Next]_vars, faults' = 0
  PROVE  faults = 0 /\ ~Fails
<1>1. Works \/ Fails \/ faults' = faults
  BY Zenon
  DEF Next, Scanner, Pusher, vars, FollowContainer, EndPipe, ParseTime, CheckTime,
      SendEvent, EndScan, ReceiveEvent, BufTimeout, CreateLogStream, CheckCreated, PutLogEvents, CheckPut,
      OthersAssignErr, Restart, Works, Fails
<1>2. faults \in 0 .. MaxFaults /\ MaxFaults \in Nat
  BY ShipperAssumption DEF TypeOK
<1> QED
  BY <1>1, <1>2 DEF Works, Fails

LEMMA FlawlessStep ==
  TypeOK /\ (faults = 0 => Flawless) /\ [Next]_vars => (faults' = 0 => Flawless')
<1> SUFFICES ASSUME TypeOK, faults = 0 => Flawless, [Next]_vars, faults' = 0
             PROVE  Flawless'
  OBVIOUS
<1>1. Flawless /\ ~Fails
  BY NoFailure
<1>2. logsEvIn \in Batch /\ logsEvIn.named \in BOOLEAN /\ exists \in BOOLEAN
  BY DEF TypeOK, Batch
<1> USE DEF Flawless, scanner, remote
<1>3. CASE FollowContainer \/ EndPipe \/ Scanner \/ OthersAssignErr \/ UNCHANGED vars
  <2>1. UNCHANGED <<pusher, logsEvIn, reply, remote>>
    BY <1>3, Zenon
    DEF FollowContainer, EndPipe, Scanner, ParseTime, CheckTime, SendEvent, EndScan,
        OthersAssignErr, vars
  <2>2. ~err'
    BY <1>1, <1>3
    DEF FollowContainer, EndPipe, Scanner, ParseTime, CheckTime, SendEvent, EndScan,
        OthersAssignErr, vars
  <2> QED
    BY <1>1, <2>1, <2>2
<1>4. CASE ReceiveEvent
  <2>1. /\ logsEvIn'.token = logsEvIn.token /\ logsEvIn'.named = logsEvIn.named
        /\ pusher' \in {"select", Put(logsEvIn)} /\ pusher = "select"
        /\ UNCHANGED <<reply, err, remote>>
    BY <1>2, <1>4 DEF ReceiveEvent, Batch
  <2> QED
    BY <1>1, <2>1 DEF Put
<1>5. CASE BufTimeout
  BY <1>1, <1>5 DEF BufTimeout, Put
<1>6. CASE CreateLogStream
  BY <1>1, <1>2, <1>6 DEF CreateLogStream
<1>7. CASE CheckCreated
  <2>1. logsEvIn'.token = logsEvIn.token /\ logsEvIn'.named = TRUE
    BY <1>1, <1>2, <1>7 DEF CheckCreated, Batch
  <2> QED
    BY <1>1, <1>2, <1>7, <2>1 DEF CheckCreated
<1>8. CASE PutLogEvents
  BY <1>1, <1>8 DEF PutLogEvents
<1>9. CASE CheckPut
  <2>1. logsEvIn'.token = reply /\ logsEvIn'.named = logsEvIn.named
    BY <1>1, <1>2, <1>9 DEF CheckPut, Batch
  <2> QED
    BY <1>1, <1>9, <2>1 DEF CheckPut
<1>10. CASE Restart
  BY <1>1, <1>10 DEF Restart
<1> QED
  BY <1>3, <1>4, <1>5, <1>6, <1>7, <1>8, <1>9, <1>10 DEF Next, Scanner, Pusher

\* The next line extends the log.
LEMMA LogGrows ==
  ASSUME NEW n \in Line
  PROVE  LogBefore(n) \in Seq(Line) /\ Append(LogBefore(n), n) = LogBefore(n + 1)
<1>1. n \in Nat \ {0} /\ Lines \in Nat /\ n <= Lines
  BY ShipperAssumption DEF Line
<1>2. LogBefore(n) \in Seq(Line) /\ Len(LogBefore(n)) = n - 1
  BY <1>1 DEF LogBefore, Line
<1>3. LogBefore(n + 1) \in Seq(Line) /\ Len(LogBefore(n + 1)) = n
  BY <1>1 DEF LogBefore, Line
<1>4. \A i \in 1 .. n : Append(LogBefore(n), n)[i] = LogBefore(n + 1)[i]
  <2> TAKE i \in 1 .. n
  <2>1. CASE i = n
    BY <1>1, <1>2, <2>1 DEF LogBefore
  <2>2. CASE i \in 1 .. n - 1
    <3>1. Append(LogBefore(n), n)[i] = LogBefore(n)[i]
      BY <1>1, <1>2, <2>2
    <3> QED
      BY <1>1, <2>2, <3>1 DEF LogBefore
  <2>3. i = n \/ i \in 1 .. n - 1
    BY <1>1
  <2> QED
    BY <2>1, <2>2, <2>3, Zenon
<1>5. Append(LogBefore(n), n) \in Seq(Line) /\ Len(Append(LogBefore(n), n)) = n
  BY <1>1, <1>2
<1> QED
  BY <1>2, <1>3, <1>4, <1>5, SeqEqual

\* A line at the end of the channel is one at the end of all.
LEMMA AppendConcat ==
  ASSUME NEW s \in Seq(Line), NEW c \in Seq(Line), NEW n \in Line
  PROVE  s \o Append(c, n) = Append(s \o c, n)
<1>1. s \o c \in Seq(Line) /\ <<n>> \in Seq(Line)
  BY ConcatProperties
<1>2. Append(c, n) = c \o <<n>> /\ Append(s \o c, n) = (s \o c) \o <<n>>
  BY <1>1
<1> QED
  BY <1>1, <1>2, ConcatAssociative

\* A line that moves from the channel to the batch stays where it is in the whole.
LEMMA MoveConcat ==
  ASSUME NEW s \in Seq(Line), NEW b \in Seq(Line), NEW c \in Seq(Line), c # <<>>
  PROVE  (s \o Append(b, Head(c))) \o Tail(c) = (s \o b) \o c
<1>1. /\ Head(c) \in Line /\ Tail(c) \in Seq(Line) /\ <<Head(c)>> \in Seq(Line)
      /\ s \o b \in Seq(Line)
  BY HeadTailProperties, ConcatProperties
<1>2. s \o Append(b, Head(c)) = (s \o b) \o <<Head(c)>>
  <2>1. s \o Append(b, Head(c)) = Append(s \o b, Head(c))
    BY <1>1, AppendConcat
  <2> QED
    BY <1>1, <2>1
<1>3. <<Head(c)>> \o Tail(c) = c
  <2>1. /\ <<Head(c)>> \o Tail(c) \in Seq(Line)
        /\ Len(<<Head(c)>> \o Tail(c)) = Len(c)
    BY <1>1, HeadTailProperties, ConcatProperties
  <2>2. \A i \in 1 .. Len(c) : (<<Head(c)>> \o Tail(c))[i] = c[i]
    BY <1>1
  <2> QED
    BY <2>1, <2>2, SeqEqual
<1>4. ((s \o b) \o <<Head(c)>>) \o Tail(c) = (s \o b) \o (<<Head(c)>> \o Tail(c))
  BY <1>1, ConcatAssociative
<1> QED
  BY <1>2, <1>3, <1>4, Zenon

LEMMA WholeStep == TypeOK /\ WholeInv /\ [Next]_vars => WholeUnlessFailed'
<1> SUFFICES ASSUME TypeOK, WholeInv, [Next]_vars, faults' = 0
             PROVE  (stream \o Unshipped \o evCh = LogBefore(next))'
  BY DEF WholeUnlessFailed
<1>1. Flawless /\ ~Fails /\ stream \o Unshipped \o evCh = LogBefore(next)
  BY NoFailure DEF WholeInv, WholeUnlessFailed
<1>2. /\ stream \in Seq(Line) /\ evCh \in Seq(Line) /\ logsEvIn \in Batch
      /\ logsEvIn.events \in Seq(Line) /\ <<>> \in Seq(Line) /\ Unshipped \in Seq(Line)
  BY DEF TypeOK, Batch, Unshipped
<1>3. CASE \/ FollowContainer \/ EndPipe \/ ParseTime \/ CheckTime \/ EndScan
           \/ OthersAssignErr \/ BufTimeout \/ CreateLogStream \/ CheckCreated
           \/ UNCHANGED vars
  <2>1. /\ UNCHANGED <<stream, evCh, next>> /\ logsEvIn'.events = logsEvIn.events
        /\ pusher' = "answered" <=> pusher = "answered"
    BY <1>1, <1>2, <1>3
    DEF FollowContainer, EndPipe, ParseTime, CheckTime, EndScan, OthersAssignErr,
        BufTimeout, CreateLogStream, CheckCreated, Put, Batch, Flawless, scanner, remote,
        vars
  <2> QED
    BY <1>1, <2>1, Zenon DEF Unshipped
<1>4. CASE SendEvent
  <2>1. /\ next \in Line /\ evCh' = Append(evCh, next) /\ next' = next + 1
        /\ UNCHANGED <<stream, pusher, logsEvIn>>
    BY ShipperAssumption, <1>4 DEF SendEvent, TypeOK, Line, remote
  <2>2. stream \o Unshipped \in Seq(Line) /\ Unshipped' = Unshipped
    BY <1>2, <2>1, ConcatProperties DEF Unshipped
  <2>3. (stream \o Unshipped) \o Append(evCh, next)
           = Append((stream \o Unshipped) \o evCh, next)
    BY <1>2, <2>1, <2>2, AppendConcat
  <2>4. Append((stream \o Unshipped) \o evCh, next) = LogBefore(next + 1)
    BY <1>1, <2>1, LogGrows, Zenon
  <2> QED
    BY <2>1, <2>2, <2>3, <2>4, Zenon
<1>5. CASE ReceiveEvent
  <2>1. /\ logsEvIn'.events = Append(logsEvIn.events, Head(evCh)) /\ evCh' = Tail(evCh)
        /\ pusher = "select" /\ pusher' # "answered" /\ evCh # <<>>
        /\ UNCHANGED <<stream, next>>
    BY <1>2, <1>5 DEF ReceiveEvent, Put, Batch, remote
  <2>2. Unshipped = logsEvIn.events /\ Unshipped' = logsEvIn'.events
    BY <2>1 DEF Unshipped
  <2>3. (stream \o Append(logsEvIn.events, Head(evCh))) \o Tail(evCh)
           = (stream \o logsEvIn.events) \o evCh
    BY <1>2, <2>1, MoveConcat
  <2> QED
    BY <1>1, <2>1, <2>2, <2>3, Zenon
<1>6. CASE PutLogEvents
  <2>1. /\ stream' = stream \o logsEvIn.events /\ pusher = "put" /\ pusher' = "answered"
        /\ UNCHANGED <<evCh, next>>
    BY <1>1, <1>6 DEF PutLogEvents, Flawless, scanner
  <2>2. stream' \o <<>> = stream'
    BY <1>2, <2>1, ConcatProperties, ConcatEmptySeq
  <2> QED
    BY <1>1, <2>1, <2>2 DEF Unshipped
<1>7. CASE CheckPut
  <2>1. /\ logsEvIn'.events = <<>> /\ pusher = "answered" /\ pusher' = "select"
        /\ UNCHANGED <<stream, evCh, next>>
    BY <1>1, <1>2, <1>7 DEF CheckPut, Flawless, Batch, scanner, remote
  <2> QED
    BY <1>1, <2>1 DEF Unshipped
<1>8. CASE Restart
  BY <1>1, <1>8 DEF Restart
<1> QED
  BY <1>3, <1>4, <1>5, <1>6, <1>7, <1>8 DEF Next, Scanner, Pusher

LEMMA WholeInit == Init => WholeInv
<1> SUFFICES ASSUME Init PROVE WholeInv
  OBVIOUS
<1>1. Flawless
  BY DEF Init, Flawless, Unnamed
<1>2. stream \o Unshipped \o evCh = <<>>
  BY DEF Init, Unshipped, Unnamed
<1>3. LogBefore(1) = <<>>
  BY DEF LogBefore
<1> QED
  BY <1>1, <1>2, <1>3 DEF Init, WholeInv, WholeUnlessFailed

\* Until something fails, no line is lost, put twice or overtaken between the
\* scanner and the stream, at any speed of the container and size of the buffers.
THEOREM NothingLostUnlessFailed == Spec => []WholeUnlessFailed
<1>1. TypeOK /\ WholeInv /\ [Next]_vars => WholeInv'
  BY FlawlessStep, WholeStep DEF WholeInv
<1>2. WholeInv => WholeUnlessFailed
  BY DEF WholeInv
<1> QED
  BY <1>1, <1>2, ShipperTypeInit, ShipperTypeStep, WholeInit, PTL DEF Spec
=============================================================================
