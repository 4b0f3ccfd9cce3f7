---------------------------- MODULE MCLogShipper ----------------------------
(* Instances of LogShipper for TLC, and what the comments in work/main.go   *)
(* say that does not hold.                                                  *)
EXTENDS LogShipper

\* "moves the actual log events to the platform" (main.go:160): until it has,
\* it keeps them.
LinesKept == sent \subseteq Range(evCh) \cup Range(logsEvIn.events) \cup Range(stream)

\* "as to not run into throttling issues or keeping state too long"
\* (main.go:160).
NoStateKept == \A e \in Line : e \in Range(logsEvIn.events) ~> e \notin Range(logsEvIn.events)

\* "scanLogs will read a stream container output" (main.go:131): all of it,
\* unless `docker logs' fails.
AllRead == <>[](next > Lines \/ pipe = "ended")
=============================================================================
