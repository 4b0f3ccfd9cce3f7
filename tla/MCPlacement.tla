---------------------------- MODULE MCPlacement ----------------------------
(* Instances of Placement for TLC, and what the code's comments say that   *)
(* does not hold.                                                          *)
EXTENDS Placement, TLC

CONSTANTS e1, d1, d2, w1, w2

SizeUneven   == [e \in Evals |-> IF e = e1 THEN 0 ELSE 2]
DatasetOne   == [e \in Evals |-> d1]
DatasetNone  == [e \in Evals |-> NoDataset]
OfferUneven  == [w \in Workers |-> IF w = w1 THEN 1 ELSE 2]
ReportsOfTwo == {<<d1, w1>>, <<d2, w2>>}
ReportsNone  == {}
OnePrefix    == {<<d1, d1>>, <<d1, d2>>, <<d2, d2>>}

-----------------------------------------------------------------------------
(* Statements of the code's comments that do not hold                      *)

\* "sort by workers with the highest capacity (spread)" (handle_schedule.go:126):
\* no live worker with room has more of it than the one claimed.
FreestFirst ==
    [][\A s \in Schedulers : Found(s) =>
          \A v \in Alive(Fitting(sched[s].eval)) :
              index[v].free <= index[sched'[s].wrk].free]_vars

\* "certain dataset must be available" (eval.go:5): an alloc is only made on a
\* worker that has reported the dataset.
DatasetAvailable ==
    [][\A s \in Schedulers : sched[s].pc = "record" /\ sched'[s].pc = "ack" =>
          <<Dataset[sched[s].eval], sched[s].wrk>> \in DOMAIN replicas]_vars
=============================================================================
