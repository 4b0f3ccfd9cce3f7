------------------------------- MODULE Ledger -------------------------------
(***************************************************************************)
(* What a pool promises about the evaluations submitted to it: an accepted *)
(* eval is owed a result until a worker completes it or it is put on the   *)
(* dead letter queue, and is only given up without either when the pool is *)
(* disbanded.  How often it is placed on the way is not promised.          *)
(***************************************************************************)
CONSTANT Evals

VARIABLES
    open,     \* the pool accepts evals
    status    \* [Evals -> Status]

ledgerVars == <<open, status>>

Status == {"new", "owed", "settled", "dropped"}

Init == open = TRUE /\ status = [e \in Evals |-> "new"]

Accept(e) ==
    /\ open
    /\ status[e] = "new"
    /\ status' = [status EXCEPT ![e] = "owed"]
    /\ UNCHANGED open

\* An eval that the pool has dropped may still be running, and be completed.
Settle(e) ==
    /\ status[e] \in {"owed", "dropped"}
    /\ status' = [status EXCEPT ![e] = "settled"]
    /\ UNCHANGED open

Close ==
    /\ open
    /\ open' = FALSE
    /\ status' = [e \in Evals |-> IF status[e] = "owed" THEN "dropped" ELSE status[e]]

Next == (\E e \in Evals : Accept(e) \/ Settle(e)) \/ Close

Spec == Init /\ [][Next]_ledgerVars
=============================================================================
