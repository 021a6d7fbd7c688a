----------------------- MODULE MCSessionLeaseHistory -----------------------
(***************************************************************************)
(* Instances of SessionLeaseHistory: executions e1 and e2 of long jobs and *)
(* e3 of another one; e1 and e3 run in the same worker process.            *)
(***************************************************************************)
EXTENDS SessionLeaseHistory

CONSTANTS e1, e2, e3, p1, p2

MCHome == [e \in {e1, e2, e3} |-> IF e = e2 THEN p2 ELSE p1]

=============================================================================
