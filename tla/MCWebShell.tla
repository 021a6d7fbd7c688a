----------------------------- MODULE MCWebShell -----------------------------
(***************************************************************************)
(* The shell of the agents' mini-app, its notifications and the cards of   *)
(* its settings, and the session and two pages of the dashboard, each on   *)
(* its own.                                                                *)
(***************************************************************************)
EXTENDS WebShell

MCSpaceOf == <<1, 1, 2>>
MCThere == <<{2}, {1}>>

MCInit ==
  \/ \E scenario \in {"link", "remove"} :
       ShellStart([a \in Accounts |-> IF a = (IF scenario = "link" THEN 2 ELSE 3) THEN "absent"
                                                                               ELSE "active"],
                  scenario)
  \/ OtherStart

MCSpec == MCInit /\ [][Next]_vars
=============================================================================
