------------------------ MODULE MemberReservation ------------------------
(***************************************************************************)
(* What claiming promises (specs/019-workspace-member-claiming/spec.md):   *)
(* in each workspace a member of a source group is held by at most one     *)
(* agent, and it passes to another agent only by becoming free first.      *)
(***************************************************************************)
CONSTANTS Workspaces, Agents, Members, Workspace, None

VARIABLE holder    \* holder[s][m]: the agent that holds m in workspace s

Init == holder = [s \in Workspaces |-> [m \in Members |-> None]]

\* The members of S that are free in the agent's workspace become its own; the
\* others are conflicts.
Reserve(a, S) ==
  holder' = [s \in Workspaces |-> [m \in Members |->
               IF s = Workspace[a] /\ m \in S /\ holder[s][m] = None
               THEN a ELSE holder[s][m]]]

\* A completed, cancelled or expired operation gives members up.
Free(F) ==
  holder' = [s \in Workspaces |-> [m \in Members |->
               IF <<s, m>> \in F THEN None ELSE holder[s][m]]]

Next ==
  \/ \E a \in Agents, S \in SUBSET Members : Reserve(a, S)
  \/ \E F \in SUBSET (Workspaces \X Members) : Free(F)

Spec == Init /\ [][Next]_holder
=============================================================================
