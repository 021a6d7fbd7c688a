-------------------------- MODULE MCAgentJobQueue --------------------------
(* Small instances of AgentJobQueue for TLC. *)
EXTENDS AgentJobQueue, TLC

\* The slots, executions and coroutines are interchangeable.
Symmetry == Permutations(Slots) \cup Permutations(Workers) \cup Permutations(Procs)
=============================================================================
