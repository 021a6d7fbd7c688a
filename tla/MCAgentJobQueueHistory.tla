----------------------- MODULE MCAgentJobQueueHistory -----------------------
(* Small instances of AgentJobQueueHistory for TLC. *)
EXTENDS AgentJobQueueHistory, TLC

\* The slots, executions and coroutines are interchangeable.
Symmetry == Permutations(Slots) \cup Permutations(Workers) \cup Permutations(Procs)
=============================================================================
