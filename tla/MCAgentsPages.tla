---------------------------- MODULE MCAgentsPages ----------------------------
(***************************************************************************)
(* The pages of an account in the agents' mini-app, each on its own.       *)
(***************************************************************************)
EXTENDS AgentsPages

CONSTANTS k1, k2

MCLeadOwner == <<1, 1>>
MCHas == <<{k1}, {k1, k2}>>
MCGroupMembers == <<{1, 2}, {}>>
=============================================================================
