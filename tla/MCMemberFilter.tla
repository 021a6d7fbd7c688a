--------------------------- MODULE MCMemberFilter ---------------------------
(***************************************************************************)
(* The dialog of the member filter alone, where no call fails.             *)
(***************************************************************************)
EXTENDS MemberFilter

CONSTANTS k1, k2

MCHas == <<{k1}, {k1}, {}>>

Spec == FilterStart /\ [][FilterNext \/ Discard]_vars
=============================================================================
