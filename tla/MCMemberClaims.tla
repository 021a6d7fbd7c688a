---------------------------- MODULE MCMemberClaims ----------------------------
(***************************************************************************)
(* A small instance of MemberClaims.                                       *)
(***************************************************************************)
EXTENDS MemberClaims, TLC

\* The last agent is alone in a workspace of its own.
CONSTANTS a1, a2, a3, s1, s2

MCWorkspace == (a1 :> s1) @@ (a2 :> s1) @@ (a3 :> s2)
=============================================================================
