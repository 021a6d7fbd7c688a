-------------------------- MODULE MCBroadcastRuntime --------------------------
(***************************************************************************)
(* Instances of BroadcastRuntime: a broadcast to members, a send to        *)
(* claimed members and a broadcast to groups.                              *)
(***************************************************************************)
EXTENDS BroadcastRuntime, TLC

CONSTANTS toMembers, toClaimed, toGroups

MCKind == [j \in Jobs |->
  CASE j = toMembers -> "members" [] j = toClaimed -> "claimed" [] j = toGroups -> "groups"]

Symmetry == Permutations(Recipients) \cup Permutations(Workers)

=============================================================================
