--------------------------- MODULE MCMiniappClient ---------------------------
(* A small instance of MiniappClient for TLC. *)
EXTENDS MiniappClient
=============================================================================
