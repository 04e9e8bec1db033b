-------------------------- MODULE MCServerConnection --------------------------
(* ServerConnection and its inductive invariant on small sets, for TLC. *)
EXTENDS ServerConnectionInv
=============================================================================
