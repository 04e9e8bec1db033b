----------------------------- MODULE MCMainScreen -----------------------------
(* MainScreen on small sets, for TLC. *)
EXTENDS MainScreen, TLC

RowSymmetry == Permutations(Conn) \cup Permutations(Qry) \cup Permutations(Req)
=============================================================================
