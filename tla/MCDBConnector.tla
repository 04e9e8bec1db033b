---------------------------- MODULE MCDBConnector ----------------------------
(* DBConnector on small sets, for TLC.  SQLMgr puts no parameter in its texts, *)
(* so that the one SELECT always finds a row. *)
EXTENDS DBConnector

Selects == {"SELECT"}
=============================================================================
