----------------------------- MODULE MCFMDatabase -----------------------------
(* FMDatabase on small sets, for TLC.  A PRAGMA, as columnExists: uses it, has *)
(* no parameter; a SELECT, as tableExists: uses it, has one. *)
EXTENDS FMDatabase

Pragmas    == {"PRAGMA"}
Selects    == {"SELECT"} \cup Pragmas
AllUpdates == {Begin, Commit, Rollback, "INSERT"}
=============================================================================
