---------------------------- MODULE MCQueryScreens ----------------------------
(* QueryScreens on small sets, for TLC. *)
EXTENDS QueryScreens, TLC

CONSTANTS t1, t2, a, b, c

\* An ordinary table, and one with a column whose name has a comma; the table
\* listed is called like a column, to keep the texts few.
SomeColumns    == t1 :> <<(<<a>>), (<<b>>)>> @@ t2 :> <<(<<b, c>>)>>
SomeTableNames == <<(<<a>>)>>

ReqSymmetry == Permutations(Req)
=============================================================================
