---------------------------- MODULE MCTableBrowser ----------------------------
(* TableBrowser on small sets, for TLC. *)
EXTENDS TableBrowser

CONSTANTS t1, t2, a, b, c

\* admin_conf_mgr last in the order of names, and not; t1 has a configuration
\* that names one of its two columns.
SomeOrders  == {<<t2, t1>>, <<t2, t1, Admin>>, <<t2, Admin, t1>>}
SomeColumns == [t \in Table |-> IF t = t1 THEN <<(<<a>>), (<<b>>)>> ELSE <<(<<c>>)>>]
SomeConf    == [t \in Table |-> IF t = t1 THEN <<b>> ELSE <<>>]
=============================================================================
