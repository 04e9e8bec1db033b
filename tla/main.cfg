SPECIFICATION Spec
CONSTANTS
    Conn = {c1, c2}
    Qry = {q1}
    Req = {r1, r2}
    MaxDepth = 2
    Null = Null
SYMMETRY RowSymmetry
INVARIANTS TypeOK ListsAreCurrent CriteriaOnItsOwn TablesOfItsOwn
           QueriesReferToConnections FirstLaunchDecides
PROPERTIES QueryKeepsItsConnection
