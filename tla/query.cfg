SPECIFICATION Spec
CONSTANTS
    t1 = t1
    t2 = t2
    a = a
    b = b
    c = c
    Req = {r1, r2}
    Table = {t1, t2}
    Columns <- SomeColumns
    TableNames <- SomeTableNames
    MaxPieces = 2
    Window = 6
    MaxRows = 2
    MaxResults = 1
    Null = Null
SYMMETRY ReqSymmetry
INVARIANTS TypeOK RuleWithinColumns ColumnsOfTable SwitchesTell
           ResultsMeetConditions
