SPECIFICATION Spec
CONSTANTS
    Req = {r1, r2}
    Target = {db1, db2}
    Screen = {s1, s2}
    Signal = {sig0, sig1}
    Method = {"list"}
    Patience = "answer"
    Null = Null
    Unknown = Unknown
    Noted <- Faults
    MaxTables = 1
INVARIANTS RightRequester RightServer HandleDiscipline
PROPERTIES ClosesOwn
CHECK_DEADLOCK FALSE
