SPECIFICATION Spec
CONSTANTS
    Stmt = {s1, s2}
    Query <- Selects
    Schema <- Pragmas
    Update = {"INSERT"}
    Arg = {a, b}
    Match = {a}
    Slot = {r1}
    Local = Local
    Timeout = 1
    Caching = {TRUE}
    LateUse = FALSE
    Null = Null
INVARIANTS NoUseOfReleased
