SPECIFICATION Spec
CONSTANTS
    Stmt = {s1, s2}
    Query <- Selects
    Schema <- Pragmas
    Update = {}
    Arg = {a, b}
    Match = {a}
    Slot = {r1, r2}
    Local = Local
    Timeout = 1
    Caching = {TRUE}
    LateUse = TRUE
    Null = Null
INVARIANTS NoUseOfReleased ClosedMeansReleased
