SPECIFICATION FairSpec
CONSTANTS
    Stmt = {s1, s2}
    Query <- Selects
    Schema <- Pragmas
    Update <- AllUpdates
    Arg = {a, b}
    Match = {a}
    Slot = {r1}
    Local = Local
    Timeout = 1
    Caching = {FALSE}
    LateUse = FALSE
    Null = Null
INVARIANTS TypeOK InUseExactly TransactionTracked TrueAnswers
PROPERTIES CallsEnd
