SPECIFICATION SessionFairSpec
CONSTANTS
    Stmt = {s1, s2, s3}
    Query <- Selects
    Schema <- Selects
    Update <- Texts
    Arg = {a}
    Match = {a}
    Slot = {Rs}
    Rs = Rs
    Local = Local
    Timeout = 0
    Caching = {TRUE}
    LateUse = TRUE
    Null = Null
INVARIANTS SessionTypeOK NothingLeft SessionsAreSafe
PROPERTIES OperationsEnd StoreServiceSpec
