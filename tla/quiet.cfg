SPECIFICATION Spec
CONSTANTS
    Req = {r1, r2, r3}
    Target = {db1}
    Screen = {s1, s2}
    Signal = {sig0}
    Method = {"list", "conf"}
    Patience = "quiet"
    Null = Null
    Unknown = Unknown
    Noted <- Faults
    MaxTables = 1
INVARIANTS NoLeak
PROPERTIES ServiceSpec
CHECK_DEADLOCK FALSE
