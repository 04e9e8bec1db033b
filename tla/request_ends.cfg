SPECIFICATION FairSpec
CONSTANTS
    Req = {r1, r2}
    Target = {db1}
    Screen = {s1}
    Signal = {sig0}
    Method = {"list"}
    Patience = "none"
    Null = Null
    Unknown = Unknown
    Noted = {}
    MaxTables = 1
PROPERTIES EveryRequestEnds
CHECK_DEADLOCK FALSE
