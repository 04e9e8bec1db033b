SPECIFICATION FairSpec
CONSTANTS
    t1 = t1
    t2 = t2
    a = a
    b = b
    c = c
    Req = {r1, r2}
    Table = {t1, t2}
    Admin = Admin
    Orders <- SomeOrders
    Columns <- SomeColumns
    Conf <- SomeConf
    Window = 1
    MaxRows = 2
    MaxDepth = 2
    Null = Null
INVARIANTS TypeOK ScreensOnTheirTable FoundAsAsked AnswersAreReadable
           ReturnedNeverShown
PROPERTY RowOpensSearch
