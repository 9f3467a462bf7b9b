SPECIFICATION AllSpec
CONSTANTS
    Users = {u1, u2}
    Payers = {u1}
    Hiders = {u2}
    Ids = {c1, c2}
    Codes = {A, B}
    Tops = {T}
    Subs = {}
    ParentOf <- BuiltinParent
    CodeOf <- BuiltinCodes
    Worker <- BuiltinWorker
    Limit = 1
    SubLimit = 1
    Tx = {t1}
    Items = {i1, i2}
    Names = {n1, n2, empty}
    Empty = empty
    Blanks = {empty}
    NewItem = n2
    Imported = n2
    MaxLines = 1
    MaxLineNo = 2
    Devices = {d1, d2}
    BillMonths <- ThreeYears
    MonthsInYear = 2
    BillWeek = 3
    LastToday = 7
    Spring = 100
    Autumn = 100
    LastDay = 4
    Business = {1, 2, 4}
    Forgotten = {2}
    Rows = {r1}
    TrendMonths <- TwoMonths
    Ticks = 2
    Week = 2
    ByDay = 2
    ByWeek = 3
    Now = 5
    Amounts = {a1}
    Cats = {k1}
    Main = k1
    Second = k1
    None = None
PROPERTY HandledMovesOn
CHECK_DEADLOCK FALSE
