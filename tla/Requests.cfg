SPECIFICATION Spec
CONSTANTS
    a = a
    b = b
    Clients = {c1, c2}
    Items = {a, b}
    ItemTTL = 1
    Lists <- MCLists
    Asks <- MCAsks
    Threshold = 2
    HourlyTTL = 1
    DailyTTL = 2
    DefaultDays = 1
    Year = 4
    MaxTime = 1
INVARIANTS
    ChartCovers
    StatusIsHonest
SYMMETRY Symmetry
CHECK_DEADLOCK FALSE
