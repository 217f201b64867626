SPECIFICATION Spec
CONSTANTS
    a = a
    b = b
    top = top
    f1 = f1
    c1 = c1
    c2 = c2
    Ids = {a, b}
    Rankings <- MCRankings
    Tiers = {top}
    From <- MCFrom
    To <- MCTo
    CoinsList = {top}
    ExtraIds = {b}
    ChunkSize = 1
    Limit = 2
    TTL = 1
    Fetches = {f1}
    Callbacks = {c1, c2}
    MaxVersion = 2
INVARIANTS
    QuotesFollowPrices
    FetchedPricesAreStored
SYMMETRY Symmetry
CHECK_DEADLOCK FALSE
