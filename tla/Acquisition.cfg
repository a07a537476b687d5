CONSTANTS
    LastItem = 2
    PageSize = 2
    KeyedByName = TRUE
    MaxRenames = 1
    MaxLapses = 1
    MaxFaults = 1
    btc = btc
    Coin = {btc}
    CacheTTL = 0
    CoinOf <- AllBtc
SPECIFICATION LiveSpec
INVARIANTS
    TypeOK
    SentOncePerFault
    FewSwallowed
PROPERTIES
    FilterLagsBehind
    PostsAreJudged
CHECK_DEADLOCK FALSE
