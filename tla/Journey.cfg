CONSTANTS
    Replies <- AllReplies
    Followed <- Traded
    Tracked = {"BTC", "DOGE"}
    Price = {98, 100, 102}
    BufferWindow = 2
    CandleWindow = 1
    PriceTTL = 2
    Interval = 1
    MaxDelay = 1
    SlowCycles = 2
    TfUnits = 2
SPECIFICATION Spec
INVARIANTS
    JourneyTypeOK
    StoredAsAnalysed
    TradableRows
    SuccessIsProfit
PROPERTIES
    ExitsFollowThePrices
    ExtremesCoverThePrices
    ConsolidationHeld
CHECK_DEADLOCK FALSE
