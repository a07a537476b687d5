CONSTANTS
    Replies <- Traded
    Followed <- Traded
    Tracked = {"BTC", "DOGE"}
    Price = {98, 100, 102}
    BufferWindow = 2
    CandleWindow = 1
    PriceTTL = 2
    Interval = 1
    MaxDelay = 1
    SlowCycles = 2
    TfUnits = 2
SPECIFICATION Spec
PROPERTIES
    StopFirst
CHECK_DEADLOCK FALSE
