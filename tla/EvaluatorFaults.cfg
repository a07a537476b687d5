CONSTANTS
    a1 = a1
    a2 = a2
    b1 = b1
    A = A
    B = B
    Scenario = {a1, a2}
    Signal = {A}
    SignalOf <- OneSignal
    NoScenario = NoScenario
    MaxTP = 1
    SlowCycles = 2
    MaxFaults = 2
    MaxOutages = 1
    MaxLapses = 0
SPECIFICATION LiveSpec
INVARIANTS
    OneEnteredPerSignal
    NoWaitingBesideEntered
    SignalMirrorsScenario
    EntryIsAudited
    ResultFollowsStatus
    NoOrphanKeys
PROPERTY ExpiredScenarioEnds
