CONSTANTS
    a1 = a1
    a2 = a2
    b1 = b1
    A = A
    B = B
    Scenario = {a1, a2, b1}
    Signal = {A, B}
    SignalOf <- TwoSignals
    NoScenario = NoScenario
    MaxTP = 1
    SlowCycles = 2
    MaxFaults = 0
    MaxOutages = 1
    MaxLapses = 1
SPECIFICATION Spec
SYMMETRY Competitors
INVARIANTS
    TypeOK
    OneTradePerSignal
    OutcomeHasEntry
    StoresAgree
    EventsTellTheStory
PROPERTY ImplementsLifecycle
