CONSTANTS
    a1 = a1
    a2 = a2
    b1 = b1
    A = A
    B = B
    Scenario = {a1, a2}
    Signal = {A}
    SignalOf <- OneSignal
    NoScenario = NoScenario
    MaxTP = 1
    SlowCycles = 2
    MaxFaults = 0
    MaxOutages = 0
    MaxLapses = 0
    EditChoices = {"canceled", "expired"}
    AddChoices = {"running"}
    MaxEdits = 3
SPECIFICATION OfficeSpec
INVARIANTS
    OfficeTypeOK
    OneEnteredDespiteOffice
PROPERTIES
    EndedMeanwhileIsKept
    ExpiredEndsDespiteOffice
