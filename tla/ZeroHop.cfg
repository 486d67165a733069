SPECIFICATION Spec
CONSTANTS
    MaxHops = 4
    MaxPaths = 3
    MaxLevels = 3
    MaxCapacity = 100
    CostCeiling = 5000
    Nothing = Nothing
    NoPlan = NoPlan
    Inputs <- ZeroHopInputs
    SubmittedHops = 2
PROPERTY
    InfeasibleIsProven
