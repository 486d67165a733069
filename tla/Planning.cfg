SPECIFICATION FairSpec
CONSTANTS
    MaxHops = 4
    MaxPaths = 3
    MaxLevels = 3
    MaxCapacity = 100
    CostCeiling = 5000
    Nothing = Nothing
    NoPlan = NoPlan
    Inputs <- MCInputs
    SubmittedHops = 3
INVARIANTS
    TypeOK
    CanonicalForm
    PoolIsFeasible
    SearchIsExact
    ChainIsKept
    ProducedPlanIsValid
    AcceptedPlanIsSound
PROPERTIES
    EdgeDenialIsProof
    OfferIsBest
    PlanningEnds
