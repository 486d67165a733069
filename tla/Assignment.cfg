SPECIFICATION Spec
CONSTANTS
    LogicalEdges = 3
    Sets <- MCSets
    Cost <- MCCost
    Conflicts <- MCConflicts
    MaxPathCost <- MCMaxPathCost
    Usage <- MCUsage
    Spare <- MCSpare
    Problems <- MCProblems
    MaxSetAlternatives = 2
    MaxGlobalNodes = 8
    CollectAllDenials = TRUE
    CostCeiling = 7
    NoBest = NoBest
INVARIANTS
    TypeOK
    KeepsBest
    RemainingAccounts
    PlanFits
    DenialIsProof
    OptimalIsCheapest
CHECK_DEADLOCK FALSE
