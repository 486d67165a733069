SPECIFICATION Spec
CONSTANTS
    LogicalEdges = 3
    Sets <- MCSets
    Cost <- MCCost
    Conflicts <- MCConflicts
    MaxPathCost <- MCMaxPathCost
    Usage <- MCUsage
    Spare <- MCSpare
    Problems <- MCProblems
    MaxSetAlternatives = 2
    MaxGlobalNodes = 8
    CollectAllDenials = TRUE
    CostCeiling = 7
    NoBest = NoBest
INVARIANT InfeasibleOnlyIfProven
CHECK_DEADLOCK FALSE
