SPECIFICATION Spec
CONSTANTS
    Digests = {1, 2}
    Gens = {1, 2}
    Size <- MCSize
    MaxRecords = 1
    MaxRecordBytes = 1
    MaxTotalBytes = 2
    Durable = TRUE
    Faults = {"power", "kill", "write", "enumerate", "read", "remove"}
    MaxSeq = 4
    MaxOpens = 3
    NoRec = NoRec
    Torn = Torn
    Erased = Erased
INVARIANTS
    AckedSurvives
    ErasedStaysErased
    FenceIsFresh
PROPERTY
    ImplementsRegistry
