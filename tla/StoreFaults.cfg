SPECIFICATION Spec
CONSTANTS
    Digests = {1, 2}
    Gens = {1, 2}
    Size <- MCSize
    MaxRecords = 2
    MaxRecordBytes = 2
    MaxTotalBytes = 3
    Durable = FALSE
    Faults = {"power", "remove", "stat"}
    MaxSeq = 2
    MaxOpens = 2
    NoRec = NoRec
    Torn = Torn
    Erased = Erased
INVARIANTS
    TypeOK
    IndexMatchesDisk
    PutRestoresBounds
