SPECIFICATION FairSpec
CONSTANTS
    Clients = {c1}
    Texts = {"a", "big", "b", "c", "bad"}
    Parses = {"a", "big", "b", "c"}
    Plannable = {"a", "big", "b", "c"}
    Digest <- MCDigest
    Gens <- MCGens
    Oversized = {"big"}
    Unframed <- MCUnframed
    Room <- MCRoom
    Earlier <- MCEarlier
    LongDetail = {"bad"}
    Stored = TRUE
    PutFails = TRUE
    Submits = {"a", "big", "c", "bad"}
    AskDigests = {1}
    AskTexts = {"a", "big"}
    RawFrames = {"malformed", "replay", "badhello"}
    Defects = {"crc"}
    MaxConnects = 2
    MaxSends = 3
    MaxStarts = 2
    Nil = Nil
INVARIANTS
    TypeOK
    ResultIsOwn
    ServedOnce
    AnsweredPlanIsStored
    StopIsForThisProcess
    ValidMeansSameInputs
PROPERTY
    ExchangeEnds
CHECK_DEADLOCK FALSE
