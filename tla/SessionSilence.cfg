SPECIFICATION FairSpec
CONSTANTS
    Clients = {c1}
    Texts = {"a", "big"}
    Parses = {"a", "big"}
    Plannable = {"a", "big"}
    Digest <- MCDigest
    Gens <- MCGens
    Oversized = {"big"}
    Unframed <- MCUnframed
    Room <- MCRoom
    Earlier <- NoPlans
    LongDetail = {}
    Stored = TRUE
    PutFails = FALSE
    Submits = {"a", "big"}
    AskDigests = {}
    AskTexts = {}
    RawFrames = {}
    Defects = {}
    MaxConnects = 1
    MaxSends = 2
    MaxStarts = 1
    Nil = Nil
PROPERTY
    EveryCallReturns
CHECK_DEADLOCK FALSE
