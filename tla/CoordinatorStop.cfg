SPECIFICATION FairSpec
CONSTANTS
    Clients = {c1}
    MaxSessions = 1
    QueueDepth = 1
    MaxFrames = 1
    SendTypes = {"req"}
    Main = Main
    Nobody = Nobody
PROPERTIES
    StopReturns
CHECK_DEADLOCK FALSE
