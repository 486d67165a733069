SPECIFICATION FairSpec
CONSTANTS
    Clients = {c1}
    MaxSessions = 1
    QueueDepth = 1
    MaxFrames = 3
    SendTypes = {"req"}
    Main = Main
    Nobody = Nobody
PROPERTIES
    TeardownJoinsSessions
CHECK_DEADLOCK FALSE
