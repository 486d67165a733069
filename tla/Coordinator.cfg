SPECIFICATION FairSpec
CONSTANTS
    Clients = {c1}
    MaxSessions = 1
    QueueDepth = 1
    MaxFrames = 2
    SendTypes = {"req", "bad", "part", "stop"}
    Main = Main
    Nobody = Nobody
INVARIANTS
    TypeOK
    NoStrandedWaiter
    SessionOutlivesThreads
    InboxWithinDepth
    FramesInOrder
PROPERTIES
    TeardownCompletes
    ClosedClientFreesWorker
CHECK_DEADLOCK FALSE
