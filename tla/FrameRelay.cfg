SPECIFICATION FairSpec

CONSTANTS
    Link = {l1}
    BroadcastCapacity = 2
    WatchCapacity = 1
    SocketCapacity = 2
    PayloadChunks = 2
    MaxCaptured = 4
    MaxInjected = 1

CHECK_DEADLOCK FALSE

INVARIANTS
    TypeOK
    NoCaptureLost
    SkipsOnlyOverwritten
    QuietIsUpToDate

PROPERTIES
    InOrderAndWhole
    NewestArrives
    CloseIsNoticed
