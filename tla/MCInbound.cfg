SPECIFICATION FairSpec

CONSTANTS
    web = web
    db = db
    Machine = {web, db}
    NoMachine = NoMachine
    Ip <- MCIp
    Names <- MCNames
    Ptr <- MCPtr
    SelfNames <- MCSelfNames
    LowerCase <- MCLowerCase
    CommandLine <- MCCommandLine
    Connection = {c1, c2}
    NoConnection = NoConnection
    MaxSessions = 1

CHECK_DEADLOCK FALSE

INVARIANTS
    TypeOK
    InboundIsCounted
    AttributedByLabel
    KnownHostKeepsItsEntry
    StatusShowsPeers
    DiscoveryFindsHosts

PROPERTIES
    QueuedIsServed
