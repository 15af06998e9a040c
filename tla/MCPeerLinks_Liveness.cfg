SPECIFICATION AnsweringSpec

CONSTANTS
    h1 = h1
    Host = {h1}
    NoHost = NoHost
    Session = {s1}
    HostOf <- AllToOneHost
    Link = {l1, l2}
    NoLink = NoLink
    Refresher = {reconciler, status}
    CheckConnected = {status}
    MaxDisconnects = 0
    MaxOutages = 1
    MaxLateProbes = 0

INVARIANTS
    ConnectingHasAttempt

PROPERTIES
    Resyncs
    LeavesNothingOpen
