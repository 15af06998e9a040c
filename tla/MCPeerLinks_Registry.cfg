SPECIFICATION Spec

CONSTANTS
    h1 = h1
    Host = {h1}
    NoHost = NoHost
    Session = {s1, s2}
    HostOf <- AllToOneHost
    Link = {l1, l2}
    NoLink = NoLink
    Refresher = {status}
    CheckConnected = {status}
    MaxDisconnects = 1
    MaxOutages = 0
    MaxLateProbes = 1

SYMMETRY Symmetry

INVARIANTS
    TypeOK
    TrackedIsWatched
    CountMatchesPids
    ConnectedHasSession
    ConnectionOwned

PROPERTIES
    PromiseKept
    DisconnectHasCause
