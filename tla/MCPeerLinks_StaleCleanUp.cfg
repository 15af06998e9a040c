SPECIFICATION Spec

CONSTANTS
    h1 = h1
    Host = {h1}
    NoHost = NoHost
    Session = {s1, s2}
    HostOf <- AllToOneHost
    Link = {l1, l2}
    NoLink = NoLink
    Refresher = {reconciler}
    CheckConnected = {}
    MaxDisconnects = 0
    MaxOutages = 0
    MaxLateProbes = 0

PROPERTIES
    DisconnectsOnlyWhenAllClosed
