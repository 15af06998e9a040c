SPECIFICATION FairSpec

CONSTANTS
    Daemon = {d1, d2, d3}
    Nobody = Nobody
    Overlap = FALSE

INVARIANTS
    OneDaemon
    ListenerIsReachable

PROPERTIES
    RestartServes
