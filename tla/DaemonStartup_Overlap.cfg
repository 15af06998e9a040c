SPECIFICATION Spec

CONSTANTS
    Daemon = {d1, d2}
    Nobody = Nobody
    Overlap = TRUE

INVARIANTS
    OneDaemon
