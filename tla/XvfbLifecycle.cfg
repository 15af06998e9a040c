SPECIFICATION FairSpec

CONSTANTS
    Display = {d1, d2}
    NoDisplay = NoDisplay
    MaxAttempts = 5

CHECK_DEADLOCK FALSE

INVARIANTS
    TypeOK
    OneServer
    PublishedIsLive
    GivesUpInARow

PROPERTIES
    ServerComesBack
