SPECIFICATION Spec

CONSTANTS
    Display = {d1}
    NoDisplay = NoDisplay
    MaxAttempts = 5

CHECK_DEADLOCK FALSE

INVARIANTS
    ShutDownCleanly
