SPECIFICATION FairSpec

CONSTANTS
    d = d
    h = h
    g = g
    Node = {d, h, g}
    Headless = {h, g}
    Edge <- DesktopAndTwoHeadless
    Image = {i1, i2}
    NoImage = NoImage
    Nobody = Nobody
    Copier = {d}
    QueueCapacity = 2
    MaxCopies = 3
    MaxFaults = 1

CHECK_DEADLOCK FALSE

INVARIANTS
    TypeOK
    NothingSentUnprompted
    LastSentIsShown

PROPERTIES
    Settles
    Converges
