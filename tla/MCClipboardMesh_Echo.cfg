SPECIFICATION FairSpec

CONSTANTS
    d = d
    h = h
    g = g
    Node = {h, g}
    Headless = {h, g}
    Edge <- BothWays
    Image = {i1, i2}
    NoImage = NoImage
    Nobody = Nobody
    Copier = {h, g}
    QueueCapacity = 1
    MaxCopies = 2
    MaxFaults = 0

CHECK_DEADLOCK FALSE

PROPERTIES
    Settles
