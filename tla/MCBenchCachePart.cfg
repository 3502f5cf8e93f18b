CONSTANTS
    Processes = {p1, p2}
    Versions <- Captures
    Intact <- Complete
    Size <- Sizes
    Restorable = FALSE
    MaxFaults = 0
SYMMETRY ProcessSymmetry
SPECIFICATION CacheSpec
INVARIANTS
    ReturnsTheWholeCapture
