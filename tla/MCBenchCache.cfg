CONSTANTS
    Processes = {p1, p2}
    Versions <- Captures
    Intact <- Complete
    Size <- Sizes
    Restorable = TRUE
    MaxFaults = 1
SYMMETRY ProcessSymmetry
SPECIFICATION CacheSpec
INVARIANTS
    CalmReuse
    ReturnsOneCapture
    RerunsSkip
