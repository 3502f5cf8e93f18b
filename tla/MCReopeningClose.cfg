CONSTANTS
    l1 = l1
    l2 = l2
    r1 = r1
    r2 = r2
    r3 = r3
    NoOrder = NoOrder
    Locates <- OneLocate
    Refs <- ThreeRefs
    Prices = {1, 2}
    MaxShares = 1
    Events = {"StartOfMarketHours", "EndOfMarketHours"}
    States = {"Halted", "Trading"}
SYMMETRY RefSymmetry
SPECIFICATION ReopeningSpec
PROPERTIES
    NeverRearmedSurfaced
