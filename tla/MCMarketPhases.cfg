CONSTANTS
    l1 = l1
    r1 = r1
    r2 = r2
    r3 = r3
    l2 = l2
    NoOrder = NoOrder
    Locates <- TwoLocates
    Refs <- ThreeRefs
    Prices = {1, 2}
    MaxShares = 1
    Events = {"StartOfMarketHours", "EndOfMarketHours", "StartOfMessages"}
    States = {"Halted", "Trading"}
SYMMETRY Symmetry
VIEW WithoutEffect
SPECIFICATION ReopeningSpec
INVARIANTS
    ArmedExactlyInScope
    WaitingIsPending
PROPERTIES
    OnlyJoinsViolate
