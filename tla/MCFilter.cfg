CONSTANTS
    l1 = l1
    l2 = l2
    r1 = r1
    r2 = r2
    r3 = r3
    NoOrder = NoOrder
    Locates <- TwoLocates
    Chosen <- ChosenLocate
    Refs <- TwoRefs
    Prices = {1, 2}
    MaxShares = 2
    Events = {"StartOfMarketHours", "EndOfMarketHours"}
    States = {"Halted", "Trading"}
SYMMETRY RefSymmetry
VIEW WithoutArming
SPECIFICATION FilterSpec
CHECK_DEADLOCK FALSE
INVARIANTS
    NothingDangles
    RemembersTheFixture
    LinesAreSelections
    PhasesAgree
