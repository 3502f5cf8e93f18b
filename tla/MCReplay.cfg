CONSTANTS
    r1 = r1
    r2 = r2
    r3 = r3
    NoOrder = NoOrder
    Locates = {1, 2}
    Refs = {r1, r2, r3}
    Prices = {1, 2}
    MaxShares = 2
    Events = {"StartOfMarketHours", "EndOfMarketHours"}
    States = {"Halted", "Trading"}
    Symbols = {"ABC", "XYZ"}
    MaxDetailed = 2
    VerifyEvery = 3
    MaxMessages = 5
    FlowMessages = 4
SYMMETRY RefSymmetry
SPECIFICATION StreamsSpec
CHECK_DEADLOCK FALSE
INVARIANTS
    OrdersConserved
    ViolationLogIsPrefix
    VerifiedOnCadence
    SymbolActivityAddsUp
    PeaksCover
PROPERTIES
    NewCrossingReported
    PendingReportedAtClose
