CONSTANTS
    r1 = r1
    r2 = r2
    r3 = r3
    NoRef = NoRef
    NoOrder = NoOrder
    Locates = {1}
    Refs <- ThreeRefs
    Prices = {1, 2}
    MaxShares = 2
    Events = {"StartOfMarketHours"}
    States = {"Halted", "Trading"}
    StepSizes = {1, 2}
    Captures <- ShortCaptures
SPECIFICATION EngineSpec
CHECK_DEADLOCK FALSE
INVARIANTS
    DoneAtTheEnd
    WatchFollowsTheOrder
    TapeIsTheTrades
    DisplaysAgree
