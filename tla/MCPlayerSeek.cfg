CONSTANTS
    r1 = r1
    r2 = r2
    r3 = r3
    NoRef = NoRef
    NoOrder = NoOrder
    Locates = {1, 2}
    Refs <- ThreeRefs
    Prices = {1, 2}
    MaxShares = 2
    Events = {}
    States = {}
    StepSizes = {1, 3}
    Captures <- OneCapture
    Charted = {1}
    TapeKeep = 1
    Expected = 6
    Opening = 2
    PrimeChunk = 2
    SeekChunk = 2
    MaxInputs = 3
SPECIFICATION PlayerSpec
CHECK_DEADLOCK FALSE
INVARIANTS
    TrackingSurvivesSeeks
