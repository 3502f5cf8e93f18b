CONSTANTS
    l1 = l1
    r1 = r1
    r2 = r2
    r3 = r3
    NoOrder = NoOrder
    Locates <- OneLocate
    Refs <- ThreeRefs
    Prices = {1, 2}
    MaxShares = 2
    Events = {}
    States = {}
SYMMETRY RefSymmetry
SPECIFICATION Spec
INVARIANTS
    TypeOK
    VerifyFindsNothing
PROPERTIES
    RejectionChangesNothing
    PriorityKept
    ImplementsPriceTimePriority
