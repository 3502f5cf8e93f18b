CONSTANTS
    Lengths <- MessageLengths
    StreamLengths <- ShortLengths
    MaxFrames = 2
    UnknownTypes = {"z"}
SPECIFICATION CommandSpec
CHECK_DEADLOCK FALSE
INVARIANTS
    YieldsAPrefix
    ErrorsWhereTheyAre
    FieldsFitThePayload
    SuccessMeansAllRead
    UsablePartDelivered
PROPERTIES
    ReadsLikeMessages
    DeliversEverything
