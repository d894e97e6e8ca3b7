SPECIFICATION FairSpec
CONSTANTS
    SlotCount = 2
    CtxSize = 2
    IdleQuantum = 2
    MixedQuantum = 1
    Coalesce = TRUE
    Spurious = FALSE
    Stoppable = TRUE
    MaxBacklog = 1
PROPERTIES ShutdownCompletes
CHECK_DEADLOCK FALSE
