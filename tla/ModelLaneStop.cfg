\* Two slots and the decode worker, the stop at any moment, spurious wakeups.
SPECIFICATION FairSpec
CONSTANTS
    SlotCount = 2
    CtxSize = 2
    IdleQuantum = 2
    MixedQuantum = 1
    Coalesce = TRUE
    Spurious = TRUE
    Stoppable = TRUE
    MaxBacklog = 1
INVARIANTS LaneInv ModelExclusive BatchWellFormed QuietAtClose TokensEvaluatedOnce
PROPERTIES JobsEnd
\* The server stops for good once it is closed, and may hang before
\* (ShutdownCompletes).
CHECK_DEADLOCK FALSE
