\* The setting of the checkpoints; MCSlotReuse gives the other two their values.
SPECIFICATION MCSpec
CONSTANTS
    Api = {"responses", "chat"}
    MaxText = 2
    CtxSize = 3
    Quantum = 1
    MinTokens = 1
    ColdMaxTokens = 3
    ContinuedStep = 2
    MaxEntries = 1
    Faults = {}
INVARIANTS FaithfulUntilFailure DiskUntilFailure CachedIsKept PlainFaithful
PROPERTIES FrontierBacked
