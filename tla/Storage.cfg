\* The values that the settings of MCStorage do not give themselves.
SPECIFICATION MCSpec
CONSTANTS
    NoKey = NoKey
    NoBlock = NoBlock
    NoTurn = NoTurn
    NoFile = NoFile
    MaxIds = 3
    Block = {"b1", "b2"}
    Length <- MCLength
    Text = {{"b1", "b2"}}
    Starts <- MCStarts
    MaxCalls = 2
    Client = {"client"}
    Absent = Absent
    Tensor = {0, 1, 2}
    Shard = {1, 2, 3, 4}
    ShardBytes = 2
    Sources <- MCSources
    Missing = Missing
    Keys <- MCKeys
    Models = {"flash", "pro"}
    Contexts = {3, 4}
    Swa = 2
    Hidden = {0, 1}
    TrailerSizes = {0, 1}
    Budget = 10
    StrictLru = TRUE
    Faults = {"stage", "write", "unlink", "touch"}
    MaxClock = 3
INVARIANTS PathsAreWhole BudgetHeld StoredIsServed
INVARIANTS ReplayExact MemoryAccounted BuildWhole OneGroupStaged
PROPERTIES LruOrder
