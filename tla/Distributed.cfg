\* Three chunks, one buffer on each way, one thing that goes wrong.  Or two
\* workers, a context of three tokens, one thing that goes wrong and one piece
\* of work that outlives its call.
SPECIFICATION MCSpec
CONSTANTS
    Hops = 2
    Count = 3
    WorkRoom = 1
    MaxFaults = 1
    Depth = 1
    Window = 2
    Prefetch <- MCPrefetch
    Forward = 1
    Worker = {a, b}
    Slice <- MCSlice
    Slices = 2
    Token = {x, y}
    Samples = {x}
    Prompts <- MCPrompts
    Stored <- MCStored
    CtxSize = 3
    ChunkCap = 1
    MaxFailures = 1
    MaxLate = 1
    a = a
    b = b
    x = x
    y = y
INVARIANTS SlotsOwned PrefillFaithful HealthySucceeds
PROPERTIES ThreadsEnd EvaluationFaithful RouteCurrent CallsEnd
