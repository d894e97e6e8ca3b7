SPECIFICATION FairSpec
CONSTANTS
    Worker = {a, b}
    Slice <- MCSlice
    Slices = 2
    Token = {x, y}
    Samples = {x}
    Prompts <- MCPrompts
    Stored = {}
    CtxSize = 3
    ChunkCap = 1
    MaxFailures = 1
    MaxLate = 1
    a = a
    b = b
    x = x
    y = y
PROPERTY EvalAppends
