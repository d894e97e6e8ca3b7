\* Two layers, the first of them a hash layer, three experts of which a row
\* needs two, a cache smaller than a token's four, one fault.  Or three threads
\* and reads of two or of four tasks: a batch may leave a thread out, and may
\* have more tasks than threads.
SPECIFICATION MCSpec
CONSTANTS
    Layers = 2
    HashLayers = {1}
    Expert = {e1, e2, e3}
    Used = 2
    StartBudget = 3
    MaxBudget = 4
    Chunk = 2
    Spare = 1
    SplitMisses = 1
    ShortRows = 1
    KeepHashLayer = TRUE
    Requests <- TwoRequests
    MaxFaults = 1
    Threads = 3
    Sizes = {2, 4}
    CreateFails = TRUE
    MaxPosted = 3
INVARIANTS BuffersHold SlotsAccounted JobHandedOver ReadersOwn ReadComplete
PROPERTIES RequestsEnd ReadsEnd
