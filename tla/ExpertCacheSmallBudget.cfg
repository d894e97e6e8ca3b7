\* One request without a fault, whose decode budget is smaller than what a
\* token keeps in flight, as the product's 227 entries are for 43 layers of 6.
SPECIFICATION Spec
CONSTANTS
    Layers = 2
    HashLayers = {1}
    Expert = {e1, e2, e3}
    Used = 2
    StartBudget = 3
    MaxBudget = 4
    Chunk = 2
    Spare = 1
    SplitMisses = 1
    ShortRows = 1
    KeepHashLayer = TRUE
    Requests <- SmallBudget
    MaxFaults = 0
INVARIANTS ServiceNeverWaits
\* The requests end.
CHECK_DEADLOCK FALSE
