SPECIFICATION Spec
CONSTANTS
    Api = {"chat"}
    MaxText = 3
    CtxSize = 4
    Quantum = 2
    MinTokens = 1
    ColdMaxTokens = 0
    ContinuedStep = 0
    MaxEntries = 1
    Faults = {"prefill"}
INVARIANTS DiskFaithful
