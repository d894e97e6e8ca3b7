\* Two resident slots or one worker, three client threads that come and go,
\* the stop.
SPECIFICATION Spec
CONSTANTS
    SlotCount = 2
    Client = {c1, c2, c3}
    Call = {i1}
    NoJob = NoJob
    NoCall = NoCall
    Modes = {TRUE, FALSE}
    SpuriousIn = {FALSE}
    StoppableIn = {TRUE, FALSE}
SYMMETRY Symmetric
INVARIANTS JobsAccounted Routed NoIdleSlot
PROPERTIES QueueIsService
