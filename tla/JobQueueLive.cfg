\* A batched server with clients that keep coming and no stop, or one worker
\* with spurious wakeups and a stop.
SPECIFICATION FairSpec
CONSTANTS
    SlotCount = 2
    Client = {c1, c2}
    Call = {i1}
    NoJob = NoJob
    NoCall = NoCall
    Modes = {TRUE, FALSE}
    SpuriousIn = {FALSE}
    StoppableIn = {FALSE}
PROPERTIES JobsAnswered StopCompletes
