---------------------------- MODULE MCStreaming ----------------------------
(* The two thread protocols under the streamed experts: the cache, which takes *)
(* a pool that reads for one set of buffers, and the threads of that pool.  A  *)
(* behaviour is of one of the two, and the variables of the other stay as they *)
(* are.                                                                        *)
EXTENDS MCExpertCache, PreadPool

VARIABLE setting

MCVars == <<vars, poolVars, setting>>
MCInit == setting \in {"cache", "pool"} /\ Init /\ PoolInit

(* The cache rests when its requests are served.                               *)
Served == setting = "cache" /\ served = Len(Requests) /\ pc = "idle"

MCNext ==
    \/ setting = "cache" /\ Next /\ UNCHANGED <<poolVars, setting>>
    \/ setting = "pool" /\ PoolNext /\ UNCHANGED <<vars, setting>>
    \/ Served /\ UNCHANGED MCVars

(* The fairness of each module is asked of its own setting.                    *)
MCSpec ==
    /\ MCInit /\ [][MCNext]_MCVars
    /\ []<>(setting = "pool") \/ Fairness
    /\ []<>(setting = "cache") \/ PoolFairness
=============================================================================
