--------------------------- MODULE MCDistributed ---------------------------
(* A behaviour is one long prompt through the threads of a route, or a         *)
(* session's calls over a route; the variables of the other stay as they are.  *)
(* The first worker of the pipeline has a prefetch queue, the last one         *)
(* evaluates inline.                                                           *)
EXTENDS DistPipeline, MCDistSession

VARIABLE setting

MCPrefetch == <<1, 0>>

MCVars == <<allVars, vars, setting>>
MCInit == setting \in {"prompt", "calls"} /\ PipelineInit /\ SessionInit

(* The pipeline rests once its call has returned.                              *)
Returned == setting = "prompt" /\ prod = "returned"

MCNext ==
    \/ setting = "prompt" /\ PipelineNext /\ UNCHANGED <<vars, setting>>
    \/ setting = "calls" /\ Next /\ UNCHANGED <<allVars, setting>>
    \/ Returned /\ UNCHANGED MCVars

(* The fairness of each module is asked of its own setting.                    *)
MCSpec ==
    /\ MCInit /\ [][MCNext]_MCVars
    /\ []<>(setting = "calls") \/ Fairness
    /\ []<>(setting = "prompt") \/ SessionFairness
=============================================================================
