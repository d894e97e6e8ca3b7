----------------------------- MODULE MCStorage -----------------------------
(* What outlives a process: the checkpoints, the tool ids in their         *)
(* trailers, and the streamed build of the model file.  A behaviour is of  *)
(* one of five settings, and the variables of the others stay as they are. *)
(*                                                                         *)
(* Checkpoints: three texts, one begins another and one is by itself;      *)
(* strict LRU with several sizes and times of use and no fault, or         *)
(* weighted eviction with two models and every fault.                      *)
EXTENDS KvStore, StreamBuild, ToolMemory

VARIABLE setting

MCKeys == {<<"a">>, <<"a", "b">>, <<"b">>}

Strict == INSTANCE KvStore WITH
    StrictLru <- TRUE, Faults <- {}, Models <- {"flash"},
    Hidden <- {0, 1}, TrailerSizes <- {1}, MaxClock <- 3
Weighted == INSTANCE KvStore WITH
    StrictLru <- FALSE, Contexts <- {4}, Hidden <- {0}, MaxClock <- 1

(* Tool ids: each time a process that forgets, by either limit, and one of *)
(* another model that has room for everything; three ids with one          *)
(* checkpoint, or the first two of them with two checkpoints, of a text    *)
(* and of its continuation.                                                *)
MCLength == [b1 |-> 1, b2 |-> 2]
MCStarts == {[model |-> "pro", ids |-> 2, bytes |-> 4],
             [model |-> "flash", ids |-> 3, bytes |-> 9]}

TwoTexts == INSTANCE ToolMemory WITH
    Text <- {{"b1"}, {"b1", "b2"}},
    Starts <- {[model |-> "pro", ids |-> 1, bytes |-> 3],
               [model |-> "flash", ids |-> 3, bytes |-> 7]}

(* The first and the last tensor share a shard.                            *)
MCSources == [u \in Tensor |-> CASE u = 0 -> {1, 2}
                                 [] u = 1 -> {4}
                                 [] u = 2 -> {2, 3}]

MCInit ==
    /\ \/ setting = "weighted" /\ Weighted!Init
       \/ /\ setting \in {"strict", "tools", "texts", "build"} /\ Strict!Init
          /\ setting = "strict" \/ settings.ctx = 4
    /\ \/ setting = "texts" /\ TwoTexts!ToolInit
       \/ /\ setting # "texts" /\ ToolInit
          /\ setting = "tools" \/ process.model = "flash"
    /\ BuildInit

MCNext ==
    /\ UNCHANGED setting
    /\ \/ /\ \/ setting = "strict" /\ Strict!Next
             \/ setting = "weighted" /\ Weighted!Next
          /\ UNCHANGED <<toolVars, buildVars>>
       \/ /\ \/ setting = "tools" /\ ToolNext
             \/ /\ setting = "texts" /\ TwoTexts!ToolNext
                /\ sampled'[3] = NoBlock
          /\ UNCHANGED <<vars, buildVars>>
       \/ /\ setting = "build" /\ BuildNext
          /\ UNCHANGED <<vars, toolVars>>

MCSpec ==
    MCInit /\ [][MCNext]_<<vars, toolVars, buildVars, setting>>

(* A file removed for room was not used after one that stays. *)
LruOrder == [][setting = "strict" => LruStep]_vars
=============================================================================
