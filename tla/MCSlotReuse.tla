---------------------------- MODULE MCSlotReuse ----------------------------
(* A run begins in one of three settings: every kind of checkpoint and no  *)
(* fault; all protocols on one slot, with no disk and no fault; a prefill, *)
(* an evaluation and a load that may fail.                                 *)
EXTENDS SlotReuse
VARIABLE setting

Mixed == INSTANCE SlotReuse WITH
    Api <- {"responses", "anthropic", "chat"}, CtxSize <- 4, MaxEntries <- 0,
    ColdMaxTokens <- 0, ContinuedStep <- 0
Failing == INSTANCE SlotReuse WITH
    Api <- {"responses", "chat"}, CtxSize <- 3, Quantum <- 2,
    ColdMaxTokens <- 0, ContinuedStep <- 0,
    Faults <- {"prefill", "eval", "load"}

MCInit ==
    \/ setting = "rules" /\ Init
    \/ setting = "mixed" /\ Mixed!Init
    \/ setting = "failing" /\ Failing!Init

MCNext ==
    \/ setting = "rules" /\ Next /\ UNCHANGED setting
    \/ setting = "mixed" /\ Mixed!Next /\ UNCHANGED setting
    \/ setting = "failing" /\ Failing!Next /\ UNCHANGED setting

MCSpec == MCInit /\ [][MCNext]_<<vars, setting>>
=============================================================================
