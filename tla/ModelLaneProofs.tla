--------------------------- MODULE ModelLaneProofs ---------------------------
(* Proofs of the safety of ModelLane for every number of slots, context     *)
(* size and prefill quantum.                                               *)
EXTENDS ModelLane, FiniteSetTheorems, TLAPS

(* The raised requests as a set, whose size decode_pending keeps. *)
Pending == {s \in Slot : slot_pending[s]}

(* There are finitely many slots, for every SlotCount. *)
LEMMA SlotFinite == IsFiniteSet(Slot)
  BY LaneAssumption, FS_Interval DEF Slot

(* So the raised requests can be counted. *)
LEMMA PendingFinite == IsFiniteSet(Pending) /\ Cardinality(Pending) \in Nat
  BY SlotFinite, FS_Subset, FS_CardinalityType DEF Pending

(* No request is raised when the server starts. *)
LEMMA TypeInit == Init => TypeOK /\ PendingCounted
<1> SUFFICES ASSUME Init PROVE TypeOK /\ PendingCounted
  OBVIOUS
<1>1. TypeOK
  <2>1. SlotCount - 1 \in Slot
    BY LaneAssumption DEF Slot
  <2>2. CtxSize \in Nat /\ MaxBacklog \in Nat
    BY LaneAssumption
  <2>3. /\ 0 \in 0 .. CtxSize /\ 0 \in 0 .. MaxBacklog
        /\ "idle" \in SlotPC /\ "top" \in DecPC /\ "serving" \in MainPC
    BY <2>2 DEF SlotPC, DecPC, MainPC
  <2> QED
    BY <2>1, <2>3 DEF Init, TypeOK
<1>2. PendingCounted
  <2>1. {s \in Slot : slot_pending[s]} = {}
    BY DEF Init
  <2> QED
    BY <2>1, FS_EmptySet DEF Init, PendingCounted
<1> QED
  BY <1>1, <1>2

(* A step keeps the types; for decode_pending it needs the counter. *)
LEMMA TypeNext == TypeOK /\ PendingCounted /\ [Next]_vars => TypeOK'
<1> SUFFICES ASSUME TypeOK, PendingCounted, [Next]_vars
             PROVE  TypeOK'
  OBVIOUS
<1> USE LaneAssumption DEF TypeOK, Thread, SlotPC, DecPC, MainPC, Set, Goto, mainVars, laneVars, reqVars, jobVars, decVars, Broadcast
<1>0. 0 \in 0 .. CtxSize
  OBVIOUS
<1>1. CASE UNCHANGED vars
  BY <1>1 DEF vars
<1>2. CASE StopSignal
  BY <1>2 DEF StopSignal
<1>3. CASE MainStep
  BY <1>3 DEF MainStep, WorkerStop, DecodeStop, JoinDecoder, CloseServer
<1>4. ASSUME NEW s \in Slot, Begin(s) \/ ExitSlot(s)
      PROVE  TypeOK'
  BY <1>4 DEF Begin, ExitSlot
<1>5. ASSUME NEW s \in Slot, JobStep(s)
      PROVE  TypeOK'
  <2>1. CASE ReadFrontier(s)
    BY <2>1 DEF ReadFrontier
  <2>2. CASE ChooseTarget(s)
    BY <2>2 DEF ChooseTarget, ChunkEnd, ServerPrefillQuantum, ForgetPrompt
  <2>3. ASSUME NEW w \in [Slot -> BOOLEAN], NEW a \in SUBSET Thread,
               PrefillLoop(s, w, a)
        PROVE  TypeOK'
    <3>1. CASE TurnedAway(s, w, a)
      BY <2>3, <3>1 DEF PrefillLoop, TurnedAway, ForgetPrompt
    <3>2. CASE TurnGranted(s, w, a)
      BY <2>3, <3>2 DEF PrefillLoop, TurnGranted
    <3>3. CASE KeepWaiting(s, w, a)
      BY <2>3, <3>3 DEF PrefillLoop, KeepWaiting
    <3> QED
      BY <2>3, <3>1, <3>2, <3>3 DEF PrefillLoop
  <2>4. CASE PrefillEnter(s) \/ PrefillRecheck(s)
    BY <2>3, <2>4 DEF PrefillEnter, PrefillRecheck
  <2>5. CASE PrefillLock(s)
    BY <2>5 DEF PrefillLock
  <2>6. CASE PrefillChunk(s)
    BY <2>6 DEF PrefillChunk
  <2>7. CASE PrefillLeave(s)
    <3>1. CASE NextChunk(s)
      BY <2>7, <3>1 DEF PrefillLeave, NextChunk
    <3>2. CASE PromptDone(s)
      <4>1. /\ prompt' = Set(prompt, s, 0) /\ Goto(s, "genEnter")
            /\ UNCHANGED done
        BY <3>2 DEF PromptDone
      <4> QED
        BY <1>0, <2>7, <4>1 DEF PrefillLeave
    <3>3. CASE GiveUp(s)
      <4>1. ForgetPrompt(s) /\ Goto(s, "tail")
        BY <3>3 DEF GiveUp
      <4> QED
        BY <1>0, <2>7, <4>1 DEF PrefillLeave, ForgetPrompt
    <3> QED
      BY <2>7, <3>1, <3>2, <3>3 DEF PrefillLeave
  <2>8. CASE GenerationEnter(s)
    BY <2>8 DEF GenerationEnter
  <2>9. CASE DecodeLoop(s)
    BY <2>9 DEF DecodeLoop
  <2>10. CASE StoreContinued(s)
    BY <2>10 DEF StoreContinued
  <2>11. CASE SubmitToken(s)
    <3>1. CASE TokenRefused(s)
      BY <2>11, <3>1 DEF SubmitToken, TokenRefused
    <3>2. CASE TokenRaised(s)
      BY <2>11, <3>2 DEF SubmitToken, TokenRaised
    <3> QED
      BY <2>11, <3>1, <3>2 DEF SubmitToken
  <2>12. CASE TokenAnswered(s)
    BY <2>12 DEF TokenAnswered
  <2>13. CASE GenerationLeave(s)
    <3>1. CASE RetryToolCall(s)
      BY <2>13, <3>1 DEF GenerationLeave, ActiveAfterLeave, RetryToolCall, HasRoom
    <3>2. CASE ~RetryToolCall(s)
      BY <2>13, <3>2 DEF GenerationLeave, ActiveAfterLeave
    <3> QED
      BY <3>1, <3>2
  <2>14. CASE FinishJob(s)
    BY <2>14 DEF FinishJob
  <2>15. CASE StoreCheckpoint(s)
    BY <2>15 DEF StoreCheckpoint
  <2> QED
    BY <1>5, <2>1, <2>2, <2>4, <2>5, <2>6, <2>7, <2>8, <2>9, <2>10,
       <2>11, <2>12, <2>13, <2>14, <2>15 DEF JobStep
<1>6. CASE DecoderStep
  <2>1. CASE DecoderSleep
    BY <2>1 DEF DecoderSleep
  <2>2. CASE DecoderBusyWait
    BY <2>2 DEF DecoderBusyWait
  <2>3. CASE DecoderCollect
    <3>1. decode_pending - Cardinality(Pending) \in Nat
      BY PendingFinite DEF PendingCounted, Pending
    <3> QED
      BY <2>3, <3>1 DEF DecoderCollect, PendingAfter, Pending
  <2>4. CASE DecoderExit
    BY <2>4 DEF DecoderExit
  <2>5. CASE DecoderLock
    BY <2>5 DEF DecoderLock
  <2>6. CASE DecoderEval
    BY <2>6 DEF DecoderEval
  <2>7. CASE DecoderFinish
    BY <2>7 DEF DecoderFinish, AnswerOf
  <2> QED
    BY <1>6, <2>1, <2>2, <2>3, <2>4, <2>5, <2>6, <2>7 DEF DecoderStep
<1>7. ASSUME NEW t \in Thread, SpuriousWakeup(t)
      PROVE  TypeOK'
  BY <1>7 DEF SpuriousWakeup
<1> QED
  BY <1>1, <1>2, <1>3, <1>4, <1>5, <1>6, <1>7 DEF Next


(* Only a request raised and a batch collected touch the pending requests. *)
LEMMA PendingFrame ==
  [Next]_vars => \/ UNCHANGED <<decode_pending, slot_pending>>
                 \/ DecoderCollect
                 \/ \E s \in Slot : TokenRaised(s)
  BY DEF Next, vars, mainVars, laneVars, reqVars, jobVars, decVars, StopSignal,
     MainStep, WorkerStop, DecodeStop, JoinDecoder, CloseServer, Begin,
     ExitSlot, JobStep, ReadFrontier, ChooseTarget, PrefillEnter,
     PrefillRecheck, PrefillLoop, PrefillLock, PrefillChunk, PrefillLeave,
     GenerationEnter, DecodeLoop, StoreContinued, SubmitToken, TokenRefused,
     TokenAnswered, GenerationLeave, FinishJob, StoreCheckpoint, DecoderStep,
     DecoderSleep, DecoderBusyWait, DecoderExit, DecoderLock, DecoderEval,
     DecoderFinish, SpuriousWakeup

(* A step that raises or takes a request counts it. *)
LEMMA PendingNext == TypeOK /\ PendingCounted /\ [Next]_vars => PendingCounted'
<1> SUFFICES ASSUME TypeOK, PendingCounted, [Next]_vars
             PROVE  decode_pending' = Cardinality(Pending')
  BY DEF PendingCounted, Pending
<1>0. decode_pending = Cardinality(Pending)
  BY DEF PendingCounted, Pending
<1>1. CASE UNCHANGED <<decode_pending, slot_pending>>
  BY <1>0, <1>1 DEF Pending
<1>2. CASE DecoderCollect
  <2>1. decode_pending' = decode_pending - Cardinality(Pending)
    BY <1>2 DEF DecoderCollect, PendingAfter, Pending
  <2>2. Pending' = {}
    BY <1>2 DEF DecoderCollect, Pending
  <2> QED
    BY <1>0, <2>1, <2>2, FS_EmptySet, PendingFinite DEF TypeOK
<1>3. ASSUME NEW s \in Slot, TokenRaised(s)
      PROVE  decode_pending' = Cardinality(Pending')
  <2>1. s \notin Pending /\ Pending' = Pending \cup {s}
    BY <1>3 DEF TokenRaised, Pending, Set, TypeOK
  <2>2. decode_pending' = decode_pending + 1
    BY <1>3 DEF TokenRaised
  <2> QED
    BY <1>0, <2>1, <2>2, PendingFinite, FS_AddElement
<1> QED
  BY <1>1, <1>2, <1>3, PendingFrame

(* The types of the lane's state, and its counter of raised requests: the
   decode worker subtracts the size of its batch from decode_pending without
   a test, and never goes below zero. *)
THEOREM LaneTypes == Spec => []LaneInv
<1>1. Init => LaneInv
  BY TypeInit DEF LaneInv
<1>2. LaneInv /\ [Next]_vars => LaneInv'
  BY TypeNext, PendingNext DEF LaneInv
<1> QED
  BY <1>1, <1>2, PTL DEF Spec

-----------------------------------------------------------------------------
(* One user of the executor.                                               *)

(* Nobody uses the executor when the server starts. *)
LEMMA ExclusiveInit == Init => ModelExclusive
  BY DEF Init, ModelExclusive, UsesModel, DecoderUsesModel

(* Only a thread that found model_busy clear becomes the user. *)
LEMMA ExclusiveNext == TypeOK /\ ModelExclusive /\ [Next]_vars => ModelExclusive'
<1> SUFFICES ASSUME TypeOK, ModelExclusive, [Next]_vars
             PROVE  ModelExclusive'
  OBVIOUS
<1> USE DEF ModelExclusive, UsesModel, DecoderUsesModel, Set, Goto, mainVars,
        laneVars, reqVars, jobVars, decVars
<1>0. pc \in [Slot -> SlotPC]
  BY DEF TypeOK
<1>1. CASE UNCHANGED <<pc, dpc, model_busy>>
  BY <1>1
<1>2. ASSUME NEW s \in Slot, NEW l, pc[s] \notin {"lock", "prefill", "leave"},
             l \notin {"lock", "prefill", "leave"}, Goto(s, l),
             UNCHANGED <<dpc, model_busy>>
      PROVE  ModelExclusive'
  BY <1>0, <1>2
<1>3. ASSUME NEW s \in Slot, JobStep(s)
      PROVE  ModelExclusive'
  <2>1. CASE ReadFrontier(s)
    BY <1>2, <2>1 DEF ReadFrontier
  <2>2. CASE ChooseTarget(s)
    BY <1>2, <2>2 DEF ChooseTarget
  <2>3. CASE PrefillEnter(s) \/ PrefillRecheck(s)
    <3>1. PICK w, a : PrefillLoop(s, w, a)
      BY <2>3 DEF PrefillEnter, PrefillRecheck
    <3>2. pc[s] \in {"enter", "prefillWait"} /\ UNCHANGED dpc
      BY <2>3, <3>1 DEF PrefillEnter, PrefillRecheck, PrefillLoop
    <3>3. CASE TurnGranted(s, w, a)
      BY <1>0, <3>2, <3>3 DEF TurnGranted, MayPrefill
    <3>4. CASE ~TurnGranted(s, w, a)
      BY <1>2, <3>1, <3>2, <3>4 DEF PrefillLoop, TurnedAway, KeepWaiting
    <3> QED
      BY <3>3, <3>4
  <2>4. CASE PrefillLock(s) \/ PrefillChunk(s)
    <3>1. pc[s] \in {"lock", "prefill"} /\ UNCHANGED <<dpc, model_busy>>
      BY <2>4 DEF PrefillLock, PrefillChunk
    <3>2. Goto(s, "prefill") \/ Goto(s, "leave")
      BY <2>4 DEF PrefillLock, PrefillChunk
    <3> QED
      BY <1>0, <3>1, <3>2
  <2>5. CASE PrefillLeave(s)
    <3>1. pc[s] = "leave" /\ ~model_busy' /\ UNCHANGED dpc
      BY <2>5 DEF PrefillLeave
    <3>2. Goto(s, "sync") \/ Goto(s, "genEnter") \/ Goto(s, "tail")
      BY <2>5 DEF PrefillLeave, NextChunk, PromptDone, GiveUp
    <3> QED
      BY <1>0, <3>1, <3>2
  <2>6. CASE GenerationEnter(s) \/ DecodeLoop(s) \/ StoreContinued(s)
    BY <1>2, <2>6 DEF GenerationEnter, DecodeLoop, StoreContinued
  <2>7. CASE SubmitToken(s)
    BY <1>2, <2>7 DEF SubmitToken, TokenRefused, TokenRaised
  <2>8. CASE TokenAnswered(s)
    BY <1>1, <1>2, <2>8 DEF TokenAnswered
  <2>9. CASE GenerationLeave(s)
    BY <1>2, <2>9 DEF GenerationLeave, RetryToolCall
  <2>10. CASE FinishJob(s) \/ StoreCheckpoint(s)
    BY <1>2, <2>10 DEF FinishJob, StoreCheckpoint
  <2> QED
    BY <1>3, <2>1, <2>2, <2>3, <2>4, <2>5, <2>6, <2>7, <2>8, <2>9, <2>10
       DEF JobStep
<1>4. ASSUME NEW s \in Slot, Begin(s) \/ ExitSlot(s)
      PROVE  ModelExclusive'
  BY <1>2, <1>4 DEF Begin, ExitSlot
<1>5. CASE DecoderStep
  <2>1. CASE DecoderSleep \/ DecoderBusyWait \/ DecoderExit
    BY <2>1 DEF DecoderSleep, DecoderBusyWait, DecoderExit, AwakeAt,
                PastCoalesce
  <2>2. CASE DecoderCollect
    BY <2>2 DEF DecoderCollect, AwakeAt, PastCoalesce
  <2>3. CASE DecoderLock \/ DecoderEval
    BY <2>3 DEF DecoderLock, DecoderEval
  <2>4. CASE DecoderFinish
    BY <2>4 DEF DecoderFinish
  <2> QED
    BY <1>5, <2>1, <2>2, <2>3, <2>4 DEF DecoderStep
<1>6. CASE StopSignal \/ MainStep \/ UNCHANGED vars
  BY <1>1, <1>6 DEF StopSignal, MainStep, WorkerStop, DecodeStop, JoinDecoder,
                    CloseServer, vars
<1>7. ASSUME NEW t \in Thread, SpuriousWakeup(t)
      PROVE  ModelExclusive'
  BY <1>1, <1>7 DEF SpuriousWakeup
<1> QED
  BY <1>3, <1>4, <1>5, <1>6, <1>7 DEF Next

(* For any number of slots: the executor has at most one user, and model_busy
   says exactly whether it has one. *)
THEOREM LaneExclusive == Spec => []ModelExclusive
<1>1. LaneInv /\ ModelExclusive /\ [Next]_vars => ModelExclusive'
  BY ExclusiveNext DEF LaneInv
<1> QED
  BY <1>1, ExclusiveInit, LaneTypes, PTL DEF Spec

-----------------------------------------------------------------------------
(* The end of the server.                                                  *)

(* The order in which the threads end: the decode worker is told to stop when
   every slot worker has exited, and the sessions are saved when it has. *)
ShutdownOrder ==
    /\ model_stopping <=> main \in {"joinDecoder", "persist", "closed"}
    /\ model_stopping => \A s \in Slot : pc[s] = "exited"
    /\ dpc = "exited" => model_stopping
    /\ main \in {"persist", "closed"} => dpc = "exited"

(* What a slot worker's step leaves alone, and where it may be taken. *)
LEMMA SlotFrame ==
  ASSUME NEW s \in Slot, Begin(s) \/ ExitSlot(s) \/ JobStep(s)
  PROVE  /\ pc[s] # "exited"
         /\ UNCHANGED <<g_stop_requested, main, model_stopping, dpc, members,
                        batch_rc, slot_in_flight>>
  BY DEF mainVars, laneVars, reqVars, jobVars, decVars, Begin, ExitSlot,
     JobStep, ReadFrontier, ChooseTarget, PrefillEnter, PrefillRecheck,
     PrefillLoop, PrefillLock, PrefillChunk, PrefillLeave, GenerationEnter,
     DecodeLoop, StoreContinued, SubmitToken, TokenAnswered, GenerationLeave,
     FinishJob, StoreCheckpoint

(* What the decode worker's step leaves alone. *)
LEMMA DecoderFrame ==
  ASSUME DecoderStep
  PROVE  /\ dpc # "exited"
         /\ dpc' = "exited" => model_stopping
         /\ UNCHANGED <<g_stop_requested, main, model_stopping, pc, done, rc>>
  BY DEF mainVars, laneVars, reqVars, jobVars, decVars, DecoderStep,
     DecoderSleep, DecoderBusyWait, DecoderCollect, DecoderExit, DecoderLock,
     DecoderEval, DecoderFinish, AwakeAt, PastCoalesce

(* Each thread is told to stop, and joined, in its turn. *)
LEMMA ShutdownNext == TypeOK /\ ShutdownOrder /\ [Next]_vars => ShutdownOrder'
<1> SUFFICES ASSUME TypeOK, ShutdownOrder, [Next]_vars
             PROVE  ShutdownOrder'
  OBVIOUS
<1> USE DEF ShutdownOrder
<1>1. CASE StopSignal \/ UNCHANGED vars \/ \E t \in Thread : SpuriousWakeup(t)
  BY <1>1 DEF StopSignal, SpuriousWakeup, vars, mainVars, laneVars, decVars
<1>2. CASE MainStep
  BY <1>2 DEF MainStep, WorkerStop, DecodeStop, JoinDecoder, CloseServer,
              SlotsJoined, laneVars, decVars
<1>3. CASE DecoderStep
  BY <1>3, DecoderFrame
<1>4. ASSUME NEW s \in Slot, Begin(s) \/ ExitSlot(s) \/ JobStep(s)
      PROVE  ShutdownOrder'
  <2>1. ~model_stopping
    BY <1>4, SlotFrame
  <2> QED
    BY <1>4, <2>1, SlotFrame
<1> QED
  BY <1>1, <1>2, <1>3, <1>4 DEF Next

(* inference_mu has a holder exactly while that thread works on a session. *)
LockHeld ==
    /\ \A s \in Slot : inference_mu = s <=> pc[s] \in {"prefill", "store", "persist"}
    /\ inference_mu = Decoder <=> dpc = "eval"

(* The numbers that stand for threads are different. *)
LEMMA ThreadsApart == Nobody \notin Thread /\ Decoder \notin Slot
  BY LaneAssumption DEF Thread, Slot, Decoder, Nobody

(* A thread takes inference_mu when it is free and gives back only its own. *)
LEMMA LockNext == TypeOK /\ LockHeld /\ [Next]_vars => LockHeld'
<1> SUFFICES ASSUME TypeOK, LockHeld, [Next]_vars
             PROVE  LockHeld'
  OBVIOUS
<1> USE ThreadsApart DEF LockHeld, Thread, Set, Goto, mainVars, laneVars,
        reqVars, jobVars, decVars
<1>0. pc \in [Slot -> SlotPC]
  BY DEF TypeOK
<1>1. CASE UNCHANGED <<pc, dpc, inference_mu>>
  BY <1>1
<1>2. ASSUME NEW s \in Slot, NEW l, pc[s] \notin {"prefill", "store", "persist"},
             l \notin {"prefill", "store", "persist"}, Goto(s, l),
             UNCHANGED <<dpc, inference_mu>>
      PROVE  LockHeld'
  BY <1>0, <1>2
<1>3. ASSUME NEW s \in Slot, NEW l \in {"prefill", "store", "persist"},
             inference_mu = Nobody, inference_mu' = s, Goto(s, l),
             UNCHANGED dpc
      PROVE  LockHeld'
  BY <1>0, <1>3
<1>4. ASSUME NEW s \in Slot, NEW l, l \notin {"prefill", "store", "persist"},
             pc[s] \in {"prefill", "store", "persist"}, inference_mu' = Nobody,
             Goto(s, l), UNCHANGED dpc
      PROVE  LockHeld'
  BY <1>0, <1>4
<1>5. ASSUME NEW s \in Slot, Begin(s) \/ ExitSlot(s) \/ JobStep(s)
      PROVE  LockHeld'
  <2>1. CASE Begin(s) \/ ExitSlot(s) \/ ReadFrontier(s) \/ ChooseTarget(s)
    BY <1>2, <2>1 DEF Begin, ExitSlot, ReadFrontier, ChooseTarget
  <2>2. CASE PrefillEnter(s) \/ PrefillRecheck(s)
    <3>1. PICK w, a : PrefillLoop(s, w, a)
      BY <2>2 DEF PrefillEnter, PrefillRecheck
    <3>2. pc[s] \in {"enter", "prefillWait"}
      BY <2>2 DEF PrefillEnter, PrefillRecheck
    <3>3. Goto(s, "tail") \/ Goto(s, "lock") \/ Goto(s, "prefillWait")
      BY <3>1 DEF PrefillLoop, TurnedAway, TurnGranted, KeepWaiting
    <3>4. UNCHANGED <<dpc, inference_mu>>
      BY <3>1 DEF PrefillLoop
    <3> QED
      BY <1>2, <3>2, <3>3, <3>4
  <2>3. CASE PrefillLock(s)
    BY <1>3, <2>3 DEF PrefillLock
  <2>4. CASE PrefillChunk(s)
    BY <1>4, <2>4 DEF PrefillChunk
  <2>5. CASE PrefillLeave(s)
    BY <1>2, <2>5 DEF PrefillLeave, NextChunk, PromptDone, GiveUp
  <2>6. CASE GenerationEnter(s)
    BY <1>2, <2>6 DEF GenerationEnter
  <2>7. CASE DecodeLoop(s)
    BY <1>2, <1>3, <2>7 DEF DecodeLoop
  <2>8. CASE StoreContinued(s)
    BY <1>4, <2>8 DEF StoreContinued
  <2>9. CASE SubmitToken(s)
    BY <1>2, <2>9 DEF SubmitToken, TokenRefused, TokenRaised
  <2>10. CASE TokenAnswered(s)
    BY <1>1, <1>2, <2>10 DEF TokenAnswered
  <2>11. CASE GenerationLeave(s)
    BY <1>2, <2>11 DEF GenerationLeave, RetryToolCall
  <2>12. CASE FinishJob(s)
    BY <1>2, <1>3, <2>12 DEF FinishJob
  <2>13. CASE StoreCheckpoint(s)
    BY <1>4, <2>13 DEF StoreCheckpoint
  <2> QED
    BY <1>5, <2>1, <2>2, <2>3, <2>4, <2>5, <2>6, <2>7, <2>8, <2>9, <2>10,
       <2>11, <2>12, <2>13 DEF JobStep
<1>6. CASE DecoderStep
  <2>1. CASE DecoderSleep \/ DecoderBusyWait \/ DecoderCollect \/ DecoderExit
    BY <2>1 DEF DecoderSleep, DecoderBusyWait, DecoderCollect, DecoderExit,
                AwakeAt, PastCoalesce
  <2>2. CASE DecoderLock \/ DecoderEval
    BY <2>2 DEF DecoderLock, DecoderEval
  <2>3. CASE DecoderFinish
    BY <2>3 DEF DecoderFinish
  <2> QED
    BY <1>6, <2>1, <2>2, <2>3 DEF DecoderStep
<1>7. CASE StopSignal \/ MainStep \/ UNCHANGED vars \/ \E t \in Thread : SpuriousWakeup(t)
  BY <1>1, <1>7 DEF StopSignal, MainStep, WorkerStop, DecodeStop, JoinDecoder,
                    CloseServer, SpuriousWakeup, vars
<1> QED
  BY <1>5, <1>6, <1>7 DEF Next

(* For any number of slots: when the main thread saves and frees the sessions,
   no thread is left that could evaluate them or hold inference_mu. *)
THEOREM LaneQuiet == Spec => []QuietAtClose
<1>1. Init => ShutdownOrder /\ LockHeld
  BY ThreadsApart DEF Init, ShutdownOrder, LockHeld, Thread
<1>2. LaneInv /\ ShutdownOrder /\ LockHeld /\ [Next]_vars
        => (ShutdownOrder /\ LockHeld)'
  BY ShutdownNext, LockNext DEF LaneInv
<1>3. LaneInv /\ ShutdownOrder /\ LockHeld /\ ModelExclusive => QuietAtClose
  BY DEF LaneInv, TypeOK, ShutdownOrder, LockHeld, ModelExclusive, UsesModel,
         DecoderUsesModel, QuietAtClose, Thread
<1> QED
  BY <1>1, <1>2, <1>3, LaneTypes, LaneExclusive, PTL DEF Spec

-----------------------------------------------------------------------------
(* The decode worker's batches.                                            *)

(* The slot has asked for a token: its request is raised or taken. *)
Asked(s) == slot_pending[s] \/ slot_in_flight[s]

(* Where the slot's worker may be while its request stands.  After the stop it
   may have given up, but it comes no further than the next refused prefill. *)
AskedAt == {"decodeWait", "genLeave", "tail", "persist", "idle", "frontier",
            "sync", "exited"}

(* What BatchWellFormed rests on: a session has the room it was tested for
   because nobody but the batch advances it. *)
Requests ==
    /\ BatchWellFormed
    /\ \A s \in Slot : Asked(s) =>
          /\ pc[s] \in AskedAt
          /\ pc[s] = "decodeWait" => slot_answer[s] = "none"
    /\ ~DecoderUsesModel => members = {}
    /\ \A s \in Slot : slot_pending[s] \/ pc[s] \in {"store", "submit"} => HasRoom(s)

(* A slot worker's step disturbs only its own request and session. *)
LEMMA OthersFrame ==
  ASSUME TypeOK, NEW s \in Slot, Begin(s) \/ ExitSlot(s) \/ JobStep(s)
  PROVE  \A t \in Slot \ {s} :
            /\ pc'[t] = pc[t] /\ pos'[t] = pos[t] /\ done'[t] = done[t]
            /\ rc'[t] = rc[t]
            /\ slot_pending'[t] = slot_pending[t]
            /\ slot_answer'[t] = slot_answer[t]
<1> USE DEF TypeOK, mainVars, laneVars, reqVars, jobVars, decVars, Set, Goto,
        ForgetPrompt
<1>1. CASE Begin(s) \/ ExitSlot(s)
  BY <1>1 DEF Begin, ExitSlot
<1>2. CASE ReadFrontier(s) \/ ChooseTarget(s)
  BY <1>2 DEF ReadFrontier, ChooseTarget
<1>3. CASE PrefillEnter(s) \/ PrefillRecheck(s)
  <2>1. PICK w, a : PrefillLoop(s, w, a)
    BY <1>3 DEF PrefillEnter, PrefillRecheck
  <2> QED
    BY <2>1 DEF PrefillLoop, TurnedAway, TurnGranted, KeepWaiting
<1>4. CASE PrefillLock(s) \/ PrefillChunk(s)
  BY <1>4 DEF PrefillLock, PrefillChunk
<1>5. CASE PrefillLeave(s)
  BY <1>5 DEF PrefillLeave, NextChunk, PromptDone, GiveUp
<1>6. CASE GenerationEnter(s) \/ DecodeLoop(s) \/ StoreContinued(s)
  BY <1>6 DEF GenerationEnter, DecodeLoop, StoreContinued
<1>7. CASE SubmitToken(s)
  BY <1>7 DEF SubmitToken, TokenRefused, TokenRaised
<1>8. CASE TokenAnswered(s)
  BY <1>8 DEF TokenAnswered
<1>9. CASE GenerationLeave(s)
  BY <1>9 DEF GenerationLeave, RetryToolCall
<1>10. CASE FinishJob(s) \/ StoreCheckpoint(s)
  BY <1>10 DEF FinishJob, StoreCheckpoint
<1> QED
  BY <1>1, <1>2, <1>3, <1>4, <1>5, <1>6, <1>7, <1>8, <1>9, <1>10 DEF JobStep

(* What a slot worker's own step does to its request. *)
RequestKept(s) ==
    /\ ~(slot_pending'[s] /\ slot_in_flight[s])
    /\ slot_pending'[s] \/ slot_in_flight[s] =>
          /\ pc'[s] \in AskedAt
          /\ pc'[s] = "decodeWait" => slot_answer'[s] = "none"
          /\ pos'[s] = pos[s]
          /\ ~g_stop_requested => pc'[s] = "decodeWait"
    /\ slot_pending'[s] \/ pc'[s] \in {"store", "submit"} => pos'[s] < CtxSize

(* A slot worker asks once, with room for the token, and while its request
   stands before the stop it waits. *)
LEMMA RequestNext ==
  ASSUME TypeOK, Requests, NEW s \in Slot, Begin(s) \/ ExitSlot(s) \/ JobStep(s)
  PROVE  RequestKept(s)
<1> USE DEF TypeOK, Requests, BatchWellFormed, NoStrayDecode, RequestKept, Asked, AskedAt, HasRoom,
        mainVars, laneVars, reqVars, jobVars, decVars, Set, Goto
<1>1. CASE Begin(s) \/ ExitSlot(s)
  BY <1>1 DEF Begin, ExitSlot
<1>2. CASE ReadFrontier(s) \/ ChooseTarget(s)
  BY <1>2 DEF ReadFrontier, ChooseTarget
<1>3. CASE PrefillEnter(s) \/ PrefillRecheck(s)
  <2>1. PICK w, a : PrefillLoop(s, w, a)
    BY <1>3 DEF PrefillEnter, PrefillRecheck
  <2>2. ~Asked(s)
    BY <1>3 DEF PrefillEnter, PrefillRecheck
  <2>3. Goto(s, "tail") \/ Goto(s, "lock") \/ Goto(s, "prefillWait")
    BY <2>1 DEF PrefillLoop, TurnedAway, TurnGranted, KeepWaiting
  <2> QED
    BY <2>1, <2>2, <2>3 DEF PrefillLoop
<1>4. CASE PrefillLock(s) \/ PrefillChunk(s)
  <2>1. ~Asked(s) /\ UNCHANGED reqVars
    BY <1>4 DEF PrefillLock, PrefillChunk
  <2>2. Goto(s, "prefill") \/ Goto(s, "leave")
    BY <1>4 DEF PrefillLock, PrefillChunk
  <2> QED
    BY <2>1, <2>2
<1>5. CASE PrefillLeave(s)
  <2>1. ~Asked(s) /\ UNCHANGED <<reqVars, pos>>
    BY <1>5 DEF PrefillLeave
  <2>2. Goto(s, "sync") \/ Goto(s, "genEnter") \/ Goto(s, "tail")
    BY <1>5 DEF PrefillLeave, NextChunk, PromptDone, GiveUp
  <2> QED
    BY <2>1, <2>2
<1>6. CASE GenerationEnter(s) \/ DecodeLoop(s) \/ StoreContinued(s)
  BY <1>6 DEF GenerationEnter, DecodeLoop, StoreContinued
<1>7. CASE SubmitToken(s)
  <2>1. ~Asked(s) /\ pos[s] < CtxSize
    BY <1>7 DEF SubmitToken
  <2>2. TokenRaised(s) /\ UNCHANGED <<slot_in_flight, pos>>
    BY <1>7, <2>1 DEF SubmitToken, TokenRefused
  <2>3. /\ pc'[s] \in {"genLeave", "decodeWait"} /\ slot_answer'[s] = "none"
        /\ ~g_stop_requested => pc'[s] = "decodeWait"
    BY <2>2 DEF TokenRaised
  <2> QED
    BY <2>1, <2>2, <2>3
<1>8. CASE TokenAnswered(s)
  BY <1>8 DEF TokenAnswered, AnswerReady
<1>9. CASE GenerationLeave(s)
  BY <1>9 DEF GenerationLeave, RetryToolCall
<1>10. CASE FinishJob(s) \/ StoreCheckpoint(s)
  BY <1>10 DEF FinishJob, StoreCheckpoint
<1> QED
  BY <1>1, <1>2, <1>3, <1>4, <1>5, <1>6, <1>7, <1>8, <1>9, <1>10 DEF JobStep

(* A batch is formed, evaluated and answered whole. *)
LEMMA RequestsNext == TypeOK /\ Requests /\ [Next]_vars => Requests'
<1> SUFFICES ASSUME TypeOK, Requests, [Next]_vars
             PROVE  Requests'
  OBVIOUS
<1> USE DEF Requests, BatchWellFormed, NoStrayDecode, Asked, HasRoom,
        DecoderUsesModel
<1>1. ASSUME NEW s \in Slot, Begin(s) \/ ExitSlot(s) \/ JobStep(s)
      PROVE  Requests'
  BY <1>1, OthersFrame, RequestNext, SlotFrame DEF RequestKept
<1>2. CASE DecoderStep
  <2> USE DEF mainVars, laneVars, reqVars, jobVars, decVars, TypeOK
  <2>1. CASE DecoderSleep \/ DecoderBusyWait \/ DecoderExit
    BY <2>1 DEF DecoderSleep, DecoderBusyWait, DecoderExit, AwakeAt,
                PastCoalesce
  <2>2. CASE DecoderCollect
    BY <2>2 DEF DecoderCollect, AwakeAt, PastCoalesce
  <2>3. CASE DecoderLock
    BY <2>3 DEF DecoderLock
  <2>4. CASE DecoderEval
    <3>1. \A s \in Slot \ members : pos'[s] = pos[s]
      BY <2>4 DEF DecoderEval
    <3>2. \A s \in members : pc[s] \in AskedAt /\ ~slot_pending[s]
      OBVIOUS
    <3>3. UNCHANGED <<g_stop_requested, reqVars, members, pc>> /\ dpc' = "finish"
      BY <2>4 DEF DecoderEval
    <3> QED
      BY <3>1, <3>2, <3>3 DEF AskedAt
  <2>5. CASE DecoderFinish
    BY <2>5 DEF DecoderFinish
  <2> QED
    BY <1>2, <2>1, <2>2, <2>3, <2>4, <2>5 DEF DecoderStep
<1>3. CASE StopSignal \/ MainStep \/ UNCHANGED vars \/ \E t \in Thread : SpuriousWakeup(t)
  BY <1>3 DEF StopSignal, MainStep, WorkerStop, DecodeStop, JoinDecoder,
              CloseServer, SpuriousWakeup, vars, mainVars, laneVars, reqVars,
              jobVars, decVars
<1> QED
  BY <1>1, <1>2, <1>3 DEF Next

(* For any number of slots, even at shutdown: no request is raised twice or
   lost from the batch, server_eval_token never refuses before the stop, and a
   session with no room for the token is never evaluated. *)
THEOREM LaneBatch == Spec => []BatchWellFormed
<1>1. Init => Requests
  BY LaneAssumption DEF Init, Requests, BatchWellFormed, NoStrayDecode, Asked
<1>2. LaneInv /\ Requests /\ [Next]_vars => Requests'
  BY RequestsNext DEF LaneInv
<1>3. Requests => BatchWellFormed
  BY DEF Requests
<1> QED
  BY <1>1, <1>2, <1>3, LaneTypes, PTL DEF Spec

-----------------------------------------------------------------------------
(* What a worker takes its session to hold.                                *)

(* The session holds done[s] tokens, or one more from the evaluation of a
   token until the worker has taken the answer. *)
SessionKept(s) ==
    /\ pc[s] \in {"genEnter", "decode", "store", "submit"} => pos[s] = done[s]
    /\ pc[s] = "leave" /\ rc[s] = 0 => pos[s] = done[s]
    /\ pc[s] = "decodeWait" =>
         /\ slot_pending[s] => pos[s] = done[s]
         /\ s \in members /\ dpc \in {"lock", "eval"} => pos[s] = done[s]
         /\ s \in members /\ dpc = "finish" /\ batch_rc = 0 => pos[s] = done[s] + 1
         /\ slot_answer[s] = "ok" => pos[s] = done[s] + 1

TokensTold == ~g_stop_requested => \A s \in Slot : SessionKept(s)

(* A slot worker's step keeps its own session's count. *)
LEMMA SessionNext ==
  ASSUME TypeOK, Requests, ~g_stop_requested, NEW s \in Slot, SessionKept(s),
         Begin(s) \/ ExitSlot(s) \/ JobStep(s)
  PROVE  SessionKept(s)'
<1> USE DEF TypeOK, SessionKept, mainVars, laneVars, reqVars, jobVars, decVars,
        Set, Goto
<1>0. Asked(s) => pc[s] = "decodeWait" /\ slot_answer[s] = "none"
  BY DEF Requests, BatchWellFormed, NoStrayDecode, Asked
<1>1. CASE Begin(s) \/ ExitSlot(s)
  BY <1>1 DEF Begin, ExitSlot
<1>2. CASE ReadFrontier(s) \/ ChooseTarget(s)
  BY <1>2 DEF ReadFrontier, ChooseTarget
<1>3. CASE PrefillEnter(s) \/ PrefillRecheck(s)
  <2>1. PICK w, a : PrefillLoop(s, w, a)
    BY <1>3 DEF PrefillEnter, PrefillRecheck
  <2>2. Goto(s, "tail") \/ Goto(s, "lock") \/ Goto(s, "prefillWait")
    BY <2>1 DEF PrefillLoop, TurnedAway, TurnGranted, KeepWaiting
  <2> QED
    BY <2>2
<1>4. CASE PrefillLock(s) \/ PrefillChunk(s)
  BY <1>4 DEF PrefillLock, PrefillChunk
<1>5. CASE PrefillLeave(s)
  <2>1. CASE NextChunk(s) \/ GiveUp(s)
    BY <1>5, <2>1 DEF PrefillLeave, NextChunk, GiveUp
  <2>2. CASE PromptDone(s)
    BY <1>5, <2>2 DEF PrefillLeave, PromptDone
  <2> QED
    BY <1>5, <2>1, <2>2 DEF PrefillLeave
<1>6. CASE GenerationEnter(s) \/ DecodeLoop(s) \/ StoreContinued(s)
  BY <1>6 DEF GenerationEnter, DecodeLoop, StoreContinued
<1>7. CASE SubmitToken(s)
  <2>1. ~Asked(s) /\ s \notin members
    BY <1>0, <1>7 DEF SubmitToken, Requests, BatchWellFormed, Asked
  <2>2. TokenRaised(s) /\ UNCHANGED <<pos, done, members>>
    BY <1>7, <2>1 DEF SubmitToken, TokenRefused, Asked
  <2> QED
    BY <1>7, <2>1, <2>2 DEF SubmitToken, TokenRaised
<1>8. CASE TokenAnswered(s)
  BY <1>0, <1>8 DEF TokenAnswered, AnswerReady
<1>9. CASE GenerationLeave(s)
  BY <1>9 DEF GenerationLeave, RetryToolCall
<1>10. CASE FinishJob(s) \/ StoreCheckpoint(s)
  BY <1>10 DEF FinishJob, StoreCheckpoint
<1> QED
  BY <1>1, <1>2, <1>3, <1>4, <1>5, <1>6, <1>7, <1>8, <1>9, <1>10 DEF JobStep

(* The decode worker reports what it did to each session. *)
LEMMA AnswersNext ==
  ASSUME TypeOK, Requests, ~g_stop_requested, NEW s \in Slot, SessionKept(s),
         DecoderStep
  PROVE  SessionKept(s)'
<1> USE DEF TypeOK, SessionKept, mainVars, laneVars, reqVars, jobVars, decVars
<1>0. /\ s \in members => slot_in_flight[s]
      /\ Asked(s) => pc[s] = "decodeWait" /\ slot_answer[s] = "none"
      /\ ~(slot_pending[s] /\ s \in members)
  BY DEF Requests, BatchWellFormed, NoStrayDecode, Asked
<1>1. CASE DecoderSleep \/ DecoderBusyWait \/ DecoderExit
  BY <1>1 DEF DecoderSleep, DecoderBusyWait, DecoderExit
<1>2. CASE DecoderCollect
  BY <1>2 DEF DecoderCollect
<1>3. CASE DecoderLock
  BY <1>3 DEF DecoderLock
<1>4. CASE DecoderEval
  BY <1>0, <1>4 DEF DecoderEval, Asked
<1>5. CASE DecoderFinish
  BY <1>0, <1>5 DEF DecoderFinish, AnswerOf
<1> QED
  BY <1>1, <1>2, <1>3, <1>4, <1>5 DEF DecoderStep

(* No step loses the count, and the stop flag is never lowered. *)
LEMMA TokensNext == TypeOK /\ Requests /\ TokensTold /\ [Next]_vars => TokensTold'
<1> SUFFICES ASSUME TypeOK, Requests, TokensTold, [Next]_vars,
                    ~g_stop_requested', NEW t \in Slot
             PROVE  SessionKept(t)'
  BY DEF TokensTold
<1>1. ASSUME NEW s \in Slot, Begin(s) \/ ExitSlot(s) \/ JobStep(s)
      PROVE  SessionKept(t)'
  <2>1. ~g_stop_requested
    BY <1>1, SlotFrame
  <2>2. SessionKept(s) /\ SessionKept(t)
    BY <2>1 DEF TokensTold
  <2>3. CASE t = s
    BY <1>1, <2>1, <2>2, <2>3, SessionNext
  <2>4. CASE t # s
    BY <1>1, <2>2, <2>4, OthersFrame, SlotFrame DEF SessionKept
  <2> QED
    BY <2>3, <2>4
<1>2. CASE DecoderStep
  <2>1. ~g_stop_requested
    BY <1>2, DecoderFrame
  <2> QED
    BY <1>2, <2>1, AnswersNext DEF TokensTold
<1>3. CASE StopSignal \/ MainStep \/ UNCHANGED vars \/ \E u \in Thread : SpuriousWakeup(u)
  BY <1>3 DEF TokensTold, SessionKept, StopSignal, MainStep, WorkerStop,
              DecodeStop, JoinDecoder, CloseServer, SpuriousWakeup, vars,
              mainVars, laneVars, reqVars, jobVars, decVars
<1> QED
  BY <1>1, <1>2, <1>3 DEF Next

(* For any number of slots: until the stop, a worker that is about to choose a
   token has a session that holds its prompt and exactly the tokens it was
   told were evaluated, whatever batches failed. *)
THEOREM LaneTokens == Spec => []TokensEvaluatedOnce
<1>1. Init => Requests /\ TokensTold
  BY LaneAssumption DEF Init, Requests, BatchWellFormed, NoStrayDecode, Asked,
                        TokensTold, SessionKept
<1>2. LaneInv /\ Requests /\ TokensTold /\ [Next]_vars => (Requests /\ TokensTold)'
  BY RequestsNext, TokensNext DEF LaneInv
<1>3. TokensTold => TokensEvaluatedOnce
  BY DEF TokensTold, SessionKept, TokensEvaluatedOnce
<1> QED
  BY <1>1, <1>2, <1>3, LaneTypes, PTL DEF Spec

=============================================================================
