------------------------------ MODULE ModelLane ------------------------------
(***************************************************************************)
(* The model lane of the batched server (ds4_server.c): how the resident   *)
(* slots' prefill chunks and the decode worker's batches take turns on the *)
(* one model executor.                                                     *)
(*                                                                         *)
(* Threads: one worker per slot, running generate_job for the job it was   *)
(* given; the decode worker; the main thread, from the accept loop to the  *)
(* end of the shutdown sequence.  The signal handler is an action of its   *)
(* own.  model_mu is not a variable: what a thread does between locking it *)
(* and unlocking it (or sleeping on model_cv) is one action.  model_cv is  *)
(* the set `asleep` of the threads that wait on it: a broadcast empties    *)
(* it, and a thread that is not in it rechecks its condition.              *)
(* inference_mu is held across actions and is a variable.                  *)
(*                                                                         *)
(* Data is reduced to lengths: a session is the number of its tokens, a    *)
(* request the length of its prompt and whether the session's tokens are a *)
(* prefix of it.                                                           *)
(***************************************************************************)
EXTENDS Integers, FiniteSets

CONSTANTS
    SlotCount,     \* resident sessions (--batch-slots)
    CtxSize,       \* tokens a session can hold
    IdleQuantum,   \* tokens of one prefill chunk when nobody generates
    MixedQuantum,  \* tokens of one prefill chunk when somebody generates
    Coalesce,      \* whether the decode worker waits for a fuller batch
    Spurious,      \* whether waits on model_cv may end with no broadcast
    Stoppable,     \* whether the run contains the stop signal
    MaxBacklog     \* bound: jobs still queued when the server stops

ASSUME LaneAssumption ==
    /\ SlotCount \in Nat \ {0}
    /\ CtxSize \in Nat \ {0, 1}
    /\ IdleQuantum \in Nat \ {0}
    /\ MixedQuantum \in Nat \ {0}
    /\ Coalesce \in BOOLEAN
    /\ Spurious \in BOOLEAN
    /\ Stoppable \in BOOLEAN
    /\ MaxBacklog \in Nat

Slot == 0 .. SlotCount - 1
Decoder == SlotCount            \* the decode worker, as a thread
Thread == Slot \cup {Decoder}
Nobody == -1                    \* an unlocked inference_mu

VARIABLES
    g_stop_requested, \* set by the signal handler, read without a lock
    main,             \* where the main thread is
    backlog,          \* queued jobs left to hand out once main has stopped
    (* under model_mu *)
    model_busy, model_stopping, decode_pending, active_generations,
    last_prefill_slot,
    prefill_waiting, slot_pending, slot_in_flight,
    slot_answer,      \* decode_done and, when it is set, decode_rc
    asleep,           \* the threads that wait on model_cv
    inference_mu,     \* the thread that holds it, or Nobody
    (* a slot worker's locals and its session *)
    pc, pos, prompt, done, target, rc, recovered,
    (* the decode worker's locals *)
    dpc, members, batch_rc

laneVars == <<model_busy, model_stopping, decode_pending, active_generations,
              last_prefill_slot, prefill_waiting, asleep>>
reqVars  == <<slot_pending, slot_in_flight, slot_answer>>
jobVars  == <<prompt, done, target, rc, recovered>>
decVars  == <<dpc, members, batch_rc>>
mainVars == <<g_stop_requested, main, backlog>>
vars == <<laneVars, reqVars, jobVars, decVars, mainVars, inference_mu, pc, pos>>

SlotPC == {"idle", "frontier", "sync", "enter", "prefillWait", "lock",
           "prefill", "leave", "genEnter", "decode", "store", "submit",
           "decodeWait", "genLeave", "tail", "persist", "exited"}
DecPC  == {"top", "coalesce", "busyWait", "lock", "eval", "finish", "exited"}
MainPC == {"serving", "joinSlots", "joinDecoder", "persist", "closed"}

TypeOK ==
    /\ g_stop_requested \in BOOLEAN
    /\ main \in MainPC
    /\ backlog \in 0 .. MaxBacklog
    /\ model_busy \in BOOLEAN
    /\ model_stopping \in BOOLEAN
    /\ decode_pending \in Nat
    /\ active_generations \in Nat
    /\ last_prefill_slot \in Slot
    /\ prefill_waiting \in [Slot -> BOOLEAN]
    /\ slot_pending \in [Slot -> BOOLEAN]
    /\ slot_in_flight \in [Slot -> BOOLEAN]
    /\ slot_answer \in [Slot -> {"none", "ok", "failed"}]
    /\ asleep \subseteq Thread
    /\ inference_mu \in Thread \cup {Nobody}
    /\ pc \in [Slot -> SlotPC]
    /\ pos \in [Slot -> 0 .. CtxSize]
    /\ prompt \in [Slot -> 0 .. CtxSize]
    /\ done \in [Slot -> Nat]
    /\ target \in [Slot -> 0 .. CtxSize]
    /\ rc \in [Slot -> {0, 1}]
    /\ recovered \in [Slot -> BOOLEAN]
    /\ dpc \in DecPC
    /\ members \subseteq Slot
    /\ batch_rc \in {0, 1}


Init ==
    /\ g_stop_requested = FALSE
    /\ main = "serving"
    /\ backlog = 0
    /\ model_busy = FALSE
    /\ model_stopping = FALSE
    /\ decode_pending = 0
    /\ active_generations = 0
    /\ last_prefill_slot = SlotCount - 1
    /\ prefill_waiting = [s \in Slot |-> FALSE]
    /\ slot_pending = [s \in Slot |-> FALSE]
    /\ slot_in_flight = [s \in Slot |-> FALSE]
    /\ slot_answer = [s \in Slot |-> "none"]
    /\ asleep = {}
    /\ inference_mu = Nobody
    /\ pc = [s \in Slot |-> "idle"]
    /\ pos = [s \in Slot |-> 0]
    /\ prompt = [s \in Slot |-> 0]
    /\ done = [s \in Slot |-> 0]
    /\ target = [s \in Slot |-> 0]
    /\ rc = [s \in Slot |-> 0]
    /\ recovered = [s \in Slot |-> FALSE]
    /\ dpc = "top"
    /\ members = {}
    /\ batch_rc = 0

Set(f, s, v) == [f EXCEPT ![s] = v]
Goto(s, l) == pc' = Set(pc, s, l)

(* pthread_cond_broadcast(&model_cv): nobody sleeps afterwards. *)
Broadcast == {}

(* A worker's locals are zero wherever the code no longer reads them. *)
ForgetPrompt(s) == prompt' = Set(prompt, s, 0) /\ done' = Set(done, s, 0)

-----------------------------------------------------------------------------
(* The main thread and the signal handler.                                 *)

(* stop_signal_handler: sets the flag and closes the listening socket.  It
   cannot broadcast model_cv. *)
StopSignal ==
    /\ Stoppable
    /\ ~g_stop_requested
    /\ g_stop_requested' = TRUE
    /\ UNCHANGED <<main, backlog, laneVars, reqVars, jobVars, decVars,
                   inference_mu, pc, pos>>

(* The accept loop ends; server_request_worker_stop.  Jobs the queue holds
   at that moment are still handed out. *)
WorkerStop ==
    /\ main = "serving" /\ g_stop_requested
    /\ main' = "joinSlots"
    /\ backlog' \in 0 .. MaxBacklog
    /\ UNCHANGED <<g_stop_requested, laneVars, reqVars, jobVars, decVars,
                   inference_mu, pc, pos>>

SlotsJoinedMutant == TRUE
SlotsJoined == \A s \in Slot : pc[s] = "exited"

(* Every slot thread is joined; server_request_decode_stop. *)
DecodeStop ==
    /\ main = "joinSlots"
    /\ SlotsJoined
    /\ main' = "joinDecoder"
    /\ model_stopping' = TRUE
    /\ asleep' = Broadcast
    /\ UNCHANGED <<g_stop_requested, backlog, model_busy, decode_pending,
                   active_generations, last_prefill_slot, prefill_waiting,
                   reqVars, jobVars, decVars, inference_mu, pc, pos>>

(* The decode thread is joined; then the sessions are saved and freed. *)
JoinDecoder ==
    /\ main = "joinDecoder" /\ dpc = "exited"
    /\ main' = "persist"
    /\ UNCHANGED <<g_stop_requested, backlog, laneVars, reqVars, jobVars,
                   decVars, inference_mu, pc, pos>>

CloseServer ==
    /\ main = "persist" /\ inference_mu = Nobody
    /\ main' = "closed"
    /\ UNCHANGED <<g_stop_requested, backlog, laneVars, reqVars, jobVars,
                   decVars, inference_mu, pc, pos>>

-----------------------------------------------------------------------------
(* A slot worker takes a job, or leaves when there is none left.           *)

Begin(s) ==
    /\ pc[s] = "idle"
    /\ \/ main = "serving" /\ UNCHANGED backlog
       \/ main = "joinSlots" /\ backlog > 0 /\ backlog' = backlog - 1
    /\ \E n \in 1 .. CtxSize - 1 : prompt' = Set(prompt, s, n)
    /\ Goto(s, "frontier")
    /\ UNCHANGED <<g_stop_requested, main, laneVars, reqVars, done, target, rc,
                   recovered, decVars, inference_mu, pos>>

ExitSlot(s) ==
    /\ pc[s] = "idle" /\ main = "joinSlots" /\ backlog = 0
    /\ Goto(s, "exited")
    /\ UNCHANGED <<mainVars, laneVars, reqVars, jobVars, decVars,
                   inference_mu, pos>>

-----------------------------------------------------------------------------
(* server_session_sync: the prompt in chunks, one turn of the lane each.   *)

(* The live frontier is read under inference_mu.  Prefill continues from it
   when the session's tokens are a prefix of the prompt; an appended tool
   error always extends them. *)
ReadFrontier(s) ==
    /\ pc[s] = "frontier" /\ inference_mu = Nobody
    /\ \E extends \in BOOLEAN :
         /\ recovered[s] \/ pos[s] = 0 => extends
         /\ done' = Set(done, s, IF extends /\ prompt[s] >= pos[s]
                                 THEN pos[s] ELSE 0)
    /\ Goto(s, "sync")
    /\ UNCHANGED <<mainVars, laneVars, reqVars, prompt, target, rc, recovered,
                   decVars, inference_mu, pos>>

ServerPrefillQuantum ==
    IF active_generations > 0 THEN MixedQuantum ELSE IdleQuantum

(* The end of the next chunk: a quantum further, but not past the prompt. *)
ChunkEnd(s) == LET t == done[s] + ServerPrefillQuantum
               IN  IF t > prompt[s] THEN prompt[s] ELSE t

(* The loop's test and the size of the next chunk.  model_mu is released
   before the chunk gets its turn, so active_generations may change. *)
ChooseTarget(s) ==
    /\ pc[s] = "sync"
    /\ \/ /\ g_stop_requested
          /\ ForgetPrompt(s)
          /\ Goto(s, "tail")
          /\ UNCHANGED target
       \/ /\ ~g_stop_requested
          /\ target' = Set(target, s, ChunkEnd(s))
          /\ Goto(s, "enter")
          /\ UNCHANGED <<prompt, done>>
    /\ UNCHANGED <<mainVars, laneVars, reqVars, rc, recovered, decVars,
                   inference_mu, pos>>

(* server_next_prefill_slot_locked scans the slots cyclically, beginning
   after the last one served: the waiting slot at the least distance. *)
ScanDistance(s) == IF s > last_prefill_slot
                   THEN s - last_prefill_slot - 1
                   ELSE s - last_prefill_slot - 1 + SlotCount

LowestFirstMutant(s, waiting) ==
    /\ waiting[s]
    /\ \A t \in Slot : waiting[t] => s <= t
IsNextPrefill(s, waiting) ==
    /\ waiting[s]
    /\ \A t \in Slot : waiting[t] => ScanDistance(s) <= ScanDistance(t)

BusyIgnoredMutant(s, waiting) ==
    decode_pending = 0 /\ IsNextPrefill(s, waiting)
MayPrefill(s, waiting) ==
    /\ ~model_busy
    /\ decode_pending = 0
    /\ IsNextPrefill(s, waiting)

(* The ways out of the wait loop of server_prefill_enter, for a thread that
   holds model_mu.  A slot turned away by the stop flag lowers its
   prefill_waiting and tells nobody. *)
TurnedAway(s, waiting, sleepers) ==
    /\ g_stop_requested
    /\ prefill_waiting' = Set(waiting, s, FALSE)
    /\ asleep' = sleepers
    /\ target' = Set(target, s, 0)
    /\ ForgetPrompt(s)
    /\ Goto(s, "tail")
    /\ UNCHANGED <<model_busy, last_prefill_slot>>

TurnGranted(s, waiting, sleepers) ==
    /\ ~g_stop_requested /\ MayPrefill(s, waiting)
    /\ prefill_waiting' = Set(waiting, s, FALSE)
    /\ last_prefill_slot' = s
    /\ model_busy' = TRUE
    /\ asleep' = sleepers
    /\ Goto(s, "lock")
    /\ UNCHANGED <<prompt, done, target>>

KeepWaiting(s, waiting, sleepers) ==
    /\ ~g_stop_requested /\ ~MayPrefill(s, waiting)
    /\ prefill_waiting' = waiting
    /\ asleep' = sleepers \cup {s}
    /\ Goto(s, "prefillWait")
    /\ UNCHANGED <<model_busy, last_prefill_slot, prompt, done, target>>

PrefillLoop(s, waiting, sleepers) ==
    /\ \/ TurnedAway(s, waiting, sleepers)
       \/ TurnGranted(s, waiting, sleepers)
       \/ KeepWaiting(s, waiting, sleepers)
    /\ UNCHANGED <<mainVars, model_stopping, decode_pending,
                   active_generations, reqVars, rc, recovered, decVars,
                   inference_mu, pos>>

PrefillEnter(s) ==
    /\ pc[s] = "enter"
    /\ PrefillLoop(s, Set(prefill_waiting, s, TRUE), Broadcast)

PrefillRecheck(s) ==
    /\ pc[s] = "prefillWait" /\ s \notin asleep
    /\ PrefillLoop(s, prefill_waiting, asleep)

PrefillLock(s) ==
    /\ pc[s] = "lock" /\ inference_mu = Nobody
    /\ inference_mu' = s
    /\ Goto(s, "prefill")
    /\ UNCHANGED <<mainVars, laneVars, reqVars, jobVars, decVars, pos>>

(* ds4_session_sync to the chunk's end, then the unlock of inference_mu.
   The session needs room for one more token.  A cancelled chunk leaves a
   shorter prefix, a failed one an invalid session or the old one. *)
PrefillChunk(s) ==
    /\ pc[s] = "prefill"
    /\ \/ /\ target[s] < CtxSize
          /\ pos' = Set(pos, s, target[s])
          /\ done' = Set(done, s, target[s])
          /\ rc' = Set(rc, s, 0)
       \/ /\ \E p \in (0 .. target[s] - 1) \cup {pos[s]} : pos' = Set(pos, s, p)
          /\ rc' = Set(rc, s, 1)
          /\ UNCHANGED done
    /\ target' = Set(target, s, 0)
    /\ inference_mu' = Nobody
    /\ Goto(s, "leave")
    /\ UNCHANGED <<mainVars, laneVars, reqVars, prompt, recovered, decVars>>

(* What server_session_sync does with the result of a chunk.  generate_job
   may give up before it generates (a stream that failed). *)
NextChunk(s) ==
    /\ rc[s] = 0 /\ done[s] < prompt[s]
    /\ Goto(s, "sync")
    /\ UNCHANGED <<prompt, done>>

PromptDone(s) ==
    /\ rc[s] = 0 /\ done[s] >= prompt[s]
    /\ prompt' = Set(prompt, s, 0)
    /\ Goto(s, "genEnter")
    /\ UNCHANGED done

GiveUp(s) ==
    /\ rc[s] = 1 \/ done[s] >= prompt[s]
    /\ ForgetPrompt(s)
    /\ Goto(s, "tail")

(* server_prefill_leave. *)
PrefillLeave(s) ==
    /\ pc[s] = "leave"
    /\ model_busy' = FALSE
    /\ asleep' = Broadcast
    /\ rc' = Set(rc, s, 0)
    /\ NextChunk(s) \/ PromptDone(s) \/ GiveUp(s)
    /\ UNCHANGED <<mainVars, model_stopping, decode_pending,
                   active_generations, last_prefill_slot, prefill_waiting,
                   reqVars, target, recovered, decVars, inference_mu, pos>>

-----------------------------------------------------------------------------
(* The decode loop of generate_job, one server_eval_token per token.       *)

GenerationEnter(s) ==
    /\ pc[s] = "genEnter"
    /\ active_generations' = active_generations + 1
    /\ asleep' = Broadcast
    /\ Goto(s, "decode")
    /\ UNCHANGED <<mainVars, model_busy, model_stopping, decode_pending,
                   last_prefill_slot, prefill_waiting, reqVars, jobVars,
                   decVars, inference_mu, pos>>

RoomMutant(s) == pos[s] <= CtxSize
HasRoom(s) == pos[s] < CtxSize

(* The loop's test; then the continued store (which holds inference_mu), or
   the next token.  The generation may end for any of its other reasons. *)
DecodeLoop(s) ==
    /\ pc[s] = "decode"
    /\ \/ Goto(s, "genLeave") /\ UNCHANGED inference_mu
       \/ /\ ~g_stop_requested /\ HasRoom(s)
          /\ \/ Goto(s, "submit") /\ UNCHANGED inference_mu
             \/ /\ inference_mu = Nobody
                /\ inference_mu' = s
                /\ Goto(s, "store")
    /\ UNCHANGED <<mainVars, laneVars, reqVars, jobVars, decVars, pos>>

StoreContinued(s) ==
    /\ pc[s] = "store"
    /\ inference_mu' = Nobody
    /\ Goto(s, "submit") \/ Goto(s, "genLeave")
    /\ UNCHANGED <<mainVars, laneVars, reqVars, jobVars, decVars, pos>>

(* server_eval_token up to its wait.  The refusal is in the code; that it is
   never taken is an invariant below. *)
TokenRefused(s) ==
    /\ slot_pending[s] \/ slot_in_flight[s]
    /\ rc' = Set(rc, s, 1)
    /\ Goto(s, "genLeave")
    /\ UNCHANGED <<slot_answer, slot_pending, decode_pending, asleep>>

TokenRaised(s) ==
    /\ ~slot_pending[s] /\ ~slot_in_flight[s]
    /\ slot_answer' = Set(slot_answer, s, "none")
    /\ slot_pending' = Set(slot_pending, s, TRUE)
    /\ decode_pending' = decode_pending + 1
    /\ \/ /\ g_stop_requested
          /\ rc' = Set(rc, s, 1)
          /\ asleep' = Broadcast
          /\ Goto(s, "genLeave")
       \/ /\ ~g_stop_requested
          /\ asleep' = Broadcast \cup {s}
          /\ Goto(s, "decodeWait")
          /\ UNCHANGED rc

SubmitToken(s) ==
    /\ pc[s] = "submit"
    /\ TokenRefused(s) \/ TokenRaised(s)
    /\ UNCHANGED <<mainVars, model_busy, model_stopping, active_generations,
                   last_prefill_slot, prefill_waiting, slot_in_flight, prompt,
                   done, target, recovered, decVars, inference_mu, pos>>

(* The negation of the wait's condition, tested after every wake-up. *)
AnswerReady(s) == slot_answer[s] # "none" \/ g_stop_requested

(* The end of server_eval_token: an answer, or an interruption that leaves
   the request pending or in flight.  done counts the tokens the slot worker
   takes the session to hold. *)
TokenAnswered(s) ==
    /\ pc[s] = "decodeWait" /\ s \notin asleep
    /\ \/ /\ ~AnswerReady(s)
          /\ asleep' = asleep \cup {s}
          /\ UNCHANGED <<pc, rc, done, slot_answer>>
       \/ /\ AnswerReady(s) /\ slot_answer[s] = "ok"
          /\ done' = Set(done, s, done[s] + 1)
          /\ slot_answer' = Set(slot_answer, s, "none")
          /\ Goto(s, "decode")
          /\ UNCHANGED <<rc, asleep>>
       \/ /\ AnswerReady(s) /\ slot_answer[s] # "ok"
          /\ rc' = Set(rc, s, 1)
          /\ slot_answer' = Set(slot_answer, s, "none")
          /\ Goto(s, "genLeave")
          /\ UNCHANGED <<done, asleep>>
    /\ UNCHANGED <<mainVars, model_busy, model_stopping, decode_pending,
                   active_generations, last_prefill_slot, prefill_waiting,
                   slot_pending, slot_in_flight, prompt, target,
                   recovered, decVars, inference_mu, pos>>

ActiveAfterLeave == IF active_generations > 0 THEN active_generations - 1 ELSE 0

(* A generation that did not fail may turn out to hold an invalid tool call:
   once per job, a tool error is appended to the live session, and decoding
   starts again. *)
RetryToolCall(s) ==
    /\ rc[s] = 0 /\ ~recovered[s] /\ ~g_stop_requested /\ HasRoom(s)
    /\ recovered' = Set(recovered, s, TRUE)
    /\ prompt' = Set(prompt, s, pos[s] + 1)
    /\ Goto(s, "frontier")

(* server_generation_leave. *)
GenerationLeave(s) ==
    /\ pc[s] = "genLeave"
    /\ active_generations' = ActiveAfterLeave
    /\ asleep' = Broadcast
    /\ rc' = Set(rc, s, 0)
    /\ done' = Set(done, s, 0)
    /\ \/ Goto(s, "tail") /\ UNCHANGED <<prompt, recovered>>
       \/ RetryToolCall(s)
    /\ UNCHANGED <<mainVars, model_busy, model_stopping, decode_pending,
                   last_prefill_slot, prefill_waiting, reqVars, target,
                   decVars, inference_mu, pos>>

(* The end of generate_job, with or without a checkpoint to save. *)
FinishJob(s) ==
    /\ pc[s] = "tail"
    /\ recovered' = Set(recovered, s, FALSE)
    /\ \/ Goto(s, "idle") /\ UNCHANGED inference_mu
       \/ /\ inference_mu = Nobody
          /\ inference_mu' = s
          /\ Goto(s, "persist")
    /\ UNCHANGED <<mainVars, laneVars, reqVars, prompt, done, target, rc,
                   decVars, pos>>

StoreCheckpoint(s) ==
    /\ pc[s] = "persist"
    /\ inference_mu' = Nobody
    /\ Goto(s, "idle")
    /\ UNCHANGED <<mainVars, laneVars, reqVars, jobVars, decVars, pos>>

-----------------------------------------------------------------------------
(* decode_worker_main.                                                     *)

AwakeAt(l) == dpc = l /\ Decoder \notin asleep

(* Worth waiting for a fuller batch: a generation has no request yet. *)
WantsMore ==
    /\ Coalesce
    /\ ~model_stopping
    /\ decode_pending < SlotCount
    /\ decode_pending < active_generations

DecoderSleep ==
    /\ \/ AwakeAt("top") /\ decode_pending = 0 /\ ~model_stopping /\ dpc' = "top"
       \/ AwakeAt("top") /\ decode_pending > 0 /\ WantsMore /\ dpc' = "coalesce"
       \/ AwakeAt("coalesce") /\ WantsMore /\ dpc' = "coalesce"
    /\ asleep' = asleep \cup {Decoder}
    /\ UNCHANGED <<mainVars, model_busy, model_stopping, decode_pending,
                   active_generations, last_prefill_slot, prefill_waiting,
                   reqVars, jobVars, members, batch_rc, inference_mu, pc, pos>>

(* The worker is done with coalescing: there was no reason to, the batch
   filled up, or the deadline passed, asleep or not. *)
PastCoalesce ==
    \/ AwakeAt("top") /\ decode_pending > 0 /\ ~WantsMore
    \/ dpc = "coalesce"
    \/ AwakeAt("busyWait")

DecoderBusyWait ==
    /\ PastCoalesce /\ model_busy
    /\ dpc' = "busyWait"
    /\ asleep' = asleep \cup {Decoder}
    /\ UNCHANGED <<mainVars, model_busy, model_stopping, decode_pending,
                   active_generations, last_prefill_slot, prefill_waiting,
                   reqVars, jobVars, members, batch_rc, inference_mu, pc, pos>>

PendingMutant(batch) == decode_pending - 1
PendingAfter(batch) == decode_pending - Cardinality(batch)

(* Every pending request joins the batch, late arrivals included. *)
DecoderCollect ==
    /\ PastCoalesce /\ ~model_busy
    /\ ~(model_stopping /\ decode_pending = 0)
    /\ LET batch == {s \in Slot : slot_pending[s]}
       IN  /\ members' = batch
           /\ slot_pending' = [s \in Slot |-> FALSE]
           /\ slot_in_flight' = [s \in Slot |-> s \in batch \/ slot_in_flight[s]]
           /\ decode_pending' = PendingAfter(batch)
           /\ model_busy' = (batch # {})
           /\ dpc' = IF batch = {} THEN "top" ELSE "lock"
    /\ asleep' = asleep \ {Decoder}
    /\ UNCHANGED <<mainVars, model_stopping, active_generations,
                   last_prefill_slot, prefill_waiting, slot_answer,
                   jobVars, batch_rc, inference_mu, pc, pos>>

DecoderExit ==
    /\ AwakeAt("top") \/ (PastCoalesce /\ ~model_busy)
    /\ model_stopping /\ decode_pending = 0
    /\ dpc' = "exited"
    /\ asleep' = asleep \ {Decoder}
    /\ UNCHANGED <<mainVars, model_busy, model_stopping, decode_pending,
                   active_generations, last_prefill_slot, prefill_waiting,
                   reqVars, jobVars, members, batch_rc, inference_mu, pc, pos>>

DecoderLock ==
    /\ dpc = "lock" /\ inference_mu = Nobody
    /\ inference_mu' = Decoder
    /\ dpc' = "eval"
    /\ UNCHANGED <<mainVars, laneVars, reqVars, jobVars, members, batch_rc,
                   pc, pos>>

(* ds4_sessions_eval_batch advances every member or fails for all of them: a
   batch with a full session is refused whole, a failure on the way leaves
   every member invalid. *)
DecoderEval ==
    /\ dpc = "eval"
    /\ \/ /\ \A s \in members : pos[s] < CtxSize
          /\ pos' = [s \in Slot |-> IF s \in members THEN pos[s] + 1 ELSE pos[s]]
          /\ batch_rc' = 0
       \/ /\ \/ UNCHANGED pos
             \/ pos' = [s \in Slot |-> IF s \in members THEN 0 ELSE pos[s]]
          /\ batch_rc' = 1
    /\ inference_mu' = Nobody
    /\ dpc' = "finish"
    /\ UNCHANGED <<mainVars, laneVars, reqVars, jobVars, members, pc>>

AnswerMutant(r) == "ok"
AnswerOf(r) == IF r = 0 THEN "ok" ELSE "failed"

DecoderFinish ==
    /\ dpc = "finish"
    /\ model_busy' = FALSE
    /\ slot_in_flight' = [s \in Slot |-> s \notin members /\ slot_in_flight[s]]
    /\ slot_answer' = [s \in Slot |->
            IF s \notin members THEN slot_answer[s]
            ELSE AnswerOf(batch_rc)]
    /\ members' = {}
    /\ batch_rc' = 0
    /\ asleep' = Broadcast
    /\ dpc' = "top"
    /\ UNCHANGED <<mainVars, model_stopping, decode_pending,
                   active_generations, last_prefill_slot, prefill_waiting,
                   slot_pending, jobVars, inference_mu, pc, pos>>

(* POSIX lets a wait on model_cv return with no broadcast. *)
SpuriousWakeup(t) ==
    /\ Spurious
    /\ t \in asleep
    /\ asleep' = asleep \ {t}
    /\ UNCHANGED <<mainVars, model_busy, model_stopping, decode_pending,
                   active_generations, last_prefill_slot, prefill_waiting,
                   reqVars, jobVars, decVars, inference_mu, pc, pos>>

-----------------------------------------------------------------------------
MainStep == WorkerStop \/ DecodeStop \/ JoinDecoder \/ CloseServer

(* What a slot worker does for a job once it has one. *)
JobStep(s) ==
    \/ ReadFrontier(s) \/ ChooseTarget(s) \/ PrefillEnter(s)
    \/ PrefillRecheck(s) \/ PrefillLock(s) \/ PrefillChunk(s)
    \/ PrefillLeave(s) \/ GenerationEnter(s) \/ DecodeLoop(s)
    \/ StoreContinued(s) \/ SubmitToken(s) \/ TokenAnswered(s)
    \/ GenerationLeave(s) \/ FinishJob(s) \/ StoreCheckpoint(s)

DecoderStep ==
    \/ DecoderSleep \/ DecoderBusyWait \/ DecoderCollect \/ DecoderExit
    \/ DecoderLock \/ DecoderEval \/ DecoderFinish

Next ==
    \/ StopSignal \/ MainStep \/ DecoderStep
    \/ \E s \in Slot : Begin(s) \/ ExitSlot(s) \/ JobStep(s)
    \/ \E t \in Thread : SpuriousWakeup(t)

Spec == Init /\ [][Next]_vars

(* Threads that can run do run, the coalescing deadline passes, and a thread
   that waits for inference_mu is not passed over each time it is unlocked.
   Nothing is assumed of the signal, of new jobs or of spurious wakeups; a
   job left in the queue when the server stops is handed out. *)
Fairness ==
    /\ WF_vars(MainStep)
    /\ WF_vars(DecoderStep)
    /\ SF_vars(DecoderLock)
    /\ WF_vars(dpc = "coalesce" /\ (DecoderBusyWait \/ DecoderCollect))
    /\ \A s \in Slot : /\ WF_vars(JobStep(s))
                       /\ SF_vars(ReadFrontier(s))
                       /\ SF_vars(PrefillLock(s))
                       /\ WF_vars(ExitSlot(s))
                       /\ WF_vars(main = "joinSlots" /\ Begin(s))

FairSpec == Spec /\ Fairness

-----------------------------------------------------------------------------
(* Properties. *)

UsesModel(s) == pc[s] \in {"lock", "prefill", "leave"}
DecoderUsesModel == dpc \in {"lock", "eval", "finish"}

(* One user of the executor at a time: model_busy is set exactly while one
   slot has its prefill turn or the decode worker has a batch, never two.  A
   turn taken on a stale check, or given back twice, breaks it. *)
ModelExclusive ==
    /\ model_busy <=> (DecoderUsesModel \/ \E s \in Slot : UsesModel(s))
    /\ \A s \in Slot : UsesModel(s) => ~DecoderUsesModel
    /\ \A s, t \in Slot : UsesModel(s) /\ UsesModel(t) => s = t

(* The counter that holds prefill back is the number of requests raised: it
   neither loses one when a slot gives up at shutdown nor counts one twice. *)
PendingCounted == decode_pending = Cardinality({s \in Slot : slot_pending[s]})

(* The counter, and the types of everything else, as one inductive whole. *)
LaneInv == TypeOK /\ PendingCounted

(* Until shutdown the session of a slot is given a token to evaluate only
   while its own worker waits for the answer: the worker never reads, stores
   or prefills a session that a batch is advancing, and server_eval_token
   never refuses with "session already has a decode in flight". *)
NoStrayDecode ==
    ~g_stop_requested =>
        \A s \in Slot : (slot_pending[s] \/ slot_in_flight[s]) =>
                            pc[s] = "decodeWait" /\ slot_answer[s] = "none"

(* NoStrayDecode, and even at shutdown a request is either raised or taken,
   never both, the batch is exactly the requests taken, and every one of its
   sessions has room for the token although it was tested before the wait. *)
BatchWellFormed ==
    /\ NoStrayDecode
    /\ \A s \in Slot : ~(slot_pending[s] /\ slot_in_flight[s])
    /\ members = {s \in Slot : slot_in_flight[s]}
    /\ dpc \in {"lock", "eval"} => \A s \in members : pos[s] < CtxSize

(* An answer of 0 means that this slot's session advanced by this one token:
   whenever a worker is about to choose its next token, its session holds
   exactly the prompt and the tokens it was told were evaluated. *)
TokensEvaluatedOnce ==
    ~g_stop_requested =>
        \A s \in Slot : pc[s] \in {"genEnter", "decode", "store", "submit"}
                            => pos[s] = done[s]

(* While the main thread saves and frees the sessions nobody evaluates. *)
QuietAtClose ==
    main \in {"persist", "closed"} =>
        /\ dpc = "exited" /\ ~model_busy
        /\ inference_mu = Nobody
        /\ \A s \in Slot : pc[s] = "exited"

(* While the server runs every job ends: a slot that waits for a prefill turn
   gets it although decoding has priority, for a slot that generates has to
   queue for a turn before it can generate again.
   (server_prefill_enter, ds4_server.c 10605-10635) *)
JobsEnd == \A s \in Slot : pc[s] # "idle" ~> (pc[s] = "idle" \/ g_stop_requested)

(* Once a stop is requested the server drains its requests and closes. *)
ShutdownCompletes == g_stop_requested ~> main = "closed"
=============================================================================
