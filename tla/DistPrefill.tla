---------------------------- MODULE DistPrefill ----------------------------
(***************************************************************************)
(* dist_coordinator_prefill_prompt_pipelined of                            *)
(* src/src/runtime/ds4_distributed.c: a long prompt goes down the route in *)
(* chunks.  The caller (the producer) computes the coordinator's layers of *)
(* chunk n + 1 while a sender thread writes chunk n and a reader thread    *)
(* takes the results.  The producer and the sender share a ring of hidden  *)
(* buffers under sender->mu; the reader's count of results is the flow     *)
(* window of the producer, under progress_mu.                              *)
(*                                                                         *)
(* prod is the producer's place:                                           *)
(*   reader, sender     it creates the two threads                         *)
(*   window             waits until fewer than Window chunks are out       *)
(*   slot               waits for a free buffer                            *)
(*   eval               computes into the buffer, with no lock             *)
(*   enqueue            hands it to the sender                             *)
(*   joinSender, finish, joinReader   no more chunks                       *)
(*   abandon            the sender could not be created                    *)
(*   returned                                                              *)
(* A thread in asleep is in pthread_cond_wait; who signals takes it out.   *)
(***************************************************************************)
EXTENDS DistLink

CONSTANTS
    Depth,  \* buffers of the ring (dist_prefill_send_depth)
    Window  \* chunks sent and not yet answered

ASSUME PrefillAssumption ==
    /\ Depth \in 1..Count
    /\ Window \in 1..Count

VARIABLES
    prod, rc, submitted,            \* the producer, its rc, chunks handed over
    slots,                          \* the hidden buffers of the ring
    sender, sent, stop, doneAll,    \* the sender, chunks written, its flags
    senderRc,
    reader, got, ended, readerRc,   \* the reader, results taken, its outcome
    final,                          \* the payload of the last result
    asleep, ret                     \* threads in a wait; what the call returned

own == <<prod, rc, submitted, slots, sender, sent, stop, doneAll, senderRc,
         reader, got, ended, readerRc, final, asleep, ret>>
senderVars == <<sender, sent, stop, doneAll, senderRc>>
readerVars == <<reader, got, ended, readerRc, final>>

Outcome == {"ok", "fail", "remote"}

TypeOK ==
    /\ prod \in {"reader", "sender", "window", "slot", "eval", "enqueue",
                 "joinSender", "finish", "joinReader", "abandon", "returned"}
    /\ rc \in {"ok", "fail"} /\ senderRc \in {"ok", "fail"}
    /\ submitted \in 0..Count /\ sent \in 0..submitted
    /\ submitted - sent \in 0..Depth
    /\ slots \in [0..(Depth - 1) -> Content]
    /\ sender \in {"none", "top", "send", "out"}
    /\ stop \in BOOLEAN /\ doneAll \in BOOLEAN
    /\ reader \in {"none", "read", "out"}
    /\ got \in 0..Count /\ ended \in BOOLEAN
    /\ readerRc \in Outcome
    /\ asleep \subseteq {"producer", "sender"}
    /\ ret \in Outcome \cup {"none"}

Init ==
    /\ prod = "reader" /\ rc = "ok" /\ submitted = 0
    /\ slots = [i \in 0..(Depth - 1) |-> Torn]
    /\ sender = "none" /\ sent = 0 /\ stop = FALSE /\ doneAll = FALSE
    /\ senderRc = "ok"
    /\ reader = "none" /\ got = 0 /\ ended = FALSE /\ readerRc = "ok"
    /\ final = -1
    /\ asleep = {} /\ ret = "none"

-----------------------------------------------------------------------------
(* The ring.  Chunk c is in buffer Slot(c): head and tail of the code are  *)
(* the buffers of the next chunk to send and to fill.                      *)

Slot(c) == (c - 1) % Depth
Queued == submitted - sent
RingFullMutant == Queued > Depth
RingFull == Queued = Depth

(* Who wakes when a condition variable is signalled. *)
CanEnqueue == IF prod = "slot" THEN asleep \ {"producer"} ELSE asleep
CanDequeue == asleep \ {"sender"}
Progress ==
    IF prod \in {"window", "finish"} THEN asleep \ {"producer"} ELSE asleep
-----------------------------------------------------------------------------
(* The producer. *)

CreateReader ==
    /\ prod = "reader"
    /\ \/ prod' = "sender" /\ reader' = "read" /\ UNCHANGED <<ret, faults>>
       \/ prod' = "returned" /\ ret' = "fail" /\ Fault /\ UNCHANGED reader
    /\ UNCHANGED <<rc, submitted, slots, senderVars, got, ended, readerRc,
                   final, asleep, link>>

CreateSender ==
    /\ prod = "sender"
    /\ prod' = "window" /\ sender' = "top"
    /\ UNCHANGED <<rc, submitted, slots, sent, stop, doneAll, senderRc,
                   readerVars, asleep, ret, link, faults>>

SenderNotCreated ==
    /\ prod = "sender" /\ Fault
    /\ prod' = "abandon"
    /\ doneAll' = TRUE /\ stop' = TRUE
    /\ link' = [link EXCEPT ![1] = Shut(@)]
    /\ UNCHANGED <<rc, submitted, slots, sender, sent, senderRc, readerVars,
                   asleep, ret>>

Abandon ==
    /\ prod = "abandon" /\ reader = "out"
    /\ prod' = "returned" /\ ret' = "fail"
    /\ UNCHANGED <<rc, submitted, slots, senderVars, readerVars, asleep, link,
                   faults>>

(* The loop is left with an error: dist_prefill_sender_cancel. *)
Cancel ==
    /\ prod' = "joinSender" /\ rc' = "fail"
    /\ doneAll' = TRUE /\ stop' = TRUE
    /\ asleep' = CanDequeue
    /\ link' = [link EXCEPT ![1] = Shut(@)]

Sleep ==
    /\ asleep' = asleep \cup {"producer"}
    /\ UNCHANGED <<prod, rc, stop, doneAll, link>>

HasRoom == submitted < got + Window

WaitWindow ==
    /\ prod = "window" /\ "producer" \notin asleep
    /\ submitted < Count
    /\ \/ /\ HasRoom /\ ~ended
          /\ prod' = "slot"
          /\ UNCHANGED <<rc, stop, doneAll, asleep, link>>
       \/ ended /\ Cancel
       \/ ~HasRoom /\ ~ended /\ Sleep
    /\ UNCHANGED <<submitted, slots, sender, sent, senderRc, readerVars, ret,
                   faults>>

(* A buffer is taken and the coordinator's layers begin to write it. *)
AcquireSlot ==
    /\ prod = "slot" /\ "producer" \notin asleep
    /\ \/ /\ ~stop /\ ~RingFull
          /\ prod' = "eval"
          /\ slots' = [slots EXCEPT ![Slot(submitted + 1)] = Torn]
          /\ UNCHANGED <<rc, stop, doneAll, asleep, link>>
       \/ stop /\ Cancel /\ UNCHANGED slots
       \/ ~stop /\ RingFull /\ Sleep /\ UNCHANGED slots
    /\ UNCHANGED <<submitted, sender, sent, senderRc, readerVars, ret, faults>>

EvalSlice ==
    /\ prod = "eval"
    /\ \/ /\ prod' = "enqueue"
          /\ slots' = [slots EXCEPT ![Slot(submitted + 1)] = submitted + 1]
          /\ UNCHANGED <<rc, stop, doneAll, asleep, link, faults>>
       \/ Fault /\ Cancel /\ UNCHANGED slots
    /\ UNCHANGED <<submitted, sender, sent, senderRc, readerVars, ret>>

EnqueueSlot ==
    /\ prod = "enqueue"
    /\ \/ /\ ~stop
          /\ submitted' = submitted + 1
          /\ asleep' = CanDequeue
          /\ prod' = "window"
          /\ UNCHANGED <<rc, stop, doneAll, link>>
       \/ stop /\ Cancel /\ UNCHANGED submitted
    /\ UNCHANGED <<slots, sender, sent, senderRc, readerVars, ret, faults>>

(* dist_prefill_sender_finish *)
Finish ==
    /\ prod = "window" /\ "producer" \notin asleep
    /\ submitted = Count
    /\ prod' = "joinSender"
    /\ doneAll' = TRUE
    /\ asleep' = CanDequeue
    /\ UNCHANGED <<rc, submitted, slots, sender, sent, stop, senderRc,
                   readerVars, ret, link, faults>>

JoinSender ==
    /\ prod = "joinSender" /\ sender = "out"
    /\ IF rc = "ok" /\ senderRc = "ok"
       THEN prod' = "finish" /\ UNCHANGED <<rc, link>>
       ELSE /\ prod' = "joinReader" /\ rc' = "fail"
            /\ link' = [link EXCEPT ![1] = Shut(@)]
    /\ UNCHANGED <<submitted, slots, senderVars, readerVars, asleep, ret,
                   faults>>

(* The progress is reported while the reader goes on, until it is done. *)
WaitReader ==
    /\ prod = "finish" /\ "producer" \notin asleep
    /\ \/ ended /\ prod' = "joinReader" /\ UNCHANGED <<rc, stop, doneAll,
                                                       asleep, link>>
       \/ ~ended /\ Sleep
    /\ UNCHANGED <<submitted, slots, sender, sent, senderRc, readerVars, ret,
                   faults>>

(* The reader's code goes before the producer's: an error a worker reported *)
(* is told apart from a connection that broke.  A hidden state still goes  *)
(* through the coordinator's output head, which may fail.                  *)
Return ==
    /\ prod = "joinReader" /\ reader = "out"
    /\ prod' = "returned"
    /\ \/ /\ ret' = IF readerRc # "ok" THEN readerRc
                    ELSE IF rc # "ok" \/ final = -1 THEN "fail" ELSE "ok"
          /\ UNCHANGED faults
       \/ readerRc = "ok" /\ rc = "ok" /\ Fault /\ ret' = "fail"
    /\ UNCHANGED <<rc, submitted, slots, senderVars, readerVars, asleep, link>>
-----------------------------------------------------------------------------
(* dist_prefill_sender_main *)

SenderTop ==
    /\ sender = "top" /\ "sender" \notin asleep
    /\ \/ /\ ~stop /\ Queued = 0 /\ ~doneAll
          /\ asleep' = asleep \cup {"sender"}
          /\ UNCHANGED sender
       \/ /\ stop \/ (Queued = 0 /\ doneAll)
          /\ sender' = "out" /\ UNCHANGED asleep
       \/ ~stop /\ Queued # 0 /\ sender' = "send" /\ UNCHANGED asleep
    /\ UNCHANGED <<prod, rc, submitted, slots, sent, stop, doneAll, senderRc,
                   readerVars, ret, link, faults>>

(* The frame is written from the buffer with no lock held. *)
SenderSend ==
    /\ sender = "send"
    /\ \E l \in WorkSent(link[1], [id |-> sent + 1,
                                   hidden |-> slots[Slot(sent + 1)]]) :
          link' = [link EXCEPT ![1] = l]
    /\ sent' = sent + 1
    /\ asleep' = CanEnqueue
    /\ sender' = "top"
    /\ UNCHANGED <<prod, rc, submitted, slots, stop, doneAll, senderRc,
                   readerVars, ret, faults>>

(* The connection is gone, or nobody read it for SO_SNDTIMEO. *)
SenderFails ==
    /\ sender = "send"
    /\ \/ ~link[1].open /\ UNCHANGED faults
       \/ Len(link[1].work) >= WorkRoom /\ Fault
    /\ sender' = "out" /\ senderRc' = "fail" /\ stop' = TRUE
    /\ asleep' = CanEnqueue
    /\ link' = [link EXCEPT ![1] = Shut(@)]
    /\ UNCHANGED <<prod, rc, submitted, slots, sent, doneAll, readerVars, ret>>
-----------------------------------------------------------------------------
(* dist_prefill_result_reader_main *)

(* Any chunk but the last may be acknowledged without a payload. *)
ValidMutant(m) == m.kind = "final" \/ (m.kind = "ack" /\ m.id + 1 < Count)
Valid(m) == m.kind = "final" \/ (m.kind = "ack" /\ m.id < Count)

ReaderTake ==
    /\ reader = "read" /\ link[1].result # <<>>
    /\ LET m == Head(link[1].result) IN
          /\ m.id = got + 1 /\ Valid(m)
          /\ got' = got + 1
          /\ ended' = (got + 1 = Count)
          /\ reader' = IF got + 1 = Count THEN "out" ELSE "read"
          /\ final' = IF got + 1 = Count THEN m.of ELSE final
    /\ link' = [link EXCEPT ![1].result = Tail(@)]
    /\ asleep' = Progress
    /\ UNCHANGED <<prod, rc, submitted, slots, senderVars, readerRc, ret,
                   faults>>

(* The end of the connection, an answer to another request, a payload of   *)
(* the wrong kind, or an error a worker sent for this request.             *)
ReaderFails ==
    /\ reader = "read"
    /\ \/ ~link[1].open /\ readerRc' = "fail"
       \/ /\ link[1].result # <<>>
          /\ LET m == Head(link[1].result) IN
                \/ m.id # got + 1 /\ readerRc' = "fail"
                \/ m.id = got + 1 /\ m.kind = "error" /\ readerRc' = "remote"
                \/ /\ m.id = got + 1 /\ m.kind # "error" /\ ~Valid(m)
                   /\ readerRc' = "fail"
    /\ reader' = "out" /\ ended' = TRUE
    /\ asleep' = Progress
    /\ link' = [link EXCEPT ![1] = Shut(@)]
    /\ UNCHANGED <<prod, rc, submitted, slots, senderVars, got, final, ret,
                   faults>>
-----------------------------------------------------------------------------
ProducerStep ==
    \/ CreateReader \/ CreateSender \/ SenderNotCreated \/ Abandon
    \/ WaitWindow \/ AcquireSlot \/ EvalSlice \/ EnqueueSlot \/ Finish
    \/ JoinSender \/ WaitReader \/ Return
SenderStep == SenderTop \/ SenderSend \/ SenderFails
ReaderStep == ReaderTake \/ ReaderFails
Coordinator == ProducerStep \/ SenderStep \/ ReaderStep
-----------------------------------------------------------------------------
(* A buffer that is queued, or that the sender is writing out, holds the   *)
(* chunk it was queued for: the producer's next evaluation never lands in  *)
(* it, whatever the other threads and the workers do.                      *)
SlotsOwned == \A c \in (sent + 1)..submitted : slots[Slot(c)] = c
=============================================================================
