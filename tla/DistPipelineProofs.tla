------------------------- MODULE DistPipelineProofs -------------------------
(***************************************************************************)
(* The invariants of the pipelined prefill, for every number of workers,   *)
(* chunks and buffers, every window and every number of faults.            *)
(*                                                                         *)
(* Inv: the ring of hidden buffers between the producer and the sender     *)
(* keeps what it holds.  No step of a worker touches the coordinator's     *)
(* state, and the coordinator writes one buffer only, that of the chunk    *)
(* that comes next, when fewer than Depth chunks are queued.               *)
(*                                                                         *)
(* RouteInv: the chunks come to every worker in order, a worker's KV holds *)
(* what its token hash says, a chunk that is handed on was evaluated on    *)
(* its own hidden state, and an answer that is no error is right.          *)
(*                                                                         *)
(* Last, nothing but a fault makes a prefill fail.                         *)
(***************************************************************************)
EXTENDS DistPipeline, SequenceTheorems, TLAPS

(* Euclidean division by a divisor that is not a literal.                  *)
LEMMA DivMod ==
  ASSUME NEW a \in Nat, NEW d \in Nat, d > 0
  PROVE  /\ a \div d \in Int
         /\ a % d \in 0..(d - 1)
         /\ a = d * (a \div d) + (a % d)
  BY SMT

(* Two numbers closer than d have different remainders: two chunks of a    *)
(* window of Depth are in different buffers.                               *)
LEMMA ModApart ==
  ASSUME NEW a \in Nat, NEW b \in Nat, NEW d \in Nat, d > 0, a < b, b - a < d
  PROVE  a % d # b % d
<1>. SUFFICES ASSUME a % d = b % d PROVE FALSE
  OBVIOUS
<1>. DEFINE p == b \div d
            q == a \div d
<1>1. p \in Int /\ q \in Int /\ b - a = d * p - d * q
  BY DivMod
<1>. HIDE DEF p, q
<1>2. b - a = d * (p - q)
  BY <1>1
<1>3. CASE p - q <= 0
  <2>1. d * (p - q) <= 0
    BY <1>1, <1>3
  <2>. QED BY <2>1, <1>2
<1>4. CASE p - q >= 1
  <2>1. d * (p - q) >= d
    BY <1>1, <1>4
  <2>. QED BY <2>1, <1>2
<1>. QED BY <1>1, <1>3, <1>4

LEMMA SlotType ==
  ASSUME NEW c \in Chunk
  PROVE  Slot(c) \in 0..(Depth - 1)
  BY DivMod, PrefillAssumption, LinkAssumption DEF Slot, Chunk

LEMMA SlotsApart ==
  ASSUME NEW c \in Chunk, NEW d \in Chunk, c < d, d - c < Depth
  PROVE  Slot(c) # Slot(d)
<1>1. /\ c - 1 \in Nat /\ d - 1 \in Nat /\ Depth \in Nat /\ Depth > 0
      /\ c - 1 < d - 1 /\ (d - 1) - (c - 1) < Depth
  BY PrefillAssumption, LinkAssumption DEF Chunk
<1>2. (c - 1) % Depth # (d - 1) % Depth
  BY <1>1, ModApart
<1>. QED BY <1>2 DEF Slot

-----------------------------------------------------------------------------
(* The strengthening: where the producer is when it owns a buffer, and     *)
(* where the sender is when it reads one.                                  *)
RingInv ==
  /\ prod \in {"slot", "eval", "enqueue"} => submitted < Count
  /\ prod \in {"eval", "enqueue"} => submitted - sent < Depth
  /\ prod = "enqueue" => slots[Slot(submitted + 1)] = submitted + 1
  /\ sender = "send" => sent < submitted
  /\ reader = "read" => got < Count
  /\ prod = "reader" => got = 0 /\ reader = "none"

Inv == TypeOK /\ RingInv /\ SlotsOwned

LEMMA InitInv == PipelineInit => Inv
<1>. SUFFICES ASSUME PipelineInit PROVE Inv
  OBVIOUS
<1>1. TypeOK
  <2>1. Depth \in Nat /\ Count \in Nat
    BY PrefillAssumption, LinkAssumption
  <2>2. slots \in [0..(Depth - 1) -> Content]
    BY <2>1 DEF PipelineInit, Init, Content, Torn
  <2>3. /\ submitted \in 0..Count /\ sent \in 0..submitted
        /\ submitted - sent \in 0..Depth /\ got \in 0..Count
    BY <2>1 DEF PipelineInit, Init
  <2>. QED BY <2>2, <2>3 DEF PipelineInit, Init, TypeOK, Outcome
<1>2. RingInv
  BY LinkAssumption DEF PipelineInit, Init, RingInv
<1>3. SlotsOwned
  BY DEF PipelineInit, Init, SlotsOwned
<1>. QED BY <1>1, <1>2, <1>3 DEF Inv

-----------------------------------------------------------------------------
(* Most steps leave the ring alone.                                        *)
LEMMA RingKept ==
  ASSUME SlotsOwned, UNCHANGED <<slots, submitted, sent>>
  PROVE  SlotsOwned'
  BY DEF SlotsOwned, Slot

LEMMA ProducerKeeps ==
  ASSUME Inv, ProducerStep
  PROVE  Inv'
<1>. USE DEF Inv, TypeOK, RingInv, Outcome, senderVars, readerVars, Queued, RingFull,
             CanEnqueue, CanDequeue, Progress
<1>0. Depth \in Nat \ {0} /\ Count \in Nat \ {0} /\ Depth <= Count
  BY PrefillAssumption, LinkAssumption
<1>1. CASE CreateReader
  <2>1. TypeOK' /\ RingInv'
    BY <1>0, <1>1 DEF CreateReader, Slot
  <2>2. SlotsOwned'
    BY <1>1, RingKept DEF CreateReader
  <2>. QED BY <2>1, <2>2
<1>2. CASE CreateSender
  <2>1. TypeOK' /\ RingInv'
    BY <1>0, <1>2 DEF CreateSender, Slot
  <2>2. SlotsOwned'
    BY <1>2, RingKept DEF CreateSender
  <2>. QED BY <2>1, <2>2
<1>3. CASE SenderNotCreated
  <2>1. TypeOK' /\ RingInv'
    BY <1>0, <1>3 DEF SenderNotCreated, Slot
  <2>2. SlotsOwned'
    BY <1>3, RingKept DEF SenderNotCreated
  <2>. QED BY <2>1, <2>2
<1>4. CASE Abandon
  <2>1. TypeOK' /\ RingInv'
    BY <1>0, <1>4 DEF Abandon, Slot
  <2>2. SlotsOwned'
    BY <1>4, RingKept DEF Abandon
  <2>. QED BY <2>1, <2>2
<1>5. CASE WaitWindow
  <2>1. TypeOK'
    BY <1>0, <1>5 DEF WaitWindow, Cancel, Sleep, HasRoom
  <2>2. RingInv'
    BY <1>0, <1>5 DEF WaitWindow, Cancel, Sleep, HasRoom, Slot
  <2>3. SlotsOwned'
    BY <1>5, RingKept DEF WaitWindow, Cancel, Sleep, HasRoom
  <2>. QED BY <2>1, <2>2, <2>3
<1>6. CASE AcquireSlot
  <2>1. CASE prod' = "eval"
    <3>1. /\ prod = "slot" /\ ~RingFull /\ submitted < Count
          /\ slots' = [slots EXCEPT ![Slot(submitted + 1)] = Torn]
          /\ UNCHANGED <<rc, submitted, sender, sent, stop, doneAll, senderRc,
                         readerVars, asleep, ret>>
      BY <1>6, <2>1 DEF AcquireSlot, Cancel, Sleep
    <3>2. submitted - sent < Depth /\ submitted + 1 \in Chunk
      BY <1>0, <3>1 DEF Chunk
    <3>3. TypeOK' /\ RingInv'
      <4>1. slots' \in [0..(Depth - 1) -> Content]
        <5>1. Torn \in Content
          BY <1>0 DEF Content, Torn
        <5>. QED BY <3>1, <5>1
      <4>. QED BY <1>0, <2>1, <3>1, <3>2, <4>1
    <3>4. SlotsOwned'
      <4>. SUFFICES ASSUME NEW c \in (sent + 1)..submitted PROVE slots'[Slot(c)] = c
        BY <3>1 DEF SlotsOwned, Slot
      <4>1. c \in Chunk /\ c < submitted + 1 /\ (submitted + 1) - c < Depth
        BY <1>0, <3>2 DEF Chunk
      <4>2. Slot(c) # Slot(submitted + 1) /\ Slot(c) \in 0..(Depth - 1)
        BY <4>1, <3>2, SlotsApart, SlotType
      <4>. QED BY <4>2, <3>1 DEF SlotsOwned
    <3>. QED BY <3>3, <3>4
  <2>2. CASE prod' # "eval"
    <3>1. TypeOK'
      BY <1>0, <1>6, <2>2 DEF AcquireSlot, Cancel, Sleep
    <3>2. RingInv'
      BY <1>0, <1>6, <2>2 DEF AcquireSlot, Cancel, Sleep
    <3>3. SlotsOwned'
      BY <1>6, <2>2, RingKept DEF AcquireSlot, Cancel, Sleep
    <3>. QED BY <3>1, <3>2, <3>3
  <2>. QED BY <2>1, <2>2
<1>7. CASE EvalSlice
  <2>0. prod = "eval" /\ submitted + 1 \in Chunk /\ submitted - sent < Depth
    BY <1>0, <1>7 DEF EvalSlice, Chunk
  <2>1. CASE prod' = "enqueue"
    <3>1. /\ slots' = [slots EXCEPT ![Slot(submitted + 1)] = submitted + 1]
          /\ UNCHANGED <<rc, submitted, sender, sent, stop, doneAll, senderRc,
                         readerVars, asleep, ret>>
      BY <1>7, <2>1 DEF EvalSlice, Cancel
    <3>2. Slot(submitted + 1) \in 0..(Depth - 1) /\ Slot(submitted + 1)' = Slot(submitted + 1)
      BY <2>0, <3>1, SlotType DEF Slot
    <3>3. TypeOK' /\ RingInv'
      BY <1>0, <2>0, <2>1, <3>1, <3>2 DEF Content, Chunk
    <3>4. SlotsOwned'
      <4>. SUFFICES ASSUME NEW c \in (sent + 1)..submitted PROVE slots'[Slot(c)] = c
        BY <3>1 DEF SlotsOwned, Slot
      <4>1. c \in Chunk /\ c < submitted + 1 /\ (submitted + 1) - c < Depth
        BY <1>0, <2>0 DEF Chunk
      <4>2. Slot(c) # Slot(submitted + 1) /\ Slot(c) \in 0..(Depth - 1)
        BY <4>1, <2>0, SlotsApart, SlotType
      <4>. QED BY <4>2, <3>1 DEF SlotsOwned
    <3>. QED BY <3>3, <3>4
  <2>2. CASE prod' # "enqueue"
    <3>1. TypeOK' /\ RingInv'
      BY <1>0, <1>7, <2>2 DEF EvalSlice, Cancel
    <3>2. SlotsOwned'
      BY <1>7, <2>2, RingKept DEF EvalSlice, Cancel
    <3>. QED BY <3>1, <3>2
  <2>. QED BY <2>1, <2>2
<1>8. CASE EnqueueSlot
  <2>1. CASE prod' = "window"
    <3>1. /\ prod = "enqueue" /\ submitted < Count /\ submitted - sent < Depth
          /\ submitted' = submitted + 1 /\ asleep' = CanDequeue
          /\ UNCHANGED <<rc, slots, sender, sent, stop, doneAll, senderRc,
                         readerVars, ret>>
      BY <1>8, <2>1 DEF EnqueueSlot, Cancel
    <3>2. TypeOK' /\ RingInv'
      BY <1>0, <2>1, <3>1
    <3>3. SlotsOwned'
      <4>. SUFFICES ASSUME NEW c \in (sent + 1)..(submitted + 1)
                    PROVE  slots[Slot(c)] = c
        BY <3>1 DEF SlotsOwned, Slot
      <4>1. CASE c = submitted + 1
        BY <3>1, <4>1
      <4>2. CASE c # submitted + 1
        BY <4>2, <1>0 DEF SlotsOwned
      <4>. QED BY <4>1, <4>2
    <3>. QED BY <3>2, <3>3
  <2>2. CASE prod' # "window"
    <3>1. TypeOK' /\ RingInv'
      BY <1>0, <1>8, <2>2 DEF EnqueueSlot, Cancel
    <3>2. SlotsOwned'
      BY <1>8, <2>2, RingKept DEF EnqueueSlot, Cancel
    <3>. QED BY <3>1, <3>2
  <2>. QED BY <2>1, <2>2
<1>9. CASE Finish
  <2>1. TypeOK' /\ RingInv'
    BY <1>0, <1>9 DEF Finish, Slot
  <2>2. SlotsOwned'
    BY <1>9, RingKept DEF Finish
  <2>. QED BY <2>1, <2>2
<1>10. CASE JoinSender
  <2>1. TypeOK' /\ RingInv'
    BY <1>0, <1>10 DEF JoinSender, Slot
  <2>2. SlotsOwned'
    BY <1>10, RingKept DEF JoinSender
  <2>. QED BY <2>1, <2>2
<1>11. CASE WaitReader
  <2>1. TypeOK'
    BY <1>0, <1>11 DEF WaitReader, Sleep
  <2>2. RingInv'
    BY <1>0, <1>11 DEF WaitReader, Sleep, Slot
  <2>3. SlotsOwned'
    BY <1>11, RingKept DEF WaitReader, Sleep
  <2>. QED BY <2>1, <2>2, <2>3
<1>12. CASE Return
  <2>1. TypeOK' /\ RingInv'
    BY <1>0, <1>12 DEF Return, Slot
  <2>2. SlotsOwned'
    BY <1>12, RingKept DEF Return
  <2>. QED BY <2>1, <2>2
<1>. QED BY <1>1, <1>2, <1>3, <1>4, <1>5, <1>6, <1>7, <1>8, <1>9, <1>10, <1>11, <1>12 DEF ProducerStep

LEMMA SenderKeeps ==
  ASSUME Inv, SenderStep
  PROVE  Inv'
<1>. USE DEF Inv, TypeOK, RingInv, Outcome, senderVars, readerVars, Queued, RingFull,
             CanEnqueue, CanDequeue, Progress
<1>0. Depth \in Nat \ {0} /\ Count \in Nat \ {0} /\ Depth <= Count
  BY PrefillAssumption, LinkAssumption
<1>1. CASE SenderTop
  <2>1. TypeOK'
    <3>1. asleep' \subseteq {"producer", "sender"} /\ sender' \in {"top", "send", "out"}
      BY <1>1 DEF SenderTop
    <3>. QED BY <1>1, <3>1 DEF SenderTop
  <2>2. RingInv'
    BY <1>0, <1>1 DEF SenderTop, Slot
  <2>3. SlotsOwned'
    BY <1>1, RingKept DEF SenderTop
  <2>. QED BY <2>1, <2>2, <2>3
<1>2. CASE SenderSend
  <2>1. /\ sender = "send" /\ sent < submitted
        /\ sent' = sent + 1 /\ asleep' = CanEnqueue /\ sender' = "top"
        /\ UNCHANGED <<prod, rc, submitted, slots, stop, doneAll, senderRc,
                       readerVars, ret>>
    BY <1>2 DEF SenderSend
  <2>2. TypeOK' /\ RingInv'
    BY <1>0, <2>1 DEF Slot
  <2>3. SlotsOwned'
    <3>. SUFFICES ASSUME NEW c \in (sent + 2)..submitted PROVE slots[Slot(c)] = c
      BY <1>0, <2>1 DEF SlotsOwned, Slot
    <3>1. c \in (sent + 1)..submitted
      BY <1>0
    <3>. QED BY <3>1 DEF SlotsOwned
  <2>. QED BY <2>2, <2>3
<1>3. CASE SenderFails
  <2>1. TypeOK' /\ RingInv'
    BY <1>0, <1>3 DEF SenderFails, Slot
  <2>2. SlotsOwned'
    BY <1>3, RingKept DEF SenderFails
  <2>. QED BY <2>1, <2>2
<1>. QED BY <1>1, <1>2, <1>3 DEF SenderStep

LEMMA ReaderKeeps ==
  ASSUME Inv, ReaderStep
  PROVE  Inv'
<1>. USE DEF Inv, TypeOK, RingInv, Outcome, senderVars, readerVars, Queued, RingFull,
             CanEnqueue, CanDequeue, Progress
<1>0. Depth \in Nat \ {0} /\ Count \in Nat \ {0} /\ Depth <= Count
  BY PrefillAssumption, LinkAssumption
<1>1. CASE ReaderTake
  <2>1. TypeOK' /\ RingInv'
    BY <1>0, <1>1 DEF ReaderTake, Slot
  <2>2. SlotsOwned'
    BY <1>1, RingKept DEF ReaderTake
  <2>. QED BY <2>1, <2>2
<1>2. CASE ReaderFails
  <2>1. TypeOK' /\ RingInv'
    BY <1>0, <1>2 DEF ReaderFails, Slot
  <2>2. SlotsOwned'
    BY <1>2, RingKept DEF ReaderFails
  <2>. QED BY <2>1, <2>2
<1>. QED BY <1>1, <1>2 DEF ReaderStep

-----------------------------------------------------------------------------
(* A step of a worker, and a connection that is cut, are no steps of the   *)
(* coordinator.                                                            *)
LEMMA InvKept ==
  ASSUME Inv, UNCHANGED own
  PROVE  Inv'
<1>1. SlotsOwned'
  BY RingKept DEF Inv, own
<1>2. TypeOK' /\ RingInv'
  BY DEF Inv, TypeOK, RingInv, Slot, own
<1>. QED BY <1>1, <1>2 DEF Inv

THEOREM NextInv == Inv /\ [PipelineNext]_allVars => Inv'
<1>. SUFFICES ASSUME Inv, [PipelineNext]_allVars PROVE Inv'
  OBVIOUS
<1>1. CASE Coordinator
  BY <1>1, ProducerKeeps, SenderKeeps, ReaderKeeps DEF Coordinator
<1>2. CASE \E h \in Hop : Route!WorkerStep(h) /\ UNCHANGED own
  BY <1>2, InvKept
<1>3. CASE \E h \in Hop : Cut(h) /\ UNCHANGED <<own, worker>>
  BY <1>3, InvKept
<1>4. CASE UNCHANGED allVars
  BY <1>4, InvKept DEF allVars
<1>. QED BY <1>1, <1>2, <1>3, <1>4 DEF PipelineNext, ThreadStep

(* A hidden state that waits to be sent, or that is being sent, stays the  *)
(* one of its chunk, whatever the threads and the workers do.  (the ring   *)
(* of ds4_dist_prefill_sender, ds4_distributed.c 3152-3266)                *)
THEOREM RingKeepsChunks == PipelineSpec => []SlotsOwned
<1>1. PipelineInit => Inv
  BY InitInv
<1>2. Inv /\ [PipelineNext]_allVars => Inv'
  BY NextInv
<1>3. Inv => SlotsOwned
  BY DEF Inv
<1>. QED BY <1>1, <1>2, <1>3, PTL DEF PipelineSpec

-----------------------------------------------------------------------------
(* The workers.                                                            *)

(* DistWorker has its own copy of what it shares with DistPipeline.        *)
LEMMA Shared ==
  /\ Route!Hop = Hop /\ Route!Chunk = Chunk /\ Route!Torn = Torn /\ Route!Content = Content
  /\ Route!Work = Work /\ Route!Result = Result
  /\ \A l : Route!Shut(l) = Shut(l)
  /\ \A l, m : Route!ResultSent(l, m) = ResultSent(l, m)
  /\ \A l, m : Route!WorkSent(l, m) = WorkSent(l, m)
  /\ Route!Fault <=> Fault
  BY DEF Route!Hop, Hop, Route!Chunk, Chunk, Route!Torn, Torn, Route!Content, Content,
         Route!Work, Work, Route!Result, Result, Route!Shut, Shut, Route!ResultSent,
         ResultSent, Route!WorkSent, WorkSent, Route!Fault, Fault

WorkerRecord ==
  [reader : {"read", "put", "work", "join", "destroy", "gone"},
   frame : Work \cup {Route!NoFrame},
   queue : Seq(Work), closed : BOOLEAN, canceled : BOOLEAN,
   eval : {"pop", "eval", "open", "track", "send", "lost", "answer",
           "error", "fail", "out"},
   job : Work \cup {Route!NoFrame},
   relay : {"none", "start", "read", "write", "exit", "out"},
   answer : Result \cup {Route!NoAnswer},
   pending : Seq(Chunk), closing : BOOLEAN,
   kv : Content \cup {Route!Wrong}, hash : Content \cup {Route!NoHash},
   asleep : SUBSET {"reader", "eval"}]

(* A worker: what it holds its threads' places tell, and only one that is  *)
(* not the last forwards.                                                  *)
IsWorker(w, h) ==
  /\ w \in WorkerRecord
  /\ w.reader = "put" <=> w.frame # Route!NoFrame
  /\ w.reader = "put" => Prefetch[h] # 0
  /\ w.eval \notin {"pop", "out"} => w.job # Route!NoFrame
  /\ w.eval \in {"open", "track", "send", "lost"} => h < Hops
  /\ w.eval = "answer" => h = Hops
  /\ w.relay # "none" => h < Hops
  /\ w.relay = "write" <=> w.answer # Route!NoAnswer
  /\ Len(w.queue) <= Prefetch[h] /\ Len(w.pending) <= Forward

WorkersOK == worker \in [Hop -> WorkerRecord] /\ \A h \in Hop : IsWorker(worker[h], h)

LEMMA Constants ==
  /\ Hops \in Nat /\ Count \in Nat /\ WorkRoom \in Nat /\ MaxFaults \in Nat
  /\ Hops > 0 /\ Count > 0 /\ WorkRoom > 0 /\ Depth \in Nat /\ Depth > 0 /\ Depth <= Count
  /\ Prefetch \in [Hop -> Nat] /\ Forward \in Nat /\ Forward > 0
  BY LinkAssumption, PrefillAssumption, PipelineAssumption

(* Sending on a connection keeps the type of connections.                  *)
LEMMA LinkSent ==
  ASSUME NEW l \in Link
  PROVE  /\ Shut(l) \in Link
         /\ \A m \in Result : ResultSent(l, m) \in Link
         /\ \A m \in Work : WorkSent(l, m) \subseteq Link
         /\ l.work # <<>> => Head(l.work) \in Work /\ [l EXCEPT !.work = Tail(@)] \in Link
         /\ l.result # <<>> => Head(l.result) \in Result /\ [l EXCEPT !.result = Tail(@)] \in Link
<1>0. /\ l.work \in Seq(Work) /\ l.result \in Seq(Result)
      /\ \A s \in Seq(Work) : [l EXCEPT !.work = s] \in Link
      /\ \A s \in Seq(Result) : [l EXCEPT !.result = s] \in Link
      /\ [l EXCEPT !.open = FALSE] \in Link
  BY DEF Link
<1>1. \A m \in Result : Append(l.result, m) \in Seq(Result)
  BY <1>0, AppendProperties
<1>2. \A m \in Work : Append(l.work, m) \in Seq(Work)
  BY <1>0, AppendProperties
<1>3. l.work # <<>> => Head(l.work) \in Work /\ Tail(l.work) \in Seq(Work)
  BY <1>0, HeadTailProperties
<1>4. l.result # <<>> => Head(l.result) \in Result /\ Tail(l.result) \in Seq(Result)
  BY <1>0, HeadTailProperties
<1>5. \A m \in Work : WorkSent(l, m) \subseteq Link
  BY <1>0, <1>2, Zenon DEF WorkSent
<1>6. \A m \in Result : ResultSent(l, m) \in Link
  BY <1>0, <1>1, Zenon DEF ResultSent
<1>. QED BY <1>0, <1>3, <1>4, <1>5, <1>6, Zenon DEF Shut

(* Removing a request from the queue keeps it a queue.                     *)
LEMMA WithoutSeq ==
  ASSUME NEW ids \in Seq(Chunk), NEW id
  PROVE  /\ Route!Without(ids, id) \in Seq(Chunk)
         /\ Len(Route!Without(ids, id)) <= Len(ids)
<1>0. Len(ids) \in Nat /\ DOMAIN ids = 1 .. Len(ids) /\ \A i \in 1 .. Len(ids) : ids[i] \in Chunk
  OBVIOUS
<1>1. CASE \A i \in DOMAIN ids : ids[i] # id
  BY <1>0, <1>1 DEF Route!Without
<1>2. CASE ~ \A i \in DOMAIN ids : ids[i] # id
  <2>1. PICK k : k = CHOOSE i \in DOMAIN ids : ids[i] = id
    OBVIOUS
  <2>2. k \in DOMAIN ids
    BY <1>2, <2>1
  <2>. DEFINE n == Len(ids) - 1
              r == [i \in 1 .. n |-> IF i < k THEN ids[i] ELSE ids[i + 1]]
  <2>3. Route!Without(ids, id) = r
    BY <1>2, <2>1 DEF Route!Without
  <2>4. n \in Nat /\ r \in [1 .. n -> Chunk]
    BY <1>0, <2>2
  <2>5. r \in Seq(Chunk)
    BY <2>4, SeqDef
  <2>6. Len(r) = n
    <3>1. DOMAIN r = 1 .. n /\ n \in Nat
      BY <2>4
    <3>. HIDE DEF r, n
    <3>. QED BY <2>5, <3>1, LenProperties
  <2>. HIDE DEF r
  <2>7. Len(r) <= Len(ids)
    BY <1>0, <2>6
  <2>. HIDE DEF n
  <2>. QED BY <2>3, <2>5, <2>7
<1>. QED BY <1>1, <1>2

(* The threads that wait are the worker's.                                 *)
LEMMA Awake ==
  ASSUME NEW w \in WorkerRecord
  PROVE  /\ Route!NotEmpty(w) \in SUBSET {"reader", "eval"}
         /\ Route!NotEmpty(w) \ {"reader"} \in SUBSET {"reader", "eval"}
         /\ Route!PendingNotFull(w) \in SUBSET {"reader", "eval"}
         /\ Route!NotFull(w) \in SUBSET {"reader", "eval"}
         /\ w.asleep \cup {"reader"} \in SUBSET {"reader", "eval"}
         /\ w.asleep \cup {"eval"} \in SUBSET {"reader", "eval"}
<1>1. w.asleep \in SUBSET {"reader", "eval"}
  BY DEF WorkerRecord
<1>. QED BY <1>1 DEF Route!NotEmpty, Route!PendingNotFull, Route!NotFull

LEMMA EmptyQueues ==
  /\ <<>> \in Seq(Work) /\ <<>> \in Seq(Chunk) /\ Len(<<>>) = 0
  OBVIOUS

(* What a step may leave of a worker.                                      *)
SameWork(v, w) == v.queue = w.queue /\ v.frame = w.frame /\ v.job = w.job
SameKv(v, w) == v.kv = w.kv /\ v.hash = w.hash
SameRelay(v, w) == v.relay = w.relay /\ v.answer = w.answer /\ v.pending = w.pending
SameFlags(v, w) == v.closed = w.closed /\ v.canceled = w.canceled /\ v.closing = w.closing

LEMMA ClosedWorker ==
  ASSUME NEW w \in WorkerRecord, NEW v
  PROVE  /\ v = Route!FinishQueue(w) =>
               /\ v \in WorkerRecord /\ v.reader = w.reader /\ v.eval = w.eval
               /\ SameWork(v, w) /\ SameKv(v, w) /\ SameRelay(v, w) /\ v.closing = w.closing
         /\ v = Route!CancelQueue(w) =>
               /\ v \in WorkerRecord /\ v.reader = w.reader /\ v.eval = w.eval
               /\ v.queue = <<>> /\ v.frame = w.frame /\ v.job = w.job
               /\ SameKv(v, w) /\ SameRelay(v, w) /\ v.closing = w.closing
         /\ v = Route!CloseForwarder(w) =>
               /\ v \in WorkerRecord /\ v.reader = w.reader /\ v.eval = w.eval
               /\ SameWork(v, w) /\ SameKv(v, w) /\ SameRelay(v, w)
<1>1. ASSUME v = Route!FinishQueue(w)
      PROVE  /\ v \in WorkerRecord /\ v.reader = w.reader /\ v.eval = w.eval
             /\ SameWork(v, w) /\ SameKv(v, w) /\ SameRelay(v, w) /\ v.closing = w.closing
  <2>1. PICK a : a = Route!NotEmpty(w) \ {"reader"}
    OBVIOUS
  <2>2. a \in SUBSET {"reader", "eval"} /\ v = [w EXCEPT !.closed = TRUE, !.asleep = a]
    BY <1>1, <2>1, Awake DEF Route!FinishQueue
  <2>3. v \in WorkerRecord
    BY <2>2 DEF WorkerRecord
  <2>. QED BY <2>2, <2>3 DEF WorkerRecord, SameWork, SameKv, SameRelay
<1>2. ASSUME v = Route!CancelQueue(w)
      PROVE  /\ v \in WorkerRecord /\ v.reader = w.reader /\ v.eval = w.eval
             /\ v.queue = <<>> /\ v.frame = w.frame /\ v.job = w.job
             /\ SameKv(v, w) /\ SameRelay(v, w) /\ v.closing = w.closing
  <2>1. PICK a : a = Route!NotEmpty(w) \ {"reader"}
    OBVIOUS
  <2>2. /\ a \in SUBSET {"reader", "eval"}
        /\ v = [w EXCEPT !.closed = TRUE, !.canceled = TRUE, !.queue = <<>>, !.asleep = a]
    BY <1>2, <2>1, Awake DEF Route!CancelQueue
  <2>3. v \in WorkerRecord
    BY <2>2, EmptyQueues DEF WorkerRecord
  <2>. QED BY <2>2, <2>3 DEF WorkerRecord, SameKv, SameRelay
<1>3. ASSUME v = Route!CloseForwarder(w)
      PROVE  /\ v \in WorkerRecord /\ v.reader = w.reader /\ v.eval = w.eval
             /\ SameWork(v, w) /\ SameKv(v, w) /\ SameRelay(v, w)
  <2>1. PICK a : a = Route!PendingNotFull(w)
    OBVIOUS
  <2>2. a \in SUBSET {"reader", "eval"} /\ v = [w EXCEPT !.closing = TRUE, !.asleep = a]
    BY <1>3, <2>1, Awake DEF Route!CloseForwarder
  <2>3. v \in WorkerRecord
    BY <2>2 DEF WorkerRecord
  <2>. QED BY <2>2, <2>3 DEF WorkerRecord, SameWork, SameKv, SameRelay
<1>. QED BY <1>1, <1>2, <1>3

LEMMA SetWorker ==
  ASSUME WorkersOK, NEW h \in Hop, NEW v, IsWorker(v, h), Route!Set(h, v)
  PROVE  WorkersOK' /\ worker'[h] = v /\ \A g \in Hop \ {h} : worker'[g] = worker[g]
  BY DEF WorkersOK, IsWorker, Route!Set

(* The connections.                                                        *)
LinksOK == link \in [Hop -> Link] /\ faults \in 0 .. MaxFaults

LEMMA FaultTypes ==
  ASSUME LinksOK, UNCHANGED faults \/ Fault
  PROVE  faults' \in 0 .. MaxFaults /\ faults' >= faults
  BY Constants DEF LinksOK, Fault

Others(h) == \A g \in Hop \ {h} : worker'[g] = worker[g]

(* What is on a connection is work.                                        *)
LEMMA FrameIsWork ==
  ASSUME NEW l \in Link, l.work # <<>>
  PROVE  Head(l.work) \in Work /\ Head(l.work) # Route!NoFrame
<1>1. Head(l.work) \in Work
  BY LinkSent
<1>. QED BY <1>1, Constants DEF Work, Route!NoFrame, Chunk

(* The reader takes the next frame of work, to evaluate it or to queue it.*)
LEMMA ReadWorkDoes ==
  ASSUME WorkersOK, LinksOK, NEW h \in Hop, Route!ReadWork(h)
  PROVE  LET w == worker[h]  v == worker'[h] IN
         /\ WorkersOK' /\ LinksOK' /\ Others(h)
         /\ \/ /\ w.reader = "read"
               /\ link[h].work # <<>>
               /\ Prefetch[h] = 0
               /\ v.reader = "work"
               /\ v.eval = "eval"
               /\ v.job = Head(link[h].work)
               /\ v.queue = w.queue
               /\ v.frame = w.frame
               /\ SameKv(v, w)
               /\ SameRelay(v, w)
               /\ SameFlags(v, w)
               /\ link' = [link EXCEPT ![h].work = Tail(@)]
               /\ faults' = faults
            \/ /\ w.reader = "read"
               /\ link[h].work # <<>>
               /\ Prefetch[h] # 0
               /\ v.reader = "put"
               /\ v.eval = w.eval
               /\ v.job = w.job
               /\ v.queue = w.queue
               /\ v.frame = Head(link[h].work)
               /\ SameKv(v, w)
               /\ SameRelay(v, w)
               /\ SameFlags(v, w)
               /\ link' = [link EXCEPT ![h].work = Tail(@)]
               /\ faults' = faults
<1>. DEFINE w == worker[h]
            v == worker'[h]
<1>0. /\ IsWorker(w, h) /\ w \in WorkerRecord /\ link[h] \in Link /\ h \in Nat
      /\ (h < Hops => h + 1 \in Hop /\ link[h + 1] \in Link) /\ Prefetch[h] \in Nat
  BY Constants DEF WorkersOK, LinksOK, Hop, IsWorker
<1>1. \/ /\ w.reader = "read"
         /\ link[h].work # <<>>
         /\ Prefetch[h] = 0
         /\ Route!Set(h, [w EXCEPT !.reader = "work", !.eval = "eval",
          !.job = Head(link[h].work)])
         /\ link' = [link EXCEPT ![h].work = Tail(@)]
         /\ faults' = faults
      \/ /\ w.reader = "read"
         /\ link[h].work # <<>>
         /\ Prefetch[h] # 0
         /\ Route!Set(h, [w EXCEPT !.reader = "put", !.frame = Head(link[h].work)])
         /\ link' = [link EXCEPT ![h].work = Tail(@)]
         /\ faults' = faults
  BY <1>0, Shared DEF Route!ReadWork, Route!Inline, w
<1>. HIDE DEF w
<1>2. ASSUME w.reader = "read",
             link[h].work # <<>>,
             Prefetch[h] = 0,
             Route!Set(h, [w EXCEPT !.reader = "work", !.eval = "eval",
              !.job = Head(link[h].work)]),
             link' = [link EXCEPT ![h].work = Tail(@)],
             faults' = faults
      PROVE  WorkersOK' /\ LinksOK' /\ Others(h)
             /\ v.reader = "work"
             /\ v.eval = "eval"
             /\ v.job = Head(link[h].work)
             /\ v.queue = w.queue
             /\ v.frame = w.frame
             /\ SameKv(v, w)
             /\ SameRelay(v, w)
             /\ SameFlags(v, w)
  <2>1. Head(link[h].work) \in Work /\ Head(link[h].work) # Route!NoFrame
    BY <1>0, <1>2, FrameIsWork
  <2>2. PICK u : u = [w EXCEPT !.reader = "work", !.eval = "eval",
                  !.job = Head(link[h].work)]
    OBVIOUS
  <2>3. u \in WorkerRecord
    BY <1>0, <2>1, <2>2 DEF WorkerRecord
  <2>4. /\ u.reader = "work"
        /\ u.eval = "eval"
        /\ u.job = Head(link[h].work)
        /\ u.queue = w.queue
        /\ u.frame = w.frame
        /\ SameKv(u, w)
        /\ SameRelay(u, w)
        /\ SameFlags(u, w)
    BY <1>0, <2>1, <2>2 DEF WorkerRecord, SameWork, SameKv, SameRelay, SameFlags
  <2>5. IsWorker(u, h)
    BY <1>0, <2>1, <1>2, <2>3, <2>4 DEF IsWorker, SameWork, SameKv, SameRelay
  <2>6. WorkersOK' /\ Others(h) /\ v = u
    BY <1>2, <2>2, <2>5, SetWorker DEF Others
  <2>7. LinksOK'
    BY <1>0, <2>1, <1>2, LinkSent DEF LinksOK
  <2>. QED BY <2>4, <2>6, <2>7
<1>3. ASSUME w.reader = "read",
             link[h].work # <<>>,
             Prefetch[h] # 0,
             Route!Set(h, [w EXCEPT !.reader = "put", !.frame = Head(link[h].work)]),
             link' = [link EXCEPT ![h].work = Tail(@)],
             faults' = faults
      PROVE  WorkersOK' /\ LinksOK' /\ Others(h)
             /\ v.reader = "put"
             /\ v.eval = w.eval
             /\ v.job = w.job
             /\ v.queue = w.queue
             /\ v.frame = Head(link[h].work)
             /\ SameKv(v, w)
             /\ SameRelay(v, w)
             /\ SameFlags(v, w)
  <2>1. Head(link[h].work) \in Work /\ Head(link[h].work) # Route!NoFrame
    BY <1>0, <1>3, FrameIsWork
  <2>2. PICK u : u = [w EXCEPT !.reader = "put", !.frame = Head(link[h].work)]
    OBVIOUS
  <2>3. u \in WorkerRecord
    BY <1>0, <2>1, <2>2 DEF WorkerRecord
  <2>4. /\ u.reader = "put"
        /\ u.eval = w.eval
        /\ u.job = w.job
        /\ u.queue = w.queue
        /\ u.frame = Head(link[h].work)
        /\ SameKv(u, w)
        /\ SameRelay(u, w)
        /\ SameFlags(u, w)
    BY <1>0, <2>1, <2>2 DEF WorkerRecord, SameWork, SameKv, SameRelay, SameFlags
  <2>5. IsWorker(u, h)
    BY <1>0, <2>1, <1>3, <2>3, <2>4 DEF IsWorker, SameWork, SameKv, SameRelay
  <2>6. WorkersOK' /\ Others(h) /\ v = u
    BY <1>3, <2>2, <2>5, SetWorker DEF Others
  <2>7. LinksOK'
    BY <1>0, <2>1, <1>3, LinkSent DEF LinksOK
  <2>. QED BY <2>4, <2>6, <2>7
<1>. QED BY <1>1, <1>2, <1>3 DEF w

(* The connection is gone: the reader closes its queue, or empties it.   *)
LEMMA ReadEndDoes ==
  ASSUME WorkersOK, LinksOK, NEW h \in Hop, Route!ReadEnd(h)
  PROVE  LET w == worker[h]  v == worker'[h] IN
         /\ WorkersOK' /\ LinksOK' /\ Others(h)
         /\ \/ /\ w.reader = "read"
               /\ ~link[h].open
               /\ v.reader = "join"
               /\ v.eval = w.eval
               /\ SameWork(v, w)
               /\ SameKv(v, w)
               /\ SameRelay(v, w)
               /\ UNCHANGED <<link, faults>>
            \/ /\ w.reader = "read"
               /\ ~link[h].open
               /\ v.reader = "join"
               /\ v.eval = w.eval
               /\ v.queue = <<>>
               /\ v.frame = w.frame
               /\ v.job = w.job
               /\ SameKv(v, w)
               /\ SameRelay(v, w)
               /\ UNCHANGED <<link, faults>>
<1>. DEFINE w == worker[h]
            v == worker'[h]
<1>0. /\ IsWorker(w, h) /\ w \in WorkerRecord /\ link[h] \in Link /\ h \in Nat
      /\ (h < Hops => h + 1 \in Hop /\ link[h + 1] \in Link) /\ Prefetch[h] \in Nat
  BY Constants DEF WorkersOK, LinksOK, Hop, IsWorker
<1>1. \/ /\ w.reader = "read"
         /\ ~link[h].open
         /\ Route!Set(h, [Route!FinishQueue(w) EXCEPT !.reader = "join"])
         /\ UNCHANGED <<link, faults>>
      \/ /\ w.reader = "read"
         /\ ~link[h].open
         /\ Route!Set(h, [Route!CancelQueue(w) EXCEPT !.reader = "join"])
         /\ UNCHANGED <<link, faults>>
  BY <1>0, Shared DEF Route!ReadEnd, Route!LeaveLinks, w
<1>. HIDE DEF w
<1>2. ASSUME w.reader = "read",
             ~link[h].open,
             Route!Set(h, [Route!FinishQueue(w) EXCEPT !.reader = "join"]),
             UNCHANGED <<link, faults>>
      PROVE  WorkersOK' /\ LinksOK' /\ Others(h)
             /\ v.reader = "join"
             /\ v.eval = w.eval
             /\ SameWork(v, w)
             /\ SameKv(v, w)
             /\ SameRelay(v, w)
  <2>1. PICK c : c = Route!FinishQueue(w)
    OBVIOUS
  <2>2. /\ c \in WorkerRecord /\ c.reader = w.reader /\ c.eval = w.eval
        /\ SameWork(c, w) /\ SameKv(c, w) /\ SameRelay(c, w) /\ c.closing = w.closing
    BY <1>0, <2>1, ClosedWorker
  <2>3. PICK u : u = [c EXCEPT !.reader = "join"]
    OBVIOUS
  <2>4. u \in WorkerRecord
    BY <2>2, <2>3 DEF WorkerRecord
  <2>5. /\ u.reader = "join"
        /\ u.eval = w.eval
        /\ SameWork(u, w)
        /\ SameKv(u, w)
        /\ SameRelay(u, w)
    BY <1>0, <2>1, <2>2, <2>3 DEF WorkerRecord, SameWork, SameKv, SameRelay, SameFlags
  <2>6. IsWorker(u, h)
    BY <1>0, <2>1, <2>2, <1>2, <2>4, <2>5 DEF IsWorker, SameWork, SameKv, SameRelay
  <2>7. WorkersOK' /\ Others(h) /\ v = u
    BY <1>2, <2>1, <2>2, <2>3, <2>6, SetWorker DEF Others
  <2>8. LinksOK'
    BY <1>0, <2>1, <2>2, <1>2 DEF LinksOK
  <2>. QED BY <2>5, <2>7, <2>8
<1>3. ASSUME w.reader = "read",
             ~link[h].open,
             Route!Set(h, [Route!CancelQueue(w) EXCEPT !.reader = "join"]),
             UNCHANGED <<link, faults>>
      PROVE  WorkersOK' /\ LinksOK' /\ Others(h)
             /\ v.reader = "join"
             /\ v.eval = w.eval
             /\ v.queue = <<>>
             /\ v.frame = w.frame
             /\ v.job = w.job
             /\ SameKv(v, w)
             /\ SameRelay(v, w)
  <2>1. PICK c : c = Route!CancelQueue(w)
    OBVIOUS
  <2>2. /\ c \in WorkerRecord /\ c.reader = w.reader /\ c.eval = w.eval
        /\ c.queue = <<>> /\ c.frame = w.frame /\ c.job = w.job
        /\ SameKv(c, w) /\ SameRelay(c, w) /\ c.closing = w.closing
    BY <1>0, <2>1, ClosedWorker
  <2>3. PICK u : u = [c EXCEPT !.reader = "join"]
    OBVIOUS
  <2>4. u \in WorkerRecord
    BY <2>2, <2>3 DEF WorkerRecord
  <2>5. /\ u.reader = "join"
        /\ u.eval = w.eval
        /\ u.queue = <<>>
        /\ u.frame = w.frame
        /\ u.job = w.job
        /\ SameKv(u, w)
        /\ SameRelay(u, w)
    BY <1>0, <2>1, <2>2, <2>3 DEF WorkerRecord, SameWork, SameKv, SameRelay, SameFlags
  <2>6. IsWorker(u, h)
    BY <1>0, <2>1, <2>2, <1>3, <2>4, <2>5 DEF IsWorker, SameWork, SameKv, SameRelay
  <2>7. WorkersOK' /\ Others(h) /\ v = u
    BY <1>3, <2>1, <2>2, <2>3, <2>6, SetWorker DEF Others
  <2>8. LinksOK'
    BY <1>0, <2>1, <2>2, <1>3 DEF LinksOK
  <2>. QED BY <2>5, <2>7, <2>8
<1>. QED BY <1>1, <1>2, <1>3 DEF w

(* The reader puts its frame into the queue, waits for room, or gives up.*)
LEMMA PutJobDoes ==
  ASSUME WorkersOK, LinksOK, NEW h \in Hop, Route!PutJob(h)
  PROVE  LET w == worker[h]  v == worker'[h] IN
         /\ WorkersOK' /\ LinksOK' /\ Others(h)
         /\ \/ /\ w.reader = "put"
               /\ w.closed \/ w.canceled
               /\ v.reader = "join"
               /\ v.eval = w.eval
               /\ v.queue = <<>>
               /\ v.frame = Route!NoFrame
               /\ v.job = w.job
               /\ SameKv(v, w)
               /\ SameRelay(v, w)
               /\ UNCHANGED <<link, faults>>
            \/ /\ w.reader = "put"
               /\ ~w.closed
               /\ ~w.canceled
               /\ v.reader = w.reader
               /\ v.eval = w.eval
               /\ SameWork(v, w)
               /\ SameKv(v, w)
               /\ SameRelay(v, w)
               /\ SameFlags(v, w)
               /\ UNCHANGED <<link, faults>>
            \/ /\ w.reader = "put"
               /\ ~w.closed
               /\ ~w.canceled
               /\ Len(w.queue) < Prefetch[h]
               /\ v.reader = "read"
               /\ v.eval = w.eval
               /\ v.queue = Append(w.queue, w.frame)
               /\ v.frame = Route!NoFrame
               /\ v.job = w.job
               /\ SameKv(v, w)
               /\ SameRelay(v, w)
               /\ SameFlags(v, w)
               /\ UNCHANGED <<link, faults>>
<1>. DEFINE w == worker[h]
            v == worker'[h]
<1>0. /\ IsWorker(w, h) /\ w \in WorkerRecord /\ link[h] \in Link /\ h \in Nat
      /\ (h < Hops => h + 1 \in Hop /\ link[h + 1] \in Link) /\ Prefetch[h] \in Nat
  BY Constants DEF WorkersOK, LinksOK, Hop, IsWorker
<1>1. \/ /\ w.reader = "put"
         /\ w.closed \/ w.canceled
         /\ Route!Set(h, [Route!CancelQueue(w) EXCEPT !.reader = "join",
          !.frame = Route!NoFrame])
         /\ UNCHANGED <<link, faults>>
      \/ /\ w.reader = "put"
         /\ ~w.closed
         /\ ~w.canceled
         /\ Route!Set(h, [w EXCEPT !.asleep = @ \cup {"reader"}])
         /\ UNCHANGED <<link, faults>>
      \/ /\ w.reader = "put"
         /\ ~w.closed
         /\ ~w.canceled
         /\ Len(w.queue) < Prefetch[h]
         /\ Route!Set(h, [w EXCEPT !.queue = Append(@, w.frame),
          !.frame = Route!NoFrame, !.reader = "read",
          !.asleep = Route!NotEmpty(w)])
         /\ UNCHANGED <<link, faults>>
  BY <1>0, Shared DEF Route!PutJob, Route!LeaveLinks, IsWorker, WorkerRecord, w
<1>. HIDE DEF w
<1>2. ASSUME w.reader = "put",
             w.closed \/ w.canceled,
             Route!Set(h, [Route!CancelQueue(w) EXCEPT !.reader = "join",
              !.frame = Route!NoFrame]),
             UNCHANGED <<link, faults>>
      PROVE  WorkersOK' /\ LinksOK' /\ Others(h)
             /\ v.reader = "join"
             /\ v.eval = w.eval
             /\ v.queue = <<>>
             /\ v.frame = Route!NoFrame
             /\ v.job = w.job
             /\ SameKv(v, w)
             /\ SameRelay(v, w)
  <2>1. PICK c : c = Route!CancelQueue(w)
    OBVIOUS
  <2>2. /\ c \in WorkerRecord /\ c.reader = w.reader /\ c.eval = w.eval
        /\ c.queue = <<>> /\ c.frame = w.frame /\ c.job = w.job
        /\ SameKv(c, w) /\ SameRelay(c, w) /\ c.closing = w.closing
    BY <1>0, <2>1, ClosedWorker
  <2>3. PICK u : u = [c EXCEPT !.reader = "join",
                  !.frame = Route!NoFrame]
    OBVIOUS
  <2>4. u \in WorkerRecord
    BY <2>2, <2>3 DEF WorkerRecord
  <2>5. /\ u.reader = "join"
        /\ u.eval = w.eval
        /\ u.queue = <<>>
        /\ u.frame = Route!NoFrame
        /\ u.job = w.job
        /\ SameKv(u, w)
        /\ SameRelay(u, w)
    BY <1>0, <2>1, <2>2, <2>3 DEF WorkerRecord, SameWork, SameKv, SameRelay, SameFlags
  <2>6. IsWorker(u, h)
    BY <1>0, <2>1, <2>2, <1>2, <2>4, <2>5 DEF IsWorker, SameWork, SameKv, SameRelay
  <2>7. WorkersOK' /\ Others(h) /\ v = u
    BY <1>2, <2>1, <2>2, <2>3, <2>6, SetWorker DEF Others
  <2>8. LinksOK'
    BY <1>0, <2>1, <2>2, <1>2 DEF LinksOK
  <2>. QED BY <2>5, <2>7, <2>8
<1>3. ASSUME w.reader = "put",
             ~w.closed,
             ~w.canceled,
             Route!Set(h, [w EXCEPT !.asleep = @ \cup {"reader"}]),
             UNCHANGED <<link, faults>>
      PROVE  WorkersOK' /\ LinksOK' /\ Others(h)
             /\ v.reader = w.reader
             /\ v.eval = w.eval
             /\ SameWork(v, w)
             /\ SameKv(v, w)
             /\ SameRelay(v, w)
             /\ SameFlags(v, w)
  <2>1. w.asleep \cup {"reader"} \in SUBSET {"reader", "eval"}
    BY <1>0, <1>3, Awake
  <2>2. PICK u : u = [w EXCEPT !.asleep = @ \cup {"reader"}]
    OBVIOUS
  <2>3. u \in WorkerRecord
    BY <1>0, <2>1, <2>2 DEF WorkerRecord
  <2>4. /\ u.reader = w.reader
        /\ u.eval = w.eval
        /\ SameWork(u, w)
        /\ SameKv(u, w)
        /\ SameRelay(u, w)
        /\ SameFlags(u, w)
    BY <1>0, <2>1, <2>2 DEF WorkerRecord, SameWork, SameKv, SameRelay, SameFlags
  <2>5. IsWorker(u, h)
    BY <1>0, <2>1, <1>3, <2>3, <2>4 DEF IsWorker, SameWork, SameKv, SameRelay
  <2>6. WorkersOK' /\ Others(h) /\ v = u
    BY <1>3, <2>2, <2>5, SetWorker DEF Others
  <2>7. LinksOK'
    BY <1>0, <2>1, <1>3 DEF LinksOK
  <2>. QED BY <2>4, <2>6, <2>7
<1>4. ASSUME w.reader = "put",
             ~w.closed,
             ~w.canceled,
             Len(w.queue) < Prefetch[h],
             Route!Set(h, [w EXCEPT !.queue = Append(@, w.frame),
              !.frame = Route!NoFrame, !.reader = "read",
              !.asleep = Route!NotEmpty(w)]),
             UNCHANGED <<link, faults>>
      PROVE  WorkersOK' /\ LinksOK' /\ Others(h)
             /\ v.reader = "read"
             /\ v.eval = w.eval
             /\ v.queue = Append(w.queue, w.frame)
             /\ v.frame = Route!NoFrame
             /\ v.job = w.job
             /\ SameKv(v, w)
             /\ SameRelay(v, w)
             /\ SameFlags(v, w)
  <2>1. w.queue \in Seq(Work) /\ w.frame \in Work
    BY <1>0, <1>4 DEF IsWorker, WorkerRecord
  <2>2. /\ Append(w.queue, w.frame) \in Seq(Work)
        /\ Len(Append(w.queue, w.frame)) = Len(w.queue) + 1
    BY <1>0, <2>1, <1>4, AppendProperties
  <2>3. Route!NotEmpty(w) \in SUBSET {"reader", "eval"}
    BY <1>0, <2>1, <2>2, <1>4, Awake
  <2>4. PICK u : u = [w EXCEPT !.queue = Append(@, w.frame),
                  !.frame = Route!NoFrame, !.reader = "read",
                  !.asleep = Route!NotEmpty(w)]
    OBVIOUS
  <2>5. u \in WorkerRecord
    BY <1>0, <2>1, <2>2, <2>3, <2>4 DEF WorkerRecord
  <2>6. /\ u.reader = "read"
        /\ u.eval = w.eval
        /\ u.queue = Append(w.queue, w.frame)
        /\ u.frame = Route!NoFrame
        /\ u.job = w.job
        /\ SameKv(u, w)
        /\ SameRelay(u, w)
        /\ SameFlags(u, w)
    BY <1>0, <2>1, <2>2, <2>3, <2>4 DEF WorkerRecord, SameWork, SameKv, SameRelay, SameFlags
  <2>7. IsWorker(u, h)
    BY <1>0, <2>1, <2>2, <2>3, <1>4, <2>5, <2>6 DEF IsWorker, SameWork, SameKv, SameRelay
  <2>8. WorkersOK' /\ Others(h) /\ v = u
    BY <1>4, <2>4, <2>7, SetWorker DEF Others
  <2>9. LinksOK'
    BY <1>0, <2>1, <2>2, <2>3, <1>4 DEF LinksOK
  <2>. QED BY <2>6, <2>8, <2>9
<1>. QED BY <1>1, <1>2, <1>3, <1>4 DEF w

(* The evaluation in the reader's own thread is over.                    *)
LEMMA InlineDoneDoes ==
  ASSUME WorkersOK, LinksOK, NEW h \in Hop, Route!InlineDone(h)
  PROVE  LET w == worker[h]  v == worker'[h] IN
         /\ WorkersOK' /\ LinksOK' /\ Others(h)
         /\ \/ /\ w.reader = "work"
               /\ w.eval = "pop"
               /\ v.reader = "read"
               /\ v.eval = "out"
               /\ SameWork(v, w)
               /\ SameKv(v, w)
               /\ SameRelay(v, w)
               /\ SameFlags(v, w)
               /\ UNCHANGED <<link, faults>>
            \/ /\ w.reader = "work"
               /\ w.eval = "out"
               /\ v.reader = "join"
               /\ v.eval = w.eval
               /\ SameWork(v, w)
               /\ SameKv(v, w)
               /\ SameRelay(v, w)
               /\ SameFlags(v, w)
               /\ UNCHANGED <<link, faults>>
<1>. DEFINE w == worker[h]
            v == worker'[h]
<1>0. /\ IsWorker(w, h) /\ w \in WorkerRecord /\ link[h] \in Link /\ h \in Nat
      /\ (h < Hops => h + 1 \in Hop /\ link[h + 1] \in Link) /\ Prefetch[h] \in Nat
  BY Constants DEF WorkersOK, LinksOK, Hop, IsWorker
<1>1. \/ /\ w.reader = "work"
         /\ w.eval = "pop"
         /\ Route!Set(h, [w EXCEPT !.reader = "read", !.eval = "out"])
         /\ UNCHANGED <<link, faults>>
      \/ /\ w.reader = "work"
         /\ w.eval = "out"
         /\ Route!Set(h, [w EXCEPT !.reader = "join"])
         /\ UNCHANGED <<link, faults>>
  BY <1>0, Shared DEF Route!InlineDone, Route!LeaveLinks, w
<1>. HIDE DEF w
<1>2. ASSUME w.reader = "work",
             w.eval = "pop",
             Route!Set(h, [w EXCEPT !.reader = "read", !.eval = "out"]),
             UNCHANGED <<link, faults>>
      PROVE  WorkersOK' /\ LinksOK' /\ Others(h)
             /\ v.reader = "read"
             /\ v.eval = "out"
             /\ SameWork(v, w)
             /\ SameKv(v, w)
             /\ SameRelay(v, w)
             /\ SameFlags(v, w)
  <2>1. PICK u : u = [w EXCEPT !.reader = "read", !.eval = "out"]
    OBVIOUS
  <2>2. u \in WorkerRecord
    BY <1>0, <2>1 DEF WorkerRecord
  <2>3. /\ u.reader = "read"
        /\ u.eval = "out"
        /\ SameWork(u, w)
        /\ SameKv(u, w)
        /\ SameRelay(u, w)
        /\ SameFlags(u, w)
    BY <1>0, <2>1 DEF WorkerRecord, SameWork, SameKv, SameRelay, SameFlags
  <2>4. IsWorker(u, h)
    BY <1>0, <1>2, <2>2, <2>3 DEF IsWorker, SameWork, SameKv, SameRelay
  <2>5. WorkersOK' /\ Others(h) /\ v = u
    BY <1>2, <2>1, <2>4, SetWorker DEF Others
  <2>6. LinksOK'
    BY <1>0, <1>2 DEF LinksOK
  <2>. QED BY <2>3, <2>5, <2>6
<1>3. ASSUME w.reader = "work",
             w.eval = "out",
             Route!Set(h, [w EXCEPT !.reader = "join"]),
             UNCHANGED <<link, faults>>
      PROVE  WorkersOK' /\ LinksOK' /\ Others(h)
             /\ v.reader = "join"
             /\ v.eval = w.eval
             /\ SameWork(v, w)
             /\ SameKv(v, w)
             /\ SameRelay(v, w)
             /\ SameFlags(v, w)
  <2>1. PICK u : u = [w EXCEPT !.reader = "join"]
    OBVIOUS
  <2>2. u \in WorkerRecord
    BY <1>0, <2>1 DEF WorkerRecord
  <2>3. /\ u.reader = "join"
        /\ u.eval = w.eval
        /\ SameWork(u, w)
        /\ SameKv(u, w)
        /\ SameRelay(u, w)
        /\ SameFlags(u, w)
    BY <1>0, <2>1 DEF WorkerRecord, SameWork, SameKv, SameRelay, SameFlags
  <2>4. IsWorker(u, h)
    BY <1>0, <1>3, <2>2, <2>3 DEF IsWorker, SameWork, SameKv, SameRelay
  <2>5. WorkersOK' /\ Others(h) /\ v = u
    BY <1>3, <2>1, <2>4, SetWorker DEF Others
  <2>6. LinksOK'
    BY <1>0, <1>3 DEF LinksOK
  <2>. QED BY <2>3, <2>5, <2>6
<1>. QED BY <1>1, <1>2, <1>3 DEF w

(* The eval thread has ended: nothing is forwarded any more.             *)
LEMMA JoinEvalDoes ==
  ASSUME WorkersOK, LinksOK, NEW h \in Hop, Route!JoinEval(h)
  PROVE  LET w == worker[h]  v == worker'[h] IN
         /\ WorkersOK' /\ LinksOK' /\ Others(h)
         /\ \/ /\ w.reader = "join"
               /\ v.reader = "destroy"
               /\ v.eval = w.eval
               /\ SameWork(v, w)
               /\ SameKv(v, w)
               /\ SameRelay(v, w)
               /\ UNCHANGED <<link, faults>>
            \/ /\ w.reader = "join"
               /\ h < Hops
               /\ v.reader = "destroy"
               /\ v.eval = w.eval
               /\ SameWork(v, w)
               /\ SameKv(v, w)
               /\ SameRelay(v, w)
               /\ link' = [link EXCEPT ![h + 1] = Shut(@)]
               /\ faults' = faults
<1>. DEFINE w == worker[h]
            v == worker'[h]
<1>0. /\ IsWorker(w, h) /\ w \in WorkerRecord /\ link[h] \in Link /\ h \in Nat
      /\ (h < Hops => h + 1 \in Hop /\ link[h + 1] \in Link) /\ Prefetch[h] \in Nat
  BY Constants DEF WorkersOK, LinksOK, Hop, IsWorker
<1>1. \/ /\ w.reader = "join"
         /\ Route!Set(h, [w EXCEPT !.reader = "destroy"])
         /\ UNCHANGED <<link, faults>>
      \/ /\ w.reader = "join"
         /\ h < Hops
         /\ Route!Set(h, [Route!CloseForwarder(w) EXCEPT !.reader = "destroy"])
         /\ link' = [link EXCEPT ![h + 1] = Shut(@)]
         /\ faults' = faults
  BY <1>0, Shared DEF Route!JoinEval, w, IsWorker
<1>. HIDE DEF w
<1>2. ASSUME w.reader = "join",
             Route!Set(h, [w EXCEPT !.reader = "destroy"]),
             UNCHANGED <<link, faults>>
      PROVE  WorkersOK' /\ LinksOK' /\ Others(h)
             /\ v.reader = "destroy"
             /\ v.eval = w.eval
             /\ SameWork(v, w)
             /\ SameKv(v, w)
             /\ SameRelay(v, w)
  <2>1. PICK u : u = [w EXCEPT !.reader = "destroy"]
    OBVIOUS
  <2>2. u \in WorkerRecord
    BY <1>0, <2>1 DEF WorkerRecord
  <2>3. /\ u.reader = "destroy"
        /\ u.eval = w.eval
        /\ SameWork(u, w)
        /\ SameKv(u, w)
        /\ SameRelay(u, w)
    BY <1>0, <2>1 DEF WorkerRecord, SameWork, SameKv, SameRelay, SameFlags
  <2>4. IsWorker(u, h)
    BY <1>0, <1>2, <2>2, <2>3 DEF IsWorker, SameWork, SameKv, SameRelay
  <2>5. WorkersOK' /\ Others(h) /\ v = u
    BY <1>2, <2>1, <2>4, SetWorker DEF Others
  <2>6. LinksOK'
    BY <1>0, <1>2 DEF LinksOK
  <2>. QED BY <2>3, <2>5, <2>6
<1>3. ASSUME w.reader = "join",
             h < Hops,
             Route!Set(h, [Route!CloseForwarder(w) EXCEPT !.reader = "destroy"]),
             link' = [link EXCEPT ![h + 1] = Shut(@)],
             faults' = faults
      PROVE  WorkersOK' /\ LinksOK' /\ Others(h)
             /\ v.reader = "destroy"
             /\ v.eval = w.eval
             /\ SameWork(v, w)
             /\ SameKv(v, w)
             /\ SameRelay(v, w)
  <2>1. PICK c : c = Route!CloseForwarder(w)
    OBVIOUS
  <2>2. /\ c \in WorkerRecord /\ c.reader = w.reader /\ c.eval = w.eval
        /\ SameWork(c, w) /\ SameKv(c, w) /\ SameRelay(c, w)
    BY <1>0, <2>1, ClosedWorker
  <2>3. PICK u : u = [c EXCEPT !.reader = "destroy"]
    OBVIOUS
  <2>4. u \in WorkerRecord
    BY <2>2, <2>3 DEF WorkerRecord
  <2>5. /\ u.reader = "destroy"
        /\ u.eval = w.eval
        /\ SameWork(u, w)
        /\ SameKv(u, w)
        /\ SameRelay(u, w)
    BY <1>0, <2>1, <2>2, <2>3 DEF WorkerRecord, SameWork, SameKv, SameRelay, SameFlags
  <2>6. IsWorker(u, h)
    BY <1>0, <2>1, <2>2, <1>3, <2>4, <2>5 DEF IsWorker, SameWork, SameKv, SameRelay
  <2>7. WorkersOK' /\ Others(h) /\ v = u
    BY <1>3, <2>1, <2>2, <2>3, <2>6, SetWorker DEF Others
  <2>8. LinksOK'
    BY <1>0, <2>1, <2>2, <1>3, LinkSent DEF LinksOK
  <2>. QED BY <2>5, <2>7, <2>8
<1>. QED BY <1>1, <1>2, <1>3 DEF w

(* The relay has ended: the connection is closed.                        *)
LEMMA JoinRelayDoes ==
  ASSUME WorkersOK, LinksOK, NEW h \in Hop, Route!JoinRelay(h)
  PROVE  LET w == worker[h]  v == worker'[h] IN
         /\ WorkersOK' /\ LinksOK' /\ Others(h)
         /\ w.reader = "destroy"
         /\ v.reader = "gone"
         /\ v.eval = w.eval
         /\ SameWork(v, w)
         /\ SameKv(v, w)
         /\ v.relay = w.relay
         /\ v.answer = w.answer
         /\ v.pending = <<>>
         /\ link' = [link EXCEPT ![h] = Shut(@)]
         /\ faults' = faults
<1>. DEFINE w == worker[h]
            v == worker'[h]
<1>0. /\ IsWorker(w, h) /\ w \in WorkerRecord /\ link[h] \in Link /\ h \in Nat
      /\ (h < Hops => h + 1 \in Hop /\ link[h + 1] \in Link) /\ Prefetch[h] \in Nat
  BY Constants DEF WorkersOK, LinksOK, Hop, IsWorker
<1>1. /\ w.reader = "destroy"
      /\ Route!Set(h, [w EXCEPT !.reader = "gone", !.pending = <<>>])
      /\ link' = [link EXCEPT ![h] = Shut(@)]
      /\ faults' = faults
  BY <1>0, Shared DEF Route!JoinRelay, w
<1>. HIDE DEF w
<1>2. PICK u : u = [w EXCEPT !.reader = "gone", !.pending = <<>>]
  OBVIOUS
<1>3. u \in WorkerRecord
  BY <1>0, <1>2, EmptyQueues DEF WorkerRecord
<1>4. /\ u.reader = "gone"
      /\ u.eval = w.eval
      /\ SameWork(u, w)
      /\ SameKv(u, w)
      /\ u.relay = w.relay
      /\ u.answer = w.answer
      /\ u.pending = <<>>
  BY <1>0, <1>2 DEF WorkerRecord, SameWork, SameKv, SameRelay, SameFlags
<1>5. IsWorker(u, h)
  BY <1>0, <1>1, <1>3, <1>4, EmptyQueues, Constants DEF IsWorker, SameWork, SameKv, SameRelay
<1>6. WorkersOK' /\ Others(h) /\ v = u
  BY <1>1, <1>2, <1>5, SetWorker DEF Others
<1>7. LinksOK'
  BY <1>0, <1>1, LinkSent DEF LinksOK
<1>. QED BY <1>0, <1>1, <1>4, <1>6, <1>7 DEF w

(* What a worker answers, and what it hands on.                            *)
AnswerOf(w) == [id |-> w.job.id, of |-> Route!Output(w),
                kind |-> IF w.job.id < Count THEN "ack" ELSE "final"]
ForwardOf(w) == [id |-> w.job.id, hidden |-> Route!Output(w)]

(* Where the eval thread goes with a chunk it evaluated.                   *)
After(h) == IF h < Hops THEN "open" ELSE "answer"

LEMMA JobIsWork ==
  ASSUME NEW w, NEW h \in Hop, IsWorker(w, h), w.eval \notin {"pop", "out"}
  PROVE  w.job \in Work /\ w.job.id \in Chunk
<1>1. w.job \in Work
  BY DEF IsWorker, WorkerRecord
<1>. QED BY <1>1 DEF Work

LEMMA AnswerIsResult ==
  ASSUME NEW w, w.job.id \in Chunk
  PROVE  AnswerOf(w) \in Result /\ ForwardOf(w) \in Work
<1>1. Route!Output(w) \in Content
  BY Constants DEF Route!Output, Route!Torn, Chunk, Content
<1>. QED BY <1>1 DEF AnswerOf, ForwardOf, Result, Work

LEMMA ErrorIsResult ==
  ASSUME NEW id \in Chunk
  PROVE  Route!Error(id) \in Result
  BY Constants DEF Route!Error, Route!Torn, Content, Result

LEMMA HeadOfWork ==
  ASSUME NEW q \in Seq(Work), q # <<>>
  PROVE  /\ Head(q) \in Work /\ Head(q) # Route!NoFrame
         /\ Tail(q) \in Seq(Work) /\ Len(Tail(q)) <= Len(q) /\ Len(Tail(q)) \in Nat
         /\ Len(q) \in Nat
<1>1. Head(q) \in Work /\ Tail(q) \in Seq(Work) /\ Len(Tail(q)) = Len(q) - 1
  BY HeadTailProperties
<1>2. Head(q) # Route!NoFrame
  BY <1>1, Constants DEF Work, Route!NoFrame, Chunk
<1>3. Len(q) \in Nat /\ Len(Tail(q)) \in Nat
  BY <1>1, LenProperties
<1>. QED BY <1>1, <1>2, <1>3

(* The eval thread ends, waits, or takes the first frame of its queue.   *)
LEMMA PopJobDoes ==
  ASSUME WorkersOK, LinksOK, NEW h \in Hop, Route!PopJob(h)
  PROVE  LET w == worker[h]  v == worker'[h] IN
         /\ WorkersOK' /\ LinksOK' /\ Others(h)
         /\ \/ /\ w.eval = "pop"
               /\ w.canceled \/ (w.queue = <<>> /\ w.closed)
               /\ v.reader = w.reader
               /\ v.eval = "out"
               /\ SameWork(v, w)
               /\ SameKv(v, w)
               /\ SameRelay(v, w)
               /\ SameFlags(v, w)
               /\ UNCHANGED <<link, faults>>
            \/ /\ w.eval = "pop"
               /\ v.reader = w.reader
               /\ v.eval = w.eval
               /\ SameWork(v, w)
               /\ SameKv(v, w)
               /\ SameRelay(v, w)
               /\ SameFlags(v, w)
               /\ UNCHANGED <<link, faults>>
            \/ /\ w.eval = "pop"
               /\ w.queue # <<>>
               /\ Prefetch[h] # 0
               /\ ~w.canceled
               /\ v.reader = w.reader
               /\ v.eval = "eval"
               /\ v.job = Head(w.queue)
               /\ v.queue = Tail(w.queue)
               /\ v.frame = w.frame
               /\ SameKv(v, w)
               /\ SameRelay(v, w)
               /\ SameFlags(v, w)
               /\ UNCHANGED <<link, faults>>
<1>. DEFINE w == worker[h]
            v == worker'[h]
<1>0. /\ IsWorker(w, h) /\ w \in WorkerRecord /\ link[h] \in Link /\ h \in Nat
      /\ (h < Hops => h + 1 \in Hop /\ link[h + 1] \in Link) /\ Prefetch[h] \in Nat
  BY Constants DEF WorkersOK, LinksOK, Hop, IsWorker
<1>1. \/ /\ w.eval = "pop"
         /\ w.canceled \/ (w.queue = <<>> /\ w.closed)
         /\ Route!Set(h, [w EXCEPT !.eval = "out"])
         /\ UNCHANGED <<link, faults>>
      \/ /\ w.eval = "pop"
         /\ Route!Set(h, [w EXCEPT !.asleep = @ \cup {"eval"}])
         /\ UNCHANGED <<link, faults>>
      \/ /\ w.eval = "pop"
         /\ w.queue # <<>>
         /\ Prefetch[h] # 0
         /\ ~w.canceled
         /\ Route!Set(h, [w EXCEPT !.eval = "eval", !.job = Head(w.queue),
          !.queue = Tail(@), !.asleep = Route!NotFull(w)])
         /\ UNCHANGED <<link, faults>>
  BY <1>0, Shared DEF Route!PopJob, Route!LeaveLinks, Route!Inline, w
<1>. HIDE DEF w
<1>2. ASSUME w.eval = "pop",
             w.canceled \/ (w.queue = <<>> /\ w.closed),
             Route!Set(h, [w EXCEPT !.eval = "out"]),
             UNCHANGED <<link, faults>>
      PROVE  WorkersOK' /\ LinksOK' /\ Others(h)
             /\ v.reader = w.reader
             /\ v.eval = "out"
             /\ SameWork(v, w)
             /\ SameKv(v, w)
             /\ SameRelay(v, w)
             /\ SameFlags(v, w)
  <2>1. PICK u : u = [w EXCEPT !.eval = "out"]
    OBVIOUS
  <2>2. u \in WorkerRecord
    BY <1>0, <2>1 DEF WorkerRecord
  <2>3. /\ u.reader = w.reader
        /\ u.eval = "out"
        /\ SameWork(u, w)
        /\ SameKv(u, w)
        /\ SameRelay(u, w)
        /\ SameFlags(u, w)
    BY <1>0, <2>1 DEF WorkerRecord, SameWork, SameKv, SameRelay, SameFlags
  <2>4. IsWorker(u, h)
    BY <1>0, <1>2, <2>2, <2>3 DEF IsWorker, SameWork, SameKv, SameRelay
  <2>5. WorkersOK' /\ Others(h) /\ v = u
    BY <1>2, <2>1, <2>4, SetWorker DEF Others
  <2>6. LinksOK'
    BY <1>0, <1>2 DEF LinksOK
  <2>. QED BY <2>3, <2>5, <2>6
<1>3. ASSUME w.eval = "pop",
             Route!Set(h, [w EXCEPT !.asleep = @ \cup {"eval"}]),
             UNCHANGED <<link, faults>>
      PROVE  WorkersOK' /\ LinksOK' /\ Others(h)
             /\ v.reader = w.reader
             /\ v.eval = w.eval
             /\ SameWork(v, w)
             /\ SameKv(v, w)
             /\ SameRelay(v, w)
             /\ SameFlags(v, w)
  <2>1. w.asleep \cup {"eval"} \in SUBSET {"reader", "eval"}
    BY <1>0, <1>3, Awake
  <2>2. PICK u : u = [w EXCEPT !.asleep = @ \cup {"eval"}]
    OBVIOUS
  <2>3. u \in WorkerRecord
    BY <1>0, <2>1, <2>2 DEF WorkerRecord
  <2>4. /\ u.reader = w.reader
        /\ u.eval = w.eval
        /\ SameWork(u, w)
        /\ SameKv(u, w)
        /\ SameRelay(u, w)
        /\ SameFlags(u, w)
    BY <1>0, <2>1, <2>2 DEF WorkerRecord, SameWork, SameKv, SameRelay, SameFlags
  <2>5. IsWorker(u, h)
    BY <1>0, <2>1, <1>3, <2>3, <2>4 DEF IsWorker, SameWork, SameKv, SameRelay
  <2>6. WorkersOK' /\ Others(h) /\ v = u
    BY <1>3, <2>2, <2>5, SetWorker DEF Others
  <2>7. LinksOK'
    BY <1>0, <2>1, <1>3 DEF LinksOK
  <2>. QED BY <2>4, <2>6, <2>7
<1>4. ASSUME w.eval = "pop",
             w.queue # <<>>,
             Prefetch[h] # 0,
             ~w.canceled,
             Route!Set(h, [w EXCEPT !.eval = "eval", !.job = Head(w.queue),
              !.queue = Tail(@), !.asleep = Route!NotFull(w)]),
             UNCHANGED <<link, faults>>
      PROVE  WorkersOK' /\ LinksOK' /\ Others(h)
             /\ v.reader = w.reader
             /\ v.eval = "eval"
             /\ v.job = Head(w.queue)
             /\ v.queue = Tail(w.queue)
             /\ v.frame = w.frame
             /\ SameKv(v, w)
             /\ SameRelay(v, w)
             /\ SameFlags(v, w)
  <2>1. w.queue \in Seq(Work)
    BY <1>0, <1>4 DEF WorkerRecord
  <2>2. /\ Head(w.queue) \in Work /\ Head(w.queue) # Route!NoFrame
        /\ Tail(w.queue) \in Seq(Work) /\ Len(Tail(w.queue)) <= Len(w.queue)
    BY <1>0, <2>1, <1>4, HeadOfWork
  <2>3. Route!NotFull(w) \in SUBSET {"reader", "eval"}
    BY <1>0, <2>1, <2>2, <1>4, Awake
  <2>4. PICK u : u = [w EXCEPT !.eval = "eval", !.job = Head(w.queue),
                  !.queue = Tail(@), !.asleep = Route!NotFull(w)]
    OBVIOUS
  <2>5. u \in WorkerRecord
    BY <1>0, <2>1, <2>2, <2>3, <2>4 DEF WorkerRecord
  <2>6. /\ u.reader = w.reader
        /\ u.eval = "eval"
        /\ u.job = Head(w.queue)
        /\ u.queue = Tail(w.queue)
        /\ u.frame = w.frame
        /\ SameKv(u, w)
        /\ SameRelay(u, w)
        /\ SameFlags(u, w)
    BY <1>0, <2>1, <2>2, <2>3, <2>4 DEF WorkerRecord, SameWork, SameKv, SameRelay, SameFlags
  <2>7. IsWorker(u, h)
    BY <1>0, <2>1, <2>2, <2>3, <1>4, <2>5, <2>6 DEF IsWorker, SameWork, SameKv, SameRelay
  <2>8. WorkersOK' /\ Others(h) /\ v = u
    BY <1>4, <2>4, <2>7, SetWorker DEF Others
  <2>9. LinksOK'
    BY <1>0, <2>1, <2>2, <2>3, <1>4 DEF LinksOK
  <2>. QED BY <2>6, <2>8, <2>9
<1>. QED BY <1>1, <1>2, <1>3, <1>4 DEF w

(* A frame is evaluated, turned down, or its evaluation fails.           *)
LEMMA EvaluateDoes ==
  ASSUME WorkersOK, LinksOK, NEW h \in Hop, Route!Evaluate(h)
  PROVE  LET w == worker[h]  v == worker'[h] IN
         /\ WorkersOK' /\ LinksOK' /\ Others(h)
         /\ \/ /\ w.eval = "eval"
               /\ Route!PrefixMatches(w)
               /\ v.reader = w.reader
               /\ v.eval = After(h)
               /\ SameWork(v, w)
               /\ v.kv = Route!Extended(w)
               /\ v.hash = w.job.id
               /\ SameRelay(v, w)
               /\ SameFlags(v, w)
               /\ UNCHANGED <<link, faults>>
            \/ /\ w.eval = "eval"
               /\ ~Route!PrefixMatches(w)
               /\ v.reader = w.reader
               /\ v.eval = "error"
               /\ SameWork(v, w)
               /\ SameKv(v, w)
               /\ SameRelay(v, w)
               /\ SameFlags(v, w)
               /\ UNCHANGED <<link, faults>>
            \/ /\ w.eval = "eval"
               /\ Route!PrefixMatches(w)
               /\ v.reader = w.reader
               /\ v.eval = "error"
               /\ SameWork(v, w)
               /\ v.kv = Route!Wrong
               /\ v.hash = Route!NoHash
               /\ SameRelay(v, w)
               /\ SameFlags(v, w)
               /\ link' = link
               /\ Fault
<1>. DEFINE w == worker[h]
            v == worker'[h]
<1>0. /\ IsWorker(w, h) /\ w \in WorkerRecord /\ link[h] \in Link /\ h \in Nat
      /\ (h < Hops => h + 1 \in Hop /\ link[h + 1] \in Link) /\ Prefetch[h] \in Nat
  BY Constants DEF WorkersOK, LinksOK, Hop, IsWorker
<1>1. \/ /\ w.eval = "eval"
         /\ Route!PrefixMatches(w)
         /\ Route!Set(h, [w EXCEPT !.kv = Route!Extended(w), !.hash = w.job.id,
          !.eval = After(h)])
         /\ UNCHANGED <<link, faults>>
      \/ /\ w.eval = "eval"
         /\ ~Route!PrefixMatches(w)
         /\ Route!Set(h, [w EXCEPT !.eval = "error"])
         /\ UNCHANGED <<link, faults>>
      \/ /\ w.eval = "eval"
         /\ Route!PrefixMatches(w)
         /\ Route!Set(h, [w EXCEPT !.kv = Route!Wrong, !.hash = Route!NoHash,
          !.eval = "error"])
         /\ link' = link
         /\ Fault
  BY <1>0, Shared DEF Route!Evaluate, Route!HasNext, After, w
<1>. HIDE DEF w
<1>2. ASSUME w.eval = "eval",
             Route!PrefixMatches(w),
             Route!Set(h, [w EXCEPT !.kv = Route!Extended(w), !.hash = w.job.id,
              !.eval = After(h)]),
             UNCHANGED <<link, faults>>
      PROVE  WorkersOK' /\ LinksOK' /\ Others(h)
             /\ v.reader = w.reader
             /\ v.eval = After(h)
             /\ SameWork(v, w)
             /\ v.kv = Route!Extended(w)
             /\ v.hash = w.job.id
             /\ SameRelay(v, w)
             /\ SameFlags(v, w)
  <2>1. w.job \in Work /\ w.job.id \in Chunk
    BY <1>0, <1>2, JobIsWork
  <2>2. \/ After(h) = "open" /\ h < Hops
        \/ After(h) = "answer" /\ h = Hops
    BY <1>0, <2>1, <1>2, Constants DEF After, Hop
  <2>3. /\ Route!Extended(w) \in Content \cup {Route!Wrong}
        /\ w.job.id \in Content \cup {Route!NoHash}
    BY <1>0, <2>1, <2>2, <1>2, Constants DEF Route!Extended, Chunk, Content
  <2>4. PICK u : u = [w EXCEPT !.kv = Route!Extended(w), !.hash = w.job.id,
                  !.eval = After(h)]
    OBVIOUS
  <2>5. u \in WorkerRecord
    BY <1>0, <2>1, <2>2, <2>3, <2>4 DEF WorkerRecord
  <2>6. /\ u.reader = w.reader
        /\ u.eval = After(h)
        /\ SameWork(u, w)
        /\ u.kv = Route!Extended(w)
        /\ u.hash = w.job.id
        /\ SameRelay(u, w)
        /\ SameFlags(u, w)
    BY <1>0, <2>1, <2>2, <2>3, <2>4 DEF WorkerRecord, SameWork, SameKv, SameRelay, SameFlags
  <2>7. IsWorker(u, h)
    BY <1>0, <2>1, <2>2, <2>3, <1>2, <2>5, <2>6 DEF IsWorker, SameWork, SameKv, SameRelay
  <2>8. WorkersOK' /\ Others(h) /\ v = u
    BY <1>2, <2>4, <2>7, SetWorker DEF Others
  <2>9. LinksOK'
    BY <1>0, <2>1, <2>2, <2>3, <1>2 DEF LinksOK
  <2>. QED BY <2>6, <2>8, <2>9
<1>3. ASSUME w.eval = "eval",
             ~Route!PrefixMatches(w),
             Route!Set(h, [w EXCEPT !.eval = "error"]),
             UNCHANGED <<link, faults>>
      PROVE  WorkersOK' /\ LinksOK' /\ Others(h)
             /\ v.reader = w.reader
             /\ v.eval = "error"
             /\ SameWork(v, w)
             /\ SameKv(v, w)
             /\ SameRelay(v, w)
             /\ SameFlags(v, w)
  <2>1. PICK u : u = [w EXCEPT !.eval = "error"]
    OBVIOUS
  <2>2. u \in WorkerRecord
    BY <1>0, <2>1 DEF WorkerRecord
  <2>3. /\ u.reader = w.reader
        /\ u.eval = "error"
        /\ SameWork(u, w)
        /\ SameKv(u, w)
        /\ SameRelay(u, w)
        /\ SameFlags(u, w)
    BY <1>0, <2>1 DEF WorkerRecord, SameWork, SameKv, SameRelay, SameFlags
  <2>4. IsWorker(u, h)
    BY <1>0, <1>3, <2>2, <2>3 DEF IsWorker, SameWork, SameKv, SameRelay
  <2>5. WorkersOK' /\ Others(h) /\ v = u
    BY <1>3, <2>1, <2>4, SetWorker DEF Others
  <2>6. LinksOK'
    BY <1>0, <1>3 DEF LinksOK
  <2>. QED BY <2>3, <2>5, <2>6
<1>4. ASSUME w.eval = "eval",
             Route!PrefixMatches(w),
             Route!Set(h, [w EXCEPT !.kv = Route!Wrong, !.hash = Route!NoHash,
              !.eval = "error"]),
             link' = link,
             Fault
      PROVE  WorkersOK' /\ LinksOK' /\ Others(h)
             /\ v.reader = w.reader
             /\ v.eval = "error"
             /\ SameWork(v, w)
             /\ v.kv = Route!Wrong
             /\ v.hash = Route!NoHash
             /\ SameRelay(v, w)
             /\ SameFlags(v, w)
  <2>1. PICK u : u = [w EXCEPT !.kv = Route!Wrong, !.hash = Route!NoHash,
                  !.eval = "error"]
    OBVIOUS
  <2>2. u \in WorkerRecord
    BY <1>0, <2>1 DEF WorkerRecord
  <2>3. /\ u.reader = w.reader
        /\ u.eval = "error"
        /\ SameWork(u, w)
        /\ u.kv = Route!Wrong
        /\ u.hash = Route!NoHash
        /\ SameRelay(u, w)
        /\ SameFlags(u, w)
    BY <1>0, <2>1 DEF WorkerRecord, SameWork, SameKv, SameRelay, SameFlags
  <2>4. IsWorker(u, h)
    BY <1>0, <1>4, <2>2, <2>3 DEF IsWorker, SameWork, SameKv, SameRelay
  <2>5. WorkersOK' /\ Others(h) /\ v = u
    BY <1>4, <2>1, <2>4, SetWorker DEF Others
  <2>6. LinksOK'
    BY <1>0, <1>4, FaultTypes DEF LinksOK
  <2>. QED BY <2>3, <2>5, <2>6
<1>. QED BY <1>1, <1>2, <1>3, <1>4 DEF w

(* The last worker writes its answer, or cannot.                         *)
LEMMA AnswerDoes ==
  ASSUME WorkersOK, LinksOK, NEW h \in Hop, Route!Answer(h)
  PROVE  LET w == worker[h]  v == worker'[h] IN
         /\ WorkersOK' /\ LinksOK' /\ Others(h)
         /\ \/ /\ w.eval = "answer"
               /\ v.reader = w.reader
               /\ v.eval = "pop"
               /\ SameWork(v, w)
               /\ SameKv(v, w)
               /\ SameRelay(v, w)
               /\ SameFlags(v, w)
               /\ link' = [link EXCEPT ![h] = ResultSent(@, AnswerOf(w))]
               /\ faults' = faults
            \/ /\ w.eval = "answer"
               /\ ~link[h].open
               /\ v.reader = w.reader
               /\ v.eval = "fail"
               /\ SameWork(v, w)
               /\ SameKv(v, w)
               /\ SameRelay(v, w)
               /\ SameFlags(v, w)
               /\ UNCHANGED <<link, faults>>
<1>. DEFINE w == worker[h]
            v == worker'[h]
<1>0. /\ IsWorker(w, h) /\ w \in WorkerRecord /\ link[h] \in Link /\ h \in Nat
      /\ (h < Hops => h + 1 \in Hop /\ link[h + 1] \in Link) /\ Prefetch[h] \in Nat
  BY Constants DEF WorkersOK, LinksOK, Hop, IsWorker
<1>1. \/ /\ w.eval = "answer"
         /\ Route!Set(h, [w EXCEPT !.eval = "pop"])
         /\ link' = [link EXCEPT ![h] = ResultSent(@, AnswerOf(w))]
         /\ faults' = faults
      \/ /\ w.eval = "answer"
         /\ ~link[h].open
         /\ Route!Set(h, [w EXCEPT !.eval = "fail"])
         /\ UNCHANGED <<link, faults>>
  BY <1>0, Shared DEF Route!Answer, AnswerOf, w
<1>. HIDE DEF w
<1>2. ASSUME w.eval = "answer",
             Route!Set(h, [w EXCEPT !.eval = "pop"]),
             link' = [link EXCEPT ![h] = ResultSent(@, AnswerOf(w))],
             faults' = faults
      PROVE  WorkersOK' /\ LinksOK' /\ Others(h)
             /\ v.reader = w.reader
             /\ v.eval = "pop"
             /\ SameWork(v, w)
             /\ SameKv(v, w)
             /\ SameRelay(v, w)
             /\ SameFlags(v, w)
  <2>1. w.job \in Work /\ w.job.id \in Chunk
    BY <1>0, <1>2, JobIsWork
  <2>2. AnswerOf(w) \in Result
    BY <1>0, <2>1, <1>2, AnswerIsResult
  <2>3. PICK u : u = [w EXCEPT !.eval = "pop"]
    OBVIOUS
  <2>4. u \in WorkerRecord
    BY <1>0, <2>1, <2>2, <2>3 DEF WorkerRecord
  <2>5. /\ u.reader = w.reader
        /\ u.eval = "pop"
        /\ SameWork(u, w)
        /\ SameKv(u, w)
        /\ SameRelay(u, w)
        /\ SameFlags(u, w)
    BY <1>0, <2>1, <2>2, <2>3 DEF WorkerRecord, SameWork, SameKv, SameRelay, SameFlags
  <2>6. IsWorker(u, h)
    BY <1>0, <2>1, <2>2, <1>2, <2>4, <2>5 DEF IsWorker, SameWork, SameKv, SameRelay
  <2>7. WorkersOK' /\ Others(h) /\ v = u
    BY <1>2, <2>3, <2>6, SetWorker DEF Others
  <2>8. LinksOK'
    BY <1>0, <2>1, <2>2, <1>2, LinkSent DEF LinksOK
  <2>. QED BY <2>5, <2>7, <2>8
<1>3. ASSUME w.eval = "answer",
             ~link[h].open,
             Route!Set(h, [w EXCEPT !.eval = "fail"]),
             UNCHANGED <<link, faults>>
      PROVE  WorkersOK' /\ LinksOK' /\ Others(h)
             /\ v.reader = w.reader
             /\ v.eval = "fail"
             /\ SameWork(v, w)
             /\ SameKv(v, w)
             /\ SameRelay(v, w)
             /\ SameFlags(v, w)
  <2>1. PICK u : u = [w EXCEPT !.eval = "fail"]
    OBVIOUS
  <2>2. u \in WorkerRecord
    BY <1>0, <2>1 DEF WorkerRecord
  <2>3. /\ u.reader = w.reader
        /\ u.eval = "fail"
        /\ SameWork(u, w)
        /\ SameKv(u, w)
        /\ SameRelay(u, w)
        /\ SameFlags(u, w)
    BY <1>0, <2>1 DEF WorkerRecord, SameWork, SameKv, SameRelay, SameFlags
  <2>4. IsWorker(u, h)
    BY <1>0, <1>3, <2>2, <2>3 DEF IsWorker, SameWork, SameKv, SameRelay
  <2>5. WorkersOK' /\ Others(h) /\ v = u
    BY <1>3, <2>1, <2>4, SetWorker DEF Others
  <2>6. LinksOK'
    BY <1>0, <1>3 DEF LinksOK
  <2>. QED BY <2>3, <2>5, <2>6
<1>. QED BY <1>1, <1>2, <1>3 DEF w

(* An error is answered, or cannot be.                                   *)
LEMMA AnswerErrorDoes ==
  ASSUME WorkersOK, LinksOK, NEW h \in Hop, Route!AnswerError(h)
  PROVE  LET w == worker[h]  v == worker'[h] IN
         /\ WorkersOK' /\ LinksOK' /\ Others(h)
         /\ \/ /\ w.eval = "error"
               /\ v.reader = w.reader
               /\ v.eval = "pop"
               /\ SameWork(v, w)
               /\ SameKv(v, w)
               /\ SameRelay(v, w)
               /\ SameFlags(v, w)
               /\ link' = [link EXCEPT ![h] = ResultSent(@, Route!Error(w.job.id))]
               /\ faults' = faults
            \/ /\ w.eval = "error"
               /\ ~link[h].open
               /\ v.reader = w.reader
               /\ v.eval = "fail"
               /\ SameWork(v, w)
               /\ SameKv(v, w)
               /\ SameRelay(v, w)
               /\ SameFlags(v, w)
               /\ UNCHANGED <<link, faults>>
<1>. DEFINE w == worker[h]
            v == worker'[h]
<1>0. /\ IsWorker(w, h) /\ w \in WorkerRecord /\ link[h] \in Link /\ h \in Nat
      /\ (h < Hops => h + 1 \in Hop /\ link[h + 1] \in Link) /\ Prefetch[h] \in Nat
  BY Constants DEF WorkersOK, LinksOK, Hop, IsWorker
<1>1. \/ /\ w.eval = "error"
         /\ Route!Set(h, [w EXCEPT !.eval = "pop"])
         /\ link' = [link EXCEPT ![h] = ResultSent(@, Route!Error(w.job.id))]
         /\ faults' = faults
      \/ /\ w.eval = "error"
         /\ ~link[h].open
         /\ Route!Set(h, [w EXCEPT !.eval = "fail"])
         /\ UNCHANGED <<link, faults>>
  BY <1>0, Shared DEF Route!AnswerError, w
<1>. HIDE DEF w
<1>2. ASSUME w.eval = "error",
             Route!Set(h, [w EXCEPT !.eval = "pop"]),
             link' = [link EXCEPT ![h] = ResultSent(@, Route!Error(w.job.id))],
             faults' = faults
      PROVE  WorkersOK' /\ LinksOK' /\ Others(h)
             /\ v.reader = w.reader
             /\ v.eval = "pop"
             /\ SameWork(v, w)
             /\ SameKv(v, w)
             /\ SameRelay(v, w)
             /\ SameFlags(v, w)
  <2>1. w.job \in Work /\ w.job.id \in Chunk
    BY <1>0, <1>2, JobIsWork
  <2>2. Route!Error(w.job.id) \in Result
    BY <1>0, <2>1, <1>2, ErrorIsResult
  <2>3. PICK u : u = [w EXCEPT !.eval = "pop"]
    OBVIOUS
  <2>4. u \in WorkerRecord
    BY <1>0, <2>1, <2>2, <2>3 DEF WorkerRecord
  <2>5. /\ u.reader = w.reader
        /\ u.eval = "pop"
        /\ SameWork(u, w)
        /\ SameKv(u, w)
        /\ SameRelay(u, w)
        /\ SameFlags(u, w)
    BY <1>0, <2>1, <2>2, <2>3 DEF WorkerRecord, SameWork, SameKv, SameRelay, SameFlags
  <2>6. IsWorker(u, h)
    BY <1>0, <2>1, <2>2, <1>2, <2>4, <2>5 DEF IsWorker, SameWork, SameKv, SameRelay
  <2>7. WorkersOK' /\ Others(h) /\ v = u
    BY <1>2, <2>3, <2>6, SetWorker DEF Others
  <2>8. LinksOK'
    BY <1>0, <2>1, <2>2, <1>2, LinkSent DEF LinksOK
  <2>. QED BY <2>5, <2>7, <2>8
<1>3. ASSUME w.eval = "error",
             ~link[h].open,
             Route!Set(h, [w EXCEPT !.eval = "fail"]),
             UNCHANGED <<link, faults>>
      PROVE  WorkersOK' /\ LinksOK' /\ Others(h)
             /\ v.reader = w.reader
             /\ v.eval = "fail"
             /\ SameWork(v, w)
             /\ SameKv(v, w)
             /\ SameRelay(v, w)
             /\ SameFlags(v, w)
  <2>1. PICK u : u = [w EXCEPT !.eval = "fail"]
    OBVIOUS
  <2>2. u \in WorkerRecord
    BY <1>0, <2>1 DEF WorkerRecord
  <2>3. /\ u.reader = w.reader
        /\ u.eval = "fail"
        /\ SameWork(u, w)
        /\ SameKv(u, w)
        /\ SameRelay(u, w)
        /\ SameFlags(u, w)
    BY <1>0, <2>1 DEF WorkerRecord, SameWork, SameKv, SameRelay, SameFlags
  <2>4. IsWorker(u, h)
    BY <1>0, <1>3, <2>2, <2>3 DEF IsWorker, SameWork, SameKv, SameRelay
  <2>5. WorkersOK' /\ Others(h) /\ v = u
    BY <1>3, <2>1, <2>4, SetWorker DEF Others
  <2>6. LinksOK'
    BY <1>0, <1>3 DEF LinksOK
  <2>. QED BY <2>3, <2>5, <2>6
<1>. QED BY <1>1, <1>2, <1>3 DEF w

(* An answer could not be written: the queue is emptied, the connection shut.*)
LEMMA EvalFailsDoes ==
  ASSUME WorkersOK, LinksOK, NEW h \in Hop, Route!EvalFails(h)
  PROVE  LET w == worker[h]  v == worker'[h] IN
         /\ WorkersOK' /\ LinksOK' /\ Others(h)
         /\ w.eval = "fail"
         /\ v.reader = w.reader
         /\ v.eval = "out"
         /\ v.queue = <<>>
         /\ v.frame = w.frame
         /\ v.job = w.job
         /\ SameKv(v, w)
         /\ SameRelay(v, w)
         /\ link' = [link EXCEPT ![h] = Shut(@)]
         /\ faults' = faults
<1>. DEFINE w == worker[h]
            v == worker'[h]
<1>0. /\ IsWorker(w, h) /\ w \in WorkerRecord /\ link[h] \in Link /\ h \in Nat
      /\ (h < Hops => h + 1 \in Hop /\ link[h + 1] \in Link) /\ Prefetch[h] \in Nat
  BY Constants DEF WorkersOK, LinksOK, Hop, IsWorker
<1>1. /\ w.eval = "fail"
      /\ Route!Set(h, [Route!CancelQueue(w) EXCEPT !.eval = "out"])
      /\ link' = [link EXCEPT ![h] = Shut(@)]
      /\ faults' = faults
  BY <1>0, Shared DEF Route!EvalFails, w
<1>. HIDE DEF w
<1>2. PICK c : c = Route!CancelQueue(w)
  OBVIOUS
<1>3. /\ c \in WorkerRecord /\ c.reader = w.reader /\ c.eval = w.eval
        /\ c.queue = <<>> /\ c.frame = w.frame /\ c.job = w.job
        /\ SameKv(c, w) /\ SameRelay(c, w) /\ c.closing = w.closing
  BY <1>0, <1>2, ClosedWorker
<1>4. PICK u : u = [c EXCEPT !.eval = "out"]
  OBVIOUS
<1>5. u \in WorkerRecord
  BY <1>3, <1>4 DEF WorkerRecord
<1>6. /\ u.reader = w.reader
      /\ u.eval = "out"
      /\ u.queue = <<>>
      /\ u.frame = w.frame
      /\ u.job = w.job
      /\ SameKv(u, w)
      /\ SameRelay(u, w)
  BY <1>0, <1>2, <1>3, <1>4 DEF WorkerRecord, SameWork, SameKv, SameRelay, SameFlags
<1>7. IsWorker(u, h)
  BY <1>0, <1>2, <1>3, <1>1, <1>5, <1>6 DEF IsWorker, SameWork, SameKv, SameRelay
<1>8. WorkersOK' /\ Others(h) /\ v = u
  BY <1>1, <1>2, <1>3, <1>4, <1>7, SetWorker DEF Others
<1>9. LinksOK'
  BY <1>0, <1>2, <1>3, <1>1, LinkSent DEF LinksOK
<1>. QED BY <1>0, <1>1, <1>6, <1>8, <1>9 DEF w

(* The forwarder is there, is started, or the next worker is not there.  *)
LEMMA GetForwarderDoes ==
  ASSUME WorkersOK, LinksOK, NEW h \in Hop, Route!GetForwarder(h)
  PROVE  LET w == worker[h]  v == worker'[h] IN
         /\ WorkersOK' /\ LinksOK' /\ Others(h)
         /\ \/ /\ w.eval = "open"
               /\ w.relay # "none"
               /\ v.reader = w.reader
               /\ v.eval = "track"
               /\ SameWork(v, w)
               /\ SameKv(v, w)
               /\ SameRelay(v, w)
               /\ SameFlags(v, w)
               /\ UNCHANGED <<link, faults>>
            \/ /\ w.eval = "open"
               /\ w.relay = "none"
               /\ v.reader = w.reader
               /\ v.eval = "track"
               /\ SameWork(v, w)
               /\ SameKv(v, w)
               /\ v.relay = "start"
               /\ v.answer = w.answer
               /\ v.pending = w.pending
               /\ SameFlags(v, w)
               /\ UNCHANGED <<link, faults>>
            \/ /\ w.eval = "open"
               /\ ~link[h + 1].open
               /\ v.reader = w.reader
               /\ v.eval = "error"
               /\ SameWork(v, w)
               /\ SameKv(v, w)
               /\ SameRelay(v, w)
               /\ SameFlags(v, w)
               /\ UNCHANGED <<link, faults>>
<1>. DEFINE w == worker[h]
            v == worker'[h]
<1>0. /\ IsWorker(w, h) /\ w \in WorkerRecord /\ link[h] \in Link /\ h \in Nat
      /\ (h < Hops => h + 1 \in Hop /\ link[h + 1] \in Link) /\ Prefetch[h] \in Nat
  BY Constants DEF WorkersOK, LinksOK, Hop, IsWorker
<1>1. \/ /\ w.eval = "open"
         /\ w.relay # "none"
         /\ Route!Set(h, [w EXCEPT !.eval = "track"])
         /\ UNCHANGED <<link, faults>>
      \/ /\ w.eval = "open"
         /\ w.relay = "none"
         /\ Route!Set(h, [w EXCEPT !.eval = "track", !.relay = "start"])
         /\ UNCHANGED <<link, faults>>
      \/ /\ w.eval = "open"
         /\ ~link[h + 1].open
         /\ Route!Set(h, [w EXCEPT !.eval = "error"])
         /\ UNCHANGED <<link, faults>>
  BY <1>0, Shared DEF Route!GetForwarder, Route!LeaveLinks, w
<1>. HIDE DEF w
<1>2. ASSUME w.eval = "open",
             w.relay # "none",
             Route!Set(h, [w EXCEPT !.eval = "track"]),
             UNCHANGED <<link, faults>>
      PROVE  WorkersOK' /\ LinksOK' /\ Others(h)
             /\ v.reader = w.reader
             /\ v.eval = "track"
             /\ SameWork(v, w)
             /\ SameKv(v, w)
             /\ SameRelay(v, w)
             /\ SameFlags(v, w)
  <2>1. PICK u : u = [w EXCEPT !.eval = "track"]
    OBVIOUS
  <2>2. u \in WorkerRecord
    BY <1>0, <2>1 DEF WorkerRecord
  <2>3. /\ u.reader = w.reader
        /\ u.eval = "track"
        /\ SameWork(u, w)
        /\ SameKv(u, w)
        /\ SameRelay(u, w)
        /\ SameFlags(u, w)
    BY <1>0, <2>1 DEF WorkerRecord, SameWork, SameKv, SameRelay, SameFlags
  <2>4. IsWorker(u, h)
    BY <1>0, <1>2, <2>2, <2>3 DEF IsWorker, SameWork, SameKv, SameRelay
  <2>5. WorkersOK' /\ Others(h) /\ v = u
    BY <1>2, <2>1, <2>4, SetWorker DEF Others
  <2>6. LinksOK'
    BY <1>0, <1>2 DEF LinksOK
  <2>. QED BY <2>3, <2>5, <2>6
<1>3. ASSUME w.eval = "open",
             w.relay = "none",
             Route!Set(h, [w EXCEPT !.eval = "track", !.relay = "start"]),
             UNCHANGED <<link, faults>>
      PROVE  WorkersOK' /\ LinksOK' /\ Others(h)
             /\ v.reader = w.reader
             /\ v.eval = "track"
             /\ SameWork(v, w)
             /\ SameKv(v, w)
             /\ v.relay = "start"
             /\ v.answer = w.answer
             /\ v.pending = w.pending
             /\ SameFlags(v, w)
  <2>1. PICK u : u = [w EXCEPT !.eval = "track", !.relay = "start"]
    OBVIOUS
  <2>2. u \in WorkerRecord
    BY <1>0, <2>1 DEF WorkerRecord
  <2>3. /\ u.reader = w.reader
        /\ u.eval = "track"
        /\ SameWork(u, w)
        /\ SameKv(u, w)
        /\ u.relay = "start"
        /\ u.answer = w.answer
        /\ u.pending = w.pending
        /\ SameFlags(u, w)
    BY <1>0, <2>1 DEF WorkerRecord, SameWork, SameKv, SameRelay, SameFlags
  <2>4. IsWorker(u, h)
    BY <1>0, <1>3, <2>2, <2>3 DEF IsWorker, SameWork, SameKv, SameRelay
  <2>5. WorkersOK' /\ Others(h) /\ v = u
    BY <1>3, <2>1, <2>4, SetWorker DEF Others
  <2>6. LinksOK'
    BY <1>0, <1>3 DEF LinksOK
  <2>. QED BY <2>3, <2>5, <2>6
<1>4. ASSUME w.eval = "open",
             ~link[h + 1].open,
             Route!Set(h, [w EXCEPT !.eval = "error"]),
             UNCHANGED <<link, faults>>
      PROVE  WorkersOK' /\ LinksOK' /\ Others(h)
             /\ v.reader = w.reader
             /\ v.eval = "error"
             /\ SameWork(v, w)
             /\ SameKv(v, w)
             /\ SameRelay(v, w)
             /\ SameFlags(v, w)
  <2>1. PICK u : u = [w EXCEPT !.eval = "error"]
    OBVIOUS
  <2>2. u \in WorkerRecord
    BY <1>0, <2>1 DEF WorkerRecord
  <2>3. /\ u.reader = w.reader
        /\ u.eval = "error"
        /\ SameWork(u, w)
        /\ SameKv(u, w)
        /\ SameRelay(u, w)
        /\ SameFlags(u, w)
    BY <1>0, <2>1 DEF WorkerRecord, SameWork, SameKv, SameRelay, SameFlags
  <2>4. IsWorker(u, h)
    BY <1>0, <1>4, <2>2, <2>3 DEF IsWorker, SameWork, SameKv, SameRelay
  <2>5. WorkersOK' /\ Others(h) /\ v = u
    BY <1>4, <2>1, <2>4, SetWorker DEF Others
  <2>6. LinksOK'
    BY <1>0, <1>4 DEF LinksOK
  <2>. QED BY <2>3, <2>5, <2>6
<1>. QED BY <1>1, <1>2, <1>3, <1>4 DEF w

(* The request joins the queue of requests, waits, or is turned down.    *)
LEMMA TrackDoes ==
  ASSUME WorkersOK, LinksOK, NEW h \in Hop, Route!Track(h)
  PROVE  LET w == worker[h]  v == worker'[h] IN
         /\ WorkersOK' /\ LinksOK' /\ Others(h)
         /\ \/ /\ w.eval = "track"
               /\ w.closing
               /\ v.reader = w.reader
               /\ v.eval = "error"
               /\ SameWork(v, w)
               /\ SameKv(v, w)
               /\ SameRelay(v, w)
               /\ SameFlags(v, w)
               /\ UNCHANGED <<link, faults>>
            \/ /\ w.eval = "track"
               /\ v.reader = w.reader
               /\ v.eval = w.eval
               /\ SameWork(v, w)
               /\ SameKv(v, w)
               /\ SameRelay(v, w)
               /\ SameFlags(v, w)
               /\ UNCHANGED <<link, faults>>
            \/ /\ w.eval = "track"
               /\ ~w.closing
               /\ ~Route!PendingFull(w)
               /\ v.reader = w.reader
               /\ v.eval = "send"
               /\ SameWork(v, w)
               /\ SameKv(v, w)
               /\ v.relay = w.relay
               /\ v.answer = w.answer
               /\ v.pending = Append(w.pending, w.job.id)
               /\ SameFlags(v, w)
               /\ UNCHANGED <<link, faults>>
<1>. DEFINE w == worker[h]
            v == worker'[h]
<1>0. /\ IsWorker(w, h) /\ w \in WorkerRecord /\ link[h] \in Link /\ h \in Nat
      /\ (h < Hops => h + 1 \in Hop /\ link[h + 1] \in Link) /\ Prefetch[h] \in Nat
  BY Constants DEF WorkersOK, LinksOK, Hop, IsWorker
<1>1. \/ /\ w.eval = "track"
         /\ w.closing
         /\ Route!Set(h, [w EXCEPT !.eval = "error"])
         /\ UNCHANGED <<link, faults>>
      \/ /\ w.eval = "track"
         /\ Route!Set(h, [w EXCEPT !.asleep = @ \cup {"eval"}])
         /\ UNCHANGED <<link, faults>>
      \/ /\ w.eval = "track"
         /\ ~w.closing
         /\ ~Route!PendingFull(w)
         /\ Route!Set(h, [w EXCEPT !.pending = Append(@, w.job.id), !.eval = "send"])
         /\ UNCHANGED <<link, faults>>
  BY <1>0, Shared DEF Route!Track, Route!LeaveLinks, w
<1>. HIDE DEF w
<1>2. ASSUME w.eval = "track",
             w.closing,
             Route!Set(h, [w EXCEPT !.eval = "error"]),
             UNCHANGED <<link, faults>>
      PROVE  WorkersOK' /\ LinksOK' /\ Others(h)
             /\ v.reader = w.reader
             /\ v.eval = "error"
             /\ SameWork(v, w)
             /\ SameKv(v, w)
             /\ SameRelay(v, w)
             /\ SameFlags(v, w)
  <2>1. PICK u : u = [w EXCEPT !.eval = "error"]
    OBVIOUS
  <2>2. u \in WorkerRecord
    BY <1>0, <2>1 DEF WorkerRecord
  <2>3. /\ u.reader = w.reader
        /\ u.eval = "error"
        /\ SameWork(u, w)
        /\ SameKv(u, w)
        /\ SameRelay(u, w)
        /\ SameFlags(u, w)
    BY <1>0, <2>1 DEF WorkerRecord, SameWork, SameKv, SameRelay, SameFlags
  <2>4. IsWorker(u, h)
    BY <1>0, <1>2, <2>2, <2>3 DEF IsWorker, SameWork, SameKv, SameRelay
  <2>5. WorkersOK' /\ Others(h) /\ v = u
    BY <1>2, <2>1, <2>4, SetWorker DEF Others
  <2>6. LinksOK'
    BY <1>0, <1>2 DEF LinksOK
  <2>. QED BY <2>3, <2>5, <2>6
<1>3. ASSUME w.eval = "track",
             Route!Set(h, [w EXCEPT !.asleep = @ \cup {"eval"}]),
             UNCHANGED <<link, faults>>
      PROVE  WorkersOK' /\ LinksOK' /\ Others(h)
             /\ v.reader = w.reader
             /\ v.eval = w.eval
             /\ SameWork(v, w)
             /\ SameKv(v, w)
             /\ SameRelay(v, w)
             /\ SameFlags(v, w)
  <2>1. w.asleep \cup {"eval"} \in SUBSET {"reader", "eval"}
    BY <1>0, <1>3, Awake
  <2>2. PICK u : u = [w EXCEPT !.asleep = @ \cup {"eval"}]
    OBVIOUS
  <2>3. u \in WorkerRecord
    BY <1>0, <2>1, <2>2 DEF WorkerRecord
  <2>4. /\ u.reader = w.reader
        /\ u.eval = w.eval
        /\ SameWork(u, w)
        /\ SameKv(u, w)
        /\ SameRelay(u, w)
        /\ SameFlags(u, w)
    BY <1>0, <2>1, <2>2 DEF WorkerRecord, SameWork, SameKv, SameRelay, SameFlags
  <2>5. IsWorker(u, h)
    BY <1>0, <2>1, <1>3, <2>3, <2>4 DEF IsWorker, SameWork, SameKv, SameRelay
  <2>6. WorkersOK' /\ Others(h) /\ v = u
    BY <1>3, <2>2, <2>5, SetWorker DEF Others
  <2>7. LinksOK'
    BY <1>0, <2>1, <1>3 DEF LinksOK
  <2>. QED BY <2>4, <2>6, <2>7
<1>4. ASSUME w.eval = "track",
             ~w.closing,
             ~Route!PendingFull(w),
             Route!Set(h, [w EXCEPT !.pending = Append(@, w.job.id), !.eval = "send"]),
             UNCHANGED <<link, faults>>
      PROVE  WorkersOK' /\ LinksOK' /\ Others(h)
             /\ v.reader = w.reader
             /\ v.eval = "send"
             /\ SameWork(v, w)
             /\ SameKv(v, w)
             /\ v.relay = w.relay
             /\ v.answer = w.answer
             /\ v.pending = Append(w.pending, w.job.id)
             /\ SameFlags(v, w)
  <2>1. w.job \in Work /\ w.job.id \in Chunk
    BY <1>0, <1>4, JobIsWork
  <2>2. w.pending \in Seq(Chunk) /\ Forward \in Nat
    BY <1>0, <2>1, <1>4, Constants DEF WorkerRecord
  <2>3. /\ Append(w.pending, w.job.id) \in Seq(Chunk)
        /\ Len(Append(w.pending, w.job.id)) = Len(w.pending) + 1
        /\ Len(w.pending) \in Nat
    BY <1>0, <2>1, <2>2, <1>4, AppendProperties, LenProperties
  <2>4. PICK u : u = [w EXCEPT !.pending = Append(@, w.job.id), !.eval = "send"]
    OBVIOUS
  <2>5. u \in WorkerRecord
    BY <1>0, <2>1, <2>2, <2>3, <2>4 DEF WorkerRecord
  <2>6. /\ u.reader = w.reader
        /\ u.eval = "send"
        /\ SameWork(u, w)
        /\ SameKv(u, w)
        /\ u.relay = w.relay
        /\ u.answer = w.answer
        /\ u.pending = Append(w.pending, w.job.id)
        /\ SameFlags(u, w)
    BY <1>0, <2>1, <2>2, <2>3, <2>4 DEF WorkerRecord, SameWork, SameKv, SameRelay, SameFlags
  <2>7. IsWorker(u, h)
    BY <1>0, <2>1, <2>2, <2>3, <1>4, <2>5, <2>6 DEF IsWorker, SameWork, SameKv, SameRelay, Route!PendingFull
  <2>8. WorkersOK' /\ Others(h) /\ v = u
    BY <1>4, <2>4, <2>7, SetWorker DEF Others
  <2>9. LinksOK'
    BY <1>0, <2>1, <2>2, <2>3, <1>4 DEF LinksOK
  <2>. QED BY <2>6, <2>8, <2>9
<1>. QED BY <1>1, <1>2, <1>3, <1>4 DEF w

(* The chunk goes on to the next worker.                                 *)
LEMMA ForwardSendDoes ==
  ASSUME WorkersOK, LinksOK, NEW h \in Hop, Route!ForwardSend(h)
  PROVE  LET w == worker[h]  v == worker'[h] IN
         /\ WorkersOK' /\ LinksOK' /\ Others(h)
         /\ w.eval = "send"
         /\ v.reader = w.reader
         /\ v.eval = "pop"
         /\ SameWork(v, w)
         /\ SameKv(v, w)
         /\ SameRelay(v, w)
         /\ SameFlags(v, w)
         /\ \E l \in WorkSent(link[h + 1], ForwardOf(w)) : link' = [link EXCEPT ![h + 1] = l]
         /\ faults' = faults
<1>. DEFINE w == worker[h]
            v == worker'[h]
<1>0. /\ IsWorker(w, h) /\ w \in WorkerRecord /\ link[h] \in Link /\ h \in Nat
      /\ (h < Hops => h + 1 \in Hop /\ link[h + 1] \in Link) /\ Prefetch[h] \in Nat
  BY Constants DEF WorkersOK, LinksOK, Hop, IsWorker
<1>1. /\ w.eval = "send"
      /\ Route!Set(h, [w EXCEPT !.eval = "pop"])
      /\ \E l \in WorkSent(link[h + 1], ForwardOf(w)) : link' = [link EXCEPT ![h + 1] = l]
      /\ faults' = faults
  BY <1>0, Shared DEF Route!ForwardSend, ForwardOf, w, IsWorker
<1>. HIDE DEF w
<1>2. w.job \in Work /\ w.job.id \in Chunk
  BY <1>0, <1>1, JobIsWork
<1>3. ForwardOf(w) \in Work
  BY <1>0, <1>2, <1>1, AnswerIsResult
<1>4. PICK u : u = [w EXCEPT !.eval = "pop"]
  OBVIOUS
<1>5. u \in WorkerRecord
  BY <1>0, <1>2, <1>3, <1>4 DEF WorkerRecord
<1>6. /\ u.reader = w.reader
      /\ u.eval = "pop"
      /\ SameWork(u, w)
      /\ SameKv(u, w)
      /\ SameRelay(u, w)
      /\ SameFlags(u, w)
  BY <1>0, <1>2, <1>3, <1>4 DEF WorkerRecord, SameWork, SameKv, SameRelay, SameFlags
<1>7. IsWorker(u, h)
  BY <1>0, <1>2, <1>3, <1>1, <1>5, <1>6 DEF IsWorker, SameWork, SameKv, SameRelay
<1>8. WorkersOK' /\ Others(h) /\ v = u
  BY <1>1, <1>4, <1>7, SetWorker DEF Others
<1>9. LinksOK'
  BY <1>0, <1>2, <1>3, <1>1, LinkSent DEF LinksOK
<1>. QED BY <1>0, <1>1, <1>6, <1>8, <1>9 DEF w

(* The chunk could not be written.                                       *)
LEMMA ForwardFailsDoes ==
  ASSUME WorkersOK, LinksOK, NEW h \in Hop, Route!ForwardFails(h)
  PROVE  LET w == worker[h]  v == worker'[h] IN
         /\ WorkersOK' /\ LinksOK' /\ Others(h)
         /\ w.eval = "send"
         /\ v.reader = w.reader
         /\ v.eval = "lost"
         /\ SameWork(v, w)
         /\ SameKv(v, w)
         /\ v.relay = w.relay
         /\ v.answer = w.answer
         /\ v.pending = Route!Without(w.pending, w.job.id)
         /\ SameFlags(v, w)
         /\ link' = [link EXCEPT ![h + 1] = Shut(@)]
         /\ (~link[h + 1].open /\ faults' = faults) \/ Fault
<1>. DEFINE w == worker[h]
            v == worker'[h]
<1>0. /\ IsWorker(w, h) /\ w \in WorkerRecord /\ link[h] \in Link /\ h \in Nat
      /\ (h < Hops => h + 1 \in Hop /\ link[h + 1] \in Link) /\ Prefetch[h] \in Nat
  BY Constants DEF WorkersOK, LinksOK, Hop, IsWorker
<1>1. /\ w.eval = "send"
      /\ Route!Set(h, [w EXCEPT !.eval = "lost",
       !.pending = Route!Without(@, w.job.id)])
      /\ link' = [link EXCEPT ![h + 1] = Shut(@)]
      /\ (~link[h + 1].open /\ faults' = faults) \/ Fault
  BY <1>0, Shared DEF Route!ForwardFails, w, IsWorker
<1>. HIDE DEF w
<1>2. w.pending \in Seq(Chunk) /\ Forward \in Nat /\ Len(w.pending) \in Nat
  BY <1>0, <1>1, Constants, LenProperties DEF WorkerRecord
<1>3. /\ Route!Without(w.pending, w.job.id) \in Seq(Chunk)
      /\ Len(Route!Without(w.pending, w.job.id)) <= Len(w.pending)
      /\ Len(Route!Without(w.pending, w.job.id)) \in Nat
  BY <1>0, <1>2, <1>1, WithoutSeq, LenProperties
<1>4. PICK u : u = [w EXCEPT !.eval = "lost",
                !.pending = Route!Without(@, w.job.id)]
  OBVIOUS
<1>5. u \in WorkerRecord
  BY <1>0, <1>2, <1>3, <1>4 DEF WorkerRecord
<1>6. /\ u.reader = w.reader
      /\ u.eval = "lost"
      /\ SameWork(u, w)
      /\ SameKv(u, w)
      /\ u.relay = w.relay
      /\ u.answer = w.answer
      /\ u.pending = Route!Without(w.pending, w.job.id)
      /\ SameFlags(u, w)
  BY <1>0, <1>2, <1>3, <1>4 DEF WorkerRecord, SameWork, SameKv, SameRelay, SameFlags
<1>7. IsWorker(u, h)
  BY <1>0, <1>2, <1>3, <1>1, <1>5, <1>6 DEF IsWorker, SameWork, SameKv, SameRelay
<1>8. WorkersOK' /\ Others(h) /\ v = u
  BY <1>1, <1>4, <1>7, SetWorker DEF Others
<1>9. LinksOK'
  BY <1>0, <1>2, <1>3, <1>1, LinkSent, FaultTypes DEF LinksOK
<1>. QED BY <1>0, <1>1, <1>6, <1>8, <1>9 DEF w

(* The error goes up and the connection down.                            *)
LEMMA LostDoes ==
  ASSUME WorkersOK, LinksOK, NEW h \in Hop, Route!Lost(h)
  PROVE  LET w == worker[h]  v == worker'[h] IN
         /\ WorkersOK' /\ LinksOK' /\ Others(h)
         /\ \/ /\ w.eval = "lost"
               /\ v.reader = w.reader
               /\ v.eval = "pop"
               /\ SameWork(v, w)
               /\ SameKv(v, w)
               /\ SameRelay(v, w)
               /\ SameFlags(v, w)
               /\ link' = [link EXCEPT ![h] = Shut(ResultSent(@, Route!Error(w.job.id)))]
               /\ faults' = faults
            \/ /\ w.eval = "lost"
               /\ v.reader = w.reader
               /\ v.eval = "fail"
               /\ SameWork(v, w)
               /\ SameKv(v, w)
               /\ SameRelay(v, w)
               /\ SameFlags(v, w)
               /\ link' = [link EXCEPT ![h] = Shut(ResultSent(@, Route!Error(w.job.id)))]
               /\ faults' = faults
<1>. DEFINE w == worker[h]
            v == worker'[h]
<1>0. /\ IsWorker(w, h) /\ w \in WorkerRecord /\ link[h] \in Link /\ h \in Nat
      /\ (h < Hops => h + 1 \in Hop /\ link[h + 1] \in Link) /\ Prefetch[h] \in Nat
  BY Constants DEF WorkersOK, LinksOK, Hop, IsWorker
<1>1. \/ /\ w.eval = "lost"
         /\ Route!Set(h, [w EXCEPT !.eval = "pop"])
         /\ link' = [link EXCEPT ![h] = Shut(ResultSent(@, Route!Error(w.job.id)))]
         /\ faults' = faults
      \/ /\ w.eval = "lost"
         /\ Route!Set(h, [w EXCEPT !.eval = "fail"])
         /\ link' = [link EXCEPT ![h] = Shut(ResultSent(@, Route!Error(w.job.id)))]
         /\ faults' = faults
  BY <1>0, Shared DEF Route!Lost, w
<1>. HIDE DEF w
<1>2. ASSUME w.eval = "lost",
             Route!Set(h, [w EXCEPT !.eval = "pop"]),
             link' = [link EXCEPT ![h] = Shut(ResultSent(@, Route!Error(w.job.id)))],
             faults' = faults
      PROVE  WorkersOK' /\ LinksOK' /\ Others(h)
             /\ v.reader = w.reader
             /\ v.eval = "pop"
             /\ SameWork(v, w)
             /\ SameKv(v, w)
             /\ SameRelay(v, w)
             /\ SameFlags(v, w)
  <2>1. w.job \in Work /\ w.job.id \in Chunk
    BY <1>0, <1>2, JobIsWork
  <2>2. Route!Error(w.job.id) \in Result
    BY <1>0, <2>1, <1>2, ErrorIsResult
  <2>3. PICK u : u = [w EXCEPT !.eval = "pop"]
    OBVIOUS
  <2>4. u \in WorkerRecord
    BY <1>0, <2>1, <2>2, <2>3 DEF WorkerRecord
  <2>5. /\ u.reader = w.reader
        /\ u.eval = "pop"
        /\ SameWork(u, w)
        /\ SameKv(u, w)
        /\ SameRelay(u, w)
        /\ SameFlags(u, w)
    BY <1>0, <2>1, <2>2, <2>3 DEF WorkerRecord, SameWork, SameKv, SameRelay, SameFlags
  <2>6. IsWorker(u, h)
    BY <1>0, <2>1, <2>2, <1>2, <2>4, <2>5 DEF IsWorker, SameWork, SameKv, SameRelay
  <2>7. WorkersOK' /\ Others(h) /\ v = u
    BY <1>2, <2>3, <2>6, SetWorker DEF Others
  <2>8. LinksOK'
    BY <1>0, <2>1, <2>2, <1>2, LinkSent DEF LinksOK
  <2>. QED BY <2>5, <2>7, <2>8
<1>3. ASSUME w.eval = "lost",
             Route!Set(h, [w EXCEPT !.eval = "fail"]),
             link' = [link EXCEPT ![h] = Shut(ResultSent(@, Route!Error(w.job.id)))],
             faults' = faults
      PROVE  WorkersOK' /\ LinksOK' /\ Others(h)
             /\ v.reader = w.reader
             /\ v.eval = "fail"
             /\ SameWork(v, w)
             /\ SameKv(v, w)
             /\ SameRelay(v, w)
             /\ SameFlags(v, w)
  <2>1. w.job \in Work /\ w.job.id \in Chunk
    BY <1>0, <1>3, JobIsWork
  <2>2. Route!Error(w.job.id) \in Result
    BY <1>0, <2>1, <1>3, ErrorIsResult
  <2>3. PICK u : u = [w EXCEPT !.eval = "fail"]
    OBVIOUS
  <2>4. u \in WorkerRecord
    BY <1>0, <2>1, <2>2, <2>3 DEF WorkerRecord
  <2>5. /\ u.reader = w.reader
        /\ u.eval = "fail"
        /\ SameWork(u, w)
        /\ SameKv(u, w)
        /\ SameRelay(u, w)
        /\ SameFlags(u, w)
    BY <1>0, <2>1, <2>2, <2>3 DEF WorkerRecord, SameWork, SameKv, SameRelay, SameFlags
  <2>6. IsWorker(u, h)
    BY <1>0, <2>1, <2>2, <1>3, <2>4, <2>5 DEF IsWorker, SameWork, SameKv, SameRelay
  <2>7. WorkersOK' /\ Others(h) /\ v = u
    BY <1>3, <2>3, <2>6, SetWorker DEF Others
  <2>8. LinksOK'
    BY <1>0, <2>1, <2>2, <1>3, LinkSent DEF LinksOK
  <2>. QED BY <2>5, <2>7, <2>8
<1>. QED BY <1>1, <1>2, <1>3 DEF w

LEMMA PoppedWorker ==
  ASSUME NEW w \in WorkerRecord, w.pending # <<>>, NEW c, c = Route!Popped(w)
  PROVE  /\ c \in WorkerRecord /\ c.reader = w.reader /\ c.eval = w.eval
         /\ SameWork(c, w) /\ SameKv(c, w) /\ SameFlags(c, w)
         /\ c.relay = w.relay /\ c.answer = w.answer /\ c.pending = Tail(w.pending)
         /\ Len(c.pending) <= Len(w.pending) /\ Len(w.pending) \in Nat
         /\ Len(c.pending) \in Nat /\ Forward \in Nat
<1>0. w.pending \in Seq(Chunk)
  BY DEF WorkerRecord
<1>1. PICK a : a = Route!PendingNotFull(w)
  OBVIOUS
<1>2. PICK p : p = Tail(w.pending)
  OBVIOUS
<1>3. /\ a \in SUBSET {"reader", "eval"}
      /\ p \in Seq(Chunk) /\ Len(p) = Len(w.pending) - 1
      /\ Len(w.pending) \in Nat /\ Len(p) \in Nat
  BY <1>0, <1>1, <1>2, Awake, HeadTailProperties, LenProperties
<1>4. c = [w EXCEPT !.pending = p, !.asleep = a]
  BY <1>1, <1>2 DEF Route!Popped
<1>5. c \in WorkerRecord
  BY <1>3, <1>4 DEF WorkerRecord
<1>6. /\ c.reader = w.reader /\ c.eval = w.eval
      /\ SameWork(c, w) /\ SameKv(c, w) /\ SameFlags(c, w)
      /\ c.relay = w.relay /\ c.answer = w.answer /\ c.pending = p
  BY <1>4 DEF WorkerRecord, SameWork, SameKv, SameFlags
<1>. QED BY <1>2, <1>3, <1>5, <1>6, Constants

LEMMA HeadOfPending ==
  ASSUME NEW w \in WorkerRecord, w.pending # <<>>
  PROVE  Head(w.pending) \in Chunk
<1>1. w.pending \in Seq(Chunk)
  BY DEF WorkerRecord
<1>. QED BY <1>1, HeadTailProperties

LEMMA ResultIsAnswer ==
  ASSUME NEW l \in Link, l.result # <<>>
  PROVE  Head(l.result) \in Result /\ Head(l.result) # Route!NoAnswer
<1>1. Head(l.result) \in Result
  BY LinkSent
<1>. QED BY <1>1, Constants DEF Result, Route!NoAnswer, Chunk

(* The relay starts to read.                                             *)
LEMMA RelayStartDoes ==
  ASSUME WorkersOK, LinksOK, NEW h \in Hop, Route!RelayStart(h)
  PROVE  LET w == worker[h]  v == worker'[h] IN
         /\ WorkersOK' /\ LinksOK' /\ Others(h)
         /\ w.relay = "start"
         /\ v.reader = w.reader
         /\ v.eval = w.eval
         /\ SameWork(v, w)
         /\ SameKv(v, w)
         /\ v.relay = "read"
         /\ v.answer = w.answer
         /\ v.pending = w.pending
         /\ SameFlags(v, w)
         /\ UNCHANGED <<link, faults>>
<1>. DEFINE w == worker[h]
            v == worker'[h]
<1>0. /\ IsWorker(w, h) /\ w \in WorkerRecord /\ link[h] \in Link /\ h \in Nat
      /\ (h < Hops => h + 1 \in Hop /\ link[h + 1] \in Link) /\ Prefetch[h] \in Nat
  BY Constants DEF WorkersOK, LinksOK, Hop, IsWorker
<1>1. /\ w.relay = "start"
      /\ Route!Set(h, [w EXCEPT !.relay = "read"])
      /\ UNCHANGED <<link, faults>>
  BY <1>0, Shared DEF Route!RelayStart, Route!LeaveLinks, w
<1>. HIDE DEF w
<1>2. PICK u : u = [w EXCEPT !.relay = "read"]
  OBVIOUS
<1>3. u \in WorkerRecord
  BY <1>0, <1>2 DEF WorkerRecord
<1>4. /\ u.reader = w.reader
      /\ u.eval = w.eval
      /\ SameWork(u, w)
      /\ SameKv(u, w)
      /\ u.relay = "read"
      /\ u.answer = w.answer
      /\ u.pending = w.pending
      /\ SameFlags(u, w)
  BY <1>0, <1>2 DEF WorkerRecord, SameWork, SameKv, SameRelay, SameFlags
<1>5. IsWorker(u, h)
  BY <1>0, <1>1, <1>3, <1>4 DEF IsWorker, SameWork, SameKv, SameRelay
<1>6. WorkersOK' /\ Others(h) /\ v = u
  BY <1>1, <1>2, <1>5, SetWorker DEF Others
<1>7. LinksOK'
  BY <1>0, <1>1 DEF LinksOK
<1>. QED BY <1>0, <1>1, <1>4, <1>6, <1>7 DEF w

(* The relay has no buffer: it ends and shuts the connection.            *)
LEMMA RelayNoBufferDoes ==
  ASSUME WorkersOK, LinksOK, NEW h \in Hop, Route!RelayNoBuffer(h)
  PROVE  LET w == worker[h]  v == worker'[h] IN
         /\ WorkersOK' /\ LinksOK' /\ Others(h)
         /\ w.relay = "start"
         /\ v.reader = w.reader
         /\ v.eval = w.eval
         /\ SameWork(v, w)
         /\ SameKv(v, w)
         /\ v.relay = "out"
         /\ v.answer = w.answer
         /\ v.pending = w.pending
         /\ SameFlags(v, w)
         /\ link' = [link EXCEPT ![h] = Shut(@)]
         /\ Fault
<1>. DEFINE w == worker[h]
            v == worker'[h]
<1>0. /\ IsWorker(w, h) /\ w \in WorkerRecord /\ link[h] \in Link /\ h \in Nat
      /\ (h < Hops => h + 1 \in Hop /\ link[h + 1] \in Link) /\ Prefetch[h] \in Nat
  BY Constants DEF WorkersOK, LinksOK, Hop, IsWorker
<1>1. /\ w.relay = "start"
      /\ Route!Set(h, [w EXCEPT !.relay = "out"])
      /\ link' = [link EXCEPT ![h] = Shut(@)]
      /\ Fault
  BY <1>0, Shared DEF Route!RelayNoBuffer, w
<1>. HIDE DEF w
<1>2. PICK u : u = [w EXCEPT !.relay = "out"]
  OBVIOUS
<1>3. u \in WorkerRecord
  BY <1>0, <1>2 DEF WorkerRecord
<1>4. /\ u.reader = w.reader
      /\ u.eval = w.eval
      /\ SameWork(u, w)
      /\ SameKv(u, w)
      /\ u.relay = "out"
      /\ u.answer = w.answer
      /\ u.pending = w.pending
      /\ SameFlags(u, w)
  BY <1>0, <1>2 DEF WorkerRecord, SameWork, SameKv, SameRelay, SameFlags
<1>5. IsWorker(u, h)
  BY <1>0, <1>1, <1>3, <1>4 DEF IsWorker, SameWork, SameKv, SameRelay
<1>6. WorkersOK' /\ Others(h) /\ v = u
  BY <1>1, <1>2, <1>5, SetWorker DEF Others
<1>7. LinksOK'
  BY <1>0, <1>1, LinkSent, FaultTypes DEF LinksOK
<1>. QED BY <1>0, <1>1, <1>4, <1>6, <1>7 DEF w

(* The relay takes an answer: the one that is due, another, or one too many.*)
LEMMA RelayTakeDoes ==
  ASSUME WorkersOK, LinksOK, NEW h \in Hop, Route!RelayTake(h)
  PROVE  LET w == worker[h]  v == worker'[h] IN
         /\ WorkersOK' /\ LinksOK' /\ Others(h)
         /\ \/ /\ w.relay = "read"
               /\ link[h + 1].result # <<>>
               /\ w.pending # <<>>
               /\ Head(link[h + 1].result).id = Head(w.pending)
               /\ v.reader = w.reader
               /\ v.eval = w.eval
               /\ SameWork(v, w)
               /\ SameKv(v, w)
               /\ v.relay = "write"
               /\ v.answer = Head(link[h + 1].result)
               /\ v.pending = Tail(w.pending)
               /\ SameFlags(v, w)
               /\ link' = [link EXCEPT ![h + 1].result = Tail(@)]
               /\ faults' = faults
            \/ /\ w.relay = "read"
               /\ link[h + 1].result # <<>>
               /\ w.pending # <<>>
               /\ Head(link[h + 1].result).id # Head(w.pending)
               /\ v.reader = w.reader
               /\ v.eval = w.eval
               /\ SameWork(v, w)
               /\ SameKv(v, w)
               /\ v.relay = "exit"
               /\ v.answer = w.answer
               /\ v.pending = Tail(w.pending)
               /\ SameFlags(v, w)
               /\ link' = [[link EXCEPT ![h + 1].result = Tail(@)] EXCEPT
                   ![h] = ResultSent(@, Route!Error(Head(w.pending)))]
               /\ faults' = faults
            \/ /\ w.relay = "read"
               /\ link[h + 1].result # <<>>
               /\ w.pending = <<>>
               /\ v.reader = w.reader
               /\ v.eval = w.eval
               /\ SameWork(v, w)
               /\ SameKv(v, w)
               /\ v.relay = "exit"
               /\ v.answer = w.answer
               /\ v.pending = w.pending
               /\ SameFlags(v, w)
               /\ link' = [link EXCEPT ![h + 1].result = Tail(@)]
               /\ faults' = faults
<1>. DEFINE w == worker[h]
            v == worker'[h]
<1>0. /\ IsWorker(w, h) /\ w \in WorkerRecord /\ link[h] \in Link /\ h \in Nat
      /\ (h < Hops => h + 1 \in Hop /\ link[h + 1] \in Link) /\ Prefetch[h] \in Nat
  BY Constants DEF WorkersOK, LinksOK, Hop, IsWorker
<1>1. \/ /\ w.relay = "read"
         /\ link[h + 1].result # <<>>
         /\ w.pending # <<>>
         /\ Head(link[h + 1].result).id = Head(w.pending)
         /\ Route!Set(h, [Route!Popped(w) EXCEPT !.relay = "write",
          !.answer = Head(link[h + 1].result)])
         /\ link' = [link EXCEPT ![h + 1].result = Tail(@)]
         /\ faults' = faults
      \/ /\ w.relay = "read"
         /\ link[h + 1].result # <<>>
         /\ w.pending # <<>>
         /\ Head(link[h + 1].result).id # Head(w.pending)
         /\ Route!Set(h, [Route!Popped(w) EXCEPT !.relay = "exit"])
         /\ link' = [[link EXCEPT ![h + 1].result = Tail(@)] EXCEPT
          ![h] = ResultSent(@, Route!Error(Head(w.pending)))]
         /\ faults' = faults
      \/ /\ w.relay = "read"
         /\ link[h + 1].result # <<>>
         /\ w.pending = <<>>
         /\ Route!Set(h, [w EXCEPT !.relay = "exit"])
         /\ link' = [link EXCEPT ![h + 1].result = Tail(@)]
         /\ faults' = faults
  BY <1>0, Shared DEF Route!RelayTake, w
<1>. HIDE DEF w
<1>2. ASSUME w.relay = "read",
             link[h + 1].result # <<>>,
             w.pending # <<>>,
             Head(link[h + 1].result).id = Head(w.pending),
             Route!Set(h, [Route!Popped(w) EXCEPT !.relay = "write",
              !.answer = Head(link[h + 1].result)]),
             link' = [link EXCEPT ![h + 1].result = Tail(@)],
             faults' = faults
      PROVE  WorkersOK' /\ LinksOK' /\ Others(h)
             /\ v.reader = w.reader
             /\ v.eval = w.eval
             /\ SameWork(v, w)
             /\ SameKv(v, w)
             /\ v.relay = "write"
             /\ v.answer = Head(link[h + 1].result)
             /\ v.pending = Tail(w.pending)
             /\ SameFlags(v, w)
  <2>1. h < Hops /\ link[h + 1].result # <<>> /\ link[h + 1] \in Link
    BY <1>0, <1>2 DEF IsWorker
  <2>2. Head(link[h + 1].result) \in Result /\ Head(link[h + 1].result) # Route!NoAnswer
    BY <1>0, <2>1, <1>2, ResultIsAnswer
  <2>3. PICK c : c = Route!Popped(w)
    OBVIOUS
  <2>4. /\ c \in WorkerRecord /\ c.reader = w.reader /\ c.eval = w.eval
        /\ SameWork(c, w) /\ SameKv(c, w) /\ SameFlags(c, w)
        /\ c.relay = w.relay /\ c.answer = w.answer /\ c.pending = Tail(w.pending)
        /\ Len(c.pending) <= Len(w.pending) /\ Len(w.pending) \in Nat
        /\ Len(c.pending) \in Nat /\ Forward \in Nat
    BY <1>0, <2>1, <2>2, <2>3, <1>2, PoppedWorker
  <2>5. PICK u : u = [c EXCEPT !.relay = "write",
                  !.answer = Head(link[h + 1].result)]
    OBVIOUS
  <2>6. u \in WorkerRecord
    BY <2>4, <2>2, <2>5 DEF WorkerRecord
  <2>7. /\ u.reader = w.reader
        /\ u.eval = w.eval
        /\ SameWork(u, w)
        /\ SameKv(u, w)
        /\ u.relay = "write"
        /\ u.answer = Head(link[h + 1].result)
        /\ u.pending = Tail(w.pending)
        /\ SameFlags(u, w)
    BY <1>0, <2>1, <2>2, <2>3, <2>4, <2>5 DEF WorkerRecord, SameWork, SameKv, SameRelay, SameFlags
  <2>8. IsWorker(u, h)
    BY <1>0, <2>1, <2>2, <2>3, <2>4, <1>2, <2>6, <2>7 DEF IsWorker, SameWork, SameKv, SameRelay
  <2>9. WorkersOK' /\ Others(h) /\ v = u
    BY <1>2, <2>1, <2>2, <2>3, <2>4, <2>5, <2>8, SetWorker DEF Others
  <2>10. LinksOK'
    BY <1>0, <2>1, <2>2, <2>3, <2>4, <1>2, LinkSent DEF LinksOK
  <2>. QED BY <2>7, <2>9, <2>10
<1>3. ASSUME w.relay = "read",
             link[h + 1].result # <<>>,
             w.pending # <<>>,
             Head(link[h + 1].result).id # Head(w.pending),
             Route!Set(h, [Route!Popped(w) EXCEPT !.relay = "exit"]),
             link' = [[link EXCEPT ![h + 1].result = Tail(@)] EXCEPT
              ![h] = ResultSent(@, Route!Error(Head(w.pending)))],
             faults' = faults
      PROVE  WorkersOK' /\ LinksOK' /\ Others(h)
             /\ v.reader = w.reader
             /\ v.eval = w.eval
             /\ SameWork(v, w)
             /\ SameKv(v, w)
             /\ v.relay = "exit"
             /\ v.answer = w.answer
             /\ v.pending = Tail(w.pending)
             /\ SameFlags(v, w)
  <2>1. h < Hops /\ link[h + 1].result # <<>> /\ link[h + 1] \in Link
    BY <1>0, <1>3 DEF IsWorker
  <2>2. Head(w.pending) \in Chunk /\ Route!Error(Head(w.pending)) \in Result
    BY <1>0, <2>1, <1>3, HeadOfPending, ErrorIsResult
  <2>3. PICK c : c = Route!Popped(w)
    OBVIOUS
  <2>4. /\ c \in WorkerRecord /\ c.reader = w.reader /\ c.eval = w.eval
        /\ SameWork(c, w) /\ SameKv(c, w) /\ SameFlags(c, w)
        /\ c.relay = w.relay /\ c.answer = w.answer /\ c.pending = Tail(w.pending)
        /\ Len(c.pending) <= Len(w.pending) /\ Len(w.pending) \in Nat
        /\ Len(c.pending) \in Nat /\ Forward \in Nat
    BY <1>0, <2>1, <2>2, <2>3, <1>3, PoppedWorker
  <2>5. PICK u : u = [c EXCEPT !.relay = "exit"]
    OBVIOUS
  <2>6. u \in WorkerRecord
    BY <2>4, <2>5 DEF WorkerRecord
  <2>7. /\ u.reader = w.reader
        /\ u.eval = w.eval
        /\ SameWork(u, w)
        /\ SameKv(u, w)
        /\ u.relay = "exit"
        /\ u.answer = w.answer
        /\ u.pending = Tail(w.pending)
        /\ SameFlags(u, w)
    BY <1>0, <2>1, <2>2, <2>3, <2>4, <2>5 DEF WorkerRecord, SameWork, SameKv, SameRelay, SameFlags
  <2>8. IsWorker(u, h)
    BY <1>0, <2>1, <2>2, <2>3, <2>4, <1>3, <2>6, <2>7 DEF IsWorker, SameWork, SameKv, SameRelay
  <2>9. WorkersOK' /\ Others(h) /\ v = u
    BY <1>3, <2>1, <2>2, <2>3, <2>4, <2>5, <2>8, SetWorker DEF Others
  <2>10. LinksOK'
    BY <1>0, <2>1, <2>2, <2>3, <2>4, <1>3, LinkSent DEF LinksOK
  <2>. QED BY <2>7, <2>9, <2>10
<1>4. ASSUME w.relay = "read",
             link[h + 1].result # <<>>,
             w.pending = <<>>,
             Route!Set(h, [w EXCEPT !.relay = "exit"]),
             link' = [link EXCEPT ![h + 1].result = Tail(@)],
             faults' = faults
      PROVE  WorkersOK' /\ LinksOK' /\ Others(h)
             /\ v.reader = w.reader
             /\ v.eval = w.eval
             /\ SameWork(v, w)
             /\ SameKv(v, w)
             /\ v.relay = "exit"
             /\ v.answer = w.answer
             /\ v.pending = w.pending
             /\ SameFlags(v, w)
  <2>1. h < Hops /\ link[h + 1].result # <<>> /\ link[h + 1] \in Link
    BY <1>0, <1>4 DEF IsWorker
  <2>2. PICK u : u = [w EXCEPT !.relay = "exit"]
    OBVIOUS
  <2>3. u \in WorkerRecord
    BY <1>0, <2>1, <2>2 DEF WorkerRecord
  <2>4. /\ u.reader = w.reader
        /\ u.eval = w.eval
        /\ SameWork(u, w)
        /\ SameKv(u, w)
        /\ u.relay = "exit"
        /\ u.answer = w.answer
        /\ u.pending = w.pending
        /\ SameFlags(u, w)
    BY <1>0, <2>1, <2>2 DEF WorkerRecord, SameWork, SameKv, SameRelay, SameFlags
  <2>5. IsWorker(u, h)
    BY <1>0, <2>1, <1>4, <2>3, <2>4 DEF IsWorker, SameWork, SameKv, SameRelay
  <2>6. WorkersOK' /\ Others(h) /\ v = u
    BY <1>4, <2>2, <2>5, SetWorker DEF Others
  <2>7. LinksOK'
    BY <1>0, <2>1, <1>4, LinkSent DEF LinksOK
  <2>. QED BY <2>4, <2>6, <2>7
<1>. QED BY <1>1, <1>2, <1>3, <1>4 DEF w

(* The next worker is gone: an answer that is due becomes an error.      *)
LEMMA RelayEndDoes ==
  ASSUME WorkersOK, LinksOK, NEW h \in Hop, Route!RelayEnd(h)
  PROVE  LET w == worker[h]  v == worker'[h] IN
         /\ WorkersOK' /\ LinksOK' /\ Others(h)
         /\ \/ /\ w.relay = "read"
               /\ ~link[h + 1].open
               /\ v.reader = w.reader
               /\ v.eval = w.eval
               /\ SameWork(v, w)
               /\ SameKv(v, w)
               /\ v.relay = "exit"
               /\ v.answer = w.answer
               /\ v.pending = w.pending
               /\ SameFlags(v, w)
               /\ UNCHANGED <<link, faults>>
            \/ /\ w.relay = "read"
               /\ ~link[h + 1].open
               /\ w.pending # <<>>
               /\ v.reader = w.reader
               /\ v.eval = w.eval
               /\ SameWork(v, w)
               /\ SameKv(v, w)
               /\ v.relay = "exit"
               /\ v.answer = w.answer
               /\ v.pending = Tail(w.pending)
               /\ SameFlags(v, w)
               /\ link' = [link EXCEPT ![h] = ResultSent(@, Route!Error(Head(w.pending)))]
               /\ faults' = faults
<1>. DEFINE w == worker[h]
            v == worker'[h]
<1>0. /\ IsWorker(w, h) /\ w \in WorkerRecord /\ link[h] \in Link /\ h \in Nat
      /\ (h < Hops => h + 1 \in Hop /\ link[h + 1] \in Link) /\ Prefetch[h] \in Nat
  BY Constants DEF WorkersOK, LinksOK, Hop, IsWorker
<1>1. \/ /\ w.relay = "read"
         /\ ~link[h + 1].open
         /\ Route!Set(h, [w EXCEPT !.relay = "exit"])
         /\ UNCHANGED <<link, faults>>
      \/ /\ w.relay = "read"
         /\ ~link[h + 1].open
         /\ w.pending # <<>>
         /\ Route!Set(h, [Route!Popped(w) EXCEPT !.relay = "exit"])
         /\ link' = [link EXCEPT ![h] = ResultSent(@, Route!Error(Head(w.pending)))]
         /\ faults' = faults
  BY <1>0, Shared DEF Route!RelayEnd, w
<1>. HIDE DEF w
<1>2. ASSUME w.relay = "read",
             ~link[h + 1].open,
             Route!Set(h, [w EXCEPT !.relay = "exit"]),
             UNCHANGED <<link, faults>>
      PROVE  WorkersOK' /\ LinksOK' /\ Others(h)
             /\ v.reader = w.reader
             /\ v.eval = w.eval
             /\ SameWork(v, w)
             /\ SameKv(v, w)
             /\ v.relay = "exit"
             /\ v.answer = w.answer
             /\ v.pending = w.pending
             /\ SameFlags(v, w)
  <2>1. PICK u : u = [w EXCEPT !.relay = "exit"]
    OBVIOUS
  <2>2. u \in WorkerRecord
    BY <1>0, <2>1 DEF WorkerRecord
  <2>3. /\ u.reader = w.reader
        /\ u.eval = w.eval
        /\ SameWork(u, w)
        /\ SameKv(u, w)
        /\ u.relay = "exit"
        /\ u.answer = w.answer
        /\ u.pending = w.pending
        /\ SameFlags(u, w)
    BY <1>0, <2>1 DEF WorkerRecord, SameWork, SameKv, SameRelay, SameFlags
  <2>4. IsWorker(u, h)
    BY <1>0, <1>2, <2>2, <2>3 DEF IsWorker, SameWork, SameKv, SameRelay
  <2>5. WorkersOK' /\ Others(h) /\ v = u
    BY <1>2, <2>1, <2>4, SetWorker DEF Others
  <2>6. LinksOK'
    BY <1>0, <1>2 DEF LinksOK
  <2>. QED BY <2>3, <2>5, <2>6
<1>3. ASSUME w.relay = "read",
             ~link[h + 1].open,
             w.pending # <<>>,
             Route!Set(h, [Route!Popped(w) EXCEPT !.relay = "exit"]),
             link' = [link EXCEPT ![h] = ResultSent(@, Route!Error(Head(w.pending)))],
             faults' = faults
      PROVE  WorkersOK' /\ LinksOK' /\ Others(h)
             /\ v.reader = w.reader
             /\ v.eval = w.eval
             /\ SameWork(v, w)
             /\ SameKv(v, w)
             /\ v.relay = "exit"
             /\ v.answer = w.answer
             /\ v.pending = Tail(w.pending)
             /\ SameFlags(v, w)
  <2>1. Head(w.pending) \in Chunk /\ Route!Error(Head(w.pending)) \in Result
    BY <1>0, <1>3, HeadOfPending, ErrorIsResult
  <2>2. PICK c : c = Route!Popped(w)
    OBVIOUS
  <2>3. /\ c \in WorkerRecord /\ c.reader = w.reader /\ c.eval = w.eval
        /\ SameWork(c, w) /\ SameKv(c, w) /\ SameFlags(c, w)
        /\ c.relay = w.relay /\ c.answer = w.answer /\ c.pending = Tail(w.pending)
        /\ Len(c.pending) <= Len(w.pending) /\ Len(w.pending) \in Nat
        /\ Len(c.pending) \in Nat /\ Forward \in Nat
    BY <1>0, <2>1, <2>2, <1>3, PoppedWorker
  <2>4. PICK u : u = [c EXCEPT !.relay = "exit"]
    OBVIOUS
  <2>5. u \in WorkerRecord
    BY <2>3, <2>4 DEF WorkerRecord
  <2>6. /\ u.reader = w.reader
        /\ u.eval = w.eval
        /\ SameWork(u, w)
        /\ SameKv(u, w)
        /\ u.relay = "exit"
        /\ u.answer = w.answer
        /\ u.pending = Tail(w.pending)
        /\ SameFlags(u, w)
    BY <1>0, <2>1, <2>2, <2>3, <2>4 DEF WorkerRecord, SameWork, SameKv, SameRelay, SameFlags
  <2>7. IsWorker(u, h)
    BY <1>0, <2>1, <2>2, <2>3, <1>3, <2>5, <2>6 DEF IsWorker, SameWork, SameKv, SameRelay
  <2>8. WorkersOK' /\ Others(h) /\ v = u
    BY <1>3, <2>1, <2>2, <2>3, <2>4, <2>7, SetWorker DEF Others
  <2>9. LinksOK'
    BY <1>0, <2>1, <2>2, <2>3, <1>3, LinkSent DEF LinksOK
  <2>. QED BY <2>6, <2>8, <2>9
<1>. QED BY <1>1, <1>2, <1>3 DEF w

(* The relay writes the answer it holds, or cannot.                      *)
LEMMA RelayWriteDoes ==
  ASSUME WorkersOK, LinksOK, NEW h \in Hop, Route!RelayWrite(h)
  PROVE  LET w == worker[h]  v == worker'[h] IN
         /\ WorkersOK' /\ LinksOK' /\ Others(h)
         /\ \/ /\ w.relay = "write"
               /\ v.reader = w.reader
               /\ v.eval = w.eval
               /\ SameWork(v, w)
               /\ SameKv(v, w)
               /\ v.relay = "read"
               /\ v.answer = Route!NoAnswer
               /\ v.pending = w.pending
               /\ SameFlags(v, w)
               /\ link' = [link EXCEPT ![h] = ResultSent(@, w.answer)]
               /\ faults' = faults
            \/ /\ w.relay = "write"
               /\ ~link[h].open
               /\ v.reader = w.reader
               /\ v.eval = w.eval
               /\ SameWork(v, w)
               /\ SameKv(v, w)
               /\ v.relay = "exit"
               /\ v.answer = Route!NoAnswer
               /\ v.pending = w.pending
               /\ SameFlags(v, w)
               /\ UNCHANGED <<link, faults>>
<1>. DEFINE w == worker[h]
            v == worker'[h]
<1>0. /\ IsWorker(w, h) /\ w \in WorkerRecord /\ link[h] \in Link /\ h \in Nat
      /\ (h < Hops => h + 1 \in Hop /\ link[h + 1] \in Link) /\ Prefetch[h] \in Nat
  BY Constants DEF WorkersOK, LinksOK, Hop, IsWorker
<1>1. \/ /\ w.relay = "write"
         /\ Route!Set(h, [w EXCEPT !.relay = "read", !.answer = Route!NoAnswer])
         /\ link' = [link EXCEPT ![h] = ResultSent(@, w.answer)]
         /\ faults' = faults
      \/ /\ w.relay = "write"
         /\ ~link[h].open
         /\ Route!Set(h, [w EXCEPT !.relay = "exit", !.answer = Route!NoAnswer])
         /\ UNCHANGED <<link, faults>>
  BY <1>0, Shared DEF Route!RelayWrite, w
<1>. HIDE DEF w
<1>2. ASSUME w.relay = "write",
             Route!Set(h, [w EXCEPT !.relay = "read", !.answer = Route!NoAnswer]),
             link' = [link EXCEPT ![h] = ResultSent(@, w.answer)],
             faults' = faults
      PROVE  WorkersOK' /\ LinksOK' /\ Others(h)
             /\ v.reader = w.reader
             /\ v.eval = w.eval
             /\ SameWork(v, w)
             /\ SameKv(v, w)
             /\ v.relay = "read"
             /\ v.answer = Route!NoAnswer
             /\ v.pending = w.pending
             /\ SameFlags(v, w)
  <2>1. w.answer \in Result
    BY <1>0, <1>2 DEF IsWorker, WorkerRecord
  <2>2. PICK u : u = [w EXCEPT !.relay = "read", !.answer = Route!NoAnswer]
    OBVIOUS
  <2>3. u \in WorkerRecord
    BY <1>0, <2>1, <2>2 DEF WorkerRecord
  <2>4. /\ u.reader = w.reader
        /\ u.eval = w.eval
        /\ SameWork(u, w)
        /\ SameKv(u, w)
        /\ u.relay = "read"
        /\ u.answer = Route!NoAnswer
        /\ u.pending = w.pending
        /\ SameFlags(u, w)
    BY <1>0, <2>1, <2>2 DEF WorkerRecord, SameWork, SameKv, SameRelay, SameFlags
  <2>5. IsWorker(u, h)
    BY <1>0, <2>1, <1>2, <2>3, <2>4 DEF IsWorker, SameWork, SameKv, SameRelay
  <2>6. WorkersOK' /\ Others(h) /\ v = u
    BY <1>2, <2>2, <2>5, SetWorker DEF Others
  <2>7. LinksOK'
    BY <1>0, <2>1, <1>2, LinkSent DEF LinksOK
  <2>. QED BY <2>4, <2>6, <2>7
<1>3. ASSUME w.relay = "write",
             ~link[h].open,
             Route!Set(h, [w EXCEPT !.relay = "exit", !.answer = Route!NoAnswer]),
             UNCHANGED <<link, faults>>
      PROVE  WorkersOK' /\ LinksOK' /\ Others(h)
             /\ v.reader = w.reader
             /\ v.eval = w.eval
             /\ SameWork(v, w)
             /\ SameKv(v, w)
             /\ v.relay = "exit"
             /\ v.answer = Route!NoAnswer
             /\ v.pending = w.pending
             /\ SameFlags(v, w)
  <2>1. PICK u : u = [w EXCEPT !.relay = "exit", !.answer = Route!NoAnswer]
    OBVIOUS
  <2>2. u \in WorkerRecord
    BY <1>0, <2>1 DEF WorkerRecord
  <2>3. /\ u.reader = w.reader
        /\ u.eval = w.eval
        /\ SameWork(u, w)
        /\ SameKv(u, w)
        /\ u.relay = "exit"
        /\ u.answer = Route!NoAnswer
        /\ u.pending = w.pending
        /\ SameFlags(u, w)
    BY <1>0, <2>1 DEF WorkerRecord, SameWork, SameKv, SameRelay, SameFlags
  <2>4. IsWorker(u, h)
    BY <1>0, <1>3, <2>2, <2>3 DEF IsWorker, SameWork, SameKv, SameRelay
  <2>5. WorkersOK' /\ Others(h) /\ v = u
    BY <1>3, <2>1, <2>4, SetWorker DEF Others
  <2>6. LinksOK'
    BY <1>0, <1>3 DEF LinksOK
  <2>. QED BY <2>3, <2>5, <2>6
<1>. QED BY <1>1, <1>2, <1>3 DEF w

(* The relay ends: it closes its queue and shuts the connection.         *)
LEMMA RelayExitDoes ==
  ASSUME WorkersOK, LinksOK, NEW h \in Hop, Route!RelayExit(h)
  PROVE  LET w == worker[h]  v == worker'[h] IN
         /\ WorkersOK' /\ LinksOK' /\ Others(h)
         /\ w.relay = "exit"
         /\ v.reader = w.reader
         /\ v.eval = w.eval
         /\ SameWork(v, w)
         /\ SameKv(v, w)
         /\ v.relay = "out"
         /\ v.answer = w.answer
         /\ v.pending = w.pending
         /\ link' = [link EXCEPT ![h] = Shut(@)]
         /\ faults' = faults
<1>. DEFINE w == worker[h]
            v == worker'[h]
<1>0. /\ IsWorker(w, h) /\ w \in WorkerRecord /\ link[h] \in Link /\ h \in Nat
      /\ (h < Hops => h + 1 \in Hop /\ link[h + 1] \in Link) /\ Prefetch[h] \in Nat
  BY Constants DEF WorkersOK, LinksOK, Hop, IsWorker
<1>1. /\ w.relay = "exit"
      /\ Route!Set(h, [Route!CloseForwarder(w) EXCEPT !.relay = "out"])
      /\ link' = [link EXCEPT ![h] = Shut(@)]
      /\ faults' = faults
  BY <1>0, Shared DEF Route!RelayExit, w
<1>. HIDE DEF w
<1>2. PICK c : c = Route!CloseForwarder(w)
  OBVIOUS
<1>3. /\ c \in WorkerRecord /\ c.reader = w.reader /\ c.eval = w.eval
        /\ SameWork(c, w) /\ SameKv(c, w) /\ SameRelay(c, w)
  BY <1>0, <1>2, ClosedWorker
<1>4. PICK u : u = [c EXCEPT !.relay = "out"]
  OBVIOUS
<1>5. u \in WorkerRecord
  BY <1>3, <1>4 DEF WorkerRecord
<1>6. /\ u.reader = w.reader
      /\ u.eval = w.eval
      /\ SameWork(u, w)
      /\ SameKv(u, w)
      /\ u.relay = "out"
      /\ u.answer = w.answer
      /\ u.pending = w.pending
  BY <1>0, <1>2, <1>3, <1>4 DEF WorkerRecord, SameWork, SameKv, SameRelay, SameFlags
<1>7. IsWorker(u, h)
  BY <1>0, <1>2, <1>3, <1>1, <1>5, <1>6 DEF IsWorker, SameWork, SameKv, SameRelay
<1>8. WorkersOK' /\ Others(h) /\ v = u
  BY <1>1, <1>2, <1>3, <1>4, <1>7, SetWorker DEF Others
<1>9. LinksOK'
  BY <1>0, <1>2, <1>3, <1>1, LinkSent DEF LinksOK
<1>. QED BY <1>0, <1>1, <1>6, <1>8, <1>9 DEF w

-----------------------------------------------------------------------------
(* The strengthening behind PrefillFaithful.  What a worker has before it, *)
(* in the order it comes: the frame under evaluation, its queue, the frame *)
(* its reader holds, its connection.  What was handed to the next worker,  *)
(* or sent to the first, is what that worker has seen so far.              *)
Handed(w) ==
  IF w.eval \in {"eval", "open", "track", "send"} THEN w.job.id - 1 ELSE w.job.id
Up(h) == IF h = 1 THEN sent ELSE Handed(worker[h - 1])

InOrder(w, l, up) ==
  /\ w.job.id <= up
  /\ w.frame.id # 0 => w.job.id < w.frame.id /\ w.frame.id <= up
  /\ \A i \in 1 .. Len(w.queue) :
        /\ w.job.id < w.queue[i].id /\ w.queue[i].id <= up
        /\ w.frame.id = 0 \/ w.queue[i].id < w.frame.id
  /\ \A i \in 1 .. Len(l) :
        /\ w.job.id < l[i].id /\ l[i].id <= up /\ w.frame.id < l[i].id
        /\ \A k \in 1 .. Len(w.queue) : w.queue[k].id < l[i].id
  /\ \A i, k \in 1 .. Len(w.queue) : i < k => w.queue[i].id < w.queue[k].id
  /\ \A i, k \in 1 .. Len(l) : i < k => l[i].id < l[k].id

InHand(w, l, f) ==
  \/ f = w.job \/ f = w.frame
  \/ \E i \in 1 .. Len(w.queue) : f = w.queue[i]
  \/ \E i \in 1 .. Len(l) : f = l[i]

(* The KV of a worker holds what its token hash says, and the frame under  *)
(* evaluation goes beyond it.                                              *)
Hashed(w) ==
  /\ w.kv = w.hash /\ w.hash <= w.job.id
  /\ w.eval = "eval" => w.hash < w.job.id
  /\ w.eval \in {"open", "track", "send", "answer"} => w.hash = w.job.id

LEMMA WorkerTypes ==
  ASSUME NEW w \in WorkerRecord
  PROVE  /\ w.queue \in Seq(Work) /\ Len(w.queue) \in Nat
         /\ \A i \in 1 .. Len(w.queue) : w.queue[i] \in Work /\ w.queue[i].id \in Chunk
         /\ w.job.id \in 0 .. Count /\ w.frame.id \in 0 .. Count
         /\ w.frame.id = 0 <=> w.frame = Route!NoFrame
         /\ w.job.id = 0 <=> w.job = Route!NoFrame
         /\ Handed(w) \in Int /\ Handed(w) <= w.job.id /\ Handed(w) >= w.job.id - 1
<1>1. /\ w.queue \in Seq(Work) /\ w.job \in Work \cup {Route!NoFrame}
      /\ w.frame \in Work \cup {Route!NoFrame}
  BY DEF WorkerRecord
<1>2. \A f \in Work : f.id \in 1 .. Count /\ f.id # 0
  BY DEF Work, Chunk
<1>3. Route!NoFrame.id = 0 /\ 0 \in 0 .. Count /\ 1 .. Count \subseteq 0 .. Count
  BY Constants DEF Route!NoFrame
<1>4. Len(w.queue) \in Nat /\ \A i \in 1 .. Len(w.queue) : w.queue[i] \in Work
  BY <1>1
<1>5. w.job.id \in 0 .. Count /\ w.frame.id \in 0 .. Count
  BY <1>1, <1>2, <1>3
<1>6. (w.frame.id = 0 <=> w.frame = Route!NoFrame) /\ (w.job.id = 0 <=> w.job = Route!NoFrame)
  BY <1>1, <1>2, <1>3
<1>7. Handed(w) \in Int /\ Handed(w) <= w.job.id /\ Handed(w) >= w.job.id - 1
  BY <1>5, Constants DEF Handed
<1>. QED BY <1>1, <1>2, <1>4, <1>5, <1>6, <1>7 DEF Chunk

LEMMA WorkTypes ==
  ASSUME NEW l \in Seq(Work)
  PROVE  /\ Len(l) \in Nat
         /\ \A i \in 1 .. Len(l) : l[i] \in Work /\ l[i].id \in Chunk
         /\ \A f \in Work : f.id \in Chunk
         /\ l # <<>> => /\ Head(l) = l[1] /\ Len(l) > 0
                        /\ Tail(l) \in Seq(Work) /\ Len(Tail(l)) = Len(l) - 1
                        /\ \A i \in 1 .. Len(Tail(l)) : Tail(l)[i] = l[i + 1]
         /\ \A m \in Work :
               /\ Append(l, m) \in Seq(Work) /\ Len(Append(l, m)) = Len(l) + 1
               /\ \A i \in 1 .. Len(l) : Append(l, m)[i] = l[i]
               /\ Append(l, m)[Len(l) + 1] = m
<1>1. \A f \in Work : f.id \in Chunk
  BY DEF Work
<1>2. Len(l) \in Nat /\ \A i \in 1 .. Len(l) : l[i] \in Work
  OBVIOUS
<1>3. ASSUME l # <<>>
      PROVE  /\ Head(l) = l[1] /\ Len(l) > 0
             /\ Tail(l) \in Seq(Work) /\ Len(Tail(l)) = Len(l) - 1
             /\ \A i \in 1 .. Len(Tail(l)) : Tail(l)[i] = l[i + 1]
  BY <1>2, <1>3, HeadTailProperties, EmptySeq
<1>4. \A m \in Work :
         /\ Append(l, m) \in Seq(Work) /\ Len(Append(l, m)) = Len(l) + 1
         /\ \A i \in 1 .. Len(l) : Append(l, m)[i] = l[i]
         /\ Append(l, m)[Len(l) + 1] = m
  BY AppendProperties
<1>. QED BY <1>1, <1>2, <1>3, <1>4

(* Nothing new: the same work, or less of it.                              *)
Less(v, w) ==
  /\ v.job = w.job /\ v.queue \in {w.queue, <<>>} /\ v.frame \in {w.frame, Route!NoFrame}

LEMMA OrderLess ==
  ASSUME NEW w \in WorkerRecord, NEW v \in WorkerRecord, Less(v, w),
         NEW l \in Seq(Work), NEW up \in Int, NEW up1 \in Int, up <= up1, InOrder(w, l, up)
  PROVE  InOrder(v, l, up1) /\ \A f \in Work : InHand(v, l, f) => InHand(w, l, f)
<1>0. /\ v.job = w.job /\ (v.queue = w.queue \/ Len(v.queue) = 0)
      /\ v.frame = w.frame \/ v.frame = Route!NoFrame
  BY EmptyQueues DEF Less
<1>1. PICK j \in Nat : j = w.job.id /\ v.job.id = j
  BY <1>0, WorkerTypes
<1>2. PICK p \in Nat : p = w.frame.id
  BY WorkerTypes
<1>3. PICK q \in Nat : q = v.frame.id /\ (q = p \/ q = 0)
  BY <1>0, <1>2, WorkerTypes
<1>4. /\ Len(w.queue) \in Nat /\ Len(l) \in Nat
      /\ \A i \in 1 .. Len(w.queue) : w.queue[i].id \in Nat
      /\ \A i \in 1 .. Len(l) : l[i].id \in Nat
  BY WorkerTypes, WorkTypes DEF Chunk
<1>5. InOrder(v, l, up1)
  <2>1. j <= up1 /\ (q # 0 => j < q /\ q <= up1)
    BY <1>1, <1>2, <1>3 DEF InOrder
  <2>2. \A i \in 1 .. Len(l) : j < l[i].id /\ l[i].id <= up1 /\ q < l[i].id
    BY <1>1, <1>2, <1>3, <1>4 DEF InOrder
  <2>3. \A i, k \in 1 .. Len(l) : i < k => l[i].id < l[k].id
    BY DEF InOrder
  <2>4. CASE v.queue = w.queue
    <3>1. PICK s \in Seq(Work) : s = w.queue /\ v.queue = s
      BY <2>4, WorkerTypes
    <3>2. /\ \A i \in 1 .. Len(s) : j < s[i].id /\ s[i].id <= up1 /\ (q = 0 \/ s[i].id < q)
          /\ \A i \in 1 .. Len(l), k \in 1 .. Len(s) : s[k].id < l[i].id
          /\ \A i, k \in 1 .. Len(s) : i < k => s[i].id < s[k].id
      BY <1>1, <1>2, <1>3, <1>4, <3>1 DEF InOrder
    <3>. QED BY <1>1, <1>3, <2>1, <2>2, <2>3, <3>1, <3>2 DEF InOrder
  <2>5. CASE Len(v.queue) = 0
    BY <1>1, <1>3, <2>1, <2>2, <2>3, <2>5 DEF InOrder
  <2>. QED BY <1>0, <2>4, <2>5
<1>6. \A f \in Work : InHand(v, l, f) => InHand(w, l, f)
  BY <1>0, Constants DEF InHand, Work, Route!NoFrame, Chunk
<1>. QED BY <1>5, <1>6

(* The reader takes a frame from the connection to evaluate it.            *)
LEMMA OrderRead ==
  ASSUME NEW w \in WorkerRecord, NEW v \in WorkerRecord,
         NEW l \in Seq(Work), NEW up \in Int, InOrder(w, l, up),
         l # <<>>, w.queue = <<>>, w.frame = Route!NoFrame,
         v.job = Head(l), v.queue = w.queue, v.frame = w.frame
  PROVE  /\ InOrder(v, Tail(l), up) /\ w.job.id < v.job.id
         /\ \A f \in Work : InHand(v, Tail(l), f) => InHand(w, l, f)
<1>1. PICK t \in Seq(Work) : /\ t = Tail(l) /\ Len(t) = Len(l) - 1
                             /\ \A i \in 1 .. Len(t) : t[i] = l[i + 1]
  BY WorkTypes
<1>2. /\ Len(l) \in Nat /\ Len(l) > 0 /\ v.job = l[1]
      /\ \A i \in 1 .. Len(l) : l[i] \in Work /\ l[i].id \in Nat
  BY WorkTypes DEF Chunk
<1>3. w.frame.id = 0 /\ v.frame.id = 0 /\ Len(w.queue) = 0 /\ Len(v.queue) = 0
  BY WorkerTypes, EmptyQueues
<1>4. w.job.id \in Nat /\ v.job.id \in Nat
  BY WorkerTypes
<1>5. InOrder(v, t, up) /\ w.job.id < v.job.id
  BY <1>1, <1>2, <1>3, <1>4 DEF InOrder
<1>6. \A f \in Work : InHand(v, t, f) => InHand(w, l, f)
  BY <1>1, <1>2, <1>3 DEF InHand
<1>. QED BY <1>1, <1>5, <1>6

(* The reader takes a frame from the connection to queue it.               *)
LEMMA OrderHold ==
  ASSUME NEW w \in WorkerRecord, NEW v \in WorkerRecord,
         NEW l \in Seq(Work), NEW up \in Int, InOrder(w, l, up),
         l # <<>>, w.frame = Route!NoFrame,
         v.job = w.job, v.queue = w.queue, v.frame = Head(l)
  PROVE  /\ InOrder(v, Tail(l), up)
         /\ \A f \in Work : InHand(v, Tail(l), f) => InHand(w, l, f)
<1>1. PICK t \in Seq(Work) : /\ t = Tail(l) /\ Len(t) = Len(l) - 1
                             /\ \A i \in 1 .. Len(t) : t[i] = l[i + 1]
  BY WorkTypes
<1>2. /\ Len(l) \in Nat /\ Len(l) > 0 /\ v.frame = l[1]
      /\ \A i \in 1 .. Len(l) : l[i] \in Work /\ l[i].id \in Nat
  BY WorkTypes DEF Chunk
<1>3. w.frame.id = 0 /\ v.frame.id \in Nat /\ w.job.id \in Nat
  BY WorkerTypes
<1>4. /\ Len(w.queue) \in Nat
      /\ \A i \in 1 .. Len(w.queue) : w.queue[i].id \in Nat
  BY WorkerTypes DEF Chunk
<1>5. InOrder(v, t, up)
  <2>1. PICK p \in Nat : p = l[1].id /\ v.frame.id = p
    BY <1>2
  <2>2. PICK j \in Nat : j = w.job.id /\ v.job.id = j
    BY <1>3
  <2>3. PICK q \in Seq(Work) : q = w.queue /\ v.queue = q
    BY WorkerTypes
  <2>4. /\ j < p /\ p <= up /\ j <= up
        /\ \A i \in 1 .. Len(q) : j < q[i].id /\ q[i].id <= up /\ q[i].id < p
        /\ \A i, k \in 1 .. Len(q) : i < k => q[i].id < q[k].id
    BY <1>2, <1>3, <1>4, <2>1, <2>2, <2>3 DEF InOrder
  <2>5. \A i \in 1 .. Len(t) :
           /\ j < t[i].id /\ t[i].id <= up /\ p < t[i].id
           /\ \A k \in 1 .. Len(q) : q[k].id < t[i].id
    BY <1>1, <1>2, <1>3, <1>4, <2>1, <2>2, <2>3 DEF InOrder
  <2>6. \A i, k \in 1 .. Len(t) : i < k => t[i].id < t[k].id
    BY <1>1, <1>2 DEF InOrder
  <2>. QED BY <2>1, <2>2, <2>3, <2>4, <2>5, <2>6 DEF InOrder
<1>6. \A f \in Work : InHand(v, t, f) => InHand(w, l, f)
  BY <1>1, <1>2 DEF InHand
<1>. QED BY <1>1, <1>5, <1>6

(* The reader puts the frame it holds into the queue.                      *)
LEMMA OrderPut ==
  ASSUME NEW w \in WorkerRecord, NEW v \in WorkerRecord,
         NEW l \in Seq(Work), NEW up \in Int, InOrder(w, l, up),
         w.frame # Route!NoFrame, v.frame = Route!NoFrame,
         v.job = w.job, v.queue = Append(w.queue, w.frame)
  PROVE  /\ InOrder(v, l, up)
         /\ \A f \in Work : InHand(v, l, f) => InHand(w, l, f)
<1>1. PICK q \in Seq(Work) : q = w.queue
  BY WorkerTypes
<1>2. PICK r \in Seq(Work) : /\ r = v.queue /\ Len(r) = Len(q) + 1
                             /\ \A i \in 1 .. Len(q) : r[i] = q[i]
                             /\ r[Len(q) + 1] = w.frame
<2>1. w.frame \in Work
  BY DEF WorkerRecord
<2>. QED BY <1>1, <2>1, WorkTypes
<1>3. w.frame.id \in Nat /\ w.frame.id # 0 /\ v.frame.id = 0 /\ w.job.id \in Nat
  BY WorkerTypes
<1>4. /\ Len(q) \in Nat /\ Len(l) \in Nat
      /\ \A i \in 1 .. Len(q) : q[i].id \in Nat
      /\ \A i \in 1 .. Len(l) : l[i].id \in Nat
  BY WorkTypes DEF Chunk
<1>5. InOrder(v, l, up)
  BY <1>1, <1>2, <1>3, <1>4 DEF InOrder
<1>6. \A f \in Work : InHand(v, l, f) => InHand(w, l, f)
  BY <1>1, <1>2, <1>4, Constants DEF InHand, Work, Route!NoFrame, Chunk
<1>. QED BY <1>5, <1>6

(* The eval thread takes the first frame of the queue.                     *)
LEMMA OrderPop ==
  ASSUME NEW w \in WorkerRecord, NEW v \in WorkerRecord,
         NEW l \in Seq(Work), NEW up \in Int, InOrder(w, l, up),
         w.queue # <<>>, v.job = Head(w.queue), v.queue = Tail(w.queue), v.frame = w.frame
  PROVE  /\ InOrder(v, l, up) /\ w.job.id < v.job.id
         /\ \A f \in Work : InHand(v, l, f) => InHand(w, l, f)
<1>1. PICK q \in Seq(Work) : q = w.queue
  BY WorkerTypes
<1>2. PICK r \in Seq(Work) : /\ r = v.queue /\ Len(r) = Len(q) - 1 /\ Len(q) > 0
                             /\ \A i \in 1 .. Len(r) : r[i] = q[i + 1]
                             /\ v.job = q[1]
  BY <1>1, WorkTypes
<1>3. w.frame.id \in Nat /\ w.job.id \in Nat
  BY WorkerTypes
<1>4. /\ Len(q) \in Nat /\ Len(r) \in Nat /\ Len(l) \in Nat
      /\ \A i \in 1 .. Len(q) : q[i] \in Work /\ q[i].id \in Nat
      /\ \A i \in 1 .. Len(l) : l[i].id \in Nat
  BY WorkTypes DEF Chunk
<1>5. InOrder(v, l, up) /\ w.job.id < v.job.id
  BY <1>1, <1>2, <1>3, <1>4 DEF InOrder
<1>6. \A f \in Work : InHand(v, l, f) => InHand(w, l, f)
  BY <1>1, <1>2, <1>4 DEF InHand
<1>. QED BY <1>5, <1>6

(* The next chunk comes down the connection.                               *)
LEMMA OrderSend ==
  ASSUME NEW w \in WorkerRecord, NEW l \in Seq(Work), NEW up \in Int, InOrder(w, l, up),
         NEW m \in Work, m.id = up + 1
  PROVE  /\ InOrder(w, Append(l, m), up + 1)
         /\ \A f \in Work : InHand(w, Append(l, m), f) => InHand(w, l, f) \/ f = m
<1>1. PICK r \in Seq(Work) : /\ r = Append(l, m) /\ Len(r) = Len(l) + 1
                             /\ \A i \in 1 .. Len(l) : r[i] = l[i]
                             /\ r[Len(l) + 1] = m
  BY WorkTypes
<1>2. /\ Len(l) \in Nat /\ Len(w.queue) \in Nat /\ w.frame.id \in Nat /\ w.job.id \in Nat
      /\ \A i \in 1 .. Len(w.queue) : w.queue[i].id \in Nat
      /\ \A i \in 1 .. Len(l) : l[i].id \in Nat
  BY WorkerTypes, WorkTypes DEF Chunk
<1>3. InOrder(w, r, up + 1)
  BY <1>1, <1>2 DEF InOrder
<1>4. \A f \in Work : InHand(w, r, f) => InHand(w, l, f) \/ f = m
  BY <1>1, <1>2 DEF InHand
<1>. QED BY <1>1, <1>3, <1>4

(* Every worker before h has evaluated the whole prompt.                   *)
AllBefore(h) == \A g \in Hop : g < h => worker[g].hash = Count

(* The answers under way that are no errors.                               *)
OnLink(l, m) == \E i \in 1 .. Len(l.result) : m = l.result[i]
Held(h, m) == m = worker[h].answer \/ OnLink(link[h], m)
GoodAnswer(m) == m.kind # "error" => m.of = m.id /\ (m.id = Count => AllBefore(Hops + 1))
GoodFrame(f, h) == f.hidden = f.id /\ (f.id = Count => AllBefore(h))

RouteInv ==
  /\ \A h \in Hop : InOrder(worker[h], link[h].work, Up(h))
  /\ \A h \in Hop : Hashed(worker[h])
  /\ \A h \in Hop : \A f \in Work : InHand(worker[h], link[h].work, f) => GoodFrame(f, h)
  /\ \A h \in Hop : \A m \in Result : Held(h, m) => GoodAnswer(m)
  /\ final # -1 => final = Count /\ AllBefore(Hops + 1)
  /\ ret = "ok" => final # -1

(* A KV that holds the whole prompt is not touched any more.               *)
KvStep(v, w) == Hashed(v) /\ (w.hash = Count => v.hash = Count)

LEMMA BeforeKept ==
  ASSUME NEW h \in Hop, Others(h), KvStep(worker'[h], worker[h]), NEW k, AllBefore(k)
  PROVE  AllBefore(k)'
<1>. SUFFICES ASSUME NEW g \in Hop, g < k PROVE worker'[g].hash = Count
  BY DEF AllBefore
<1>1. worker[g].hash = Count
  BY DEF AllBefore
<1>. QED BY <1>1 DEF Others, KvStep

(* A step of worker h that hands nothing on.                               *)
LEMMA RouteStep ==
  ASSUME RouteInv, WorkersOK, LinksOK, WorkersOK', LinksOK', sent \in Nat,
         NEW h \in Hop, Others(h), UNCHANGED own,
         InOrder(worker'[h], link'[h].work, Up(h)),
         \A f \in Work : InHand(worker'[h], link'[h].work, f)
                            => InHand(worker[h], link[h].work, f),
         Handed(worker'[h]) >= Handed(worker[h]),
         \A g \in Hop \ {h} : link'[g].work = link[g].work,
         KvStep(worker'[h], worker[h]),
         \A g \in Hop : \A m \in Result : Held(g, m)' =>
            GoodAnswer(m)' \/ \E k \in Hop : Held(k, m)
  PROVE  RouteInv'
<1>0. /\ \A g \in Hop : worker[g] \in WorkerRecord /\ worker'[g] \in WorkerRecord
      /\ \A g \in Hop : link[g].work \in Seq(Work) /\ link'[g].work \in Seq(Work)
      /\ Hop = 1 .. Hops /\ Hops \in Nat
  BY Constants DEF WorkersOK, LinksOK, Link, Hop
<1>1. sent' = sent /\ final' = final /\ ret' = ret
  BY DEF own
<1>2. \A k : AllBefore(k) => AllBefore(k)'
  BY BeforeKept
<1>3. \A g \in Hop : Up(g) \in Int
  BY <1>0, WorkerTypes DEF Up
<1>4. \A g \in Hop : Up(g)' \in Int /\ Up(g)' >= Up(g)
  <2>. SUFFICES ASSUME NEW g \in Hop PROVE Up(g)' \in Int /\ Up(g)' >= Up(g)
    OBVIOUS
  <2>1. CASE g = 1
    BY <1>1, <2>1 DEF Up
  <2>2. CASE g # 1
    <3>1. g - 1 \in Hop
      BY <1>0, <2>2
    <3>2. /\ Handed(worker[g - 1]) \in Int /\ Handed(worker'[g - 1]) \in Int
          /\ Handed(worker'[g - 1]) >= Handed(worker[g - 1])
      <4>1. Handed(worker[g - 1]) \in Int /\ Handed(worker'[g - 1]) \in Int
        BY <1>0, <3>1, WorkerTypes
      <4>2. CASE g - 1 = h
        BY <4>1, <4>2
      <4>3. CASE g - 1 # h
        BY <3>1, <4>1, <4>3 DEF Others
      <4>. QED BY <4>1, <4>2, <4>3
    <3>. QED BY <2>2, <3>2 DEF Up
  <2>. QED BY <2>1, <2>2
<1>5. Up(h)' = Up(h)
  <2>1. CASE h = 1
    BY <1>1, <2>1 DEF Up
  <2>2. CASE h # 1
    <3>1. h - 1 \in Hop \ {h}
      BY <1>0, <2>2
    <3>. QED BY <2>2, <3>1 DEF Up, Others
  <2>. QED BY <2>1, <2>2
<1>6. ASSUME NEW g \in Hop
      PROVE  /\ InOrder(worker'[g], link'[g].work, Up(g)')
             /\ \A f \in Work : InHand(worker'[g], link'[g].work, f)
                                   => InHand(worker[g], link[g].work, f)
  <2>1. CASE g = h
    BY <1>5, <2>1
  <2>2. CASE g # h
    <3>1. worker'[g] = worker[g] /\ link'[g].work = link[g].work
      BY <2>2 DEF Others
    <3>2. Less(worker[g], worker[g])
      BY DEF Less
    <3>3. InOrder(worker[g], link[g].work, Up(g))
      BY DEF RouteInv
    <3>. QED BY <1>0, <1>3, <1>4, <3>1, <3>2, <3>3, OrderLess
  <2>. QED BY <2>1, <2>2
<1>7. \A g \in Hop : Hashed(worker'[g])
  BY DEF Others, KvStep, RouteInv
<1>8. \A g \in Hop : \A f \in Work : InHand(worker'[g], link'[g].work, f) => GoodFrame(f, g)'
  BY <1>2, <1>6 DEF RouteInv, GoodFrame
<1>9. \A g \in Hop : \A m \in Result : Held(g, m)' => GoodAnswer(m)'
  <2>. SUFFICES ASSUME NEW g \in Hop, NEW m \in Result, Held(g, m)', ~GoodAnswer(m)'
                PROVE  FALSE
    OBVIOUS
  <2>1. PICK k \in Hop : Held(k, m)
    OBVIOUS
  <2>2. GoodAnswer(m)
    BY <2>1 DEF RouteInv
  <2>. QED BY <1>2, <2>2 DEF GoodAnswer
<1>10. (final # -1 => final = Count /\ AllBefore(Hops + 1)) /\ (ret = "ok" => final # -1)
  BY DEF RouteInv
<1>. QED BY <1>1, <1>2, <1>6, <1>7, <1>8, <1>9, <1>10 DEF RouteInv

(* What is on a connection after a step.                                   *)
LEMMA OnLinkAfter ==
  ASSUME NEW l \in Link, NEW r \in Result
  PROVE  /\ Shut(l).work = l.work /\ Shut(l).result = l.result /\ Shut(l) \in Link
         /\ ResultSent(l, r).work = l.work /\ ResultSent(l, r) \in Link
         /\ \A m : OnLink(Shut(l), m) => OnLink(l, m)
         /\ \A m : OnLink(ResultSent(l, r), m) => OnLink(l, m) \/ m = r
<1>1. Shut(l).work = l.work /\ Shut(l).result = l.result /\ Shut(l) \in Link
  BY LinkSent DEF Shut, Link
<1>2. ResultSent(l, r) \in Link
  BY LinkSent
<1>3. CASE ~l.open
  BY <1>1, <1>2, <1>3 DEF ResultSent, OnLink
<1>4. CASE l.open
  <2>1. l.result \in Seq(Result)
    BY DEF Link
  <2>2. PICK s : s = Append(l.result, r)
    OBVIOUS
  <2>3. /\ Len(s) = Len(l.result) + 1 /\ Len(l.result) \in Nat
        /\ \A i \in 1 .. Len(l.result) : s[i] = l.result[i]
        /\ s[Len(l.result) + 1] = r
    BY <2>1, <2>2, AppendProperties, LenProperties
  <2>4. ResultSent(l, r) = [l EXCEPT !.result = s]
    BY <1>4, <2>2 DEF ResultSent
  <2>5. ResultSent(l, r).work = l.work /\ ResultSent(l, r).result = s
    BY <2>4 DEF Link
  <2>. QED BY <1>1, <1>2, <2>3, <2>5 DEF OnLink
<1>. QED BY <1>3, <1>4

LEMMA OnLinkTaken ==
  ASSUME NEW l \in Link, l.result # <<>>
  PROVE  LET k == [l EXCEPT !.result = Tail(@)] IN
         /\ k.work = l.work /\ k \in Link
         /\ \A m : OnLink(k, m) => OnLink(l, m)
         /\ OnLink(l, Head(l.result))
<1>1. l.result \in Seq(Result)
  BY DEF Link
<1>2. PICK t : t = Tail(l.result)
  OBVIOUS
<1>3. /\ t \in Seq(Result) /\ Len(t) = Len(l.result) - 1 /\ Len(l.result) \in Nat
      /\ \A i \in 1 .. Len(t) : t[i] = l.result[i + 1]
      /\ Head(l.result) = l.result[1] /\ Len(l.result) > 0
  BY <1>1, <1>2, HeadTailProperties, LenProperties, EmptySeq
<1>4. PICK k : k = [l EXCEPT !.result = t]
  OBVIOUS
<1>5. k.work = l.work /\ k.result = t /\ k \in Link
  BY <1>3, <1>4 DEF Link
<1>6. ASSUME NEW m, OnLink(k, m) PROVE OnLink(l, m)
  <2>1. PICK i \in 1 .. Len(t) : m = t[i]
    BY <1>5, <1>6 DEF OnLink
  <2>2. i + 1 \in 1 .. Len(l.result) /\ m = l.result[i + 1]
    BY <1>3, <2>1
  <2>. QED BY <2>2 DEF OnLink
<1>7. OnLink(l, Head(l.result))
  BY <1>3 DEF OnLink
<1>. QED BY <1>2, <1>4, <1>5, <1>6, <1>7

-----------------------------------------------------------------------------
(* A step of worker h that moves no chunk and evaluates none.              *)
Onward(to, from) ==
  \/ to = from
  \/ to \in {"pop", "error", "fail", "lost", "out"}
  \/ to \in {"track", "send"} /\ from \in {"open", "track"}

Quiet(h) ==
  LET w == worker[h]  v == worker'[h] IN
  /\ Less(v, w) /\ SameKv(v, w) /\ Onward(v.eval, w.eval)
  /\ \A g \in Hop : link'[g].work = link[g].work

(* No answer is new but an error.                                          *)
OldAnswers ==
  \A g \in Hop : \A m \in Result : Held(g, m)' =>
     GoodAnswer(m)' \/ \E k \in Hop : Held(k, m)

LEMMA QuietStep ==
  ASSUME RouteInv, WorkersOK, LinksOK, WorkersOK', LinksOK', sent \in Nat, UNCHANGED own,
         NEW h \in Hop, Others(h), Quiet(h), OldAnswers
  PROVE  RouteInv'
<1>. DEFINE w == worker[h]
            v == worker'[h]
<1>0. /\ w \in WorkerRecord /\ v \in WorkerRecord /\ link[h].work \in Seq(Work)
      /\ link'[h].work = link[h].work /\ Up(h) \in Int
  <2>1. Up(h) \in Int
    <3>1. \A g \in Hop : Handed(worker[g]) \in Int
      BY WorkerTypes DEF WorkersOK
    <3>. QED BY <3>1, Constants DEF Up, Hop
  <2>. QED BY <2>1 DEF WorkersOK, LinksOK, Link, Quiet
<1>1. Less(v, w) /\ SameKv(v, w) /\ Onward(v.eval, w.eval)
  BY DEF Quiet
<1>2. InOrder(w, link[h].work, Up(h)) /\ Hashed(w)
  BY DEF RouteInv
<1>. HIDE DEF w, v
<1>3. /\ InOrder(v, link'[h].work, Up(h))
      /\ \A f \in Work : InHand(v, link'[h].work, f) => InHand(w, link[h].work, f)
  BY <1>0, <1>1, <1>2, OrderLess
<1>4. v.job = w.job /\ v.kv = w.kv /\ v.hash = w.hash
  BY <1>1 DEF Less, SameKv
<1>5. w.job.id \in Int
  BY <1>0, WorkerTypes
<1>6. Handed(v) >= Handed(w)
  BY <1>1, <1>4, <1>5 DEF Onward, Handed
<1>7. KvStep(v, w)
  BY <1>1, <1>2, <1>4 DEF Onward, KvStep, Hashed
<1>8. \A g \in Hop \ {h} : link'[g].work = link[g].work
  BY DEF Quiet
<1>. QED BY <1>3, <1>6, <1>7, <1>8, RouteStep DEF w, v, OldAnswers

(* Answers that only move, or errors.                                      *)
LEMMA AnswersOld ==
  ASSUME WorkersOK, NEW h \in Hop, Others(h),
         \A m \in Result : m = worker'[h].answer => m = worker[h].answer \/ \E k \in Hop : Held(k, m),
         \A g \in Hop : \A m : OnLink(link'[g], m) => m.kind = "error" \/ \E k \in Hop : Held(k, m)
  PROVE  OldAnswers
<1>. SUFFICES ASSUME NEW g \in Hop, NEW m \in Result, Held(g, m)', m.kind # "error"
              PROVE  \E k \in Hop : Held(k, m)
  BY DEF OldAnswers, GoodAnswer
<1>1. CASE OnLink(link'[g], m)
  BY <1>1
<1>2. CASE m = worker'[g].answer
  BY <1>2 DEF Others, Held
<1>. QED BY <1>1, <1>2 DEF Held

(* A connection that took no work and no answer but an error.              *)
KeepsLink(k, l) ==
  /\ k.work = l.work
  /\ \A m : OnLink(k, m) => OnLink(l, m) \/ m.kind = "error"

LEMMA KeepsLinks ==
  ASSUME NEW l \in Link
  PROVE  /\ KeepsLink(l, l) /\ KeepsLink(Shut(l), l)
         /\ l.result # <<>> => KeepsLink([l EXCEPT !.result = Tail(@)], l)
         /\ \A id \in Chunk : /\ KeepsLink(ResultSent(l, Route!Error(id)), l)
                              /\ KeepsLink(Shut(ResultSent(l, Route!Error(id))), l)
<1>1. KeepsLink(l, l)
  BY DEF KeepsLink
<1>2. PICK r \in Result : TRUE
  BY ErrorIsResult, Constants DEF Chunk
<1>3. KeepsLink(Shut(l), l)
  BY <1>2, OnLinkAfter DEF KeepsLink
<1>4. l.result # <<>> => KeepsLink([l EXCEPT !.result = Tail(@)], l)
  BY OnLinkTaken DEF KeepsLink
<1>5. ASSUME NEW id \in Chunk
      PROVE  /\ KeepsLink(ResultSent(l, Route!Error(id)), l)
             /\ KeepsLink(Shut(ResultSent(l, Route!Error(id))), l)
  <2>1. PICK e : e = Route!Error(id)
    OBVIOUS
  <2>2. e \in Result /\ e.kind = "error"
    BY <2>1, ErrorIsResult DEF Route!Error
  <2>3. PICK k : k = ResultSent(l, e)
    OBVIOUS
  <2>4. /\ k \in Link /\ k.work = l.work
        /\ \A m : OnLink(k, m) => OnLink(l, m) \/ m.kind = "error"
    BY <2>2, <2>3, OnLinkAfter
  <2>5. KeepsLink(k, l)
    BY <2>4 DEF KeepsLink
  <2>6. Shut(k).work = k.work /\ \A m : OnLink(Shut(k), m) => OnLink(k, m)
    BY <2>2, <2>4, OnLinkAfter
  <2>7. KeepsLink(Shut(k), l)
    BY <2>4, <2>6 DEF KeepsLink
  <2>. QED BY <2>1, <2>3, <2>5, <2>7
<1>. QED BY <1>1, <1>3, <1>4, <1>5

LEMMA LinksQuiet ==
  ASSUME \A g \in Hop : KeepsLink(link'[g], link[g])
  PROVE  /\ \A g \in Hop : link'[g].work = link[g].work
         /\ \A g \in Hop : \A m : OnLink(link'[g], m) =>
               m.kind = "error" \/ \E k \in Hop : Held(k, m)
  BY DEF KeepsLink, Held

LEMMA KeepsOne ==
  ASSUME LinksOK, NEW k \in Hop, NEW l, KeepsLink(l, link[k]),
         link' = [link EXCEPT ![k] = l]
  PROVE  \A g \in Hop : KeepsLink(link'[g], link[g])
<1>. SUFFICES ASSUME NEW g \in Hop PROVE KeepsLink(link'[g], link[g])
  OBVIOUS
<1>1. link \in [Hop -> Link]
  BY DEF LinksOK
<1>2. CASE g = k
  BY <1>1, <1>2
<1>3. CASE g # k
  <2>1. link'[g] = link[g] /\ link[g] \in Link
    BY <1>1, <1>3
  <2>. QED BY <2>1, KeepsLinks
<1>. QED BY <1>2, <1>3

LEMMA KeepsAll ==
  ASSUME LinksOK, UNCHANGED link
  PROVE  \A g \in Hop : KeepsLink(link'[g], link[g])
  BY KeepsLinks DEF LinksOK

RouteOK == RouteInv /\ WorkersOK /\ LinksOK /\ sent \in Nat

(* The steps of the reader that take no frame.                           *)
LEMMA ReaderQuiet ==
  ASSUME RouteOK, UNCHANGED own, NEW h \in Hop,
         \/ Route!ReadEnd(h)
         \/ Route!InlineDone(h)
         \/ Route!JoinEval(h)
         \/ Route!JoinRelay(h)
  PROVE  RouteInv' /\ WorkersOK' /\ LinksOK'
<1>0. /\ worker[h] \in WorkerRecord /\ Route!NoAnswer \notin Result
      /\ (worker[h].job # Route!NoFrame => worker[h].job.id \in Chunk)
      /\ (worker[h].eval \notin {"pop", "out"} => worker[h].job.id \in Chunk)
      /\ (worker[h].pending # <<>> => Head(worker[h].pending) \in Chunk)
      /\ (worker[h].eval = "send" => h + 1 \in Hop)
      /\ (h < Hops => h + 1 \in Hop) /\ h \in Nat
      /\ (worker[h].relay # "none" => h + 1 \in Hop)
  <2>1. IsWorker(worker[h], h)
    BY DEF RouteOK, WorkersOK
  <2>2. Route!NoAnswer \notin Result
    BY Constants DEF Route!NoAnswer, Result, Chunk
  <2>3. worker[h].job # Route!NoFrame => worker[h].job.id \in Chunk
    BY <2>1 DEF IsWorker, WorkerRecord, Work
  <2>. QED BY <2>1, <2>2, <2>3, JobIsWork, HeadOfPending, Constants DEF IsWorker, Hop
<1>1. CASE Route!ReadEnd(h)
  <2>1. WorkersOK' /\ LinksOK' /\ Others(h)
    BY <1>1, ReadEndDoes DEF RouteOK
  <2>2. \A g \in Hop : KeepsLink(link'[g], link[g])
    BY <1>1, ReadEndDoes, KeepsAll DEF RouteOK
  <2>3. \A g \in Hop : link'[g].work = link[g].work
    BY <2>2, LinksQuiet
  <2>4. Quiet(h)
    BY <1>1, <2>3, ReadEndDoes DEF RouteOK, Quiet, Less, SameWork, Onward
  <2>5. \A m \in Result : m = worker'[h].answer => m = worker[h].answer \/ \E k \in Hop : Held(k, m)
    BY <1>0, <1>1, ReadEndDoes DEF RouteOK, SameRelay
  <2>6. OldAnswers
    BY <2>1, <2>2, <2>5, LinksQuiet, AnswersOld DEF RouteOK
  <2>. QED BY <2>1, <2>4, <2>6, QuietStep DEF RouteOK
<1>2. CASE Route!InlineDone(h)
  <2>1. WorkersOK' /\ LinksOK' /\ Others(h)
    BY <1>2, InlineDoneDoes DEF RouteOK
  <2>2. \A g \in Hop : KeepsLink(link'[g], link[g])
    BY <1>2, InlineDoneDoes, KeepsAll DEF RouteOK
  <2>3. \A g \in Hop : link'[g].work = link[g].work
    BY <2>2, LinksQuiet
  <2>4. Quiet(h)
    BY <1>2, <2>3, InlineDoneDoes DEF RouteOK, Quiet, Less, SameWork, Onward
  <2>5. \A m \in Result : m = worker'[h].answer => m = worker[h].answer \/ \E k \in Hop : Held(k, m)
    BY <1>0, <1>2, InlineDoneDoes DEF RouteOK, SameRelay
  <2>6. OldAnswers
    BY <2>1, <2>2, <2>5, LinksQuiet, AnswersOld DEF RouteOK
  <2>. QED BY <2>1, <2>4, <2>6, QuietStep DEF RouteOK
<1>3. CASE Route!JoinEval(h)
  <2>1. WorkersOK' /\ LinksOK' /\ Others(h)
    BY <1>3, JoinEvalDoes DEF RouteOK
  <2>2. \A g \in Hop : KeepsLink(link'[g], link[g])
    <3>1. \/ UNCHANGED link
          \/ h + 1 \in Hop /\ link' = [link EXCEPT ![h + 1] = Shut(@)]
      BY <1>0, <1>3, JoinEvalDoes DEF RouteOK
    <3>2. h + 1 \in Hop => KeepsLink(Shut(link[h + 1]), link[h + 1])
      BY <1>0, <1>3, JoinEvalDoes, KeepsLinks DEF RouteOK, LinksOK
    <3>. QED BY <1>0, <3>1, <3>2, KeepsAll, KeepsOne DEF RouteOK
  <2>3. \A g \in Hop : link'[g].work = link[g].work
    BY <2>2, LinksQuiet
  <2>4. Quiet(h)
    BY <1>3, <2>3, JoinEvalDoes DEF RouteOK, Quiet, Less, SameWork, Onward
  <2>5. \A m \in Result : m = worker'[h].answer => m = worker[h].answer \/ \E k \in Hop : Held(k, m)
    BY <1>0, <1>3, JoinEvalDoes DEF RouteOK, SameRelay
  <2>6. OldAnswers
    BY <2>1, <2>2, <2>5, LinksQuiet, AnswersOld DEF RouteOK
  <2>. QED BY <2>1, <2>4, <2>6, QuietStep DEF RouteOK
<1>4. CASE Route!JoinRelay(h)
  <2>1. WorkersOK' /\ LinksOK' /\ Others(h)
    BY <1>4, JoinRelayDoes DEF RouteOK
  <2>2. \A g \in Hop : KeepsLink(link'[g], link[g])
    <3>1. \/ UNCHANGED link
          \/ h \in Hop /\ link' = [link EXCEPT ![h] = Shut(@)]
      BY <1>0, <1>4, JoinRelayDoes DEF RouteOK
    <3>2. h \in Hop => KeepsLink(Shut(link[h]), link[h])
      BY <1>0, <1>4, JoinRelayDoes, KeepsLinks DEF RouteOK, LinksOK
    <3>. QED BY <1>0, <3>1, <3>2, KeepsAll, KeepsOne DEF RouteOK
  <2>3. \A g \in Hop : link'[g].work = link[g].work
    BY <2>2, LinksQuiet
  <2>4. Quiet(h)
    BY <1>4, <2>3, JoinRelayDoes DEF RouteOK, Quiet, Less, SameWork, Onward
  <2>5. \A m \in Result : m = worker'[h].answer => m = worker[h].answer \/ \E k \in Hop : Held(k, m)
    BY <1>0, <1>4, JoinRelayDoes DEF RouteOK, SameRelay
  <2>6. OldAnswers
    BY <2>1, <2>2, <2>5, LinksQuiet, AnswersOld DEF RouteOK
  <2>. QED BY <2>1, <2>4, <2>6, QuietStep DEF RouteOK
<1>. QED BY <1>1, <1>2, <1>3, <1>4

(* The steps of the eval thread after an evaluation.                     *)
LEMMA EvalQuiet ==
  ASSUME RouteOK, UNCHANGED own, NEW h \in Hop,
         \/ Route!AnswerError(h)
         \/ Route!EvalFails(h)
         \/ Route!GetForwarder(h)
         \/ Route!Track(h)
         \/ Route!ForwardFails(h)
         \/ Route!Lost(h)
  PROVE  RouteInv' /\ WorkersOK' /\ LinksOK'
<1>0. /\ worker[h] \in WorkerRecord /\ Route!NoAnswer \notin Result
      /\ (worker[h].job # Route!NoFrame => worker[h].job.id \in Chunk)
      /\ (worker[h].eval \notin {"pop", "out"} => worker[h].job.id \in Chunk)
      /\ (worker[h].pending # <<>> => Head(worker[h].pending) \in Chunk)
      /\ (worker[h].eval = "send" => h + 1 \in Hop)
      /\ (h < Hops => h + 1 \in Hop) /\ h \in Nat
      /\ (worker[h].relay # "none" => h + 1 \in Hop)
  <2>1. IsWorker(worker[h], h)
    BY DEF RouteOK, WorkersOK
  <2>2. Route!NoAnswer \notin Result
    BY Constants DEF Route!NoAnswer, Result, Chunk
  <2>3. worker[h].job # Route!NoFrame => worker[h].job.id \in Chunk
    BY <2>1 DEF IsWorker, WorkerRecord, Work
  <2>. QED BY <2>1, <2>2, <2>3, JobIsWork, HeadOfPending, Constants DEF IsWorker, Hop
<1>1. CASE Route!AnswerError(h)
  <2>1. WorkersOK' /\ LinksOK' /\ Others(h)
    BY <1>1, AnswerErrorDoes DEF RouteOK
  <2>2. \A g \in Hop : KeepsLink(link'[g], link[g])
    <3>1. \/ UNCHANGED link
          \/ h \in Hop /\ link' = [link EXCEPT ![h] = ResultSent(@, Route!Error(worker[h].job.id))]
      BY <1>0, <1>1, AnswerErrorDoes DEF RouteOK
    <3>2. h \in Hop => KeepsLink(ResultSent(link[h], Route!Error(worker[h].job.id)), link[h])
      BY <1>0, <1>1, AnswerErrorDoes, KeepsLinks DEF RouteOK, LinksOK
    <3>. QED BY <1>0, <3>1, <3>2, KeepsAll, KeepsOne DEF RouteOK
  <2>3. \A g \in Hop : link'[g].work = link[g].work
    BY <2>2, LinksQuiet
  <2>4. Quiet(h)
    BY <1>1, <2>3, AnswerErrorDoes DEF RouteOK, Quiet, Less, SameWork, Onward
  <2>5. \A m \in Result : m = worker'[h].answer => m = worker[h].answer \/ \E k \in Hop : Held(k, m)
    BY <1>0, <1>1, AnswerErrorDoes DEF RouteOK, SameRelay
  <2>6. OldAnswers
    BY <2>1, <2>2, <2>5, LinksQuiet, AnswersOld DEF RouteOK
  <2>. QED BY <2>1, <2>4, <2>6, QuietStep DEF RouteOK
<1>2. CASE Route!EvalFails(h)
  <2>1. WorkersOK' /\ LinksOK' /\ Others(h)
    BY <1>2, EvalFailsDoes DEF RouteOK
  <2>2. \A g \in Hop : KeepsLink(link'[g], link[g])
    <3>1. \/ UNCHANGED link
          \/ h \in Hop /\ link' = [link EXCEPT ![h] = Shut(@)]
      BY <1>0, <1>2, EvalFailsDoes DEF RouteOK
    <3>2. h \in Hop => KeepsLink(Shut(link[h]), link[h])
      BY <1>0, <1>2, EvalFailsDoes, KeepsLinks DEF RouteOK, LinksOK
    <3>. QED BY <1>0, <3>1, <3>2, KeepsAll, KeepsOne DEF RouteOK
  <2>3. \A g \in Hop : link'[g].work = link[g].work
    BY <2>2, LinksQuiet
  <2>4. Quiet(h)
    BY <1>2, <2>3, EvalFailsDoes DEF RouteOK, Quiet, Less, SameWork, Onward
  <2>5. \A m \in Result : m = worker'[h].answer => m = worker[h].answer \/ \E k \in Hop : Held(k, m)
    BY <1>0, <1>2, EvalFailsDoes DEF RouteOK, SameRelay
  <2>6. OldAnswers
    BY <2>1, <2>2, <2>5, LinksQuiet, AnswersOld DEF RouteOK
  <2>. QED BY <2>1, <2>4, <2>6, QuietStep DEF RouteOK
<1>3. CASE Route!GetForwarder(h)
  <2>1. WorkersOK' /\ LinksOK' /\ Others(h)
    BY <1>3, GetForwarderDoes DEF RouteOK
  <2>2. \A g \in Hop : KeepsLink(link'[g], link[g])
    BY <1>3, GetForwarderDoes, KeepsAll DEF RouteOK
  <2>3. \A g \in Hop : link'[g].work = link[g].work
    BY <2>2, LinksQuiet
  <2>4. Quiet(h)
    BY <1>3, <2>3, GetForwarderDoes DEF RouteOK, Quiet, Less, SameWork, Onward
  <2>5. \A m \in Result : m = worker'[h].answer => m = worker[h].answer \/ \E k \in Hop : Held(k, m)
    BY <1>0, <1>3, GetForwarderDoes DEF RouteOK, SameRelay
  <2>6. OldAnswers
    BY <2>1, <2>2, <2>5, LinksQuiet, AnswersOld DEF RouteOK
  <2>. QED BY <2>1, <2>4, <2>6, QuietStep DEF RouteOK
<1>4. CASE Route!Track(h)
  <2>1. WorkersOK' /\ LinksOK' /\ Others(h)
    BY <1>4, TrackDoes DEF RouteOK
  <2>2. \A g \in Hop : KeepsLink(link'[g], link[g])
    BY <1>4, TrackDoes, KeepsAll DEF RouteOK
  <2>3. \A g \in Hop : link'[g].work = link[g].work
    BY <2>2, LinksQuiet
  <2>4. Quiet(h)
    BY <1>4, <2>3, TrackDoes DEF RouteOK, Quiet, Less, SameWork, Onward
  <2>5. \A m \in Result : m = worker'[h].answer => m = worker[h].answer \/ \E k \in Hop : Held(k, m)
    BY <1>0, <1>4, TrackDoes DEF RouteOK, SameRelay
  <2>6. OldAnswers
    BY <2>1, <2>2, <2>5, LinksQuiet, AnswersOld DEF RouteOK
  <2>. QED BY <2>1, <2>4, <2>6, QuietStep DEF RouteOK
<1>5. CASE Route!ForwardFails(h)
  <2>1. WorkersOK' /\ LinksOK' /\ Others(h)
    BY <1>5, ForwardFailsDoes DEF RouteOK
  <2>2. \A g \in Hop : KeepsLink(link'[g], link[g])
    <3>1. \/ UNCHANGED link
          \/ h + 1 \in Hop /\ link' = [link EXCEPT ![h + 1] = Shut(@)]
      BY <1>0, <1>5, ForwardFailsDoes DEF RouteOK
    <3>2. h + 1 \in Hop => KeepsLink(Shut(link[h + 1]), link[h + 1])
      BY <1>0, <1>5, ForwardFailsDoes, KeepsLinks DEF RouteOK, LinksOK
    <3>. QED BY <1>0, <3>1, <3>2, KeepsAll, KeepsOne DEF RouteOK
  <2>3. \A g \in Hop : link'[g].work = link[g].work
    BY <2>2, LinksQuiet
  <2>4. Quiet(h)
    BY <1>5, <2>3, ForwardFailsDoes DEF RouteOK, Quiet, Less, SameWork, Onward
  <2>5. \A m \in Result : m = worker'[h].answer => m = worker[h].answer \/ \E k \in Hop : Held(k, m)
    BY <1>0, <1>5, ForwardFailsDoes DEF RouteOK, SameRelay
  <2>6. OldAnswers
    BY <2>1, <2>2, <2>5, LinksQuiet, AnswersOld DEF RouteOK
  <2>. QED BY <2>1, <2>4, <2>6, QuietStep DEF RouteOK
<1>6. CASE Route!Lost(h)
  <2>1. WorkersOK' /\ LinksOK' /\ Others(h)
    BY <1>6, LostDoes DEF RouteOK
  <2>2. \A g \in Hop : KeepsLink(link'[g], link[g])
    <3>1. \/ UNCHANGED link
          \/ h \in Hop /\ link' = [link EXCEPT ![h] = Shut(ResultSent(@, Route!Error(worker[h].job.id)))]
      BY <1>0, <1>6, LostDoes DEF RouteOK
    <3>2. h \in Hop => KeepsLink(Shut(ResultSent(link[h], Route!Error(worker[h].job.id))), link[h])
      BY <1>0, <1>6, LostDoes, KeepsLinks DEF RouteOK, LinksOK
    <3>. QED BY <1>0, <3>1, <3>2, KeepsAll, KeepsOne DEF RouteOK
  <2>3. \A g \in Hop : link'[g].work = link[g].work
    BY <2>2, LinksQuiet
  <2>4. Quiet(h)
    BY <1>6, <2>3, LostDoes DEF RouteOK, Quiet, Less, SameWork, Onward
  <2>5. \A m \in Result : m = worker'[h].answer => m = worker[h].answer \/ \E k \in Hop : Held(k, m)
    BY <1>0, <1>6, LostDoes DEF RouteOK, SameRelay
  <2>6. OldAnswers
    BY <2>1, <2>2, <2>5, LinksQuiet, AnswersOld DEF RouteOK
  <2>. QED BY <2>1, <2>4, <2>6, QuietStep DEF RouteOK
<1>. QED BY <1>1, <1>2, <1>3, <1>4, <1>5, <1>6

(* The steps of the relay that take no answer.                           *)
LEMMA RelayQuiet ==
  ASSUME RouteOK, UNCHANGED own, NEW h \in Hop,
         \/ Route!RelayStart(h)
         \/ Route!RelayNoBuffer(h)
         \/ Route!RelayEnd(h)
         \/ Route!RelayExit(h)
  PROVE  RouteInv' /\ WorkersOK' /\ LinksOK'
<1>0. /\ worker[h] \in WorkerRecord /\ Route!NoAnswer \notin Result
      /\ (worker[h].job # Route!NoFrame => worker[h].job.id \in Chunk)
      /\ (worker[h].eval \notin {"pop", "out"} => worker[h].job.id \in Chunk)
      /\ (worker[h].pending # <<>> => Head(worker[h].pending) \in Chunk)
      /\ (worker[h].eval = "send" => h + 1 \in Hop)
      /\ (h < Hops => h + 1 \in Hop) /\ h \in Nat
      /\ (worker[h].relay # "none" => h + 1 \in Hop)
  <2>1. IsWorker(worker[h], h)
    BY DEF RouteOK, WorkersOK
  <2>2. Route!NoAnswer \notin Result
    BY Constants DEF Route!NoAnswer, Result, Chunk
  <2>3. worker[h].job # Route!NoFrame => worker[h].job.id \in Chunk
    BY <2>1 DEF IsWorker, WorkerRecord, Work
  <2>. QED BY <2>1, <2>2, <2>3, JobIsWork, HeadOfPending, Constants DEF IsWorker, Hop
<1>1. CASE Route!RelayStart(h)
  <2>1. WorkersOK' /\ LinksOK' /\ Others(h)
    BY <1>1, RelayStartDoes DEF RouteOK
  <2>2. \A g \in Hop : KeepsLink(link'[g], link[g])
    BY <1>1, RelayStartDoes, KeepsAll DEF RouteOK
  <2>3. \A g \in Hop : link'[g].work = link[g].work
    BY <2>2, LinksQuiet
  <2>4. Quiet(h)
    BY <1>1, <2>3, RelayStartDoes DEF RouteOK, Quiet, Less, SameWork, Onward
  <2>5. \A m \in Result : m = worker'[h].answer => m = worker[h].answer \/ \E k \in Hop : Held(k, m)
    BY <1>0, <1>1, RelayStartDoes DEF RouteOK, SameRelay
  <2>6. OldAnswers
    BY <2>1, <2>2, <2>5, LinksQuiet, AnswersOld DEF RouteOK
  <2>. QED BY <2>1, <2>4, <2>6, QuietStep DEF RouteOK
<1>2. CASE Route!RelayNoBuffer(h)
  <2>1. WorkersOK' /\ LinksOK' /\ Others(h)
    BY <1>2, RelayNoBufferDoes DEF RouteOK
  <2>2. \A g \in Hop : KeepsLink(link'[g], link[g])
    <3>1. \/ UNCHANGED link
          \/ h \in Hop /\ link' = [link EXCEPT ![h] = Shut(@)]
      BY <1>0, <1>2, RelayNoBufferDoes DEF RouteOK
    <3>2. h \in Hop => KeepsLink(Shut(link[h]), link[h])
      BY <1>0, <1>2, RelayNoBufferDoes, KeepsLinks DEF RouteOK, LinksOK
    <3>. QED BY <1>0, <3>1, <3>2, KeepsAll, KeepsOne DEF RouteOK
  <2>3. \A g \in Hop : link'[g].work = link[g].work
    BY <2>2, LinksQuiet
  <2>4. Quiet(h)
    BY <1>2, <2>3, RelayNoBufferDoes DEF RouteOK, Quiet, Less, SameWork, Onward
  <2>5. \A m \in Result : m = worker'[h].answer => m = worker[h].answer \/ \E k \in Hop : Held(k, m)
    BY <1>0, <1>2, RelayNoBufferDoes DEF RouteOK, SameRelay
  <2>6. OldAnswers
    BY <2>1, <2>2, <2>5, LinksQuiet, AnswersOld DEF RouteOK
  <2>. QED BY <2>1, <2>4, <2>6, QuietStep DEF RouteOK
<1>3. CASE Route!RelayEnd(h)
  <2>1. WorkersOK' /\ LinksOK' /\ Others(h)
    BY <1>3, RelayEndDoes DEF RouteOK
  <2>2. \A g \in Hop : KeepsLink(link'[g], link[g])
    <3>1. \/ UNCHANGED link
          \/ worker[h].pending # <<>> /\ link' = [link EXCEPT ![h] = ResultSent(@, Route!Error(Head(worker[h].pending)))]
      BY <1>0, <1>3, RelayEndDoes DEF RouteOK
    <3>2. worker[h].pending # <<>> => KeepsLink(ResultSent(link[h], Route!Error(Head(worker[h].pending))), link[h])
      BY <1>0, <1>3, RelayEndDoes, KeepsLinks DEF RouteOK, LinksOK
    <3>. QED BY <1>0, <3>1, <3>2, KeepsAll, KeepsOne DEF RouteOK
  <2>3. \A g \in Hop : link'[g].work = link[g].work
    BY <2>2, LinksQuiet
  <2>4. Quiet(h)
    BY <1>3, <2>3, RelayEndDoes DEF RouteOK, Quiet, Less, SameWork, Onward
  <2>5. \A m \in Result : m = worker'[h].answer => m = worker[h].answer \/ \E k \in Hop : Held(k, m)
    BY <1>0, <1>3, RelayEndDoes DEF RouteOK, SameRelay
  <2>6. OldAnswers
    BY <2>1, <2>2, <2>5, LinksQuiet, AnswersOld DEF RouteOK
  <2>. QED BY <2>1, <2>4, <2>6, QuietStep DEF RouteOK
<1>4. CASE Route!RelayExit(h)
  <2>1. WorkersOK' /\ LinksOK' /\ Others(h)
    BY <1>4, RelayExitDoes DEF RouteOK
  <2>2. \A g \in Hop : KeepsLink(link'[g], link[g])
    <3>1. \/ UNCHANGED link
          \/ h \in Hop /\ link' = [link EXCEPT ![h] = Shut(@)]
      BY <1>0, <1>4, RelayExitDoes DEF RouteOK
    <3>2. h \in Hop => KeepsLink(Shut(link[h]), link[h])
      BY <1>0, <1>4, RelayExitDoes, KeepsLinks DEF RouteOK, LinksOK
    <3>. QED BY <1>0, <3>1, <3>2, KeepsAll, KeepsOne DEF RouteOK
  <2>3. \A g \in Hop : link'[g].work = link[g].work
    BY <2>2, LinksQuiet
  <2>4. Quiet(h)
    BY <1>4, <2>3, RelayExitDoes DEF RouteOK, Quiet, Less, SameWork, Onward
  <2>5. \A m \in Result : m = worker'[h].answer => m = worker[h].answer \/ \E k \in Hop : Held(k, m)
    BY <1>0, <1>4, RelayExitDoes DEF RouteOK, SameRelay
  <2>6. OldAnswers
    BY <2>1, <2>2, <2>5, LinksQuiet, AnswersOld DEF RouteOK
  <2>. QED BY <2>1, <2>4, <2>6, QuietStep DEF RouteOK
<1>. QED BY <1>1, <1>2, <1>3, <1>4

(* The relay takes an answer from the next connection.                     *)
LEMMA RelayTakes ==
  ASSUME RouteOK, UNCHANGED own, NEW h \in Hop, Route!RelayTake(h)
  PROVE  RouteInv' /\ WorkersOK' /\ LinksOK'
<1>. DEFINE n == link[h + 1]
            t == [n EXCEPT !.result = Tail(@)]
<1>1. WorkersOK' /\ LinksOK' /\ Others(h)
  BY RelayTakeDoes DEF RouteOK
<1>2. /\ worker[h].relay = "read" /\ n.result # <<>>
      /\ \/ link' = [link EXCEPT ![h + 1] = t]
         \/ /\ worker[h].pending # <<>>
            /\ link' = [[link EXCEPT ![h + 1] = t] EXCEPT
                          ![h] = ResultSent(@, Route!Error(Head(worker[h].pending)))]
      /\ worker'[h].answer = worker[h].answer \/ worker'[h].answer = Head(n.result)
  BY RelayTakeDoes DEF RouteOK
<1>3. h \in Nat /\ h + 1 \in Hop /\ worker[h] \in WorkerRecord /\ n \in Link /\ link[h] \in Link
      /\ link \in [Hop -> Link]
  BY <1>2, Constants DEF RouteOK, WorkersOK, IsWorker, Hop, LinksOK
<1>. HIDE DEF n
<1>4. /\ t.work = n.work /\ t \in Link
      /\ \A m : OnLink(t, m) => OnLink(n, m)
      /\ OnLink(n, Head(n.result))
  BY <1>2, <1>3, OnLinkTaken
<1>. HIDE DEF t
<1>5. KeepsLink(t, n)
  BY <1>4 DEF KeepsLink
<1>6. \A g \in Hop : KeepsLink(link'[g], link[g])
  <2>1. CASE link' = [link EXCEPT ![h + 1] = t]
    BY <1>3, <1>5, <2>1, KeepsOne DEF RouteOK, n
  <2>2. ASSUME worker[h].pending # <<>>, NEW e, e = ResultSent(link[h], Route!Error(Head(worker[h].pending))),
               link' = [[link EXCEPT ![h + 1] = t] EXCEPT ![h] = e]
        PROVE  \A g \in Hop : KeepsLink(link'[g], link[g])
    <3>1. KeepsLink(e, link[h])
      BY <1>3, <2>2, KeepsLinks, HeadOfPending
    <3>2. \A g \in Hop : KeepsLink(link[g], link[g])
      BY <1>3, KeepsLinks
    <3>3. /\ link'[h] = e /\ link'[h + 1] = t
          /\ \A g \in Hop : g # h /\ g # h + 1 => link'[g] = link[g]
      BY <1>3, <2>2
    <3>. QED BY <1>5, <3>1, <3>2, <3>3 DEF n
  <2>3. CASE /\ worker[h].pending # <<>>
             /\ link' = [[link EXCEPT ![h + 1] = t] EXCEPT
                            ![h] = ResultSent(@, Route!Error(Head(worker[h].pending)))]
    <3>1. [link EXCEPT ![h + 1] = t][h] = link[h]
      BY <1>3
    <3>. QED BY <2>2, <2>3, <3>1
  <2>. QED BY <1>2, <2>1, <2>3
<1>7. \A g \in Hop : link'[g].work = link[g].work
  BY <1>6, LinksQuiet
<1>8. Quiet(h)
  BY <1>7, RelayTakeDoes DEF RouteOK, Quiet, Less, SameWork, Onward
<1>9. \A m \in Result : m = worker'[h].answer => m = worker[h].answer \/ \E k \in Hop : Held(k, m)
  BY <1>2, <1>3, <1>4 DEF Held, n
<1>10. OldAnswers
  BY <1>1, <1>6, <1>9, LinksQuiet, AnswersOld DEF RouteOK
<1>. QED BY <1>1, <1>8, <1>10, QuietStep DEF RouteOK

(* The relay passes the answer it holds on.                                *)
LEMMA RelayWrites ==
  ASSUME RouteOK, UNCHANGED own, NEW h \in Hop, Route!RelayWrite(h)
  PROVE  RouteInv' /\ WorkersOK' /\ LinksOK'
<1>1. WorkersOK' /\ LinksOK' /\ Others(h)
  BY RelayWriteDoes DEF RouteOK
<1>2. /\ worker[h].answer \in Result
      /\ link' = link \/ link' = [link EXCEPT ![h] = ResultSent(@, worker[h].answer)]
      /\ worker'[h].answer = Route!NoAnswer
  <2>1. worker[h].relay = "write"
    BY RelayWriteDoes DEF RouteOK
  <2>2. worker[h].answer \in Result
    BY <2>1 DEF RouteOK, WorkersOK, IsWorker, WorkerRecord
  <2>. QED BY <2>2, RelayWriteDoes DEF RouteOK
<1>3. link \in [Hop -> Link] /\ Route!NoAnswer \notin Result
  BY Constants DEF RouteOK, LinksOK, Route!NoAnswer, Result, Chunk
<1>4. ASSUME NEW g \in Hop
      PROVE  /\ link'[g].work = link[g].work
             /\ \A m : OnLink(link'[g], m) => OnLink(link[g], m) \/ m = worker[h].answer
  <2>1. link'[g] = link[g] \/ link'[g] = ResultSent(link[g], worker[h].answer)
    BY <1>2, <1>3
  <2>2. link[g] \in Link
    BY <1>3
  <2>. QED BY <1>2, <2>1, <2>2, OnLinkAfter
<1>5. Quiet(h)
  BY <1>4, RelayWriteDoes DEF RouteOK, Quiet, Less, SameWork, Onward
<1>6. OldAnswers
  <2>1. \A g \in Hop : \A m : OnLink(link'[g], m) => m.kind = "error" \/ \E k \in Hop : Held(k, m)
    BY <1>4 DEF Held
  <2>. QED BY <1>1, <1>2, <1>3, <2>1, AnswersOld DEF RouteOK
<1>. QED BY <1>1, <1>5, <1>6, QuietStep DEF RouteOK

(* Steps that change no queue of answers and no relay.                     *)
LEMMA AnswersUntouched ==
  ASSUME WorkersOK, NEW h \in Hop, Others(h), SameRelay(worker'[h], worker[h]),
         \A g \in Hop : link'[g].result = link[g].result
  PROVE  OldAnswers
<1>1. \A m \in Result : m = worker'[h].answer => m = worker[h].answer
  BY DEF SameRelay
<1>2. \A g \in Hop : \A m : OnLink(link'[g], m) => m.kind = "error" \/ \E k \in Hop : Held(k, m)
  BY DEF OnLink, Held
<1>. QED BY <1>1, <1>2, AnswersOld

LEMMA UpIsInt ==
  ASSUME RouteOK, NEW h \in Hop
  PROVE  Up(h) \in Int
<1>1. \A g \in Hop : Handed(worker[g]) \in Int
  BY WorkerTypes DEF RouteOK, WorkersOK
<1>. QED BY <1>1, Constants DEF Up, Hop, RouteOK

LEMMA KvTypes ==
  ASSUME NEW w \in WorkerRecord
  PROVE  w.hash \in Int /\ w.job.id \in Int /\ w.kv \in Int /\ Count \in Nat
<1>1. w.hash \in Content \cup {Route!NoHash} /\ w.kv \in Content \cup {Route!Wrong}
  BY DEF WorkerRecord
<1>. QED BY <1>1, WorkerTypes, Constants DEF Content, Route!NoHash, Route!Wrong

LEMMA ReadWorkKeeps ==
  ASSUME RouteOK, UNCHANGED own, NEW h \in Hop, Route!ReadWork(h)
  PROVE  RouteInv' /\ WorkersOK' /\ LinksOK'
<1>. DEFINE w == worker[h]
            v == worker'[h]
            l == link[h].work
<1>1. WorkersOK' /\ LinksOK' /\ Others(h)
  BY ReadWorkDoes DEF RouteOK
<1>2. /\ l # <<>> /\ link' = [link EXCEPT ![h].work = Tail(@)]
      /\ SameKv(v, w) /\ SameRelay(v, w) /\ w.reader = "read"
      /\ \/ /\ Prefetch[h] = 0 /\ v.eval = "eval" /\ v.job = Head(l)
            /\ v.queue = w.queue /\ v.frame = w.frame
         \/ /\ v.eval = w.eval /\ v.job = w.job /\ v.queue = w.queue /\ v.frame = Head(l)
  BY ReadWorkDoes DEF RouteOK
<1>3. /\ w \in WorkerRecord /\ v \in WorkerRecord /\ IsWorker(w, h) /\ l \in Seq(Work)
      /\ link \in [Hop -> Link] /\ link[h] \in Link /\ Up(h) \in Int
  BY <1>1, UpIsInt DEF RouteOK, WorkersOK, IsWorker, LinksOK, Link
<1>4. /\ link'[h].work = Tail(l) /\ \A g \in Hop : link'[g].result = link[g].result
      /\ \A g \in Hop \ {h} : link'[g].work = link[g].work
  BY <1>2, <1>3 DEF Link
<1>5. InOrder(w, l, Up(h)) /\ Hashed(w)
  BY DEF RouteOK, RouteInv
<1>6. OldAnswers
  BY <1>1, <1>2, <1>4, AnswersUntouched DEF RouteOK
<1>7. w.frame = Route!NoFrame
  BY <1>2, <1>3 DEF IsWorker
<1>. HIDE DEF w, v, l
<1>8. CASE /\ Prefetch[h] = 0 /\ v.eval = "eval" /\ v.job = Head(l)
           /\ v.queue = w.queue /\ v.frame = w.frame
  <2>1. w.queue = <<>>
    <3>1. w.queue \in Seq(Work) /\ Len(w.queue) <= 0
      BY <1>3, <1>8, WorkerTypes DEF IsWorker
    <3>. QED BY <3>1, EmptySeq
  <2>2. /\ InOrder(v, Tail(l), Up(h)) /\ w.job.id < v.job.id
        /\ \A f \in Work : InHand(v, Tail(l), f) => InHand(w, l, f)
    BY <1>2, <1>3, <1>5, <1>7, <1>8, <2>1, OrderRead
  <2>3. Handed(v) >= Handed(w)
    BY <1>3, <1>8, <2>2, WorkerTypes DEF Handed
  <2>4. KvStep(v, w)
    BY <1>2, <1>3, <1>5, <1>8, <2>2, KvTypes DEF KvStep, Hashed, SameKv
  <2>. QED BY <1>1, <1>4, <1>6, <2>2, <2>3, <2>4, RouteStep DEF RouteOK, OldAnswers, w, v, l
<1>9. CASE v.eval = w.eval /\ v.job = w.job /\ v.queue = w.queue /\ v.frame = Head(l)
  <2>1. /\ InOrder(v, Tail(l), Up(h))
        /\ \A f \in Work : InHand(v, Tail(l), f) => InHand(w, l, f)
    BY <1>2, <1>3, <1>5, <1>7, <1>9, OrderHold
  <2>2. Handed(v) >= Handed(w)
    BY <1>3, <1>9, WorkerTypes DEF Handed
  <2>3. KvStep(v, w)
    BY <1>2, <1>5, <1>9 DEF KvStep, Hashed, SameKv
  <2>. QED BY <1>1, <1>4, <1>6, <2>1, <2>2, <2>3, RouteStep DEF RouteOK, OldAnswers, w, v, l
<1>. QED BY <1>2, <1>8, <1>9

(* A step whose branches are quiet, but for one that moves a frame.        *)
LEMMA PutJobKeeps ==
  ASSUME RouteOK, UNCHANGED own, NEW h \in Hop, Route!PutJob(h)
  PROVE  RouteInv' /\ WorkersOK' /\ LinksOK'
<1>. DEFINE w == worker[h]
            v == worker'[h]
            l == link[h].work
<1>1. WorkersOK' /\ LinksOK' /\ Others(h) /\ UNCHANGED link
  BY PutJobDoes DEF RouteOK
<1>2. /\ SameKv(v, w) /\ SameRelay(v, w) /\ w.reader = "put" /\ v.job = w.job /\ v.eval = w.eval
      /\ \/ v.queue \in {w.queue, <<>>} /\ v.frame \in {w.frame, Route!NoFrame}
         \/ v.queue = Append(w.queue, w.frame) /\ v.frame = Route!NoFrame
  BY PutJobDoes DEF RouteOK, SameWork
<1>3. /\ w \in WorkerRecord /\ v \in WorkerRecord /\ IsWorker(w, h) /\ l \in Seq(Work)
      /\ Up(h) \in Int
  BY <1>1, UpIsInt DEF RouteOK, WorkersOK, IsWorker, LinksOK, Link
<1>4. InOrder(w, l, Up(h)) /\ Hashed(w)
  BY DEF RouteOK, RouteInv
<1>5. OldAnswers
  BY <1>1, <1>2, AnswersUntouched DEF RouteOK
<1>6. CASE v.queue \in {w.queue, <<>>} /\ v.frame \in {w.frame, Route!NoFrame}
  <2>1. Quiet(h)
    BY <1>1, <1>2, <1>6 DEF Quiet, Less, Onward
  <2>. QED BY <1>1, <1>5, <2>1, QuietStep DEF RouteOK
<1>7. CASE v.queue = Append(w.queue, w.frame) /\ v.frame = Route!NoFrame
  <2>1. w.frame # Route!NoFrame
    BY <1>2, <1>3 DEF IsWorker
  <2>. HIDE DEF w, v, l
  <2>2. InOrder(v, l, Up(h)) /\ \A f \in Work : InHand(v, l, f) => InHand(w, l, f)
    BY <1>2, <1>3, <1>4, <1>7, <2>1, OrderPut
  <2>3. Handed(v) >= Handed(w)
    BY <1>2, <1>3, WorkerTypes DEF Handed
  <2>4. KvStep(v, w)
    BY <1>2, <1>4 DEF KvStep, Hashed, SameKv
  <2>. QED BY <1>1, <1>5, <2>2, <2>3, <2>4, RouteStep DEF RouteOK, OldAnswers, w, v, l
<1>. QED BY <1>2, <1>6, <1>7

LEMMA PopJobKeeps ==
  ASSUME RouteOK, UNCHANGED own, NEW h \in Hop, Route!PopJob(h)
  PROVE  RouteInv' /\ WorkersOK' /\ LinksOK'
<1>. DEFINE w == worker[h]
            v == worker'[h]
            l == link[h].work
<1>1. WorkersOK' /\ LinksOK' /\ Others(h) /\ UNCHANGED link
  BY PopJobDoes DEF RouteOK
<1>2. /\ SameKv(v, w) /\ SameRelay(v, w) /\ v.frame = w.frame
      /\ \/ v.queue = w.queue /\ v.job = w.job /\ (v.eval = "out" \/ v.eval = w.eval)
         \/ /\ w.queue # <<>> /\ v.job = Head(w.queue) /\ v.queue = Tail(w.queue)
            /\ v.eval = "eval"
  BY PopJobDoes DEF RouteOK, SameWork
<1>3. /\ w \in WorkerRecord /\ v \in WorkerRecord /\ l \in Seq(Work) /\ Up(h) \in Int
  BY <1>1, UpIsInt DEF RouteOK, WorkersOK, LinksOK, Link
<1>4. InOrder(w, l, Up(h)) /\ Hashed(w)
  BY DEF RouteOK, RouteInv
<1>5. OldAnswers
  BY <1>1, <1>2, AnswersUntouched DEF RouteOK
<1>6. CASE v.queue = w.queue /\ v.job = w.job /\ (v.eval = "out" \/ v.eval = w.eval)
  <2>1. Quiet(h)
    BY <1>1, <1>2, <1>6 DEF Quiet, Less, Onward
  <2>. QED BY <1>1, <1>5, <2>1, QuietStep DEF RouteOK
<1>7. CASE /\ w.queue # <<>> /\ v.job = Head(w.queue) /\ v.queue = Tail(w.queue)
           /\ v.eval = "eval"
  <2>. HIDE DEF w, v, l
  <2>2. /\ InOrder(v, l, Up(h)) /\ w.job.id < v.job.id
        /\ \A f \in Work : InHand(v, l, f) => InHand(w, l, f)
    BY <1>2, <1>3, <1>4, <1>7, OrderPop
  <2>3. Handed(v) >= Handed(w)
    BY <1>3, <1>7, <2>2, WorkerTypes DEF Handed
  <2>4. KvStep(v, w)
    BY <1>2, <1>3, <1>4, <1>7, <2>2, KvTypes DEF KvStep, Hashed, SameKv
  <2>. QED BY <1>1, <1>5, <2>2, <2>3, <2>4, RouteStep DEF RouteOK, OldAnswers, w, v, l
<1>. QED BY <1>2, <1>6, <1>7

LEMMA EvaluateKeeps ==
  ASSUME RouteOK, UNCHANGED own, NEW h \in Hop, Route!Evaluate(h)
  PROVE  RouteInv' /\ WorkersOK' /\ LinksOK'
<1>. DEFINE w == worker[h]
            v == worker'[h]
            l == link[h].work
<1>1. WorkersOK' /\ LinksOK' /\ Others(h) /\ UNCHANGED link
  BY EvaluateDoes DEF RouteOK
<1>2. /\ Less(v, w) /\ SameRelay(v, w) /\ w.eval = "eval"
      /\ \/ /\ Route!PrefixMatches(w) /\ v.kv = Route!Extended(w) /\ v.hash = w.job.id
            /\ v.eval = After(h)
         \/ SameKv(v, w) /\ v.eval = "error"
         \/ v.kv = Route!Wrong /\ v.hash = Route!NoHash /\ v.eval = "error"
  BY EvaluateDoes DEF RouteOK, SameWork, Less
<1>3. /\ w \in WorkerRecord /\ v \in WorkerRecord /\ l \in Seq(Work) /\ Up(h) \in Int
      /\ w.job \in Work /\ w.job.id \in Chunk
  BY <1>1, <1>2, UpIsInt, JobIsWork DEF RouteOK, WorkersOK, LinksOK, Link
<1>4. InOrder(w, l, Up(h)) /\ Hashed(w) /\ GoodFrame(w.job, h)
  BY <1>3 DEF RouteOK, RouteInv, InHand
<1>5. OldAnswers
  BY <1>1, <1>2, AnswersUntouched DEF RouteOK
<1>. HIDE DEF w, v, l
<1>6. InOrder(v, l, Up(h)) /\ \A f \in Work : InHand(v, l, f) => InHand(w, l, f)
  BY <1>2, <1>3, <1>4, OrderLess
<1>7. v.job = w.job /\ w.job.id \in 1 .. Count /\ w.hash < w.job.id /\ w.kv = w.hash
  BY <1>2, <1>3, <1>4 DEF Less, Hashed, Chunk
<1>8. Handed(v) >= Handed(w)
  BY <1>2, <1>7 DEF Handed
<1>9. KvStep(v, w)
  <2>1. w.hash # Count
    BY <1>3, <1>7, KvTypes
  <2>2. CASE /\ Route!PrefixMatches(w) /\ v.kv = Route!Extended(w) /\ v.hash = w.job.id
             /\ v.eval = After(h)
    <3>1. Route!Kv(w) = w.job.id - 1
      BY <1>7, <2>2 DEF Route!Kv, Route!PrefixMatches
    <3>2. v.kv = w.job.id
      BY <1>4, <2>2, <3>1 DEF Route!Extended, GoodFrame
    <3>. QED BY <1>7, <2>1, <2>2, <3>2 DEF KvStep, Hashed, After
  <2>3. CASE SameKv(v, w) /\ v.eval = "error"
    BY <1>4, <1>7, <2>3 DEF KvStep, Hashed, SameKv
  <2>4. CASE v.kv = Route!Wrong /\ v.hash = Route!NoHash /\ v.eval = "error"
    BY <1>7, <2>1, <2>4 DEF KvStep, Hashed, Route!Wrong, Route!NoHash
  <2>. QED BY <1>2, <2>2, <2>3, <2>4
<1>. QED BY <1>1, <1>5, <1>6, <1>8, <1>9, RouteStep DEF RouteOK, OldAnswers, w, v, l

(* What a worker hands on of a chunk it evaluated is right.                *)
LEMMA OutputGood ==
  ASSUME RouteOK, NEW h \in Hop, worker[h].eval \in {"send", "answer"}
  PROVE  /\ worker[h].job \in Work /\ worker[h].job.id \in Chunk
         /\ Route!Output(worker[h]) = worker[h].job.id
         /\ worker[h].job.id = Count => AllBefore(h + 1)
<1>1. worker[h].job \in Work /\ worker[h].job.id \in Chunk
  BY JobIsWork DEF RouteOK, WorkersOK
<1>2. Hashed(worker[h]) /\ GoodFrame(worker[h].job, h)
  BY <1>1 DEF RouteOK, RouteInv, InHand
<1>3. worker[h].hash = worker[h].job.id /\ worker[h].kv = worker[h].job.id
  BY <1>2 DEF Hashed
<1>4. ASSUME worker[h].job.id = Count, NEW g \in Hop, g < h + 1
      PROVE  worker[g].hash = Count
  <2>1. g = h \/ g < h
    BY <1>4, Constants DEF Hop
  <2>. QED BY <1>2, <1>3, <1>4, <2>1 DEF GoodFrame, AllBefore
<1>. QED BY <1>1, <1>3, <1>4 DEF AllBefore, Route!Output

LEMMA AnswerKeeps ==
  ASSUME RouteOK, UNCHANGED own, NEW h \in Hop, Route!Answer(h)
  PROVE  RouteInv' /\ WorkersOK' /\ LinksOK'
<1>. DEFINE w == worker[h]
            v == worker'[h]
<1>0. PICK a : a = AnswerOf(w)
  OBVIOUS
<1>1. WorkersOK' /\ LinksOK' /\ Others(h)
  BY AnswerDoes DEF RouteOK
<1>2. /\ Less(v, w) /\ SameKv(v, w) /\ SameRelay(v, w) /\ w.eval = "answer"
      /\ v.eval \in {"pop", "fail"}
      /\ link' = link \/ link' = [link EXCEPT ![h] = ResultSent(@, a)]
  BY <1>0, AnswerDoes DEF RouteOK, SameWork, Less
<1>3. /\ link \in [Hop -> Link] /\ h = Hops /\ Hops \in Nat
      /\ a \in Result /\ a.id = w.job.id /\ a.of = Route!Output(w)
  <2>1. h = Hops
    BY <1>2 DEF RouteOK, WorkersOK, IsWorker
  <2>2. a \in Result
    BY <1>0, <1>2, OutputGood, AnswerIsResult
  <2>. QED BY <1>0, <2>1, <2>2, Constants DEF RouteOK, LinksOK, AnswerOf
<1>4. GoodAnswer(a)'
  <2>1. AllBefore(h + 1) => AllBefore(h + 1)'
    BY <1>1, <1>2 DEF AllBefore, Others, SameKv
  <2>2. a.of = a.id /\ (a.id = Count => AllBefore(h + 1))
    BY <1>2, <1>3, OutputGood
  <2>. QED BY <1>3, <2>1, <2>2 DEF GoodAnswer
<1>5. ASSUME NEW g \in Hop
      PROVE  /\ link'[g].work = link[g].work
             /\ \A m : OnLink(link'[g], m) => OnLink(link[g], m) \/ m = a
  <2>1. link'[g] = link[g] \/ link'[g] = ResultSent(link[g], a)
    BY <1>2, <1>3
  <2>2. link[g] \in Link
    BY <1>3
  <2>. QED BY <1>3, <2>1, <2>2, OnLinkAfter
<1>6. Quiet(h)
  BY <1>2, <1>5 DEF Quiet, Onward
<1>7. OldAnswers
  <2>. SUFFICES ASSUME NEW g \in Hop, NEW m \in Result, Held(g, m)'
                PROVE  GoodAnswer(m)' \/ \E k \in Hop : Held(k, m)
    BY DEF OldAnswers
  <2>1. CASE OnLink(link'[g], m)
    BY <1>4, <1>5, <2>1 DEF Held
  <2>2. CASE m = worker'[g].answer
    BY <1>1, <1>2, <2>2 DEF Held, Others, SameRelay
  <2>. QED BY <2>1, <2>2 DEF Held
<1>. QED BY <1>1, <1>6, <1>7, QuietStep DEF RouteOK

(* A good chunk goes down connection k.                                    *)
LEMMA RouteSent ==
  ASSUME RouteOK, WorkersOK', LinksOK', NEW k \in Hop, NEW m \in Work,
         GoodFrame(m, k), m.id = Up(k) + 1, Up(k)' = Up(k) + 1,
         \A g \in Hop : /\ Less(worker'[g], worker[g]) /\ SameKv(worker'[g], worker[g])
                        /\ Hashed(worker'[g]) /\ worker'[g].answer = worker[g].answer,
         \A g \in Hop \ {k} : Up(g)' = Up(g) /\ link'[g] = link[g],
         link'[k].work = Append(link[k].work, m), link'[k].result = link[k].result,
         UNCHANGED <<final, ret>>
  PROVE  RouteInv'
<1>0. /\ \A g \in Hop : worker[g] \in WorkerRecord /\ worker'[g] \in WorkerRecord
      /\ \A g \in Hop : link[g].work \in Seq(Work)
      /\ \A g \in Hop : Up(g) \in Int
  BY UpIsInt DEF RouteOK, WorkersOK, LinksOK, Link
<1>1. \A j : AllBefore(j) => AllBefore(j)'
  BY DEF AllBefore, SameKv
<1>2. ASSUME NEW g \in Hop
      PROVE  /\ InOrder(worker'[g], link[g].work, Up(g))
             /\ \A f \in Work : InHand(worker'[g], link[g].work, f)
                                   => InHand(worker[g], link[g].work, f)
  <2>1. InOrder(worker[g], link[g].work, Up(g)) /\ Less(worker'[g], worker[g])
    BY DEF RouteOK, RouteInv
  <2>. QED BY <1>0, <2>1, OrderLess
<1>3. ASSUME NEW g \in Hop
      PROVE  /\ InOrder(worker'[g], link'[g].work, Up(g)')
             /\ \A f \in Work : InHand(worker'[g], link'[g].work, f)
                                   => InHand(worker[g], link[g].work, f) \/ (f = m /\ g = k)
  <2>1. CASE g = k
    <3>1. /\ InOrder(worker'[k], Append(link[k].work, m), Up(k) + 1)
          /\ \A f \in Work : InHand(worker'[k], Append(link[k].work, m), f)
                                => InHand(worker'[k], link[k].work, f) \/ f = m
      BY <1>0, <1>2, OrderSend
    <3>. QED BY <1>2, <2>1, <3>1
  <2>2. CASE g # k
    <3>1. Up(g)' = Up(g) /\ link'[g] = link[g]
      BY <2>2
    <3>. QED BY <1>2, <3>1
  <2>. QED BY <2>1, <2>2
<1>4. \A g \in Hop : \A f \in Work : InHand(worker'[g], link'[g].work, f) => GoodFrame(f, g)'
  <2>. SUFFICES ASSUME NEW g \in Hop, NEW f \in Work, InHand(worker'[g], link'[g].work, f)
                PROVE  GoodFrame(f, g)'
    OBVIOUS
  <2>1. GoodFrame(f, g)
    BY <1>3 DEF RouteOK, RouteInv
  <2>. QED BY <1>1, <2>1 DEF GoodFrame
<1>5. \A g \in Hop : \A a \in Result : Held(g, a)' => GoodAnswer(a)'
  <2>. SUFFICES ASSUME NEW g \in Hop, NEW a \in Result, Held(g, a)'
                PROVE  GoodAnswer(a)'
    OBVIOUS
  <2>1. Held(g, a)
    <3>1. link'[g].result = link[g].result
      OBVIOUS
    <3>. QED BY <3>1 DEF Held, OnLink
  <2>2. GoodAnswer(a)
    BY <2>1 DEF RouteOK, RouteInv
  <2>. QED BY <1>1, <2>2 DEF GoodAnswer
<1>6. (final # -1 => final = Count /\ AllBefore(Hops + 1)) /\ (ret = "ok" => final # -1)
  BY DEF RouteOK, RouteInv
<1>. QED BY <1>1, <1>3, <1>4, <1>5, <1>6 DEF RouteInv

LEMMA ForwardSendKeeps ==
  ASSUME RouteOK, UNCHANGED own, NEW h \in Hop, Route!ForwardSend(h)
  PROVE  RouteInv' /\ WorkersOK' /\ LinksOK'
<1>. DEFINE w == worker[h]
            v == worker'[h]
            m == ForwardOf(w)
            n == h + 1
<1>1. WorkersOK' /\ LinksOK' /\ Others(h)
  BY ForwardSendDoes DEF RouteOK
<1>2. /\ Less(v, w) /\ SameKv(v, w) /\ SameRelay(v, w) /\ w.eval = "send" /\ v.eval = "pop"
      /\ \E l \in WorkSent(link[n], m) : link' = [link EXCEPT ![n] = l]
  BY ForwardSendDoes DEF RouteOK, SameWork, Less
<1>3. /\ link \in [Hop -> Link] /\ n \in Hop /\ h \in Nat
      /\ w \in WorkerRecord /\ v \in WorkerRecord /\ v.job = w.job
      /\ w.job.id \in Nat /\ Hashed(w)
  <2>1. h < Hops
    BY <1>2 DEF RouteOK, WorkersOK, IsWorker
  <2>. QED BY <1>1, <1>2, <2>1, Constants, OutputGood DEF RouteOK, RouteInv, WorkersOK, LinksOK, Hop, Less, Chunk
<1>4. /\ m \in Work /\ m.id = w.job.id /\ m.hidden = w.job.id
      /\ m.id = Count => AllBefore(n)
  BY <1>2, OutputGood, AnswerIsResult DEF ForwardOf
<1>5. PICK l \in WorkSent(link[n], m) : link' = [link EXCEPT ![n] = l]
  BY <1>2
<1>. HIDE DEF m
<1>6. CASE ~link[n].open
  <2>1. l = link[n]
    BY <1>5, <1>6 DEF WorkSent
  <2>2. UNCHANGED link
    BY <1>3, <1>5, <2>1
  <2>3. Quiet(h)
    BY <1>2, <2>2 DEF Quiet, Onward
  <2>4. OldAnswers
    BY <1>1, <1>2, <2>2, AnswersUntouched DEF RouteOK
  <2>. QED BY <1>1, <2>3, <2>4, QuietStep DEF RouteOK
<1>7. CASE link[n].open
  <2>1. l = [link[n] EXCEPT !.work = Append(@, m)]
    BY <1>5, <1>7 DEF WorkSent
  <2>2. /\ link'[n].work = Append(link[n].work, m) /\ link'[n].result = link[n].result
        /\ \A g \in Hop \ {n} : link'[g] = link[g]
    BY <1>3, <1>5, <2>1 DEF Link
  <2>3. Up(n) = w.job.id - 1 /\ Up(n)' = w.job.id
    <3>1. n # 1 /\ n - 1 = h
      BY Constants DEF Hop
    <3>2. Up(n) = Handed(w) /\ Up(n)' = Handed(v)
      BY <3>1 DEF Up
    <3>. QED BY <1>2, <1>3, <3>2 DEF Handed
  <2>4. ASSUME NEW g \in Hop \ {n} PROVE Up(g)' = Up(g)
    <3>1. CASE g = 1
      BY <3>1 DEF Up, own
    <3>2. CASE g # 1
      <4>1. g - 1 \in Hop \ {h}
        BY <1>3, <3>2, Constants DEF Hop
      <4>. QED BY <1>1, <3>2, <4>1 DEF Up, Others
    <3>. QED BY <3>1, <3>2
  <2>5. ASSUME NEW g \in Hop
        PROVE  /\ Less(worker'[g], worker[g]) /\ SameKv(worker'[g], worker[g])
               /\ Hashed(worker'[g]) /\ worker'[g].answer = worker[g].answer
    <3>1. CASE g = h
      <4>1. Hashed(v)
        BY <1>2, <1>3 DEF Hashed, SameKv
      <4>. QED BY <1>2, <3>1, <4>1 DEF SameRelay
    <3>2. CASE g # h
      <4>1. worker'[g] = worker[g] /\ Hashed(worker[g])
        BY <1>1, <3>2 DEF Others, RouteOK, RouteInv
      <4>. QED BY <4>1 DEF Less, SameKv
    <3>. QED BY <3>1, <3>2
  <2>6. GoodFrame(m, n)
    BY <1>4 DEF GoodFrame
  <2>7. UNCHANGED <<final, ret>>
    BY DEF own
  <2>8. m.id = Up(n) + 1 /\ Up(n)' = Up(n) + 1
    BY <1>3, <1>4, <2>3
  <2>. HIDE DEF n
  <2>. QED BY <1>1, <1>3, <1>4, <2>2, <2>4, <2>5, <2>6, <2>7, <2>8, RouteSent
<1>. QED BY <1>6, <1>7

-----------------------------------------------------------------------------
(* The steps of the coordinator.                                           *)

LEMMA RouteCalm ==
  ASSUME RouteOK, LinksOK', UNCHANGED worker, sent' \in Nat, sent' >= sent,
         \A g \in Hop : KeepsLink(link'[g], link[g]),
         final' = final \/ (final' = Count /\ AllBefore(Hops + 1)),
         ret' = ret \/ ret' # "ok" \/ final' # -1
  PROVE  RouteInv' /\ WorkersOK'
<1>0. /\ \A g \in Hop : worker[g] \in WorkerRecord /\ link[g].work \in Seq(Work)
      /\ \A g \in Hop : Up(g) \in Int
  BY UpIsInt DEF RouteOK, WorkersOK, LinksOK, Link
<1>1. WorkersOK'
  BY DEF RouteOK, WorkersOK
<1>2. \A j : AllBefore(j) <=> AllBefore(j)'
  BY DEF AllBefore
<1>3. \A g \in Hop : Up(g)' \in Int /\ Up(g)' >= Up(g)
  BY <1>0 DEF Up, Handed, RouteOK
<1>4. ASSUME NEW g \in Hop
      PROVE  InOrder(worker[g], link'[g].work, Up(g)')
  <2>1. link'[g].work = link[g].work
    BY DEF KeepsLink
  <2>2. InOrder(worker[g], link[g].work, Up(g)) /\ Less(worker[g], worker[g])
    BY DEF RouteOK, RouteInv, Less
  <2>. QED BY <1>0, <1>3, <2>1, <2>2, OrderLess
<1>5. \A g \in Hop : \A f \in Work : InHand(worker[g], link'[g].work, f) => GoodFrame(f, g)'
  BY <1>2 DEF KeepsLink, RouteOK, RouteInv, GoodFrame
<1>6. \A g \in Hop : \A m \in Result : Held(g, m)' => GoodAnswer(m)'
  <2>. SUFFICES ASSUME NEW g \in Hop, NEW m \in Result, Held(g, m)'
                PROVE  GoodAnswer(m)'
    OBVIOUS
  <2>1. Held(g, m) \/ m.kind = "error"
    BY DEF Held, KeepsLink
  <2>. QED BY <1>2, <2>1 DEF GoodAnswer, RouteOK, RouteInv
<1>7. \A g \in Hop : Hashed(worker[g])
  BY DEF RouteOK, RouteInv
<1>8. (final' # -1 => final' = Count /\ AllBefore(Hops + 1)') /\ (ret' = "ok" => final' # -1)
  <2>1. Count # -1
    BY Constants
  <2>. QED BY <1>2, <2>1 DEF RouteOK, RouteInv
<1>. QED BY <1>1, <1>4, <1>5, <1>6, <1>7, <1>8 DEF RouteInv

(* All but a frame sent and a result taken.                                *)
Calm ==
  /\ UNCHANGED <<sent, final>>
  /\ link' = link \/ link' = [link EXCEPT ![1] = Shut(@)]
  /\ ret' = ret \/ ret' # "ok" \/ final # -1
  /\ UNCHANGED faults \/ Fault

LEMMA ProducerCalm == ProducerStep => Calm
<1>. USE DEF Calm, senderVars, readerVars
<1>1. CreateReader \/ CreateSender \/ SenderNotCreated \/ Abandon => Calm
  BY DEF CreateReader, CreateSender, SenderNotCreated, Abandon
<1>2. WaitWindow \/ AcquireSlot => Calm
  BY DEF WaitWindow, AcquireSlot, Cancel, Sleep
<1>3. EvalSlice \/ EnqueueSlot => Calm
  BY DEF EvalSlice, EnqueueSlot, Cancel
<1>4. Finish \/ JoinSender \/ WaitReader => Calm
  BY DEF Finish, JoinSender, WaitReader, Sleep
<1>5. Return => Calm
  BY DEF Return
<1>. QED BY <1>1, <1>2, <1>3, <1>4, <1>5 DEF ProducerStep

LEMMA OthersCalm == SenderTop \/ SenderFails \/ ReaderFails => Calm
  BY DEF Calm, SenderTop, SenderFails, ReaderFails, senderVars, readerVars

LEMMA OneIsHop == 1 \in Hop
  BY Constants DEF Hop

LEMMA CalmKeeps ==
  ASSUME RouteOK, Calm, UNCHANGED worker
  PROVE  RouteInv' /\ WorkersOK' /\ LinksOK'
<1>1. /\ link \in [Hop -> Link] /\ faults' \in 0 .. MaxFaults
      /\ link' = link \/ link' = [link EXCEPT ![1] = Shut(@)]
  BY FaultTypes DEF RouteOK, LinksOK, Calm
<1>2. KeepsLink(Shut(link[1]), link[1]) /\ Shut(link[1]) \in Link
  BY <1>1, OneIsHop, KeepsLinks, LinkSent
<1>3. \A g \in Hop : KeepsLink(link'[g], link[g])
  BY <1>1, <1>2, OneIsHop, KeepsAll, KeepsOne DEF RouteOK
<1>4. LinksOK'
  BY <1>1, <1>2 DEF LinksOK
<1>5. /\ sent' \in Nat /\ sent' >= sent /\ final' = final
      /\ ret' = ret \/ ret' # "ok" \/ final' # -1
  BY DEF Calm, RouteOK
<1>. QED BY <1>3, <1>4, <1>5, RouteCalm

LEMMA SenderSendKeeps ==
  ASSUME RouteOK, Inv, SenderSend, UNCHANGED worker
  PROVE  RouteInv' /\ WorkersOK' /\ LinksOK'
<1>1. PICK m : m = [id |-> sent + 1, hidden |-> slots[Slot(sent + 1)]]
  OBVIOUS
<1>2. /\ sent' = sent + 1 /\ sent \in Nat /\ UNCHANGED <<final, ret, faults>>
      /\ \E l \in WorkSent(link[1], m) : link' = [link EXCEPT ![1] = l]
  BY <1>1 DEF SenderSend, readerVars, RouteOK
<1>3. m \in Work /\ m.id = sent + 1 /\ m.hidden = sent + 1
  <2>1. sent + 1 \in (sent + 1) .. submitted /\ sent + 1 \in Chunk
    BY <1>2, Constants DEF SenderSend, Inv, RingInv, TypeOK, Chunk
  <2>2. slots[Slot(sent + 1)] = sent + 1
    BY <2>1 DEF Inv, SlotsOwned
  <2>. QED BY <1>1, <2>1, <2>2 DEF Work, Content, Chunk
<1>4. PICK l \in WorkSent(link[1], m) : link' = [link EXCEPT ![1] = l]
  BY <1>2
<1>5. link \in [Hop -> Link] /\ link[1] \in Link /\ 1 \in Hop /\ faults' = faults
  BY <1>2, OneIsHop DEF RouteOK, LinksOK
<1>6. LinksOK' /\ WorkersOK'
  BY <1>3, <1>4, <1>5, LinkSent DEF RouteOK, LinksOK, WorkersOK
<1>7. CASE ~link[1].open
  <2>1. UNCHANGED link
    BY <1>4, <1>5, <1>7 DEF WorkSent
  <2>. QED BY <1>2, <1>6, <2>1, KeepsAll, RouteCalm DEF RouteOK
<1>8. CASE link[1].open
  <2>1. l = [link[1] EXCEPT !.work = Append(@, m)]
    BY <1>4, <1>8 DEF WorkSent
  <2>2. /\ link'[1].work = Append(link[1].work, m) /\ link'[1].result = link[1].result
        /\ \A g \in Hop \ {1} : link'[g] = link[g]
    BY <1>4, <1>5, <2>1 DEF Link
  <2>3. /\ Up(1) = sent /\ Up(1)' = sent + 1
        /\ \A g \in Hop \ {1} : Up(g)' = Up(g)
    BY <1>2 DEF Up
  <2>4. \A g \in Hop : /\ Less(worker'[g], worker[g]) /\ SameKv(worker'[g], worker[g])
                       /\ Hashed(worker'[g]) /\ worker'[g].answer = worker[g].answer
    BY DEF Less, SameKv, RouteOK, RouteInv
  <2>5. GoodFrame(m, 1)
    BY <1>3, Constants DEF GoodFrame, AllBefore, Hop
  <2>. QED BY <1>2, <1>3, <1>5, <1>6, <2>2, <2>3, <2>4, <2>5, RouteSent
<1>. QED BY <1>7, <1>8

LEMMA ReaderTakeKeeps ==
  ASSUME RouteOK, ReaderTake, UNCHANGED worker
  PROVE  RouteInv' /\ WorkersOK' /\ LinksOK'
<1>. DEFINE n == link[1]
            t == [n EXCEPT !.result = Tail(@)]
<1>1. /\ n.result # <<>> /\ link' = [link EXCEPT ![1] = t] /\ UNCHANGED <<sent, ret, faults>>
      /\ n \in Link /\ link \in [Hop -> Link] /\ sent \in Nat /\ 1 \in Hop
  BY OneIsHop DEF ReaderTake, senderVars, RouteOK, LinksOK
<1>2. PICK m : m = Head(n.result)
  OBVIOUS
<1>3. /\ final' = final \/ (final' = m.of /\ m.id = Count /\ m.kind # "error")
  BY <1>2 DEF ReaderTake, Valid
<1>. HIDE DEF n
<1>4. KeepsLink(t, n) /\ t \in Link /\ OnLink(n, m) /\ m \in Result
  BY <1>1, <1>2, KeepsLinks, LinkSent, OnLinkTaken
<1>. HIDE DEF t
<1>5. LinksOK'
  BY <1>1, <1>4 DEF RouteOK, LinksOK
<1>6. \A g \in Hop : KeepsLink(link'[g], link[g])
  BY <1>1, <1>4, KeepsOne DEF RouteOK, n
<1>7. GoodAnswer(m)
  BY <1>1, <1>4 DEF RouteOK, RouteInv, Held, n
<1>8. final' = final \/ (final' = Count /\ AllBefore(Hops + 1))
  BY <1>3, <1>7 DEF GoodAnswer
<1>9. sent' \in Nat /\ sent' >= sent /\ ret' = ret
  BY <1>1
<1>. QED BY <1>5, <1>6, <1>8, <1>9, RouteCalm

-----------------------------------------------------------------------------
RouteFull == Inv /\ RouteInv /\ WorkersOK /\ LinksOK

LEMMA InitRoute == PipelineInit => RouteFull
<1>. SUFFICES ASSUME PipelineInit PROVE RouteInv /\ WorkersOK /\ LinksOK
  BY InitInv DEF RouteFull
<1>1. ASSUME NEW h \in Hop
      PROVE  /\ IsWorker(worker[h], h) /\ worker[h].job = Route!NoFrame
             /\ worker[h].frame = Route!NoFrame /\ worker[h].queue = <<>>
             /\ worker[h].answer = Route!NoAnswer
             /\ worker[h].kv = -1 /\ worker[h].hash = -1 /\ worker[h].eval \in {"pop", "out"}
  <2>1. PICK e : e = IF Prefetch[h] = 0 THEN "out" ELSE "pop"
    OBVIOUS
  <2>2. worker[h] = [reader |-> "read", frame |-> Route!NoFrame,
                     queue |-> <<>>, closed |-> FALSE, canceled |-> FALSE,
                     eval |-> e, job |-> Route!NoFrame,
                     relay |-> "none", answer |-> Route!NoAnswer,
                     pending |-> <<>>, closing |-> FALSE,
                     kv |-> Route!Wrong, hash |-> Route!NoHash, asleep |-> {}]
    BY <2>1, Shared DEF PipelineInit, Route!WorkerInit
  <2>3. e \in {"pop", "out"}
    BY <2>1
  <2>4. worker[h] \in WorkerRecord
    BY <2>2, <2>3, EmptyQueues DEF WorkerRecord
  <2>5. Len(<<>>) <= Prefetch[h] /\ Len(<<>>) <= Forward
    BY EmptyQueues, Constants
  <2>6. IsWorker(worker[h], h)
    BY <2>2, <2>3, <2>4, <2>5 DEF IsWorker
  <2>. QED BY <2>2, <2>3, <2>6 DEF Route!Wrong, Route!NoHash
<1>2. WorkersOK
  <2>1. DOMAIN worker = Hop /\ worker = [h \in Hop |-> worker[h]]
    BY Shared DEF PipelineInit, Route!WorkerInit
  <2>. QED BY <1>1, <2>1 DEF WorkersOK, IsWorker
<1>3. \A h \in Hop : link[h].work = <<>> /\ link[h].result = <<>> /\ link[h] \in Link
  BY EmptySeq DEF PipelineInit, Link
<1>4. LinksOK
  BY <1>3, Constants DEF PipelineInit, LinksOK
<1>5. ASSUME NEW h \in Hop
      PROVE  /\ InOrder(worker[h], link[h].work, Up(h)) /\ Hashed(worker[h])
             /\ \A f \in Work : ~InHand(worker[h], link[h].work, f)
             /\ \A m \in Result : ~Held(h, m)
  <2>1. /\ worker[h].job.id = 0 /\ worker[h].frame.id = 0 /\ Len(worker[h].queue) = 0
        /\ Len(link[h].work) = 0 /\ Len(link[h].result) = 0
    BY <1>1, <1>3, EmptyQueues DEF Route!NoFrame
  <2>2. Up(h) = 0
    <3>1. CASE h = 1
      BY <3>1 DEF Up, PipelineInit, Init
    <3>2. CASE h # 1
      <4>1. h - 1 \in Hop
        BY <3>2, Constants DEF Hop
      <4>2. worker[h - 1].job.id = 0 /\ worker[h - 1].eval \in {"pop", "out"}
        BY <1>1, <4>1 DEF Route!NoFrame
      <4>. QED BY <3>2, <4>2 DEF Up, Handed
    <3>. QED BY <3>1, <3>2
  <2>3. Route!NoFrame \notin Work /\ Route!NoAnswer \notin Result
    BY Constants DEF Route!NoFrame, Route!NoAnswer, Work, Result, Chunk
  <2>4. InOrder(worker[h], link[h].work, Up(h))
    BY <2>1, <2>2 DEF InOrder
  <2>5. Hashed(worker[h])
    BY <1>1, <2>1 DEF Hashed
  <2>6. \A f \in Work : ~InHand(worker[h], link[h].work, f)
    BY <1>1, <2>1, <2>3 DEF InHand
  <2>7. \A m \in Result : ~Held(h, m)
    BY <1>1, <2>1, <2>3 DEF Held, OnLink
  <2>. QED BY <2>4, <2>5, <2>6, <2>7
<1>6. final = -1 /\ ret # "ok"
  BY DEF PipelineInit, Init
<1>. QED BY <1>2, <1>4, <1>5, <1>6 DEF RouteInv

LEMMA WorkerKeepsRoute ==
  ASSUME RouteOK, UNCHANGED own, NEW h \in Hop, Route!WorkerStep(h)
  PROVE  RouteInv' /\ WorkersOK' /\ LinksOK'
<1>1. CASE Route!ReaderLoop(h)
  BY <1>1, ReadWorkKeeps, PutJobKeeps, ReaderQuiet DEF Route!ReaderLoop
<1>2. CASE Route!EvalLoop(h)
  BY <1>2, PopJobKeeps, EvaluateKeeps, AnswerKeeps, ForwardSendKeeps, EvalQuiet DEF Route!EvalLoop
<1>3. CASE Route!RelayLoop(h)
  BY <1>3, RelayTakes, RelayWrites, RelayQuiet DEF Route!RelayLoop
<1>. QED BY <1>1, <1>2, <1>3 DEF Route!WorkerStep

LEMMA CutKeeps ==
  ASSUME RouteOK, NEW h \in Hop, Cut(h), UNCHANGED <<own, worker>>
  PROVE  RouteInv' /\ WorkersOK' /\ LinksOK'
<1>1. /\ link \in [Hop -> Link] /\ faults' \in 0 .. MaxFaults
      /\ link' = [link EXCEPT ![h] = Shut(@)]
      /\ UNCHANGED <<sent, final, ret>>
  BY FaultTypes DEF RouteOK, LinksOK, Cut, own
<1>2. KeepsLink(Shut(link[h]), link[h]) /\ Shut(link[h]) \in Link
  BY <1>1, KeepsLinks, LinkSent
<1>3. \A g \in Hop : KeepsLink(link'[g], link[g])
  BY <1>1, <1>2, KeepsOne DEF RouteOK
<1>4. LinksOK'
  BY <1>1, <1>2 DEF LinksOK
<1>. QED BY <1>1, <1>3, <1>4, RouteCalm DEF RouteOK

THEOREM NextRoute == RouteFull /\ [PipelineNext]_allVars => RouteFull'
<1>. SUFFICES ASSUME RouteFull, [PipelineNext]_allVars PROVE RouteFull'
  OBVIOUS
<1>1. RouteOK /\ Inv
  BY DEF RouteFull, RouteOK, Inv, TypeOK
<1>2. Inv'
  BY <1>1, NextInv
<1>3. CASE Coordinator /\ UNCHANGED worker
  BY <1>1, <1>2, <1>3, ProducerCalm, OthersCalm, CalmKeeps, SenderSendKeeps, ReaderTakeKeeps
     DEF Coordinator, SenderStep, ReaderStep, RouteFull
<1>4. CASE \E h \in Hop : Route!WorkerStep(h) /\ UNCHANGED own
  BY <1>1, <1>2, <1>4, WorkerKeepsRoute DEF RouteFull
<1>5. CASE \E h \in Hop : Cut(h) /\ UNCHANGED <<own, worker>>
  BY <1>1, <1>2, <1>5, CutKeeps DEF RouteFull
<1>6. CASE UNCHANGED allVars
  <2>1. Calm /\ UNCHANGED worker
    BY <1>6 DEF allVars, own, Calm
  <2>. QED BY <1>1, <1>2, <2>1, CalmKeeps DEF RouteFull
<1>. QED BY <1>3, <1>4, <1>5, <1>6 DEF PipelineNext, ThreadStep

(* Every variable of the coordinator, the connections and the workers      *)
(* keeps its type; no queue of a worker outgrows its bound.                *)
THEOREM PipelineTypes == PipelineSpec => []PipelineTypeOK
<1>1. RouteFull => PipelineTypeOK
  <2>. SUFFICES ASSUME RouteFull PROVE PipelineTypeOK
    OBVIOUS
  <2>1. TypeOK
    BY DEF RouteFull, Inv
  <2>2. LinkTypeOK
    BY Constants DEF RouteFull, RouteInv, LinksOK, LinkTypeOK, Content
  <2>3. Route!WorkerTypeOK
    BY Shared DEF RouteFull, WorkersOK, IsWorker, WorkerRecord, Route!WorkerTypeOK
  <2>. QED BY <2>1, <2>2, <2>3 DEF PipelineTypeOK
<1>2. PipelineInit => RouteFull
  BY InitRoute
<1>3. RouteFull /\ [PipelineNext]_allVars => RouteFull'
  BY NextRoute
<1>. QED BY <1>1, <1>2, <1>3, PTL DEF PipelineSpec

(* A prefill that returns success has evaluated every chunk once, in       *)
(* order, on the coordinator's own hidden states, on every worker, and     *)
(* hands out the last worker's result of the last chunk, whatever broke on *)
(* the way.  (dist_coordinator_prefill_prompt_pipelined and the worker     *)
(* loops, ds4_distributed.c)                                               *)
THEOREM PrefillIsFaithful == PipelineSpec => []PrefillFaithful
<1>1. RouteFull => PrefillFaithful
  <2>. SUFFICES ASSUME RouteFull, ret = "ok"
                PROVE  final = Count /\ \A h \in Hop : worker[h].kv = Count
    BY DEF PrefillFaithful
  <2>1. final = Count /\ AllBefore(Hops + 1)
    BY DEF RouteFull, RouteInv
  <2>2. \A h \in Hop : worker[h].hash = Count /\ worker[h].kv = worker[h].hash
    BY <2>1, Constants DEF AllBefore, Hop, RouteFull, RouteInv, Hashed
  <2>. QED BY <2>1, <2>2
<1>2. PipelineInit => RouteFull
  BY InitRoute
<1>3. RouteFull /\ [PipelineNext]_allVars => RouteFull'
  BY NextRoute
<1>. QED BY <1>1, <1>2, <1>3, PTL DEF PipelineSpec

-----------------------------------------------------------------------------
(* While nothing has gone wrong every thread is in its loop, the chunks    *)
(* come to a worker one after the other with none left out, and the        *)
(* answers go back the same way, so the relay of a worker always finds the *)
(* request that its answer is for.                                         *)

(* What a worker that is not the last has put on record of its chunks,     *)
(* how many of those were answered by the next worker, and what it has     *)
(* given back itself: chunks come and go by number.                        *)
Tracked(w) ==
  IF w.eval \in {"eval", "open", "track"} THEN w.job.id - 1 ELSE w.job.id
Taken(w) == Tracked(w) - Len(w.pending)
GivenBack(h, w) ==
  IF h = Hops
  THEN IF w.eval \in {"eval", "answer"} THEN w.job.id - 1 ELSE w.job.id
  ELSE IF w.relay = "write" THEN Taken(w) - 1 ELSE Taken(w)
Before(h) == IF h = 1 THEN got ELSE Taken(worker[h - 1])

(* A worker with nothing that fails: its connection stands, its threads    *)
(* are in their loops, and its session is at the chunk before the next.    *)
Well(h, w, open) ==
  /\ open /\ ~w.closed /\ ~w.canceled /\ ~w.closing
  /\ w.reader \in {"read", "put", "work"}
  /\ w.reader = "work" => Prefetch[h] = 0
  /\ w.eval \in {"pop", "eval", "open", "track", "send", "answer", "out"}
  /\ w.eval = "out" <=> Prefetch[h] = 0 /\ w.reader = "read"
  /\ w.relay \in {"none", "start", "read", "write"}
  /\ w.eval = "eval" => w.job.id = 1 \/ w.hash = w.job.id - 1
  /\ w.eval # "eval" => w.job.id = 0 \/ w.hash = w.job.id

(* Consecutive chunks, or answers, after number p.                         *)
Numbered(s, p) == \A i \in 1 .. Len(s) : s[i].id = p + i

(* No chunk is missing in what a worker has before it.                     *)
InHold(w) == IF w.frame.id = 0 THEN 0 ELSE 1
Ahead(w) == w.job.id + Len(w.queue) + InHold(w)
InStep(w, l, up) ==
  /\ Numbered(w.queue, w.job.id)
  /\ w.frame.id # 0 => w.frame.id = w.job.id + Len(w.queue) + 1
  /\ Numbered(l, Ahead(w))
  /\ up = Ahead(w) + Len(l)

(* No answer is missing in what a worker gives back, t being what was      *)
(* taken of it, and each is of the kind that is due.                       *)
Kind(id) == IF id < Count THEN "ack" ELSE "final"
Back(h, w, r, t) ==
  /\ Numbered(r, t) /\ \A i \in 1 .. Len(r) : r[i].kind = Kind(r[i].id)
  /\ t + Len(r) = GivenBack(h, w)
  /\ h < Hops => /\ Taken(w) >= 0
                 /\ \A i \in 1 .. Len(w.pending) : w.pending[i] = Taken(w) + i
  /\ w.relay = "write" => w.answer.id = Taken(w) /\ w.answer.kind = Kind(w.answer.id)

Steady(h) ==
  /\ Well(h, worker[h], link[h].open)
  /\ InStep(worker[h], link[h].work, Up(h))
  /\ Back(h, worker[h], link[h].result, Before(h))

CoordinatorWell ==
  /\ ~stop /\ rc = "ok" /\ senderRc = "ok" /\ readerRc = "ok"
  /\ prod # "abandon" /\ ret \in {"none", "ok"}
  /\ ended <=> got = Count
  /\ reader = "out" <=> ended
  /\ ended => final # -1

HealthNow == CoordinatorWell /\ \A h \in Hop : Steady(h)
Healthy == faults = 0 => HealthNow

-----------------------------------------------------------------------------
(* Numbers.                                                                *)

LEMMA Sequences ==
  ASSUME NEW S, NEW s \in Seq(S)
  PROVE  /\ Len(s) \in Nat
         /\ \A i \in 1 .. Len(s) : s[i] \in S
         /\ s # <<>> => /\ Head(s) = s[1] /\ Len(s) > 0
                        /\ Tail(s) \in Seq(S) /\ Len(Tail(s)) = Len(s) - 1
                        /\ \A i \in 1 .. Len(Tail(s)) : Tail(s)[i] = s[i + 1]
         /\ \A e \in S :
               /\ Append(s, e) \in Seq(S) /\ Len(Append(s, e)) = Len(s) + 1
               /\ \A i \in 1 .. Len(s) : Append(s, e)[i] = s[i]
               /\ Append(s, e)[Len(s) + 1] = e
<1>1. Len(s) \in Nat /\ \A i \in 1 .. Len(s) : s[i] \in S
  OBVIOUS
<1>2. ASSUME s # <<>>
      PROVE  /\ Head(s) = s[1] /\ Len(s) > 0
             /\ Tail(s) \in Seq(S) /\ Len(Tail(s)) = Len(s) - 1
             /\ \A i \in 1 .. Len(Tail(s)) : Tail(s)[i] = s[i + 1]
  BY <1>1, <1>2, HeadTailProperties, EmptySeq
<1>3. \A e \in S :
         /\ Append(s, e) \in Seq(S) /\ Len(Append(s, e)) = Len(s) + 1
         /\ \A i \in 1 .. Len(s) : Append(s, e)[i] = s[i]
         /\ Append(s, e)[Len(s) + 1] = e
  BY AppendProperties
<1>. QED BY <1>1, <1>2, <1>3

LEMMA NumberedTail ==
  ASSUME NEW S, NEW s \in Seq(S), s # <<>>, NEW p \in Int, Numbered(s, p)
  PROVE  Head(s).id = p + 1 /\ Numbered(Tail(s), p + 1)
<1>1. /\ Len(s) \in Nat /\ Len(s) > 0 /\ Head(s) = s[1]
      /\ Len(Tail(s)) = Len(s) - 1
      /\ \A i \in 1 .. Len(Tail(s)) : Tail(s)[i] = s[i + 1]
  BY Sequences
<1>2. PICK t : t = Tail(s)
  OBVIOUS
<1>3. ASSUME NEW i \in 1 .. Len(t) PROVE t[i].id = (p + 1) + i
  <2>1. i + 1 \in 1 .. Len(s)
    BY <1>1, <1>2
  <2>2. s[i + 1].id = p + (i + 1)
    BY <2>1 DEF Numbered
  <2>. QED BY <1>1, <1>2, <2>2
<1>4. s[1].id = p + 1
  BY <1>1 DEF Numbered
<1>. QED BY <1>1, <1>2, <1>3, <1>4 DEF Numbered

LEMMA NumberedAppend ==
  ASSUME NEW S, NEW s \in Seq(S), NEW p \in Int, Numbered(s, p),
         NEW e \in S, e.id = p + Len(s) + 1
  PROVE  Numbered(Append(s, e), p)
<1>1. /\ Len(s) \in Nat /\ Len(Append(s, e)) = Len(s) + 1
      /\ \A i \in 1 .. Len(s) : Append(s, e)[i] = s[i]
      /\ Append(s, e)[Len(s) + 1] = e
  BY Sequences
<1>2. PICK t : t = Append(s, e)
  OBVIOUS
<1>3. ASSUME NEW i \in 1 .. Len(t) PROVE t[i].id = p + i
  <2>1. CASE i <= Len(s)
    BY <1>1, <1>2, <2>1 DEF Numbered
  <2>2. CASE i = Len(s) + 1
    BY <1>1, <1>2, <2>2
  <2>. QED BY <1>1, <1>2, <2>1, <2>2
<1>. QED BY <1>2, <1>3 DEF Numbered

LEMMA Numbers ==
  ASSUME NEW w \in WorkerRecord
  PROVE  /\ w.queue \in Seq(Work) /\ Len(w.queue) \in Nat
         /\ w.pending \in Seq(Chunk) /\ Len(w.pending) \in Nat
         /\ w.job.id \in Nat /\ w.frame.id \in Nat
         /\ Tracked(w) \in Int /\ Taken(w) \in Int /\ Tracked(w) <= w.job.id
         /\ Handed(w) \in Int /\ Handed(w) <= Tracked(w)
         /\ InHold(w) \in {0, 1} /\ Ahead(w) \in Nat /\ w.job.id <= Ahead(w)
         /\ \A h \in Hop : GivenBack(h, w) \in Int /\ GivenBack(h, w) <= w.job.id
<1>1. w.queue \in Seq(Work) /\ w.pending \in Seq(Chunk)
  BY DEF WorkerRecord
<1>2. w.job.id \in 0 .. Count /\ w.frame.id \in 0 .. Count
  BY WorkerTypes
<1>3. PICK j \in Nat : j = w.job.id
  BY <1>2, Constants
<1>4. PICK n \in Nat : n = Len(w.pending)
  BY <1>1
<1>5. /\ Tracked(w) \in Int /\ Tracked(w) <= j
      /\ Handed(w) \in Int /\ Handed(w) <= Tracked(w)
  BY <1>3 DEF Tracked, Handed
<1>6. Taken(w) \in Int /\ Taken(w) <= Tracked(w)
  BY <1>4, <1>5 DEF Taken
<1>7. InHold(w) \in {0, 1} /\ Ahead(w) \in Nat /\ w.job.id <= Ahead(w)
  BY <1>1, <1>3 DEF InHold, Ahead
<1>8. \A h \in Hop : GivenBack(h, w) \in Int /\ GivenBack(h, w) <= w.job.id
  BY <1>3, <1>5, <1>6 DEF GivenBack
<1>. QED BY <1>1, <1>2, <1>3, <1>4, <1>5, <1>6, <1>7, <1>8, Constants

-----------------------------------------------------------------------------
(* The chunks that come.                                                   *)

(* The reader takes a frame from the connection to evaluate it.            *)
LEMMA StepRead ==
  ASSUME NEW w \in WorkerRecord, NEW v \in WorkerRecord,
         NEW l \in Seq(Work), NEW up \in Int, InStep(w, l, up),
         l # <<>>, w.frame.id = 0, Len(w.queue) = 0,
         v.job = Head(l), v.queue = w.queue, v.frame = w.frame
  PROVE  InStep(v, Tail(l), up) /\ v.job.id = w.job.id + 1
<1>1. w.job.id \in Nat /\ Len(l) \in Nat /\ Len(Tail(l)) = Len(l) - 1
  BY Numbers, Sequences
<1>2. Ahead(w) = w.job.id
  BY <1>1 DEF Ahead, InHold
<1>3. v.job.id = w.job.id + 1 /\ Numbered(Tail(l), w.job.id + 1)
  BY <1>1, <1>2, NumberedTail DEF InStep
<1>4. Ahead(v) = w.job.id + 1
  BY <1>1, <1>3 DEF Ahead, InHold
<1>5. Numbered(v.queue, v.job.id)
  BY DEF Numbered
<1>6. up = Ahead(v) + Len(Tail(l))
  BY <1>1, <1>2, <1>4 DEF InStep
<1>. QED BY <1>3, <1>4, <1>5, <1>6 DEF InStep

(* The reader takes a frame from the connection to queue it.               *)
LEMMA StepHold ==
  ASSUME NEW w \in WorkerRecord, NEW v \in WorkerRecord,
         NEW l \in Seq(Work), NEW up \in Int, InStep(w, l, up),
         l # <<>>, w.frame.id = 0,
         v.job = w.job, v.queue = w.queue, v.frame = Head(l)
  PROVE  InStep(v, Tail(l), up)
<1>1. PICK p \in Nat : p = Ahead(w)
  BY Numbers
<1>2. Len(l) \in Nat /\ Len(Tail(l)) = Len(l) - 1
  BY Sequences
<1>3. v.frame.id = p + 1 /\ Numbered(Tail(l), p + 1)
  BY <1>1, NumberedTail DEF InStep
<1>4. p = w.job.id + Len(w.queue)
  BY <1>1, Numbers DEF Ahead, InHold
<1>5. Ahead(v) = p + 1
  BY <1>3, <1>4 DEF Ahead, InHold
<1>6. up = Ahead(v) + Len(Tail(l))
  BY <1>1, <1>2, <1>5 DEF InStep
<1>. QED BY <1>3, <1>4, <1>5, <1>6 DEF InStep

(* The reader puts the frame it holds into the queue.                      *)
LEMMA StepPut ==
  ASSUME NEW w \in WorkerRecord, NEW v \in WorkerRecord,
         NEW l \in Seq(Work), NEW up \in Int, InStep(w, l, up),
         w.frame # Route!NoFrame, v.frame = Route!NoFrame,
         v.job = w.job, v.queue = Append(w.queue, w.frame)
  PROVE  InStep(v, l, up)
<1>1. w.frame \in Work /\ w.frame.id # 0 /\ v.frame.id = 0
  BY WorkerTypes DEF WorkerRecord
<1>2. PICK q \in Seq(Work) : q = w.queue
  BY Numbers
<1>3. Len(q) \in Nat /\ Len(v.queue) = Len(q) + 1 /\ w.job.id \in Nat
  BY <1>1, <1>2, Sequences, Numbers
<1>4. w.frame.id = w.job.id + Len(q) + 1 /\ Numbered(q, w.job.id)
  BY <1>1, <1>2 DEF InStep
<1>5. Numbered(v.queue, v.job.id)
  <2>1. PICK j \in Int : j = w.job.id
    BY <1>3
  <2>2. Numbered(Append(q, w.frame), j)
    BY <1>1, <1>4, <2>1, NumberedAppend
  <2>. QED BY <1>2, <2>1, <2>2
<1>6. Ahead(v) = Ahead(w)
  BY <1>1, <1>2, <1>3 DEF Ahead, InHold
<1>. QED BY <1>1, <1>5, <1>6 DEF InStep

(* The eval thread takes the first frame of the queue.                     *)
LEMMA StepPop ==
  ASSUME NEW w \in WorkerRecord, NEW v \in WorkerRecord,
         NEW l \in Seq(Work), NEW up \in Int, InStep(w, l, up),
         w.queue # <<>>, v.job = Head(w.queue), v.queue = Tail(w.queue), v.frame = w.frame
  PROVE  InStep(v, l, up) /\ v.job.id = w.job.id + 1
<1>1. PICK q \in Seq(Work) : q = w.queue
  BY Numbers
<1>2. PICK j \in Nat : j = w.job.id
  BY Numbers
<1>3. Len(q) \in Nat /\ Len(v.queue) = Len(q) - 1
  BY <1>1, Sequences
<1>4. v.job.id = j + 1 /\ Numbered(v.queue, j + 1)
  BY <1>1, <1>2, NumberedTail DEF InStep
<1>5. PICK i : i \in {0, 1} /\ i = InHold(w) /\ InHold(v) = i
  BY DEF InHold
<1>6. Ahead(v) = Ahead(w)
  BY <1>1, <1>2, <1>3, <1>4, <1>5 DEF Ahead
<1>7. v.frame.id # 0 => v.frame.id = v.job.id + Len(v.queue) + 1
  <2>1. v.frame.id # 0 => v.frame.id = j + Len(q) + 1
    BY <1>1, <1>2 DEF InStep
  <2>. QED BY <1>3, <1>4, <2>1
<1>. QED BY <1>2, <1>4, <1>6, <1>7 DEF InStep

(* The next chunk comes down the connection.                               *)
LEMMA StepSent ==
  ASSUME NEW w \in WorkerRecord, NEW l \in Seq(Work), NEW up \in Int, InStep(w, l, up),
         NEW m \in Work, m.id = up + 1
  PROVE  InStep(w, Append(l, m), up + 1)
<1>1. PICK p \in Nat : p = Ahead(w)
  BY Numbers
<1>2. Len(l) \in Nat /\ Len(Append(l, m)) = Len(l) + 1 /\ up = p + Len(l)
  BY <1>1, Sequences DEF InStep
<1>3. Numbered(Append(l, m), p)
  BY <1>1, <1>2, NumberedAppend DEF InStep
<1>4. up + 1 = p + Len(Append(l, m))
  BY <1>2
<1>. QED BY <1>1, <1>3, <1>4 DEF InStep

(* Nothing came and nothing moved on.                                      *)
LEMMA StepSame ==
  ASSUME NEW w, NEW v, NEW l, NEW up, InStep(w, l, up), SameWork(v, w)
  PROVE  InStep(v, l, up)
<1>1. Ahead(v) = Ahead(w)
  BY DEF SameWork, Ahead, InHold
<1>. QED BY <1>1 DEF InStep, SameWork

-----------------------------------------------------------------------------
(* The answers that go back.                                               *)

(* Nothing was given back, and no request was put on record.               *)
LEMMA BackSame ==
  ASSUME NEW h, NEW w, NEW v, NEW r, NEW t, Back(h, w, r, t), IsWorker(w, h),
         v.answer = w.answer, v.pending = w.pending, v.relay = "write" => w.relay = "write",
         GivenBack(h, v) = GivenBack(h, w), h < Hops => Tracked(v) = Tracked(w)
  PROVE  Back(h, v, r, t)
<1>1. h < Hops => Taken(v) = Taken(w)
  BY DEF Taken
<1>2. v.relay = "write" => h < Hops
  BY DEF IsWorker
<1>. QED BY <1>1, <1>2 DEF Back

(* Another answer goes up.                                                 *)
LEMMA BackSent ==
  ASSUME NEW r \in Seq(Result), NEW t \in Int, NEW m \in Result,
         Numbered(r, t), \A i \in 1 .. Len(r) : r[i].kind = Kind(r[i].id),
         m.id = t + Len(r) + 1, m.kind = Kind(m.id)
  PROVE  /\ Numbered(Append(r, m), t) /\ t + Len(Append(r, m)) = m.id
         /\ \A i \in 1 .. Len(Append(r, m)) :
               Append(r, m)[i].kind = Kind(Append(r, m)[i].id)
<1>1. /\ Len(r) \in Nat /\ Len(Append(r, m)) = Len(r) + 1
      /\ \A i \in 1 .. Len(r) : Append(r, m)[i] = r[i]
      /\ Append(r, m)[Len(r) + 1] = m
  BY Sequences
<1>2. PICK s : s = Append(r, m)
  OBVIOUS
<1>3. Numbered(s, t)
  BY <1>2, NumberedAppend
<1>4. ASSUME NEW i \in 1 .. Len(s) PROVE s[i].kind = Kind(s[i].id)
  <2>1. CASE i <= Len(r)
    BY <1>1, <1>2, <2>1
  <2>2. CASE i = Len(r) + 1
    BY <1>1, <1>2, <2>2
  <2>. QED BY <1>1, <1>2, <2>1, <2>2
<1>5. t + Len(s) = m.id
  BY <1>1, <1>2
<1>. QED BY <1>2, <1>3, <1>4, <1>5

(* The last worker answers.                                                *)
LEMMA BackAnswer ==
  ASSUME NEW h \in Hop, NEW w \in WorkerRecord, NEW v \in WorkerRecord,
         NEW r \in Seq(Result), NEW t \in Int, NEW m \in Result, Back(h, w, r, t),
         IsWorker(w, h), w.eval = "answer", v.eval = "pop", v.job = w.job, v.relay = w.relay,
         m.id = w.job.id, m.kind = Kind(m.id)
  PROVE  Back(h, v, Append(r, m), t)
<1>1. h = Hops /\ ~(h < Hops) /\ v.relay # "write"
  BY Constants DEF IsWorker
<1>2. GivenBack(h, w) = w.job.id - 1 /\ GivenBack(h, v) = w.job.id
  BY <1>1 DEF GivenBack
<1>3. m.id = t + Len(r) + 1
  BY <1>2, Numbers, Sequences DEF Back
<1>4. /\ Numbered(Append(r, m), t) /\ t + Len(Append(r, m)) = m.id
      /\ \A i \in 1 .. Len(Append(r, m)) :
            Append(r, m)[i].kind = Kind(Append(r, m)[i].id)
  BY <1>3, BackSent DEF Back
<1>. QED BY <1>1, <1>2, <1>4 DEF Back

(* A request is put on record.                                             *)
LEMMA BackTrack ==
  ASSUME NEW h \in Hop, NEW w \in WorkerRecord, NEW v \in WorkerRecord,
         NEW r, NEW t, Back(h, w, r, t), h < Hops,
         w.eval = "track", v.eval = "send", v.job = w.job, v.relay = w.relay,
         v.answer = w.answer, v.pending = Append(w.pending, w.job.id), w.job.id \in Chunk
  PROVE  Back(h, v, r, t)
<1>1. PICK p \in Seq(Chunk) : p = w.pending
  BY Numbers
<1>2. /\ Len(p) \in Nat /\ Len(v.pending) = Len(p) + 1
      /\ \A i \in 1 .. Len(p) : v.pending[i] = p[i]
      /\ v.pending[Len(p) + 1] = w.job.id
  BY <1>1, Sequences
<1>3. PICK j \in Nat : j = w.job.id /\ Tracked(w) = j - 1 /\ Tracked(v) = j
  BY Numbers DEF Tracked
<1>4. PICK n \in Int : n = Taken(w) /\ n = j - 1 - Len(p)
  BY <1>1, <1>3, Numbers DEF Taken
<1>5. Taken(v) = n
  BY <1>2, <1>3, <1>4 DEF Taken
<1>6. ASSUME NEW i \in 1 .. Len(v.pending) PROVE v.pending[i] = n + i
  <2>1. CASE i <= Len(p)
    <3>1. \A k \in 1 .. Len(p) : p[k] = n + k
      BY <1>1, <1>4 DEF Back
    <3>. QED BY <1>2, <2>1, <3>1
  <2>2. CASE i = Len(p) + 1
    BY <1>2, <1>3, <1>4, <2>2
  <2>. QED BY <1>2, <2>1, <2>2
<1>7. GivenBack(h, v) = GivenBack(h, w)
  BY <1>4, <1>5, Constants DEF GivenBack
<1>. QED BY <1>4, <1>5, <1>6, <1>7 DEF Back

(* The relay takes the answer to the request that is first on record.      *)
LEMMA BackTake ==
  ASSUME NEW h \in Hop, NEW w \in WorkerRecord, NEW v \in WorkerRecord,
         NEW r, NEW t, NEW m, Back(h, w, r, t), h < Hops,
         w.relay = "read", v.relay = "write", v.eval = w.eval, v.job = w.job,
         w.pending # <<>>, v.pending = Tail(w.pending), v.answer = m,
         m.id = Taken(w) + 1, m.kind = Kind(m.id)
  PROVE  Back(h, v, r, t) /\ Taken(v) = Taken(w) + 1
<1>1. PICK p \in Seq(Chunk) : p = w.pending
  BY Numbers
<1>2. /\ Len(p) \in Nat /\ Len(v.pending) = Len(p) - 1
      /\ \A i \in 1 .. Len(v.pending) : v.pending[i] = p[i + 1]
  BY <1>1, Sequences
<1>3. PICK n \in Int : n = Taken(w)
  BY Numbers
<1>4. PICK k \in Int : k = Tracked(w) /\ k = Tracked(v)
  BY Numbers DEF Tracked
<1>5. Taken(v) = n + 1
  BY <1>1, <1>2, <1>3, <1>4 DEF Taken
<1>6. ASSUME NEW i \in 1 .. Len(v.pending) PROVE v.pending[i] = (n + 1) + i
  <2>1. i + 1 \in 1 .. Len(p)
    BY <1>2
  <2>2. p[i + 1] = n + (i + 1)
    BY <1>1, <1>3, <2>1 DEF Back
  <2>. QED BY <1>2, <2>2
<1>7. GivenBack(h, v) = GivenBack(h, w)
  BY <1>3, <1>5, Constants DEF GivenBack
<1>8. n >= 0
  BY <1>3 DEF Back
<1>. QED BY <1>3, <1>5, <1>6, <1>7, <1>8 DEF Back

(* It passes it on.                                                        *)
LEMMA BackWrite ==
  ASSUME NEW h \in Hop, NEW w \in WorkerRecord, NEW v \in WorkerRecord,
         NEW r \in Seq(Result), NEW t \in Int, Back(h, w, r, t), h < Hops,
         w.relay = "write", v.relay = "read", v.eval = w.eval, v.job = w.job,
         v.pending = w.pending, w.answer \in Result
  PROVE  Back(h, v, Append(r, w.answer), t)
<1>1. PICK n \in Int : n = Taken(w)
  BY Numbers
<1>2. Taken(v) = n
  BY <1>1 DEF Taken, Tracked
<1>3. GivenBack(h, w) = n - 1 /\ GivenBack(h, v) = n
  BY <1>1, <1>2, Constants DEF GivenBack
<1>4. PICK m \in Result : m = w.answer
  OBVIOUS
<1>5. m.id = n /\ m.kind = Kind(m.id) /\ t + Len(r) = n - 1
  BY <1>1, <1>3, <1>4 DEF Back
<1>6. m.id = t + Len(r) + 1
  BY <1>5, Sequences
<1>7. /\ Numbered(Append(r, m), t) /\ t + Len(Append(r, m)) = m.id
      /\ \A i \in 1 .. Len(Append(r, m)) :
            Append(r, m)[i].kind = Kind(Append(r, m)[i].id)
  BY <1>5, <1>6, BackSent DEF Back
<1>8. n >= 0 /\ \A i \in 1 .. Len(v.pending) : v.pending[i] = n + i
  BY <1>1 DEF Back
<1>. QED BY <1>2, <1>3, <1>4, <1>5, <1>7, <1>8 DEF Back

(* What was given back is taken.                                           *)
LEMMA BackTaken ==
  ASSUME NEW h, NEW w, NEW r \in Seq(Result), NEW t \in Int, Back(h, w, r, t), r # <<>>
  PROVE  /\ Back(h, w, Tail(r), t + 1)
         /\ Head(r) \in Result /\ Head(r).id = t + 1 /\ Head(r).kind = Kind(Head(r).id)
<1>1. /\ Len(r) \in Nat /\ Len(r) > 0 /\ Head(r) = r[1] /\ r[1] \in Result
      /\ Len(Tail(r)) = Len(r) - 1
      /\ \A i \in 1 .. Len(Tail(r)) : Tail(r)[i] = r[i + 1]
  BY Sequences
<1>2. PICK s : s = Tail(r)
  OBVIOUS
<1>3. Head(r).id = t + 1 /\ Numbered(s, t + 1)
  BY <1>2, NumberedTail DEF Back
<1>4. ASSUME NEW i \in 1 .. Len(s) PROVE s[i].kind = Kind(s[i].id)
  <2>1. i + 1 \in 1 .. Len(r) /\ s[i] = r[i + 1]
    BY <1>1, <1>2
  <2>. QED BY <2>1 DEF Back
<1>5. r[1].kind = Kind(r[1].id)
  BY <1>1 DEF Back
<1>6. (t + 1) + Len(s) = t + Len(r)
  BY <1>1, <1>2
<1>. QED BY <1>1, <1>2, <1>3, <1>4, <1>5, <1>6 DEF Back

-----------------------------------------------------------------------------
(* A step of worker h disturbs its own books and those of the next.        *)

LEMMA HealthTypes ==
  ASSUME RouteOK, HealthNow, NEW h \in Hop
  PROVE  /\ worker[h] \in WorkerRecord /\ IsWorker(worker[h], h)
         /\ link[h] \in Link /\ link[h].work \in Seq(Work) /\ link[h].result \in Seq(Result)
         /\ Up(h) \in Int
         /\ Well(h, worker[h], link[h].open)
         /\ InStep(worker[h], link[h].work, Up(h))
         /\ Back(h, worker[h], link[h].result, Before(h))
         /\ h \in Nat /\ h <= Hops /\ (h < Hops => h + 1 \in Hop)
  BY UpIsInt, Constants DEF RouteOK, HealthNow, Steady, WorkersOK, LinksOK, Link, Hop

LEMMA BeforeIsInt ==
  ASSUME RouteOK, got \in Nat, NEW h \in Hop
  PROVE  Before(h) \in Int
<1>1. \A g \in Hop : Taken(worker[g]) \in Int
  BY Numbers DEF RouteOK, WorkersOK
<1>. QED BY <1>1, Constants DEF Before, Hop

LEMMA BoundsKept ==
  ASSUME NEW h \in Hop, Others(h), UNCHANGED <<sent, got>>, NEW g \in Hop, g # h + 1
  PROVE  Up(g)' = Up(g) /\ Before(g)' = Before(g)
<1>1. CASE g = 1
  BY <1>1 DEF Up, Before
<1>2. CASE g # 1
  <2>1. g - 1 \in Hop \ {h}
    BY <1>2, Constants DEF Hop
  <2>. QED BY <1>2, <2>1 DEF Up, Before, Others
<1>. QED BY <1>1, <1>2

LEMMA Both ==
  ASSUME HealthNow, NEW h \in Hop, Others(h), UNCHANGED own,
         \A g \in Hop \ {h, h + 1} : link'[g] = link[g],
         Well(h, worker'[h], link'[h].open),
         InStep(worker'[h], link'[h].work, Up(h)),
         Back(h, worker'[h], link'[h].result, Before(h)),
         h < Hops => Steady(h + 1)'
  PROVE  HealthNow'
<1>1. UNCHANGED <<sent, got>>
  BY DEF own
<1>2. ASSUME NEW g \in Hop PROVE Steady(g)'
  <2>1. CASE g = h
    <3>1. g # h + 1
      BY <2>1, Constants DEF Hop
    <3>. QED BY <1>1, <2>1, <3>1, BoundsKept DEF Steady
  <2>2. CASE g = h + 1
    BY <2>2, Constants DEF Hop
  <2>3. CASE g # h /\ g # h + 1
    <3>1. worker'[g] = worker[g] /\ link'[g] = link[g]
      BY <2>3 DEF Others
    <3>2. Up(g)' = Up(g) /\ Before(g)' = Before(g)
      BY <1>1, <2>3, BoundsKept
    <3>. QED BY <3>1, <3>2 DEF Steady, HealthNow
  <2>. QED BY <2>1, <2>2, <2>3
<1>3. CoordinatorWell'
  BY DEF HealthNow, CoordinatorWell, own
<1>. QED BY <1>2, <1>3 DEF HealthNow

(* A step that hands nothing to the next worker and takes nothing from it. *)
LEMMA Alone ==
  ASSUME HealthNow, NEW h \in Hop, Others(h), UNCHANGED own,
         \A g \in Hop \ {h} : link'[g] = link[g],
         Well(h, worker'[h], link'[h].open),
         InStep(worker'[h], link'[h].work, Up(h)),
         Back(h, worker'[h], link'[h].result, Before(h)),
         h < Hops => /\ Handed(worker'[h]) = Handed(worker[h])
                     /\ Taken(worker'[h]) = Taken(worker[h])
  PROVE  HealthNow'
<1>1. ASSUME h < Hops PROVE Steady(h + 1)'
  <2>1. h + 1 \in Hop \ {h} /\ h + 1 # 1 /\ (h + 1) - 1 = h
    BY <1>1, Constants DEF Hop
  <2>2. PICK n : n = h + 1
    OBVIOUS
  <2>3. worker'[n] = worker[n] /\ link'[n] = link[n]
    BY <2>1, <2>2 DEF Others
  <2>4. Up(n)' = Up(n) /\ Before(n)' = Before(n)
    BY <1>1, <2>1, <2>2 DEF Up, Before
  <2>5. Steady(n)
    BY <2>1, <2>2 DEF HealthNow
  <2>. QED BY <2>2, <2>3, <2>4, <2>5 DEF Steady
<1>2. \A g \in Hop \ {h, h + 1} : link'[g] = link[g]
  OBVIOUS
<1>. QED BY <1>1, <1>2, Both

(* A step that moves a thread and no chunk.                                *)
LEMMA Moves ==
  ASSUME RouteOK, WorkersOK', HealthNow, NEW h \in Hop, Others(h), UNCHANGED own,
         UNCHANGED link, SameWork(worker'[h], worker[h]),
         worker'[h].answer = worker[h].answer, worker'[h].pending = worker[h].pending,
         worker'[h].relay = "write" => worker[h].relay = "write",
         GivenBack(h, worker'[h]) = GivenBack(h, worker[h]),
         h < Hops => /\ Handed(worker'[h]) = Handed(worker[h])
                     /\ Tracked(worker'[h]) = Tracked(worker[h]),
         Well(h, worker'[h], link[h].open)
  PROVE  HealthNow'
<1>. DEFINE w == worker[h]
            v == worker'[h]
<1>1. /\ IsWorker(w, h) /\ InStep(w, link[h].work, Up(h))
      /\ Back(h, w, link[h].result, Before(h))
  BY HealthTypes
<1>2. InStep(v, link[h].work, Up(h))
  BY <1>1, StepSame
<1>3. Back(h, v, link[h].result, Before(h))
  BY <1>1, BackSame
<1>4. h < Hops => Taken(v) = Taken(w)
  BY DEF Taken
<1>. HIDE DEF v, w
<1>. QED BY <1>2, <1>3, <1>4, Alone DEF v, w

-----------------------------------------------------------------------------
(* The steps of a worker.                                                  *)

HealthOK == RouteOK /\ HealthNow /\ got \in Nat

LEMMA StepTypes ==
  ASSUME HealthOK, NEW h \in Hop, WorkersOK'
  PROVE  /\ worker'[h] \in WorkerRecord /\ worker[h] \in WorkerRecord
         /\ IsWorker(worker[h], h) /\ IsWorker(worker'[h], h)
         /\ worker[h].frame.id \in Nat /\ worker[h].job.id \in Nat
         /\ worker[h].frame.id = 0 <=> worker[h].frame = Route!NoFrame
         /\ worker[h].job.id = 0 <=> worker[h].job = Route!NoFrame
         /\ worker'[h].job.id = 0 <=> worker'[h].job = Route!NoFrame
         /\ link \in [Hop -> Link]
         /\ link[h] \in Link /\ link[h].work \in Seq(Work) /\ link[h].result \in Seq(Result)
         /\ Up(h) \in Int /\ Before(h) \in Int
         /\ Well(h, worker[h], link[h].open)
         /\ InStep(worker[h], link[h].work, Up(h))
         /\ Back(h, worker[h], link[h].result, Before(h))
         /\ h \in Nat /\ h <= Hops /\ (h < Hops => h + 1 \in Hop)
<1>1. worker'[h] \in WorkerRecord /\ worker[h] \in WorkerRecord
  BY DEF HealthOK, RouteOK, WorkersOK
<1>2. IsWorker(worker[h], h) /\ IsWorker(worker'[h], h)
  BY DEF HealthOK, RouteOK, WorkersOK
<1>3. link \in [Hop -> Link] /\ Before(h) \in Int
  BY BeforeIsInt DEF HealthOK, RouteOK, LinksOK
<1>4. worker[h].frame.id \in Nat /\ worker[h].job.id \in Nat
  BY <1>1, Numbers
<1>5. /\ worker[h].frame.id = 0 <=> worker[h].frame = Route!NoFrame
      /\ worker[h].job.id = 0 <=> worker[h].job = Route!NoFrame
      /\ worker'[h].job.id = 0 <=> worker'[h].job = Route!NoFrame
  BY <1>1, WorkerTypes
<1>. QED BY <1>1, <1>2, <1>3, <1>4, <1>5, HealthTypes DEF HealthOK

LEMMA ReadWorkHealthy ==
  ASSUME HealthOK, UNCHANGED own, NEW h \in Hop, Route!ReadWork(h)
  PROVE  HealthNow'
<1>. DEFINE w == worker[h]
            v == worker'[h]
            l == link[h].work
<1>1. WorkersOK' /\ Others(h)
  BY ReadWorkDoes DEF HealthOK, RouteOK
<1>2. /\ v \in WorkerRecord /\ w \in WorkerRecord /\ IsWorker(w, h)
      /\ link \in [Hop -> Link] /\ link[h] \in Link /\ l \in Seq(Work) /\ Up(h) \in Int
      /\ Well(h, w, link[h].open) /\ InStep(w, l, Up(h))
      /\ Back(h, w, link[h].result, Before(h))
      /\ w.frame.id = 0 <=> w.frame = Route!NoFrame
      /\ w.job.id \in Nat
  BY <1>1, StepTypes
<1>3. /\ w.reader = "read" /\ l # <<>>
      /\ link' = [link EXCEPT ![h].work = Tail(@)]
  BY ReadWorkDoes DEF HealthOK, RouteOK
<1>4. /\ link'[h].work = Tail(l) /\ link'[h].result = link[h].result
      /\ link'[h].open = link[h].open
      /\ \A g \in Hop \ {h} : link'[g] = link[g]
  BY <1>2, <1>3 DEF Link
<1>5. w.frame.id = 0
  BY <1>2, <1>3 DEF IsWorker
<1>6. \/ /\ Prefetch[h] = 0 /\ v.reader = "work" /\ v.eval = "eval" /\ v.job = Head(l)
         /\ v.queue = w.queue /\ v.frame = w.frame
         /\ SameKv(v, w) /\ SameRelay(v, w) /\ SameFlags(v, w)
      \/ /\ Prefetch[h] # 0 /\ v.reader = "put" /\ v.eval = w.eval /\ v.job = w.job
         /\ v.queue = w.queue /\ v.frame = Head(l)
         /\ SameKv(v, w) /\ SameRelay(v, w) /\ SameFlags(v, w)
  BY ReadWorkDoes DEF HealthOK, RouteOK
<1>. HIDE DEF w, v, l
<1>7. CASE /\ Prefetch[h] = 0 /\ v.reader = "work" /\ v.eval = "eval" /\ v.job = Head(l)
           /\ v.queue = w.queue /\ v.frame = w.frame
           /\ SameKv(v, w) /\ SameRelay(v, w) /\ SameFlags(v, w)
  <2>1. Len(w.queue) = 0 /\ w.eval = "out"
    BY <1>2, <1>3, <1>7, Numbers DEF IsWorker, Well
  <2>2. InStep(v, Tail(l), Up(h)) /\ v.job.id = w.job.id + 1
    BY <1>2, <1>3, <1>5, <1>7, <2>1, StepRead
  <2>3. Well(h, v, link[h].open)
    BY <1>2, <1>3, <1>7, <2>1, <2>2 DEF Well, SameKv, SameRelay, SameFlags
  <2>4. Handed(v) = Handed(w) /\ Tracked(v) = Tracked(w)
    BY <1>2, <1>7, <2>1, <2>2 DEF Handed, Tracked
  <2>5. Taken(v) = Taken(w)
    BY <1>7, <2>4 DEF Taken, SameRelay
  <2>6. GivenBack(h, v) = GivenBack(h, w)
    BY <1>2, <1>7, <2>1, <2>2, <2>5 DEF GivenBack, SameRelay
  <2>7. Back(h, v, link[h].result, Before(h))
    BY <1>2, <1>7, <2>4, <2>6, BackSame DEF SameRelay
  <2>. QED BY <1>1, <1>4, <2>2, <2>3, <2>4, <2>5, <2>7, Alone DEF w, v, l, HealthOK
<1>8. CASE /\ Prefetch[h] # 0 /\ v.reader = "put" /\ v.eval = w.eval /\ v.job = w.job
           /\ v.queue = w.queue /\ v.frame = Head(l)
           /\ SameKv(v, w) /\ SameRelay(v, w) /\ SameFlags(v, w)
  <2>1. InStep(v, Tail(l), Up(h))
    BY <1>2, <1>3, <1>5, <1>8, StepHold
  <2>2. Well(h, v, link[h].open)
    BY <1>2, <1>3, <1>8 DEF Well, SameKv, SameRelay, SameFlags
  <2>3. Handed(v) = Handed(w) /\ Tracked(v) = Tracked(w) /\ Taken(v) = Taken(w)
    BY <1>8 DEF Handed, Tracked, Taken, SameRelay
  <2>4. GivenBack(h, v) = GivenBack(h, w)
    BY <1>8, <2>3 DEF GivenBack, SameRelay
  <2>5. Back(h, v, link[h].result, Before(h))
    BY <1>2, <1>8, <2>3, <2>4, BackSame DEF SameRelay
  <2>. QED BY <1>1, <1>4, <2>1, <2>2, <2>3, <2>5, Alone DEF w, v, l, HealthOK
<1>. QED BY <1>6, <1>7, <1>8

LEMMA PutJobHealthy ==
  ASSUME HealthOK, UNCHANGED own, NEW h \in Hop, Route!PutJob(h)
  PROVE  HealthNow'
<1>. DEFINE w == worker[h]
            v == worker'[h]
<1>1. WorkersOK' /\ Others(h) /\ UNCHANGED link
  BY PutJobDoes DEF HealthOK, RouteOK
<1>2. /\ v \in WorkerRecord /\ w \in WorkerRecord /\ IsWorker(w, h)
      /\ link[h].work \in Seq(Work) /\ Up(h) \in Int
      /\ Well(h, w, link[h].open) /\ InStep(w, link[h].work, Up(h))
      /\ Back(h, w, link[h].result, Before(h))
  BY <1>1, StepTypes
<1>3. /\ w.reader = "put"
      /\ \/ w.closed \/ w.canceled
         \/ /\ v.reader = w.reader /\ v.eval = w.eval
            /\ SameWork(v, w) /\ SameKv(v, w) /\ SameRelay(v, w) /\ SameFlags(v, w)
         \/ /\ v.reader = "read" /\ v.eval = w.eval /\ v.job = w.job
            /\ v.queue = Append(w.queue, w.frame) /\ v.frame = Route!NoFrame
            /\ SameKv(v, w) /\ SameRelay(v, w) /\ SameFlags(v, w)
  BY PutJobDoes DEF HealthOK, RouteOK
<1>. HIDE DEF w, v
<1>4. ~w.closed /\ ~w.canceled /\ w.frame # Route!NoFrame /\ Prefetch[h] # 0
  BY <1>2, <1>3 DEF Well, IsWorker
<1>5. CASE /\ v.reader = w.reader /\ v.eval = w.eval
           /\ SameWork(v, w) /\ SameKv(v, w) /\ SameRelay(v, w) /\ SameFlags(v, w)
  <2>1. Well(h, v, link[h].open)
    BY <1>2, <1>5 DEF Well, SameWork, SameKv, SameRelay, SameFlags
  <2>2. Handed(v) = Handed(w) /\ Tracked(v) = Tracked(w) /\ Taken(v) = Taken(w)
    BY <1>5 DEF Handed, Tracked, Taken, SameWork, SameRelay
  <2>3. GivenBack(h, v) = GivenBack(h, w)
    BY <1>5, <2>2 DEF GivenBack, SameWork, SameRelay
  <2>4. v.answer = w.answer /\ v.pending = w.pending /\ v.relay = w.relay
    BY <1>5 DEF SameRelay
  <2>. QED BY <1>1, <1>5, <2>1, <2>2, <2>3, <2>4, Moves DEF w, v, HealthOK
<1>6. CASE /\ v.reader = "read" /\ v.eval = w.eval /\ v.job = w.job
           /\ v.queue = Append(w.queue, w.frame) /\ v.frame = Route!NoFrame
           /\ SameKv(v, w) /\ SameRelay(v, w) /\ SameFlags(v, w)
  <2>1. InStep(v, link[h].work, Up(h))
    BY <1>2, <1>4, <1>6, StepPut
  <2>2. Well(h, v, link[h].open)
    BY <1>2, <1>3, <1>4, <1>6 DEF Well, SameKv, SameRelay, SameFlags
  <2>3. Handed(v) = Handed(w) /\ Tracked(v) = Tracked(w) /\ Taken(v) = Taken(w)
    BY <1>6 DEF Handed, Tracked, Taken, SameRelay
  <2>4. GivenBack(h, v) = GivenBack(h, w)
    BY <1>6, <2>3 DEF GivenBack, SameRelay
  <2>5. Back(h, v, link[h].result, Before(h))
    BY <1>2, <1>6, <2>3, <2>4, BackSame DEF SameRelay
  <2>. QED BY <1>1, <2>1, <2>2, <2>3, <2>5, Alone DEF w, v, HealthOK
<1>. QED BY <1>3, <1>4, <1>5, <1>6

LEMMA InlineDoneHealthy ==
  ASSUME HealthOK, UNCHANGED own, NEW h \in Hop, Route!InlineDone(h)
  PROVE  HealthNow'
<1>. DEFINE w == worker[h]
            v == worker'[h]
<1>1. WorkersOK' /\ Others(h) /\ UNCHANGED link
  BY InlineDoneDoes DEF HealthOK, RouteOK
<1>2. Well(h, w, link[h].open) /\ w.job.id \in Nat
  BY <1>1, StepTypes
<1>3. /\ w.reader = "work"
      /\ SameWork(v, w) /\ SameKv(v, w) /\ SameRelay(v, w) /\ SameFlags(v, w)
      /\ w.eval = "out" \/ (w.eval = "pop" /\ v.reader = "read" /\ v.eval = "out")
  BY InlineDoneDoes DEF HealthOK, RouteOK
<1>. HIDE DEF w, v
<1>4. w.eval = "pop" /\ v.reader = "read" /\ v.eval = "out" /\ Prefetch[h] = 0
  BY <1>2, <1>3 DEF Well
<1>5. Well(h, v, link[h].open)
  BY <1>2, <1>3, <1>4 DEF Well, SameWork, SameKv, SameRelay, SameFlags
<1>6. Handed(v) = Handed(w) /\ Tracked(v) = Tracked(w) /\ Taken(v) = Taken(w)
  BY <1>3, <1>4 DEF Handed, Tracked, Taken, SameWork, SameRelay
<1>7. GivenBack(h, v) = GivenBack(h, w)
  BY <1>3, <1>4, <1>6 DEF GivenBack, SameWork, SameRelay
<1>8. v.answer = w.answer /\ v.pending = w.pending /\ v.relay = w.relay
  BY <1>3 DEF SameRelay
<1>. QED BY <1>1, <1>3, <1>5, <1>6, <1>7, <1>8, Moves DEF w, v, HealthOK

LEMMA PopJobHealthy ==
  ASSUME HealthOK, UNCHANGED own, NEW h \in Hop, Route!PopJob(h)
  PROVE  HealthNow'
<1>. DEFINE w == worker[h]
            v == worker'[h]
<1>1. WorkersOK' /\ Others(h) /\ UNCHANGED link
  BY PopJobDoes DEF HealthOK, RouteOK
<1>2. /\ v \in WorkerRecord /\ w \in WorkerRecord /\ IsWorker(w, h)
      /\ link[h].work \in Seq(Work) /\ Up(h) \in Int /\ w.job.id \in Nat
      /\ Well(h, w, link[h].open) /\ InStep(w, link[h].work, Up(h))
      /\ Back(h, w, link[h].result, Before(h))
  BY <1>1, StepTypes
<1>3. /\ w.eval = "pop"
      /\ \/ w.closed \/ w.canceled
         \/ /\ v.reader = w.reader /\ v.eval = w.eval
            /\ SameWork(v, w) /\ SameKv(v, w) /\ SameRelay(v, w) /\ SameFlags(v, w)
         \/ /\ v.reader = w.reader /\ v.eval = "eval" /\ w.queue # <<>> /\ Prefetch[h] # 0
            /\ v.job = Head(w.queue) /\ v.queue = Tail(w.queue) /\ v.frame = w.frame
            /\ SameKv(v, w) /\ SameRelay(v, w) /\ SameFlags(v, w)
  BY PopJobDoes DEF HealthOK, RouteOK
<1>. HIDE DEF w, v
<1>4. ~w.closed /\ ~w.canceled
  BY <1>2 DEF Well
<1>5. CASE /\ v.reader = w.reader /\ v.eval = w.eval
           /\ SameWork(v, w) /\ SameKv(v, w) /\ SameRelay(v, w) /\ SameFlags(v, w)
  <2>1. Well(h, v, link[h].open)
    BY <1>2, <1>5 DEF Well, SameWork, SameKv, SameRelay, SameFlags
  <2>2. Handed(v) = Handed(w) /\ Tracked(v) = Tracked(w) /\ Taken(v) = Taken(w)
    BY <1>5 DEF Handed, Tracked, Taken, SameWork, SameRelay
  <2>3. GivenBack(h, v) = GivenBack(h, w)
    BY <1>5, <2>2 DEF GivenBack, SameWork, SameRelay
  <2>4. v.answer = w.answer /\ v.pending = w.pending /\ v.relay = w.relay
    BY <1>5 DEF SameRelay
  <2>. QED BY <1>1, <1>5, <2>1, <2>2, <2>3, <2>4, Moves DEF w, v, HealthOK
<1>6. CASE /\ v.reader = w.reader /\ v.eval = "eval" /\ w.queue # <<>> /\ Prefetch[h] # 0
           /\ v.job = Head(w.queue) /\ v.queue = Tail(w.queue) /\ v.frame = w.frame
           /\ SameKv(v, w) /\ SameRelay(v, w) /\ SameFlags(v, w)
  <2>1. InStep(v, link[h].work, Up(h)) /\ v.job.id = w.job.id + 1
    BY <1>2, <1>6, StepPop
  <2>2. Well(h, v, link[h].open)
    BY <1>2, <1>3, <1>6, <2>1 DEF Well, SameKv, SameRelay, SameFlags
  <2>3. Handed(v) = Handed(w) /\ Tracked(v) = Tracked(w)
    BY <1>2, <1>3, <1>6, <2>1 DEF Handed, Tracked
  <2>4. Taken(v) = Taken(w)
    BY <1>6, <2>3 DEF Taken, SameRelay
  <2>5. GivenBack(h, v) = GivenBack(h, w)
    BY <1>2, <1>3, <1>6, <2>1, <2>4 DEF GivenBack, SameRelay
  <2>6. Back(h, v, link[h].result, Before(h))
    BY <1>2, <1>6, <2>3, <2>5, BackSame DEF SameRelay
  <2>. QED BY <1>1, <2>1, <2>2, <2>3, <2>4, <2>6, Alone DEF w, v, HealthOK
<1>. QED BY <1>3, <1>4, <1>5, <1>6

LEMMA EvaluateHealthy ==
  ASSUME HealthOK, UNCHANGED own, faults' = faults, NEW h \in Hop, Route!Evaluate(h)
  PROVE  HealthNow'
<1>. DEFINE w == worker[h]
            v == worker'[h]
<1>1. WorkersOK' /\ Others(h) /\ UNCHANGED link
  <2>1. WorkersOK' /\ Others(h) /\ link' = link
    BY EvaluateDoes DEF HealthOK, RouteOK
  <2>. QED BY <2>1
<1>2. IsWorker(w, h) /\ Well(h, w, link[h].open) /\ w.job.id \in Nat
  BY <1>1, StepTypes
<1>3. ~Fault
  BY DEF Fault, HealthOK, RouteOK, LinksOK
<1>4. /\ w.eval = "eval"
      /\ SameWork(v, w) /\ SameRelay(v, w) /\ SameFlags(v, w) /\ v.reader = w.reader
      /\ \/ Route!PrefixMatches(w) /\ v.hash = w.job.id /\ v.eval = After(h)
         \/ ~Route!PrefixMatches(w)
  BY <1>3, EvaluateDoes DEF HealthOK, RouteOK
<1>. HIDE DEF w, v
<1>5. v.hash = w.job.id /\ v.eval = After(h) /\ v.eval \in {"open", "answer"}
  BY <1>2, <1>4 DEF Well, Route!PrefixMatches, After
<1>6. Well(h, v, link[h].open)
  BY <1>2, <1>4, <1>5 DEF Well, SameWork, SameRelay, SameFlags
<1>7. h < Hops => Handed(v) = Handed(w) /\ Tracked(v) = Tracked(w) /\ Taken(v) = Taken(w)
  BY <1>4, <1>5 DEF Handed, Tracked, Taken, SameWork, SameRelay, After
<1>8. GivenBack(h, v) = GivenBack(h, w)
  <2>1. CASE h = Hops
    <3>1. v.eval = "answer"
      BY <1>5, <2>1, Constants DEF After
    <3>. QED BY <1>4, <2>1, <3>1 DEF GivenBack, SameWork
  <2>2. CASE h # Hops
    <3>1. h < Hops
      BY <2>2, Constants DEF Hop
    <3>. QED BY <1>4, <1>7, <2>2, <3>1 DEF GivenBack, SameRelay
  <2>. QED BY <2>1, <2>2
<1>9. v.answer = w.answer /\ v.pending = w.pending /\ v.relay = w.relay
  BY <1>4 DEF SameRelay
<1>. QED BY <1>1, <1>4, <1>6, <1>7, <1>8, <1>9, Moves DEF w, v, HealthOK

LEMMA AnswerHealthy ==
  ASSUME HealthOK, UNCHANGED own, NEW h \in Hop, Route!Answer(h)
  PROVE  HealthNow'
<1>. DEFINE w == worker[h]
            v == worker'[h]
            r == link[h].result
            m == AnswerOf(w)
<1>1. WorkersOK' /\ Others(h)
  BY AnswerDoes DEF HealthOK, RouteOK
<1>2. /\ v \in WorkerRecord /\ w \in WorkerRecord /\ IsWorker(w, h)
      /\ link \in [Hop -> Link] /\ link[h] \in Link /\ r \in Seq(Result) /\ Before(h) \in Int
      /\ Well(h, w, link[h].open) /\ InStep(w, link[h].work, Up(h))
      /\ Back(h, w, r, Before(h))
  BY <1>1, StepTypes
<1>3. link[h].open
  BY <1>2 DEF Well
<1>4. /\ w.eval = "answer" /\ v.eval = "pop" /\ v.reader = w.reader
      /\ SameWork(v, w) /\ SameKv(v, w) /\ SameRelay(v, w) /\ SameFlags(v, w)
      /\ link' = [link EXCEPT ![h] = ResultSent(@, m)]
  BY <1>3, AnswerDoes DEF HealthOK, RouteOK
<1>5. m \in Result /\ m.id = w.job.id /\ m.kind = Kind(m.id)
  <2>1. w.job.id \in Chunk
    BY <1>2, <1>4, WorkerTypes DEF IsWorker, WorkerRecord, Work
  <2>2. m \in Result
    BY <2>1, AnswerIsResult
  <2>. QED BY <2>2 DEF AnswerOf, Kind
<1>. HIDE DEF w, v, r, m
<1>6. /\ link'[h].result = Append(r, m) /\ link'[h].work = link[h].work /\ link'[h].open
      /\ \A g \in Hop \ {h} : link'[g] = link[g]
  BY <1>2, <1>3, <1>4 DEF ResultSent, Link, r
<1>7. Back(h, v, Append(r, m), Before(h))
  BY <1>2, <1>4, <1>5, BackAnswer DEF SameWork, SameRelay
<1>8. InStep(v, link[h].work, Up(h))
  BY <1>2, <1>4, StepSame
<1>9. Well(h, v, link'[h].open)
  BY <1>2, <1>4, <1>6 DEF Well, SameWork, SameKv, SameRelay, SameFlags
<1>10. ~(h < Hops)
  BY <1>2, <1>4, Constants DEF IsWorker, Hop
<1>. QED BY <1>1, <1>6, <1>7, <1>8, <1>9, <1>10, Alone DEF w, v, HealthOK

LEMMA GetForwarderHealthy ==
  ASSUME HealthOK, UNCHANGED own, NEW h \in Hop, Route!GetForwarder(h)
  PROVE  HealthNow'
<1>. DEFINE w == worker[h]
            v == worker'[h]
<1>1. WorkersOK' /\ Others(h) /\ UNCHANGED link
  BY GetForwarderDoes DEF HealthOK, RouteOK
<1>2. IsWorker(w, h) /\ Well(h, w, link[h].open) /\ h < Hops /\ link[h + 1].open
  <2>1. IsWorker(w, h) /\ Well(h, w, link[h].open)
    BY <1>1, StepTypes
  <2>2. w.eval = "open"
    BY GetForwarderDoes DEF HealthOK, RouteOK
  <2>3. h < Hops /\ h + 1 \in Hop
    BY <2>1, <2>2, Constants DEF IsWorker, Hop
  <2>4. Steady(h + 1)
    BY <2>3 DEF HealthOK, HealthNow
  <2>. QED BY <2>1, <2>3, <2>4 DEF Steady, Well
<1>3. /\ w.eval = "open" /\ v.eval = "track" /\ v.reader = w.reader
      /\ SameWork(v, w) /\ SameKv(v, w) /\ SameFlags(v, w)
      /\ v.answer = w.answer /\ v.pending = w.pending
      /\ v.relay = w.relay \/ (w.relay = "none" /\ v.relay = "start")
  BY <1>2, GetForwarderDoes DEF HealthOK, RouteOK, SameRelay
<1>. HIDE DEF w, v
<1>4. Well(h, v, link[h].open)
  BY <1>2, <1>3 DEF Well, SameWork, SameKv, SameFlags
<1>5. Handed(v) = Handed(w) /\ Tracked(v) = Tracked(w) /\ Taken(v) = Taken(w)
  BY <1>3 DEF Handed, Tracked, Taken, SameWork
<1>6. GivenBack(h, v) = GivenBack(h, w)
  BY <1>2, <1>3, <1>5, Constants DEF GivenBack, Hop
<1>. QED BY <1>1, <1>3, <1>4, <1>5, <1>6, Moves DEF w, v, HealthOK

LEMMA TrackHealthy ==
  ASSUME HealthOK, UNCHANGED own, NEW h \in Hop, Route!Track(h)
  PROVE  HealthNow'
<1>. DEFINE w == worker[h]
            v == worker'[h]
<1>1. WorkersOK' /\ Others(h) /\ UNCHANGED link
  BY TrackDoes DEF HealthOK, RouteOK
<1>2. /\ v \in WorkerRecord /\ w \in WorkerRecord /\ IsWorker(w, h)
      /\ w.job.id \in Nat /\ (w.job.id = 0 <=> w.job = Route!NoFrame)
      /\ Well(h, w, link[h].open) /\ InStep(w, link[h].work, Up(h))
      /\ Back(h, w, link[h].result, Before(h))
  BY <1>1, StepTypes
<1>3. /\ w.eval = "track" /\ v.reader = w.reader
      /\ SameWork(v, w) /\ SameKv(v, w) /\ SameFlags(v, w)
      /\ v.relay = w.relay /\ v.answer = w.answer
      /\ \/ w.closing
         \/ v.eval = w.eval /\ v.pending = w.pending
         \/ v.eval = "send" /\ v.pending = Append(w.pending, w.job.id)
  BY TrackDoes DEF HealthOK, RouteOK, SameRelay
<1>. HIDE DEF w, v
<1>4. ~w.closing
  BY <1>2 DEF Well
<1>5. CASE v.eval = w.eval /\ v.pending = w.pending
  <2>1. Well(h, v, link[h].open)
    BY <1>2, <1>3, <1>5 DEF Well, SameWork, SameKv, SameFlags
  <2>2. Handed(v) = Handed(w) /\ Tracked(v) = Tracked(w) /\ Taken(v) = Taken(w)
    BY <1>3, <1>5 DEF Handed, Tracked, Taken, SameWork
  <2>3. GivenBack(h, v) = GivenBack(h, w)
    BY <1>3, <1>5, <2>2 DEF GivenBack, SameWork
  <2>. QED BY <1>1, <1>3, <1>5, <2>1, <2>2, <2>3, Moves DEF w, v, HealthOK
<1>6. CASE v.eval = "send" /\ v.pending = Append(w.pending, w.job.id)
  <2>1. h < Hops /\ w.job.id \in Chunk
    BY <1>2, <1>3, WorkerTypes DEF IsWorker, WorkerRecord, Chunk
  <2>2. Back(h, v, link[h].result, Before(h))
    BY <1>2, <1>3, <1>6, <2>1, BackTrack DEF SameWork
  <2>3. InStep(v, link[h].work, Up(h))
    BY <1>2, <1>3, StepSame
  <2>4. Well(h, v, link[h].open)
    BY <1>2, <1>3, <1>6 DEF Well, SameWork, SameKv, SameFlags
  <2>5. Handed(v) = Handed(w)
    BY <1>3, <1>6 DEF Handed, SameWork
  <2>6. Taken(v) = Taken(w)
    <3>1. PICK p \in Seq(Chunk) : p = w.pending
      BY <1>2, Numbers
    <3>2. Len(p) \in Nat /\ Len(v.pending) = Len(p) + 1
      BY <1>6, <2>1, <3>1, Sequences
    <3>3. PICK j \in Nat : j = w.job.id /\ Tracked(w) = j - 1 /\ Tracked(v) = j
      BY <1>2, <1>3, <1>6 DEF Tracked, SameWork
    <3>. QED BY <3>1, <3>2, <3>3 DEF Taken
  <2>. QED BY <1>1, <2>2, <2>3, <2>4, <2>5, <2>6, Alone DEF w, v, HealthOK
<1>. QED BY <1>3, <1>4, <1>5, <1>6

LEMMA RelayStartHealthy ==
  ASSUME HealthOK, UNCHANGED own, NEW h \in Hop, Route!RelayStart(h)
  PROVE  HealthNow'
<1>. DEFINE w == worker[h]
            v == worker'[h]
<1>1. WorkersOK' /\ Others(h) /\ UNCHANGED link
  BY RelayStartDoes DEF HealthOK, RouteOK
<1>2. Well(h, w, link[h].open)
  BY <1>1, StepTypes
<1>3. /\ w.relay = "start" /\ v.relay = "read" /\ v.eval = w.eval /\ v.reader = w.reader
      /\ SameWork(v, w) /\ SameKv(v, w) /\ SameFlags(v, w)
      /\ v.answer = w.answer /\ v.pending = w.pending
  BY RelayStartDoes DEF HealthOK, RouteOK
<1>. HIDE DEF w, v
<1>4. Well(h, v, link[h].open)
  BY <1>2, <1>3 DEF Well, SameWork, SameKv, SameFlags
<1>5. Handed(v) = Handed(w) /\ Tracked(v) = Tracked(w) /\ Taken(v) = Taken(w)
  BY <1>3 DEF Handed, Tracked, Taken, SameWork
<1>6. GivenBack(h, v) = GivenBack(h, w)
  BY <1>3, <1>5 DEF GivenBack, SameWork
<1>. QED BY <1>1, <1>3, <1>4, <1>5, <1>6, Moves DEF w, v, HealthOK

LEMMA RelayWriteHealthy ==
  ASSUME HealthOK, UNCHANGED own, NEW h \in Hop, Route!RelayWrite(h)
  PROVE  HealthNow'
<1>. DEFINE w == worker[h]
            v == worker'[h]
            r == link[h].result
<1>1. WorkersOK' /\ Others(h)
  BY RelayWriteDoes DEF HealthOK, RouteOK
<1>2. /\ v \in WorkerRecord /\ w \in WorkerRecord /\ IsWorker(w, h)
      /\ link \in [Hop -> Link] /\ link[h] \in Link /\ r \in Seq(Result) /\ Before(h) \in Int
      /\ Well(h, w, link[h].open) /\ InStep(w, link[h].work, Up(h))
      /\ Back(h, w, r, Before(h))
  BY <1>1, StepTypes
<1>3. link[h].open
  BY <1>2 DEF Well
<1>4. /\ w.relay = "write" /\ v.relay = "read" /\ v.eval = w.eval /\ v.reader = w.reader
      /\ SameWork(v, w) /\ SameKv(v, w) /\ SameFlags(v, w) /\ v.pending = w.pending
      /\ link' = [link EXCEPT ![h] = ResultSent(@, w.answer)]
  BY <1>3, RelayWriteDoes DEF HealthOK, RouteOK
<1>. HIDE DEF w, v, r
<1>5. h < Hops /\ w.answer \in Result
  BY <1>2, <1>4 DEF IsWorker, WorkerRecord
<1>6. /\ link'[h].result = Append(r, w.answer) /\ link'[h].work = link[h].work
      /\ link'[h].open
      /\ \A g \in Hop \ {h} : link'[g] = link[g]
  BY <1>2, <1>3, <1>4 DEF ResultSent, Link, r
<1>7. Back(h, v, Append(r, w.answer), Before(h))
  BY <1>2, <1>4, <1>5, BackWrite DEF SameWork
<1>8. InStep(v, link[h].work, Up(h))
  BY <1>2, <1>4, StepSame
<1>9. Well(h, v, link'[h].open)
  BY <1>2, <1>4, <1>6 DEF Well, SameWork, SameKv, SameFlags
<1>10. Handed(v) = Handed(w) /\ Taken(v) = Taken(w)
  BY <1>4 DEF Handed, Taken, Tracked, SameWork
<1>. QED BY <1>1, <1>6, <1>7, <1>8, <1>9, <1>10, Alone DEF w, v, HealthOK

(* The chunk that is due goes to the next worker.                          *)
LEMMA ForwardSendHealthy ==
  ASSUME HealthOK, UNCHANGED own, NEW h \in Hop, Route!ForwardSend(h)
  PROVE  HealthNow'
<1>. DEFINE w == worker[h]
            v == worker'[h]
            m == ForwardOf(w)
<1>1. WorkersOK' /\ Others(h)
  BY ForwardSendDoes DEF HealthOK, RouteOK
<1>2. /\ v \in WorkerRecord /\ w \in WorkerRecord /\ IsWorker(w, h)
      /\ link \in [Hop -> Link] /\ Up(h) \in Int
      /\ Well(h, w, link[h].open) /\ InStep(w, link[h].work, Up(h))
      /\ Back(h, w, link[h].result, Before(h))
      /\ w.job.id \in Nat
  BY <1>1, StepTypes
<1>3. /\ w.eval = "send" /\ v.eval = "pop" /\ v.reader = w.reader
      /\ SameWork(v, w) /\ SameKv(v, w) /\ SameRelay(v, w) /\ SameFlags(v, w)
      /\ \E l \in WorkSent(link[h + 1], m) : link' = [link EXCEPT ![h + 1] = l]
  BY ForwardSendDoes DEF HealthOK, RouteOK
<1>4. m \in Work /\ m.id = w.job.id
  <2>1. w.job.id \in Chunk
    BY <1>2, <1>3, WorkerTypes DEF IsWorker, WorkerRecord, Work
  <2>. QED BY <2>1, AnswerIsResult DEF ForwardOf
<1>. HIDE DEF w, v, m
<1>5. PICK n \in Hop : n = h + 1 /\ n # h /\ n # 1 /\ n - 1 = h
  BY <1>2, <1>3, Constants DEF IsWorker, Hop
<1>6. /\ worker[n] \in WorkerRecord /\ link[n].work \in Seq(Work) /\ link[n] \in Link
      /\ Up(n) \in Int /\ link[n].open
      /\ Well(n, worker[n], link[n].open) /\ InStep(worker[n], link[n].work, Up(n))
      /\ Back(n, worker[n], link[n].result, Before(n))
  BY <1>1, StepTypes DEF Well
<1>7. PICK l \in WorkSent(link[n], m) : link' = [link EXCEPT ![n] = l]
  BY <1>3, <1>5
<1>8. l = [link[n] EXCEPT !.work = Append(@, m)]
  BY <1>6, <1>7 DEF WorkSent
<1>9. /\ link'[n].work = Append(link[n].work, m) /\ link'[n].result = link[n].result
      /\ link'[n].open = link[n].open
      /\ \A g \in Hop \ {n} : link'[g] = link[g]
  BY <1>2, <1>6, <1>7, <1>8 DEF Link
<1>10. Handed(w) = w.job.id - 1 /\ Handed(v) = w.job.id /\ Taken(v) = Taken(w)
  BY <1>3 DEF Handed, Taken, Tracked, SameWork, SameRelay
<1>11. /\ Up(n) = Handed(w) /\ Up(n)' = Handed(v)
       /\ Before(n) = Taken(w) /\ Before(n)' = Taken(v)
  BY <1>5 DEF Up, Before, w, v
<1>12. Up(n)' = Up(n) + 1 /\ m.id = Up(n) + 1 /\ Before(n)' = Before(n)
  BY <1>2, <1>4, <1>10, <1>11
<1>13. InStep(worker[n], Append(link[n].work, m), Up(n) + 1)
  BY <1>4, <1>6, <1>12, StepSent
<1>14. worker'[n] = worker[n]
  BY <1>1, <1>5 DEF Others
<1>15. Steady(n)'
  BY <1>6, <1>9, <1>12, <1>13, <1>14 DEF Steady
<1>16. Well(h, v, link[h].open) /\ InStep(v, link[h].work, Up(h))
  <2>1. Well(h, v, link[h].open)
    BY <1>2, <1>3 DEF Well, SameWork, SameKv, SameRelay, SameFlags
  <2>. QED BY <1>2, <1>3, <2>1, StepSame
<1>17. Back(h, v, link[h].result, Before(h))
  <2>1. Tracked(v) = Tracked(w)
    BY <1>3 DEF Tracked, SameWork
  <2>2. GivenBack(h, v) = GivenBack(h, w)
    BY <1>3, <1>10 DEF GivenBack, SameWork, SameRelay
  <2>. QED BY <1>2, <1>3, <2>1, <2>2, BackSame DEF SameRelay
<1>18. link'[h] = link[h] /\ \A g \in Hop \ {h, h + 1} : link'[g] = link[g]
  BY <1>5, <1>9
<1>. QED BY <1>1, <1>5, <1>15, <1>16, <1>17, <1>18, Both DEF v, HealthOK

(* The relay finds the request that the next answer is for.                *)
LEMMA RelayTakeHealthy ==
  ASSUME HealthOK, UNCHANGED own, NEW h \in Hop, Route!RelayTake(h)
  PROVE  HealthNow'
<1>. DEFINE w == worker[h]
            v == worker'[h]
<1>1. WorkersOK' /\ Others(h)
  BY RelayTakeDoes DEF HealthOK, RouteOK
<1>2. /\ v \in WorkerRecord /\ w \in WorkerRecord /\ IsWorker(w, h)
      /\ link \in [Hop -> Link]
      /\ Well(h, w, link[h].open) /\ InStep(w, link[h].work, Up(h))
      /\ Back(h, w, link[h].result, Before(h))
  BY <1>1, StepTypes
<1>3. w.relay = "read" /\ link[h + 1].result # <<>>
  BY RelayTakeDoes DEF HealthOK, RouteOK
<1>4. PICK n \in Hop : n = h + 1 /\ n # h /\ n # 1 /\ n - 1 = h /\ h < Hops
  BY <1>2, <1>3, Constants DEF IsWorker, Hop
<1>5. PICK r \in Seq(Result) : r = link[n].result /\ r # <<>>
  BY <1>1, <1>3, <1>4, StepTypes
<1>6. /\ worker[n] \in WorkerRecord /\ link[n] \in Link
      /\ link[n].work \in Seq(Work) /\ Up(n) \in Int /\ Before(n) \in Int
      /\ Well(n, worker[n], link[n].open) /\ InStep(worker[n], link[n].work, Up(n))
      /\ Back(n, worker[n], r, Before(n))
  BY <1>1, <1>5, StepTypes
<1>. HIDE DEF w, v
<1>7. Up(n) = Handed(w) /\ Before(n) = Taken(w)
  BY <1>4 DEF Up, Before, w
<1>8. w.pending # <<>>
  <2>1. Taken(w) + Len(r) <= worker[n].job.id
    BY <1>6, <1>7, Numbers DEF Back
  <2>2. worker[n].job.id <= Handed(w)
    <3>1. Ahead(worker[n]) \in Nat /\ worker[n].job.id <= Ahead(worker[n])
          /\ worker[n].job.id \in Nat
      BY <1>6, Numbers
    <3>2. Len(link[n].work) \in Nat
      BY <1>6, Sequences
    <3>3. Up(n) = Ahead(worker[n]) + Len(link[n].work)
      BY <1>6 DEF InStep
    <3>. QED BY <1>7, <3>1, <3>2, <3>3
  <2>3. Len(r) \in Nat /\ Len(r) > 0
    BY <1>5, Sequences
  <2>4. /\ Handed(w) \in Int /\ Tracked(w) \in Int /\ Handed(w) <= Tracked(w)
        /\ Taken(w) \in Int /\ worker[n].job.id \in Nat
    BY <1>2, <1>6, Numbers
  <2>5. Taken(w) # Tracked(w)
    BY <2>1, <2>2, <2>3, <2>4
  <2>6. w.pending = <<>> => Taken(w) = Tracked(w)
    BY <2>4 DEF Taken
  <2>. QED BY <2>5, <2>6
<1>9. PICK m : m = Head(r) /\ m.id = Taken(w) + 1 /\ m.kind = Kind(m.id)
  <2>1. Head(r).id = Before(n) + 1 /\ Head(r).kind = Kind(Head(r).id)
    BY <1>5, <1>6, BackTaken
  <2>. QED BY <1>7, <2>1
<1>10. Head(w.pending) = Taken(w) + 1
  <2>1. PICK p \in Seq(Chunk) : p = w.pending
    BY <1>2, Numbers
  <2>2. Head(p) = p[1] /\ 1 \in 1 .. Len(p)
    BY <1>8, <2>1, Sequences
  <2>. QED BY <1>2, <1>4, <2>1, <2>2 DEF Back
<1>11. /\ v.relay = "write" /\ v.answer = m /\ v.pending = Tail(w.pending)
       /\ v.reader = w.reader /\ v.eval = w.eval
       /\ SameWork(v, w) /\ SameKv(v, w) /\ SameFlags(v, w)
       /\ link' = [link EXCEPT ![n].result = Tail(@)]
  BY <1>4, <1>5, <1>8, <1>9, <1>10, RelayTakeDoes DEF HealthOK, RouteOK, w, v
<1>12. /\ link'[n].result = Tail(r) /\ link'[n].work = link[n].work
       /\ link'[n].open = link[n].open
       /\ \A g \in Hop \ {n} : link'[g] = link[g]
  BY <1>2, <1>5, <1>6, <1>11 DEF Link
<1>13. Back(h, v, link[h].result, Before(h)) /\ Taken(v) = Taken(w) + 1
  BY <1>2, <1>3, <1>4, <1>8, <1>9, <1>11, BackTake DEF SameWork
<1>14. InStep(v, link[h].work, Up(h)) /\ Well(h, v, link[h].open)
  <2>1. Well(h, v, link[h].open)
    BY <1>2, <1>3, <1>11 DEF Well, SameWork, SameKv, SameFlags
  <2>. QED BY <1>2, <1>11, <2>1, StepSame
<1>15. Steady(n)'
  <2>1. Up(n)' = Handed(v) /\ Before(n)' = Taken(v)
    BY <1>4 DEF Up, Before, v
  <2>2. Up(n)' = Up(n) /\ Before(n)' = Before(n) + 1
    BY <1>7, <1>11, <1>13, <2>1 DEF Handed, SameWork
  <2>3. Back(n, worker[n], Tail(r), Before(n) + 1)
    BY <1>5, <1>6, BackTaken
  <2>4. worker'[n] = worker[n]
    BY <1>1, <1>4 DEF Others
  <2>. QED BY <1>6, <1>12, <2>2, <2>3, <2>4 DEF Steady
<1>16. link'[h] = link[h] /\ \A g \in Hop \ {h, h + 1} : link'[g] = link[g]
  BY <1>4, <1>12
<1>. QED BY <1>1, <1>4, <1>13, <1>14, <1>15, <1>16, Both DEF v, HealthOK

(* The steps that a worker takes only when something has gone wrong.       *)
LEMMA NoWrongStep ==
  ASSUME HealthOK, faults' = faults, NEW h \in Hop
  PROVE  /\ ~Route!ReadEnd(h) /\ ~Route!JoinEval(h) /\ ~Route!JoinRelay(h)
         /\ ~Route!AnswerError(h) /\ ~Route!EvalFails(h) /\ ~Route!ForwardFails(h)
         /\ ~Route!Lost(h) /\ ~Route!RelayNoBuffer(h) /\ ~Route!RelayEnd(h)
         /\ ~Route!RelayExit(h)
<1>1. Well(h, worker[h], link[h].open) /\ IsWorker(worker[h], h)
  BY HealthTypes DEF HealthOK
<1>2. h < Hops => link[h + 1].open
  <2>. SUFFICES ASSUME h < Hops PROVE link[h + 1].open
    OBVIOUS
  <2>1. h + 1 \in Hop
    BY Constants DEF Hop
  <2>. QED BY <2>1 DEF HealthOK, HealthNow, Steady, Well
<1>3. ~Route!Fault
  BY Shared DEF Fault, HealthOK, RouteOK, LinksOK
<1>4. ~Route!ReadEnd(h) /\ ~Route!JoinEval(h) /\ ~Route!JoinRelay(h)
  BY <1>1 DEF Well, Route!ReadEnd, Route!JoinEval, Route!JoinRelay
<1>5. ~Route!AnswerError(h) /\ ~Route!EvalFails(h) /\ ~Route!Lost(h)
  BY <1>1 DEF Well, Route!AnswerError, Route!EvalFails, Route!Lost
<1>6. ~Route!ForwardFails(h) /\ ~Route!RelayEnd(h)
  BY <1>1, <1>2, <1>3 DEF IsWorker, Route!ForwardFails, Route!RelayEnd
<1>7. ~Route!RelayNoBuffer(h) /\ ~Route!RelayExit(h)
  BY <1>1, <1>3 DEF Well, Route!RelayNoBuffer, Route!RelayExit
<1>. QED BY <1>4, <1>5, <1>6, <1>7

LEMMA WorkerHealthy ==
  ASSUME HealthOK, UNCHANGED own, faults' = faults, NEW h \in Hop, Route!WorkerStep(h)
  PROVE  HealthNow'
<1>1. CASE Route!ReaderLoop(h)
  BY <1>1, NoWrongStep, ReadWorkHealthy, PutJobHealthy, InlineDoneHealthy
     DEF Route!ReaderLoop
<1>2. CASE Route!EvalLoop(h)
  BY <1>2, NoWrongStep, PopJobHealthy, EvaluateHealthy, AnswerHealthy,
     GetForwarderHealthy, TrackHealthy, ForwardSendHealthy
     DEF Route!EvalLoop
<1>3. CASE Route!RelayLoop(h)
  BY <1>3, NoWrongStep, RelayStartHealthy, RelayTakeHealthy, RelayWriteHealthy
     DEF Route!RelayLoop
<1>. QED BY <1>1, <1>2, <1>3 DEF Route!WorkerStep

-----------------------------------------------------------------------------
(* The steps of the coordinator.                                           *)

LEMMA FirstHop ==
  ASSUME HealthOK
  PROVE  /\ 1 \in Hop /\ worker[1] \in WorkerRecord
         /\ link \in [Hop -> Link] /\ link[1] \in Link /\ link[1].open
         /\ link[1].work \in Seq(Work) /\ link[1].result \in Seq(Result)
         /\ Well(1, worker[1], link[1].open)
         /\ InStep(worker[1], link[1].work, sent)
         /\ Back(1, worker[1], link[1].result, got)
         /\ sent \in Nat /\ got \in Nat
<1>1. 1 \in Hop /\ Up(1) = sent /\ Before(1) = got
  BY OneIsHop DEF Up, Before
<1>. QED BY <1>1, HealthTypes DEF HealthOK, RouteOK, LinksOK, Well

(* No result comes for a chunk that was not sent.                          *)
LEMMA GotOfSent ==
  ASSUME HealthOK
  PROVE  got <= sent
<1>. DEFINE w == worker[1]
            l == link[1].work
            r == link[1].result
<1>1. /\ w \in WorkerRecord /\ l \in Seq(Work) /\ r \in Seq(Result) /\ 1 \in Hop
      /\ InStep(w, l, sent) /\ Back(1, w, r, got) /\ sent \in Nat /\ got \in Nat
  BY FirstHop
<1>. HIDE DEF w, l, r
<1>2. /\ GivenBack(1, w) \in Int /\ GivenBack(1, w) <= w.job.id /\ w.job.id \in Nat
      /\ Ahead(w) \in Nat /\ w.job.id <= Ahead(w)
  BY <1>1, Numbers
<1>3. Len(l) \in Nat /\ Len(r) \in Nat
  BY <1>1, Sequences
<1>4. got + Len(r) = GivenBack(1, w)
  BY <1>1 DEF Back
<1>5. sent = Ahead(w) + Len(l)
  BY <1>1 DEF InStep
<1>. QED BY <1>1, <1>2, <1>3, <1>4, <1>5

LEMMA CalmHealthy ==
  ASSUME HealthNow, UNCHANGED <<worker, link, sent, got>>, CoordinatorWell'
  PROVE  HealthNow'
<1>1. \A g \in Hop : Up(g)' = Up(g) /\ Before(g)' = Before(g)
  BY DEF Up, Before
<1>2. \A g \in Hop : Steady(g)'
  BY <1>1 DEF HealthNow, Steady
<1>. QED BY <1>2 DEF HealthNow

LEMMA ProducerHealthy ==
  ASSUME HealthOK, Inv, faults' = faults, UNCHANGED worker, ProducerStep
  PROVE  HealthNow'
<1>1. CoordinatorWell /\ got <= sent /\ sent <= submitted /\ submitted \in Nat
  BY GotOfSent DEF HealthOK, HealthNow, Inv, TypeOK
<1>2. ~Fault
  BY DEF Fault, HealthOK, RouteOK, LinksOK
<1>3. sent \in Nat /\ got \in Nat /\ Count \in Nat
  BY Constants DEF HealthOK, RouteOK
<1>. USE <1>1, <1>2 DEF CoordinatorWell, senderVars, readerVars
<1>4. CreateReader => UNCHANGED <<link, sent, got>> /\ CoordinatorWell'
  BY DEF CreateReader, Inv, RingInv
<1>5. CreateSender => UNCHANGED <<link, sent, got>> /\ CoordinatorWell'
  BY DEF CreateSender
<1>6. ~SenderNotCreated /\ ~Abandon
  BY DEF SenderNotCreated, Abandon
<1>7. WaitWindow => UNCHANGED <<link, sent, got>> /\ CoordinatorWell'
  BY <1>3 DEF WaitWindow, Cancel, Sleep
<1>8. AcquireSlot => UNCHANGED <<link, sent, got>> /\ CoordinatorWell'
  BY DEF AcquireSlot, Cancel, Sleep
<1>9. EvalSlice => UNCHANGED <<link, sent, got>> /\ CoordinatorWell'
  BY DEF EvalSlice
<1>10. EnqueueSlot => UNCHANGED <<link, sent, got>> /\ CoordinatorWell'
  BY DEF EnqueueSlot, Cancel
<1>11. Finish => UNCHANGED <<link, sent, got>> /\ CoordinatorWell'
  BY DEF Finish
<1>12. JoinSender => UNCHANGED <<link, sent, got>> /\ CoordinatorWell'
  BY DEF JoinSender
<1>13. WaitReader => UNCHANGED <<link, sent, got>> /\ CoordinatorWell'
  BY DEF WaitReader, Sleep
<1>14. Return => UNCHANGED <<link, sent, got>> /\ CoordinatorWell'
  BY DEF Return
<1>15. UNCHANGED <<link, sent, got>> /\ CoordinatorWell'
  BY <1>4, <1>5, <1>6, <1>7, <1>8, <1>9, <1>10, <1>11, <1>12, <1>13, <1>14
     DEF ProducerStep
<1>. QED BY <1>15, CalmHealthy DEF HealthOK

LEMMA SenderHealthy ==
  ASSUME HealthOK, Inv, faults' = faults, UNCHANGED worker, SenderStep
  PROVE  HealthNow'
<1>1. /\ 1 \in Hop /\ worker[1] \in WorkerRecord
      /\ link \in [Hop -> Link] /\ link[1] \in Link /\ link[1].open
      /\ link[1].work \in Seq(Work) /\ sent \in Nat
      /\ InStep(worker[1], link[1].work, sent)
  BY FirstHop
<1>2. CoordinatorWell
  BY DEF HealthOK, HealthNow
<1>3. ~Fault
  BY DEF Fault, HealthOK, RouteOK, LinksOK
<1>4. CASE SenderTop
  <2>1. UNCHANGED <<link, sent, got>> /\ CoordinatorWell'
    BY <1>2, <1>4 DEF SenderTop, CoordinatorWell, readerVars
  <2>. QED BY <2>1, CalmHealthy DEF HealthOK
<1>5. ~SenderFails
  BY <1>1, <1>3 DEF SenderFails
<1>6. CASE SenderSend
  <2>1. PICK m : m = [id |-> sent + 1, hidden |-> slots[Slot(sent + 1)]]
    OBVIOUS
  <2>2. /\ \E l \in WorkSent(link[1], m) : link' = [link EXCEPT ![1] = l]
        /\ sent' = sent + 1 /\ got' = got
    BY <1>6, <2>1 DEF SenderSend, readerVars
  <2>3. m \in Work /\ m.id = sent + 1
    <3>1. sent + 1 \in (sent + 1) .. submitted /\ sent + 1 \in Chunk
      BY <1>1, <1>6, Constants DEF SenderSend, Inv, RingInv, TypeOK, Chunk
    <3>2. slots[Slot(sent + 1)] = sent + 1
      BY <3>1 DEF Inv, SlotsOwned
    <3>. QED BY <2>1, <3>1, <3>2 DEF Work, Content, Chunk
  <2>4. PICK l \in WorkSent(link[1], m) : link' = [link EXCEPT ![1] = l]
    BY <2>2
  <2>5. l = [link[1] EXCEPT !.work = Append(@, m)]
    BY <1>1, <2>4 DEF WorkSent
  <2>6. /\ link'[1].work = Append(link[1].work, m) /\ link'[1].result = link[1].result
        /\ link'[1].open = link[1].open
        /\ \A g \in Hop \ {1} : link'[g] = link[g]
    BY <1>1, <2>4, <2>5 DEF Link
  <2>7. InStep(worker[1], Append(link[1].work, m), sent + 1)
    BY <1>1, <2>3, StepSent
  <2>8. ASSUME NEW g \in Hop PROVE Steady(g)'
    <3>1. Before(g)' = Before(g) /\ Steady(g)
      BY <2>2 DEF Before, HealthOK, HealthNow
    <3>2. CASE g = 1
      <4>1. Up(g)' = sent + 1
        BY <2>2, <3>2 DEF Up
      <4>. QED BY <2>6, <2>7, <3>1, <3>2, <4>1 DEF Steady
    <3>3. CASE g # 1
      <4>1. Up(g)' = Up(g) /\ link'[g] = link[g]
        BY <2>6, <3>3 DEF Up
      <4>. QED BY <3>1, <4>1 DEF Steady
    <3>. QED BY <3>2, <3>3
  <2>9. CoordinatorWell'
    BY <1>2, <1>6 DEF SenderSend, CoordinatorWell, readerVars
  <2>. QED BY <2>8, <2>9 DEF HealthNow
<1>. QED BY <1>4, <1>5, <1>6 DEF SenderStep

LEMMA ReaderHealthy ==
  ASSUME HealthOK, Inv, UNCHANGED worker, ReaderStep
  PROVE  HealthNow'
<1>1. /\ 1 \in Hop /\ link \in [Hop -> Link] /\ link[1] \in Link /\ link[1].open
      /\ link[1].result \in Seq(Result) /\ got \in Nat
      /\ Back(1, worker[1], link[1].result, got)
  BY FirstHop
<1>2. CoordinatorWell
  BY DEF HealthOK, HealthNow
<1>3. PICK r \in Seq(Result) : r = link[1].result
  BY <1>1
<1>4. r # <<>> => /\ Head(r) \in Result /\ Head(r).id = got + 1
                  /\ Head(r).kind = Kind(Head(r).id)
                  /\ Back(1, worker[1], Tail(r), got + 1)
  <2>1. Back(1, worker[1], r, got)
    BY <1>1, <1>3
  <2>. QED BY <1>1, <2>1, BackTaken
<1>5. ~ReaderFails
  <2>1. r # <<>> => Head(r).id = got + 1 /\ Head(r).kind # "error" /\ Valid(Head(r))
    BY <1>4 DEF Kind, Valid
  <2>. QED BY <1>1, <1>3, <2>1 DEF ReaderFails
<1>6. CASE ReaderTake
  <2>1. /\ reader = "read" /\ r # <<>> /\ got' = got + 1 /\ sent' = sent
        /\ ended' = (got + 1 = Count)
        /\ reader' = IF got + 1 = Count THEN "out" ELSE "read"
        /\ final' = IF got + 1 = Count THEN Head(r).of ELSE final
        /\ link' = [link EXCEPT ![1].result = Tail(@)]
        /\ UNCHANGED <<prod, rc, stop, senderRc, readerRc, ret>>
    BY <1>3, <1>6 DEF ReaderTake, senderVars
  <2>2. /\ link'[1].result = Tail(r) /\ link'[1].work = link[1].work
        /\ link'[1].open = link[1].open
        /\ \A g \in Hop \ {1} : link'[g] = link[g]
    BY <1>1, <1>3, <2>1 DEF Link
  <2>3. ASSUME NEW g \in Hop PROVE Steady(g)'
    <3>1. Up(g)' = Up(g) /\ Steady(g)
      BY <2>1 DEF Up, HealthOK, HealthNow
    <3>2. CASE g = 1
      <4>1. Before(g)' = got + 1
        BY <2>1, <3>2 DEF Before
      <4>. QED BY <1>4, <2>1, <2>2, <3>1, <3>2, <4>1 DEF Steady
    <3>3. CASE g # 1
      <4>1. Before(g)' = Before(g) /\ link'[g] = link[g]
        BY <2>2, <3>3 DEF Before
      <4>. QED BY <3>1, <4>1 DEF Steady
    <3>. QED BY <3>2, <3>3
  <2>4. Head(r).of # -1
    BY <1>4, <2>1, Constants DEF Result, Content
  <2>5. CoordinatorWell'
    BY <1>1, <1>2, <2>1, <2>4, Constants DEF CoordinatorWell
  <2>. QED BY <2>3, <2>5 DEF HealthNow
<1>. QED BY <1>5, <1>6 DEF ReaderStep

-----------------------------------------------------------------------------
(* Faults are counted.                                                     *)
LEMMA FaultsCounted ==
  ASSUME RouteFull, PipelineNext
  PROVE  faults' = faults \/ Fault
<1>0. WorkersOK /\ LinksOK
  BY DEF RouteFull
<1>1. CASE Coordinator
  BY <1>1, ProducerCalm, OthersCalm DEF Coordinator, SenderStep, ReaderStep, Calm,
     SenderSend, ReaderTake
<1>2. ASSUME NEW h \in Hop, Route!ReaderLoop(h) PROVE faults' = faults
  BY <1>0, <1>2, ReadWorkDoes, ReadEndDoes, PutJobDoes, InlineDoneDoes, JoinEvalDoes,
     JoinRelayDoes DEF Route!ReaderLoop
<1>3. ASSUME NEW h \in Hop, Route!EvalLoop(h) PROVE faults' = faults \/ Fault
  <2>1. Route!PopJob(h) \/ Route!Evaluate(h) \/ Route!Answer(h) => faults' = faults \/ Fault
    BY <1>0, PopJobDoes, EvaluateDoes, AnswerDoes
  <2>2. Route!AnswerError(h) \/ Route!EvalFails(h) \/ Route!GetForwarder(h)
           => faults' = faults \/ Fault
    BY <1>0, AnswerErrorDoes, EvalFailsDoes, GetForwarderDoes
  <2>3. Route!Track(h) \/ Route!ForwardSend(h) \/ Route!ForwardFails(h) \/ Route!Lost(h)
           => faults' = faults \/ Fault
    BY <1>0, TrackDoes, ForwardSendDoes, ForwardFailsDoes, LostDoes
  <2>. QED BY <1>3, <2>1, <2>2, <2>3 DEF Route!EvalLoop
<1>4. ASSUME NEW h \in Hop, Route!RelayLoop(h) PROVE faults' = faults \/ Fault
  BY <1>0, <1>4, RelayStartDoes, RelayNoBufferDoes, RelayTakeDoes, RelayEndDoes,
     RelayWriteDoes, RelayExitDoes DEF Route!RelayLoop
<1>5. ASSUME NEW h \in Hop, Cut(h) PROVE Fault
  BY <1>5 DEF Cut
<1>. QED BY <1>1, <1>2, <1>3, <1>4, <1>5 DEF PipelineNext, ThreadStep, Route!WorkerStep

LEMMA InitHealthy == PipelineInit => Healthy
<1>. SUFFICES ASSUME PipelineInit PROVE HealthNow
  BY DEF Healthy
<1>1. CoordinatorWell
  BY Constants DEF PipelineInit, Init, CoordinatorWell
<1>2. ASSUME NEW h \in Hop PROVE Steady(h)
  <2>1. PICK e : e = IF Prefetch[h] = 0 THEN "out" ELSE "pop"
    OBVIOUS
  <2>2. PICK w : w = worker[h]
    OBVIOUS
  <2>3. w = [reader |-> "read", frame |-> Route!NoFrame,
             queue |-> <<>>, closed |-> FALSE, canceled |-> FALSE,
             eval |-> e, job |-> Route!NoFrame,
             relay |-> "none", answer |-> Route!NoAnswer,
             pending |-> <<>>, closing |-> FALSE,
             kv |-> Route!Wrong, hash |-> Route!NoHash, asleep |-> {}]
    BY <2>1, <2>2, Shared DEF PipelineInit, Route!WorkerInit
  <2>4. /\ w.reader = "read" /\ w.frame.id = 0 /\ w.queue = <<>> /\ ~w.closed /\ ~w.canceled
        /\ w.eval = e /\ w.job.id = 0 /\ w.relay = "none" /\ w.pending = <<>> /\ ~w.closing
    BY <2>3 DEF Route!NoFrame
  <2>5. link[h].open /\ link[h].work = <<>> /\ link[h].result = <<>>
    BY DEF PipelineInit
  <2>6. Handed(w) = 0 /\ Taken(w) = 0 /\ GivenBack(h, w) = 0 /\ Ahead(w) = 0
    <3>1. e \in {"out", "pop"}
      BY <2>1
    <3>2. Handed(w) = 0 /\ Tracked(w) = 0
      BY <2>4, <3>1 DEF Handed, Tracked
    <3>3. Len(w.queue) = 0 /\ Len(w.pending) = 0
      BY <2>4, EmptyQueues
    <3>4. w.job.id = 0 /\ InHold(w) = 0
      BY <2>4 DEF InHold
    <3>5. Taken(w) = 0
      BY <3>2, <3>3 DEF Taken
    <3>6. Ahead(w) = 0
      BY <3>3, <3>4 DEF Ahead
    <3>7. GivenBack(h, w) = 0
      BY <2>4, <3>1, <3>5 DEF GivenBack
    <3>. QED BY <3>2, <3>5, <3>6, <3>7
  <2>7. Up(h) = 0 /\ Before(h) = 0
    <3>1. CASE h = 1
      BY <3>1 DEF Up, Before, PipelineInit, Init
    <3>2. CASE h # 1
      <4>1. h - 1 \in Hop
        BY <3>2, Constants DEF Hop
      <4>2. worker[h - 1].job.id = 0 /\ worker[h - 1].eval \in {"pop", "out"}
            /\ worker[h - 1].pending = <<>>
        BY <4>1, Shared DEF PipelineInit, Route!WorkerInit, Route!NoFrame
      <4>3. Handed(worker[h - 1]) = 0 /\ Taken(worker[h - 1]) = 0
        BY <4>2, EmptyQueues DEF Handed, Taken, Tracked
      <4>. QED BY <3>2, <4>3 DEF Up, Before
    <3>. QED BY <3>1, <3>2
  <2>8. Well(h, w, link[h].open)
    BY <2>1, <2>4, <2>5 DEF Well
  <2>9. InStep(w, link[h].work, Up(h))
    BY <2>4, <2>5, <2>6, <2>7, EmptyQueues DEF InStep, Numbered
  <2>10. Back(h, w, link[h].result, Before(h))
    BY <2>4, <2>5, <2>6, <2>7, EmptyQueues DEF Back, Numbered
  <2>. QED BY <2>2, <2>8, <2>9, <2>10 DEF Steady
<1>. QED BY <1>1, <1>2 DEF HealthNow

THEOREM NextHealthy == RouteFull /\ Healthy /\ [PipelineNext]_allVars => Healthy'
<1>. SUFFICES ASSUME RouteFull, Healthy, [PipelineNext]_allVars, faults' = 0
              PROVE  HealthNow'
  BY DEF Healthy
<1>1. CASE UNCHANGED allVars
  <2>1. HealthNow /\ UNCHANGED <<worker, link, sent, got>>
    BY <1>1 DEF allVars, own, Healthy
  <2>2. CoordinatorWell'
    BY <1>1, <2>1 DEF allVars, own, HealthNow, CoordinatorWell
  <2>. QED BY <2>1, <2>2, CalmHealthy
<1>2. CASE PipelineNext
  <2>1. faults' = faults
    <3>1. faults \in Nat
      BY Constants DEF RouteFull, LinksOK
    <3>. QED BY <1>2, <3>1, FaultsCounted DEF Fault
  <2>2. HealthOK /\ Inv
    <3>1. got \in Nat /\ sent \in Nat
      BY DEF RouteFull, Inv, TypeOK
    <3>. QED BY <2>1, <3>1 DEF RouteFull, RouteOK, HealthOK, Healthy
  <2>3. CASE Coordinator /\ UNCHANGED worker
    BY <2>1, <2>2, <2>3, ProducerHealthy, SenderHealthy, ReaderHealthy DEF Coordinator
  <2>4. CASE \E h \in Hop : Route!WorkerStep(h) /\ UNCHANGED own
    BY <2>1, <2>2, <2>4, WorkerHealthy
  <2>5. ~(\E h \in Hop : Cut(h))
    BY <2>1, <2>2 DEF Cut, Fault, RouteFull, LinksOK
  <2>. QED BY <1>2, <2>3, <2>4, <2>5 DEF PipelineNext, ThreadStep
<1>. QED BY <1>1, <1>2

(* Nothing but a fault makes a prefill fail: no bound on a queue, no       *)
(* window and no matching of answers with requests turns a prompt down,    *)
(* however the threads of the coordinator and of the workers interleave.   *)
(* (dist_coordinator_prefill_prompt_pipelined, the forwarder and the job   *)
(* queue of a worker, ds4_distributed.c)                                   *)
THEOREM HealthyPrefillSucceeds == PipelineSpec => []HealthySucceeds
<1>1. RouteFull /\ Healthy => HealthySucceeds
  <2>. SUFFICES ASSUME RouteFull, Healthy, faults = 0 PROVE ret \notin {"fail", "remote"}
    BY Constants DEF HealthySucceeds, RouteFull, LinksOK
  <2>. QED BY DEF Healthy, HealthNow, CoordinatorWell
<1>2. PipelineInit => RouteFull /\ Healthy
  BY InitRoute, InitHealthy
<1>3. RouteFull /\ Healthy /\ [PipelineNext]_allVars => (RouteFull /\ Healthy)'
  BY NextRoute, NextHealthy
<1>. QED BY <1>1, <1>2, <1>3, PTL DEF PipelineSpec

=============================================================================
