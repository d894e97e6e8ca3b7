------------------------- MODULE ExpertCacheProofs -------------------------
(***************************************************************************)
(* Proofs about ExpertCache, for every number of layers, experts, slots    *)
(* and requests:                                                           *)
(*                                                                         *)
(*   CacheTypes       the types of its state                               *)
(*   CacheHandedOver  the two threads are never in the cache together      *)
(*   CacheSlots       no buffer has two owners, and none is forgotten      *)
(*   CacheBuffers     what a command buffer reads stays what it was        *)
(***************************************************************************)
EXTENDS ExpertCache, FiniteSetTheorems, TLAPS

-----------------------------------------------------------------------------
(* The inductive invariant, in parts. *)

Places == {"idle", "op", "ending", "sync"}
LoadPlaces == {"hash", "retry", "load", "split", "missing"}
AsyncPlaces == {"early", "shared", "finish"}
LayerPlaces == LoadPlaces \cup AsyncPlaces \cup {"moe", "encode", "resident", "join", "fail"}

Steps ==
    [op : {"begin", "layer", "end", "release"}, part : {"prefill", "decode"},
     layer : Layer, left : Nat \ {0}]
    \cup [op : {"resize", "policy"}, part : {"prefill", "decode", "over"},
          layer : {0}, left : {0}]
    \cup {NoStep}

(* The main thread: a request is being worked off unless the thread is idle;
   a layer is encoded inside a scope. *)
MainOK ==
    /\ pc \in Places \cup LayerPlaces
    /\ step \in Steps
    /\ pc \in LayerPlaces => step.op = "layer"
    /\ pc \in {"idle", "ending", "sync"} => step.op \notin {"layer", "end"}
    /\ served \in 0 .. Len(Requests)
    /\ step.op # "none" => served # 0
    /\ layer \in {0} \cup Layer
    /\ pc \in LayerPlaces \ {"fail"} => layer \in Layer
    /\ sel \in SUBSET Expert /\ encoded \in BOOLEAN

(* A command buffer is open exactly inside a scope; outside one the GPU has
   run everything. *)
Binds == SUBSET (Slot \X Key)

GpuOK ==
    /\ open \in [binds : Binds, event : Nat \cup {-1}]
    /\ queue \in Seq([binds : Binds, event : Nat])
    /\ eventValue \in Nat /\ signalled \in Nat
    /\ open = NoBuffer <=> step.op \notin {"layer", "end"}
    /\ open # NoBuffer => open.event # -1
    /\ open = NoBuffer /\ pc \notin {"ending", "sync"} => queue = <<>>

(* The numbers of the command buffers: the open one is later than all that
   were flushed or are done. *)
SeqOK ==
    /\ cbSeq \in Nat /\ batchSeq \in 0 .. cbSeq /\ ownedSeq \in 0 .. cbSeq
    /\ pendingMax \in 0 .. cbSeq /\ doneSeq \in 0 .. cbSeq
    /\ open # NoBuffer => batchSeq > pendingMax /\ batchSeq > doneSeq

(* The hand-over: where main and service thread are in the loader. *)
HandOK ==
    /\ loader = [t \in Thread |-> loader[t]]
    /\ job \in [hasJob : BOOLEAN, done : BOOLEAN, layer : {0} \cup Layer, event : Nat,
                ids : SUBSET Expert, ok : BOOLEAN]
    /\ service \in {"idle", "event", "load"}
    /\ service # "idle" => job.hasJob
    /\ service = "load" <=> ~InPhase("service", "none")
    /\ job.hasJob => ~job.done
    /\ job.hasJob \/ job.done =>
           job.event = eventValue /\ job.layer = layer /\ pc \in AsyncPlaces
    /\ pc \in AsyncPlaces => (job.hasJob \/ job.done)
    /\ pc \in LoadPlaces <=> ~InPhase("main", "none")

TypesOK ==
    /\ entry \in [Key -> {None} \cup Slot] /\ mark \in [Key -> Nat]
    /\ content \in [Slot -> {Junk} \cup Key]
    /\ free \subseteq Slab /\ lost \subseteq Slab
    /\ handed \in 0 .. MaxBudget /\ slots \in handed .. MaxBudget
    /\ budget \in 1 .. MaxBudget /\ policy \in {"none", "lru", "probation"}
    /\ previous \in [Layer -> SUBSET Expert]
    /\ pool \in {"idle", "busy", "good", "bad"}

(* A thread's call of the loader.  What is missing of the selected experts is
   either still to do or has its buffer, and has no entry. *)
Busy == {"batch", "prepare", "flush", "wait", "post", "read"}
Back2(t) == IF loader[t].phase \in {"flush", "wait"} THEN loader[t].back ELSE loader[t].phase

CallSet(bufs) ==
    [phase : Phase, kind : {"begin", "missing"}, layer : {0} \cup Layer,
     sel : SUBSET Expert, todo : SUBSET Expert, bufs : {bufs}, batch : SUBSET Slot,
     back : {"none", "batch", "prepare"}, reserved : Nat, waited : BOOLEAN, ok : BOOLEAN]

CallTypes(t) ==
    /\ loader[t] \in CallSet(loader[t].bufs)
    /\ \A e \in DOMAIN loader[t].bufs : loader[t].bufs[e] \in Slot
    /\ loader[t].phase \notin {"none", "done"} => loader[t].layer \in Layer

OneEach(bufs) == \A d, e \in DOMAIN bufs : bufs[d] = bufs[e] => d = e

CallOK(t) ==
    LET ld == loader[t]
    IN /\ CallTypes(t)
       /\ ld.phase \notin Busy => DOMAIN ld.bufs = {} /\ ld.batch = {} /\ ld.todo = {}
       /\ ld.phase \in Busy =>
             /\ pending = NoLoad
             /\ ld.todo \cap DOMAIN ld.bufs = {}
             /\ ld.todo \cup DOMAIN ld.bufs = {e \in ld.sel : entry[<<ld.layer, e>>] = None}
             /\ OneEach(ld.bufs) /\ ld.batch \cap Range(ld.bufs) = {}
             /\ Cardinality(ld.batch) <= Cardinality(ld.todo)
       /\ ld.phase \in {"flush", "wait"} => ld.back \in {"batch", "prepare"}
       /\ Back2(t) = "batch" => DOMAIN ld.bufs = {} /\ ld.batch = {}
       /\ Back2(t) \in {"batch", "prepare"} => ld.todo # {}
       /\ Back2(t) \in {"post", "read"} => ld.todo = {}

(* The load that is under way. *)
PendingOK ==
    /\ pool = "idle" <=> pending = NoLoad
    /\ pending = NoLoad \/
          /\ pending.layer \in Layer /\ pending.sel \subseteq Expert
          /\ pending = [layer |-> pending.layer, sel |-> pending.sel, bufs |-> pending.bufs]
          /\ DOMAIN pending.bufs \subseteq Expert
          /\ \A e \in DOMAIN pending.bufs :
                pending.bufs[e] \in Slot /\ entry[<<pending.layer, e>>] = None
          /\ OneEach(pending.bufs)

(* The main thread's call is about the layer it encodes; what it was answered
   of the missing experts is true. *)
SelOK ==
    /\ pc \in LoadPlaces /\ ~InPhase("main", "done") =>
          loader["main"].layer = layer /\ loader["main"].sel = sel
    /\ pc \in {"load", "missing"} /\ ~InPhase("main", "done") => loader["main"].kind = "missing"
    /\ \/ pc \in {"encode", "join"}
       \/ pc \in {"load", "missing"} /\ InPhase("main", "done") /\ loader["main"].ok
       => \A e \in sel : entry[<<layer, e>>] # None

LoadsOK == CallOK("main") /\ CallOK("service") /\ PendingOK /\ SelOK

(* A buffer belongs to an entry, to a load, to the free list, to the lost ones
   or to nobody. *)
EntrySlots == {entry[k] : k \in Valid}
LoadSlots == Range(pending.bufs) \cup LoaderSlots("main") \cup LoaderSlots("service")

SlotsOK ==
    /\ \A j, k \in Valid : entry[j] = entry[k] => j = k
    /\ EntrySlots \cap LoadSlots = {} /\ EntrySlots \cap free = {} /\ EntrySlots \cap lost = {}
    /\ LoadSlots \cap free = {} /\ LoadSlots \cap lost = {} /\ free \cap lost = {}
    /\ (EntrySlots \cup LoadSlots \cup free \cup lost) \cap Slab = 1 .. handed

(* Contents. *)
ReadsOK ==
    /\ \A k \in Valid : content[entry[k]] = k
    /\ pool = "good" =>
          \A e \in DOMAIN pending.bufs : content[pending.bufs[e]] = <<pending.layer, e>>

(* What a command buffer reads is an entry that is in flight. *)
BindsOK ==
    /\ \A b \in open.binds : entry[b[2]] = b[1] /\ mark[b[2]] >= batchSeq
    /\ \A cb \in Range(queue) : \A b \in cb.binds : entry[b[2]] = b[1] /\ mark[b[2]] > doneSeq

Inv ==
    /\ MainOK /\ GpuOK /\ SeqOK /\ HandOK /\ TypesOK /\ LoadsOK
    /\ SlotsOK /\ ReadsOK /\ BindsOK

-----------------------------------------------------------------------------
(* Frames: what the actions of a kind leave alone. *)

LEMMA LoaderFrame ==
    ASSUME NEW t \in Thread, LoaderStep(t)
    PROVE  UNCHANGED <<placeVars, job, service, budget, policy, ownedSeq, eventValue, signalled>>
<1>. USE DEF policyVars, seqVars, gpuVars, placeVars
<1>1. CASE LoadMatched(t) \/ LoadStart(t)
  BY <1>1 DEF LoadMatched, LoadStart
<1>2. CASE TakeBatch(t) \/ Prepare(t)
  BY <1>2 DEF TakeBatch, Prepare
<1>3. CASE WaitFlush(t)
  BY <1>3 DEF WaitFlush, FlushOf, Flush
<1>4. CASE WaitDone(t)
  BY <1>4 DEF WaitDone
<1>5. CASE LoadPost(t) \/ ReadEnds(t) \/ ReadFails(t)
  BY <1>5 DEF LoadPost, ReadEnds, ReadFails
<1>. QED BY <1>1, <1>2, <1>3, <1>4, <1>5 DEF LoaderStep

(* The steps that do not belong to the main thread. *)
OthersStep == ServiceStep \/ GpuSignal \/ GpuDone \/ PoolReads \/ PoolFails

LEMMA OthersFrame ==
    ASSUME OthersStep
    PROVE  UNCHANGED <<placeVars, budget, policy, ownedSeq, eventValue>>
<1>1. CASE LoaderStep("service")
  <2>. "service" \in Thread
    BY DEF Thread
  <2>. QED BY <1>1, LoaderFrame
<1>2. CASE OthersStep /\ ~LoaderStep("service")
  BY <1>2 DEF OthersStep, ServiceStep, ServiceTake, ServiceReady, ServiceTimeout, ServiceDone,
              GpuSignal, GpuDone, PoolReads, PoolFails, policyVars, seqVars, gpuVars
<1>. QED BY <1>1, <1>2

-----------------------------------------------------------------------------
(* The main thread's place. *)

LEMMA Constants ==
    /\ Layers \in Nat \ {0} /\ 1 \in Layer /\ HashLayers \subseteq Layer
    /\ IsFiniteSet(Expert) /\ Requests \in Seq(RequestSet)
    /\ MaxBudget \in Nat \ {0} /\ StartBudget \in 1 .. MaxBudget
    /\ Chunk \in Nat \ {0} /\ Spare \in Nat
<1>1. /\ Layers \in Nat \ {0} /\ HashLayers \subseteq Layer
      /\ IsFiniteSet(Expert) /\ Requests \in Seq(RequestSet)
      /\ MaxBudget \in Nat \ {0} /\ StartBudget \in 1 .. MaxBudget
      /\ Chunk \in Nat \ {0} /\ Spare \in Nat
  BY CacheAssumption, Zenon
<1>. QED BY <1>1 DEF Layer

LEMMA RequestType ==
    ASSUME MainOK, served # 0
    PROVE  /\ Request.rows \in Nat \ {0} /\ Request.tokens \in Nat
           /\ Request.prefill \in 1 .. MaxBudget /\ Request.decode \in 1 .. MaxBudget
<1>1. served \in 1 .. Len(Requests)
  BY Constants DEF MainOK
<1>2. Request \in RequestSet
  BY <1>1, Constants DEF Request
<1>. QED BY <1>2 DEF RequestSet

LEMMA NextTokenType ==
    ASSUME NEW n \in Nat
    PROVE  NextToken(n) \in Steps /\ NextToken(n).op \notin {"layer", "end"}
<1>1. CASE n = 0
  BY <1>1 DEF NextToken, Steps, Step
<1>2. CASE n # 0
  BY <1>2, Constants DEF NextToken, Steps, Step
<1>. QED BY <1>1, <1>2

LEMMA PrefillLayerType ==
    ASSUME MainOK, served # 0, NEW l \in Nat \ {0}
    PROVE  PrefillLayer(l) \in Steps /\ PrefillLayer(l).op \notin {"layer", "end"}
<1>1. CASE l > Layers
  BY <1>1 DEF PrefillLayer, Steps, Step
<1>2. CASE ~(l > Layers)
  <2>. l \in Layer
    BY <1>2, Constants DEF Layer
  <2>. QED BY <1>2, RequestType DEF PrefillLayer, Steps, Step
<1>. QED BY <1>1, <1>2

(* A step leads to a step, and a scope is left by its end only. *)
LEMMA AfterType ==
    ASSUME MainOK, step.op # "none"
    PROVE  /\ After(step) \in Steps
           /\ After(step).op \in {"layer", "end"} <=> step.op \in {"begin", "layer"}
<1>0. served # 0 /\ step \in Steps
  BY DEF MainOK
<1>1. CASE step.op \in {"begin", "layer"}
  BY <1>0, <1>1, Constants DEF After, ScopeDone, Steps, NoStep, Step, Layer
<1>4. CASE step.op = "release"
  <2>1. After(step) = PrefillLayer(step.layer + 1) /\ step.layer + 1 \in Nat \ {0}
    BY <1>0, <1>4 DEF After, Steps, NoStep, Step, Layer
  <2>. QED BY <1>0, <1>4, <2>1, PrefillLayerType
<1>2. CASE step.op = "end"
  <2>1. CASE step.part = "prefill"
    BY <1>0, <1>2, <2>1 DEF After, Steps, NoStep, Step
  <2>2. CASE step.part = "decode"
    <3>1. After(step) = NextToken(step.left - 1) /\ step.left - 1 \in Nat
      BY <1>0, <1>2, <2>2 DEF After, Steps, NoStep, Step
    <3>. QED BY <3>1, <1>2, NextTokenType
  <2>. QED BY <1>0, <1>2, <2>1, <2>2 DEF Steps, NoStep, Step
<1>3. CASE step.op \in {"resize", "policy"}
  <2>1. CASE step.op = "policy" /\ step.part = "decode"
    BY <1>0, <2>1, RequestType, NextTokenType DEF After
  <2>2. CASE step.op = "resize" /\ step.part = "prefill"
    BY <1>0, <2>2, PrefillLayerType DEF After
  <2>. QED BY <1>0, <1>3, <2>1, <2>2 DEF After, Steps, NoStep, Step
<1>. QED BY <1>0, <1>1, <1>2, <1>3, <1>4 DEF Steps, NoStep, Step

LEMMA MainNext ==
    ASSUME Inv, [Next]_vars
    PROVE  MainOK'
<1>. USE DEF MainOK
<1>0. MainOK
  BY DEF Inv
<1>1. CASE UNCHANGED placeVars
  BY <1>0, <1>1 DEF placeVars
<1>2. CASE Start
  BY <1>0, <1>2 DEF Start, Step, Steps, LayerPlaces, LoadPlaces, AsyncPlaces, Places
<1>3. CASE Finished \/ EndDone
  BY <1>0, <1>3 DEF Finished, EndDone, IsOp, Places, LayerPlaces, LoadPlaces, AsyncPlaces
<1>4. CASE Resize \/ SetPolicy \/ BeginCommands \/ EndCommands \/ Release
  <2>1. /\ step.op # "none" /\ step' = After(step) /\ pc' \in {"op", "ending"}
        /\ pc' = "op" \/ step.op = "end"
    BY <1>4 DEF Resize, SetPolicy, BeginCommands, EndCommands, Release, IsOp, NextOp
  <2>2. UNCHANGED <<layer, sel, encoded, served>>
    BY <1>4 DEF Resize, SetPolicy, BeginCommands, EndCommands, Release
  <2>. QED BY <1>0, <2>1, <2>2, AfterType DEF Places, LayerPlaces, LoadPlaces, AsyncPlaces
<1>5. CASE Synchronize
  BY <1>0, <1>5 DEF Synchronize, Rest, Step, Steps, Places, LayerPlaces, LoadPlaces, AsyncPlaces
<1>6. CASE Cancel
  BY <1>0, <1>6 DEF Cancel, IsOp, Places, LayerPlaces, LoadPlaces, AsyncPlaces
<1>7. CASE HashLayer \/ Route
  <2>1. step.op = "layer" /\ layer' = step.layer /\ UNCHANGED <<step, served>>
    BY <1>7 DEF HashLayer, Route, IsOp
  <2>2. layer' \in Layer
    BY <1>0, <2>1 DEF Steps, NoStep, Step
  <2>3. pc' \in {"hash", "fail", "early"} /\ encoded' = TRUE
    BY <1>7 DEF HashLayer, Route
  <2>4. sel' \in SUBSET Expert
    BY <1>0, <1>7 DEF HashLayer, Route, Routes
  <2>. QED BY <1>0, <2>1, <2>2, <2>3, <2>4 DEF LayerPlaces, LoadPlaces, AsyncPlaces
<1>8. CASE EarlyFlush \/ Shared
  BY <1>0, <1>8 DEF EarlyFlush, Shared, FlushAnd, Places, LayerPlaces, LoadPlaces, AsyncPlaces
<1>9. CASE Finish
  BY <1>0, <1>9 DEF Inv, HandOK, Finish, Places, LayerPlaces, LoadPlaces, AsyncPlaces
<1>10. CASE LoadBack
  BY <1>0, <1>10 DEF LoadBack, Back, Places, LayerPlaces, LoadPlaces, AsyncPlaces
<1>11. CASE Moe \/ EncodeResident
  BY <1>0, <1>11 DEF Moe, EncodeResident, Places, LayerPlaces, LoadPlaces, AsyncPlaces
<1>12. CASE Encode \/ Join
  <2>1. step.op # "none" /\ step' = After(step) /\ pc' = "op"
    BY <1>0, <1>12 DEF Encode, Join, NextOp, LayerPlaces
  <2>2. UNCHANGED <<layer, sel, encoded, served>>
    BY <1>12 DEF Encode, Join
  <2>. QED BY <1>0, <2>1, <2>2, AfterType DEF Places, LayerPlaces, LoadPlaces, AsyncPlaces
<1>. QED
  BY <1>1, <1>2, <1>3, <1>4, <1>5, <1>6, <1>7, <1>8, <1>9, <1>10, <1>11, <1>12,
     LoaderFrame, OthersFrame
  DEF Next, MainStep, OthersStep, vars, Thread

-----------------------------------------------------------------------------
(* Command buffers and their numbers. *)

BufferType == [binds : Binds, event : Nat]

LEMMA OpenType ==
    ASSUME GpuOK
    PROVE  /\ open # NoBuffer => open \in BufferType
           /\ Buffer \in BufferType /\ Buffer # NoBuffer
           /\ NoBuffer \in [binds : Binds, event : Nat \cup {-1}]
           /\ BufferType \subseteq [binds : Binds, event : Nat \cup {-1}]
BY DEF GpuOK, BufferType, Buffer, NoBuffer, Binds

LEMMA FlushNext ==
    ASSUME GpuOK, SeqOK, NEW cb \in BufferType, FlushOf(cb), step.op = "layer", step' = step,
           UNCHANGED <<ownedSeq, doneSeq, eventValue, signalled>>
    PROVE  GpuOK' /\ SeqOK'
<1>1. open # NoBuffer
  BY DEF GpuOK
<1>2. queue' \in Seq(BufferType) /\ open' = Buffer
  BY DEF FlushOf, GpuOK, BufferType
<1>3. GpuOK'
  BY <1>2, OpenType DEF GpuOK, BufferType, Buffer
<1>4. SeqOK'
  BY <1>1, <1>2 DEF SeqOK, FlushOf, Larger
<1>. QED BY <1>3, <1>4

(* The buffers of entries that exist are slots. *)
LEMMA BoundType ==
    ASSUME TypesOK, NEW cb \in BufferType, NEW s \in SUBSET Expert, layer \in Layer,
           \A e \in s : entry[<<layer, e>>] # None
    PROVE  /\ Bound(cb, s) \in BufferType
           /\ Bound(cb, s).binds = cb.binds \cup {<<entry[<<layer, e>>], <<layer, e>>>> : e \in s}
           /\ Bound(cb, s).event = cb.event
<1>1. \A e \in s : <<layer, e>> \in Key /\ entry[<<layer, e>>] \in Slot
  BY DEF TypesOK, Key
<1>2. {<<entry[<<layer, e>>], <<layer, e>>>> : e \in s} \in Binds
  <2>1. \A e \in s : <<entry[<<layer, e>>], <<layer, e>>>> \in Slot \X Key
    BY <1>1
  <2>. QED BY <2>1 DEF Binds
<1>. QED BY <1>2 DEF Bound, BufferType, Binds

LEMMA LoaderGpu ==
    ASSUME GpuOK, SeqOK, NEW t \in Thread, LoaderStep(t), InPhase(t, "flush") => step.op = "layer"
    PROVE  GpuOK' /\ SeqOK'
<1>0. UNCHANGED <<placeVars, ownedSeq, eventValue, signalled>>
  BY LoaderFrame
<1>1. CASE UNCHANGED <<open, queue, cbSeq, batchSeq, pendingMax, doneSeq>>
  BY <1>0, <1>1 DEF GpuOK, SeqOK, placeVars
<1>2. CASE WaitFlush(t) /\ open # NoBuffer
  <2>1. Flush /\ doneSeq' = doneSeq /\ step.op = "layer" /\ step' = step
    BY <1>0, <1>2 DEF WaitFlush, placeVars
  <2>. QED BY <1>0, <1>2, <2>1, FlushNext, OpenType DEF Flush
<1>3. CASE WaitDone(t)
  BY <1>0, <1>3 DEF WaitDone, PendingDone, GpuOK, SeqOK, Larger, gpuVars, placeVars
<1>. QED
  BY <1>1, <1>2, <1>3
  DEF LoaderStep, LoadMatched, LoadStart, TakeBatch, Prepare, WaitFlush, LoadPost, ReadEnds,
      ReadFails, seqVars, gpuVars

LEMMA GpuNext ==
    ASSUME Inv, [Next]_vars
    PROVE  GpuOK' /\ SeqOK'
<1>. USE DEF seqVars, gpuVars, placeVars
<1>0. MainOK /\ GpuOK /\ SeqOK /\ HandOK /\ TypesOK /\ SelOK
  BY DEF Inv, LoadsOK
<1>1. CASE UNCHANGED <<seqVars, gpuVars, step, pc>>
  BY <1>0, <1>1 DEF GpuOK, SeqOK
<1>2. CASE Start \/ Finished
  <2>1. /\ step.op \notin {"layer", "end"} /\ step'.op \notin {"layer", "end"}
        /\ pc \in {"idle", "op"} /\ UNCHANGED <<seqVars, gpuVars>>
    BY <1>0, <1>2 DEF Start, Finished, IsOp, MainOK, Step
  <2>. QED BY <1>0, <2>1 DEF GpuOK, SeqOK
<1>3. CASE Resize \/ SetPolicy \/ Release
  <2>1. /\ step.op \in {"resize", "policy", "release"} /\ step' = After(step)
        /\ UNCHANGED <<gpuVars, pc>>
    BY <1>3 DEF Resize, SetPolicy, Release, IsOp, NextOp
  <2>2. step'.op \notin {"layer", "end"}
    BY <1>0, <2>1, AfterType
  <2>3. GpuOK'
    BY <1>0, <2>1, <2>2 DEF GpuOK
  <2>4. SeqOK'
    BY <1>0, <1>3, <2>1 DEF SeqOK, GpuOK, Resize, ClearAll, SetPolicy, Release
  <2>. QED BY <2>3, <2>4
<1>4. CASE BeginCommands
  <2>1. step.op = "begin" /\ step' = After(step)
    BY <1>4 DEF BeginCommands, IsOp, NextOp
  <2>2. step'.op \in {"layer", "end"}
    BY <1>0, <2>1, AfterType
  <2>3. GpuOK'
    BY <1>0, <1>4, <2>2, OpenType DEF GpuOK, BeginCommands, BufferType, Buffer
  <2>4. SeqOK'
    BY <1>0, <1>4 DEF SeqOK, BeginCommands
  <2>. QED BY <2>3, <2>4
<1>5. CASE EndCommands \/ Synchronize
  <2>1. step.op \in {"layer", "end"} /\ Commit /\ pc' \in {"ending", "sync"}
    BY <1>0, <1>5 DEF EndCommands, Synchronize, IsOp, MainOK, LayerPlaces
  <2>2. step'.op \notin {"layer", "end"}
    BY <1>0, <1>5, AfterType DEF EndCommands, Synchronize, IsOp, NextOp, Rest, Step
  <2>3. queue' \in Seq(BufferType)
    BY <1>0, <2>1, OpenType DEF GpuOK, Commit, BufferType
  <2>4. GpuOK'
    BY <1>0, <2>1, <2>2, <2>3, OpenType DEF GpuOK, Commit, BufferType
  <2>5. SeqOK'
    BY <1>0, <2>1 DEF SeqOK, GpuOK, Commit
  <2>. QED BY <2>4, <2>5
<1>6. CASE EndDone
  <2>2. GpuOK'
    BY <1>0, <1>6 DEF GpuOK, EndDone
  <2>3. open = NoBuffer
    BY <1>0, <1>6 DEF EndDone, MainOK, GpuOK
  <2>4. SeqOK'
    BY <1>0, <1>6, <2>3 DEF SeqOK, EndDone, Larger
  <2>. QED BY <2>2, <2>4
<1>7. CASE Cancel \/ HashLayer \/ Finish \/ LoadBack \/ Moe
  <2>1. UNCHANGED <<seqVars, gpuVars, step>> /\ step.op = "layer"
    BY <1>0, <1>7 DEF Cancel, HashLayer, Finish, LoadBack, Back, Moe, IsOp, MainOK,
                      LayerPlaces, LoadPlaces, AsyncPlaces
  <2>. QED BY <1>0, <2>1 DEF GpuOK, SeqOK
<1>8. CASE Route
  <2>1. step.op = "layer" /\ open # NoBuffer /\ UNCHANGED <<seqVars, step, queue, signalled>>
    BY <1>0, <1>8 DEF Route, IsOp, GpuOK
  <2>2. open' \in BufferType /\ eventValue' \in Nat /\ open' # NoBuffer
    BY <1>0, <1>8, <2>1, OpenType DEF Route, GpuOK, BufferType, NoBuffer
  <2>. QED BY <1>0, <2>1, <2>2, OpenType DEF GpuOK, SeqOK, NoBuffer, BufferType
<1>9. CASE EarlyFlush \/ Shared
  <2>1. step.op = "layer" /\ step' = step /\ Flush /\ open # NoBuffer
    BY <1>0, <1>9 DEF EarlyFlush, Shared, FlushAnd, MainOK, GpuOK, LayerPlaces, AsyncPlaces
  <2>2. UNCHANGED <<ownedSeq, doneSeq, eventValue, signalled>>
    BY <1>9 DEF EarlyFlush, Shared, FlushAnd
  <2>. QED BY <1>0, <2>1, <2>2, FlushNext, OpenType DEF Flush
<1>10. CASE EncodeResident
  <2>1. step.op = "layer" /\ step' = step /\ open # NoBuffer /\ layer \in Layer
    BY <1>0, <1>10 DEF EncodeResident, MainOK, GpuOK, LayerPlaces
  <2>2. FlushOf(Bound(open, ResidentOf(sel))) /\ UNCHANGED <<ownedSeq, doneSeq, eventValue, signalled>>
    BY <1>10 DEF EncodeResident
  <2>3. Bound(open, ResidentOf(sel)) \in BufferType
    BY <1>0, <2>1, OpenType, BoundType DEF ResidentOf, MainOK
  <2>. QED BY <1>0, <2>1, <2>2, <2>3, FlushNext
<1>11. CASE Encode \/ Join
  <2>1. /\ step.op = "layer" /\ step' = After(step) /\ open # NoBuffer /\ layer \in Layer
        /\ pc \in {"encode", "join"} /\ open' = Bound(open, sel)
        /\ UNCHANGED <<queue, eventValue, signalled>>
    BY <1>0, <1>11 DEF Encode, Join, NextOp, MainOK, GpuOK, LayerPlaces
  <2>2. step'.op \in {"layer", "end"}
    BY <1>0, <2>1, AfterType
  <2>3. open' \in BufferType /\ open'.event = open.event
    BY <1>0, <2>1, OpenType, BoundType DEF SelOK, MainOK
  <2>4. open' # NoBuffer
    BY <2>3, <2>1 DEF BufferType, NoBuffer
  <2>5. GpuOK'
    BY <1>0, <2>1, <2>2, <2>3, <2>4, OpenType DEF GpuOK, BufferType
  <2>6. SeqOK'
    BY <1>0, <1>11, <2>1 DEF SeqOK, Encode, Join, PendingDone, Larger
  <2>. QED BY <2>5, <2>6
<1>12. CASE GpuSignal \/ GpuDone
  <2>1. UNCHANGED <<seqVars, open, eventValue, step, pc>>
    BY <1>12 DEF GpuSignal, GpuDone
  <2>2. queue \in Seq(BufferType) /\ queue # <<>> /\ signalled \in Nat
    BY <1>0, <1>12 DEF GpuOK, BufferType, GpuSignal, GpuDone
  <2>4. Head(queue) \in BufferType /\ Tail(queue) \in Seq(BufferType)
    BY <2>2
  <2>3. queue' \in Seq(BufferType) /\ signalled' \in Nat
    BY <1>12, <2>2, <2>4 DEF GpuSignal, GpuDone, BufferType
  <2>5. ~(open = NoBuffer /\ pc \notin {"ending", "sync"})
    BY <1>0, <2>2 DEF GpuOK
  <2>. QED BY <1>0, <2>1, <2>3, <2>5 DEF GpuOK, SeqOK, BufferType
<1>13. CASE \E t \in Thread : LoaderStep(t)
  <2>1. PICK t \in Thread : LoaderStep(t)
    BY <1>13
  <2>2. InPhase(t, "flush") => step.op = "layer"
    BY <1>0 DEF HandOK, InPhase, Thread, MainOK, LayerPlaces, AsyncPlaces
  <2>. QED BY <1>0, <2>1, <2>2, LoaderGpu
<1>14. CASE ServiceTake \/ ServiceReady \/ ServiceTimeout \/ ServiceDone \/ PoolReads \/ PoolFails
  BY <1>1, <1>14 DEF ServiceTake, ServiceReady, ServiceTimeout, ServiceDone, PoolReads, PoolFails
<1>. QED
  BY <1>1, <1>2, <1>3, <1>4, <1>5, <1>6, <1>7, <1>8, <1>9, <1>10, <1>11, <1>12, <1>13, <1>14
  DEF Next, MainStep, ServiceStep, vars, Thread

-----------------------------------------------------------------------------
(* The hand-over of a job. *)

LEMMA GoesTo ==
    ASSUME HandOK, NEW t \in Thread, NEW ld, Goes(t, ld)
    PROVE  /\ loader' = [u \in Thread |-> loader'[u]]
           /\ loader'[t] = ld
           /\ \A u \in Thread \ {t} : loader'[u] = loader[u]
BY DEF Goes, HandOK

(* A thread's step in the loader leaves the other thread's call alone, and
   the thread in the loader. *)
LEMMA LoaderPhase ==
    ASSUME HandOK, NEW t \in Thread, CallOK(t), LoaderStep(t)
    PROVE  /\ loader' = [u \in Thread |-> loader'[u]]
           /\ \A u \in Thread \ {t} : loader'[u] = loader[u]
           /\ loader[t].phase \notin {"none", "done"} /\ loader'[t].phase # "none"
<1>1. loader[t].phase \notin {"none", "done"}
  BY DEF LoaderStep, LoadMatched, LoadStart, ReadEnds, ReadFails, TakeBatch, Prepare, WaitFlush,
         WaitDone, LoadPost, InPhase
<1>2. ASSUME NEW ld, Goes(t, ld), ld.phase # "none"
      PROVE  /\ loader' = [u \in Thread |-> loader'[u]]
             /\ \A u \in Thread \ {t} : loader'[u] = loader[u]
             /\ loader'[t].phase # "none"
  BY <1>2, GoesTo
<1>3. \A ok : Answer(ok).phase # "none"
  BY DEF Answer, Away
<1>4. CASE \E ok : Goes(t, Answer(ok))
  BY <1>1, <1>2, <1>3, <1>4
<1>5. CASE LoadMatched(t) \/ ReadEnds(t) \/ ReadFails(t)
  BY <1>4, <1>5 DEF LoadMatched, ReadEnds, ReadFails
<1>6. CASE LoadStart(t)
  <2>. DEFINE missing == {e \in loader[t].sel : Settled[<<loader[t].layer, e>>] = None}
              new == [loader[t] EXCEPT !.phase = "batch", !.todo = missing,
                            !.reserved = Cardinality({k \in Key : Settled[k] # None})]
  <2>1. (\E ok : Goes(t, Answer(ok))) \/ Goes(t, new)
    BY <1>6 DEF LoadStart
  <2>2. new.phase # "none"
    BY DEF CallOK, CallTypes
  <2>. HIDE DEF new
  <2>. QED BY <1>1, <1>2, <1>4, <2>1, <2>2
<1>7. ASSUME WaitFor(t)
      PROVE  /\ loader' = [u \in Thread |-> loader'[u]]
             /\ \A u \in Thread \ {t} : loader'[u] = loader[u]
             /\ loader'[t].phase # "none"
  <2>. DEFINE new == [loader[t] EXCEPT !.phase = "flush", !.back = loader[t].phase]
  <2>1. Goes(t, new) /\ new.phase # "none"
    BY <1>7 DEF WaitFor, CallOK, CallTypes
  <2>. HIDE DEF new
  <2>. QED BY <1>2, <2>1
<1>8. CASE TakeBatch(t)
  <2>. DEFINE new == [loader[t] EXCEPT !.phase = "prepare", !.waited = FALSE]
              more(b) == [new EXCEPT !.batch = b]
  <2>1. new.phase # "none" /\ \A b : more(b).phase # "none"
    BY DEF CallOK, CallTypes
  <2>2. Goes(t, new) \/ WaitFor(t) \/ \E b : Goes(t, more(b))
    BY <1>8 DEF TakeBatch
  <2>. HIDE DEF new, more
  <2>. QED BY <1>1, <1>2, <1>7, <2>1, <2>2
<1>9. CASE Prepare(t)
  <2>1. ASSUME NEW s, Give(t, s)
        PROVE  \E ld : Goes(t, ld) /\ ld.phase # "none"
    <3>. DEFINE e == PickOf(loader[t].todo)
                new == [loader[t] EXCEPT
                          !.todo = @ \ {e}, !.bufs = [x \in DOMAIN loader[t].bufs \cup {e} |->
                                          IF x = e THEN s ELSE loader[t].bufs[x]],
                          !.batch = @ \ {s}, !.waited = FALSE,
                          !.reserved = IF @ >= budget THEN @ ELSE @ + 1,
                          !.phase = IF loader[t].todo = {e} THEN "post" ELSE "prepare"]
    <3>1. Goes(t, new)
      BY <2>1 DEF Give
    <3>2. new.phase # "none"
      BY DEF CallOK, CallTypes
    <3>. HIDE DEF new
    <3>. QED BY <3>1, <3>2
  <2>2. WaitFor(t) \/ (\E ok : Goes(t, Answer(ok))) \/ \E s : Give(t, s)
    BY <1>9 DEF Prepare, PrepareFromBatch, PrepareReused, PrepareAllocated, PrepareWaits, PrepareFails
  <2>. QED BY <1>1, <1>2, <1>4, <1>7, <2>1, <2>2
<1>10. CASE WaitFlush(t) \/ WaitDone(t) \/ LoadPost(t)
  <2>. DEFINE flushed == [loader[t] EXCEPT !.phase = "wait"]
              woken == [loader[t] EXCEPT !.phase = loader[t].back, !.waited = TRUE]
              refused == [loader[t] EXCEPT !.phase = "read"]
  <2>1. flushed.phase # "none" /\ refused.phase # "none" /\ (WaitDone(t) => woken.phase # "none")
    BY DEF CallOK, CallTypes, WaitDone, InPhase
  <2>2. Goes(t, flushed) \/ (WaitDone(t) /\ Goes(t, woken)) \/ Goes(t, refused) \/ \E ok : Goes(t, Answer(ok))
    BY <1>10 DEF WaitFlush, WaitDone, LoadPost, Posted, Refused
  <2>. HIDE DEF flushed, woken, refused
  <2>. QED BY <1>1, <1>2, <1>4, <2>1, <2>2
<1>. QED BY <1>5, <1>6, <1>8, <1>9, <1>10 DEF LoaderStep

LEMMA HandNext ==
    ASSUME Inv, [Next]_vars
    PROVE  HandOK'
<1>. USE DEF InPhase, HandOK
<1>0. /\ HandOK /\ MainOK /\ GpuOK /\ CallOK("main") /\ CallOK("service")
      /\ "main" \in Thread /\ "service" \in Thread
  BY DEF Inv, LoadsOK, Thread
<1>1. CASE /\ UNCHANGED <<job, service, loader, eventValue, layer>>
           /\ pc \notin LayerPlaces /\ pc' \notin LayerPlaces \ {"fail"}
  BY <1>0, <1>1 DEF LayerPlaces, LoadPlaces, AsyncPlaces
<1>2. CASE Start \/ Finished \/ EndDone
  BY <1>1, <1>2 DEF Start, Finished, IsOp, EndDone, LayerPlaces, LoadPlaces, AsyncPlaces, loadVars, gpuVars
<1>3. CASE Resize \/ SetPolicy \/ BeginCommands \/ EndCommands \/ Release \/ Cancel
  BY <1>1, <1>3 DEF Resize, SetPolicy, BeginCommands, EndCommands, Commit, Release, Cancel, IsOp,
                    LayerPlaces, LoadPlaces, AsyncPlaces, loadVars, gpuVars
<1>4. CASE Synchronize \/ Encode \/ Join
  BY <1>0, <1>4 DEF Synchronize, Commit, Encode, Join, LoadPlaces, AsyncPlaces, loadVars
<1>5. CASE HashLayer
  <2>1. /\ pc = "op" /\ pc' = "hash" /\ UNCHANGED <<job, service, eventValue>>
        /\ ~job.hasJob /\ ~job.done /\ service = "idle"
    BY <1>0, <1>5 DEF HashLayer, IsOp, gpuVars, AsyncPlaces
  <2>2. PICK s : Goes("main", Call("begin", step.layer, s))
    BY <1>5 DEF HashLayer
  <2>3. /\ loader'["main"].phase = "start" /\ loader'["service"] = loader["service"]
        /\ loader' = [t \in Thread |-> loader'[t]]
    BY <1>0, <2>2 DEF Goes, Call, Away, Thread
  <2>. QED BY <1>0, <2>1, <2>3 DEF LoadPlaces, AsyncPlaces
<1>6. CASE Route
  <2>1. /\ pc = "op" /\ step.layer \in Layer /\ layer' = step.layer
        /\ eventValue' = eventValue + 1 /\ eventValue \in Nat
        /\ ~job.hasJob /\ ~job.done /\ service = "idle" /\ UNCHANGED <<service, loader>>
    BY <1>0, <1>6 DEF Route, IsOp, MainOK, Steps, NoStep, Step, GpuOK, AsyncPlaces, loadVars
  <2>2. /\ job' = [NoJob EXCEPT !.hasJob = TRUE, !.layer = step.layer, !.event = eventValue + 1]
        /\ pc' = "early"
    BY <1>6, <2>1 DEF Route
  <2>4. job' = [hasJob |-> TRUE, done |-> FALSE, layer |-> step.layer, event |-> eventValue + 1,
                ids |-> {}, ok |-> FALSE]
    BY <2>2 DEF NoJob
  <2>3. /\ job'.hasJob = TRUE /\ job'.done = FALSE /\ job'.layer = layer'
        /\ job'.event = eventValue'
        /\ job' \in [hasJob : BOOLEAN, done : BOOLEAN, layer : {0} \cup Layer, event : Nat,
                     ids : SUBSET Expert, ok : BOOLEAN]
    BY <2>1, <2>4
  <2>. QED BY <1>0, <2>1, <2>2, <2>3 DEF LoadPlaces, AsyncPlaces
<1>7. CASE EarlyFlush \/ Shared
  <2>1. /\ UNCHANGED <<job, service, loader, eventValue, layer>>
        /\ pc \in AsyncPlaces /\ pc' \in AsyncPlaces
    BY <1>7 DEF EarlyFlush, Shared, FlushAnd, AsyncPlaces, loadVars
  <2>. QED BY <1>0, <2>1 DEF LoadPlaces, AsyncPlaces
<1>8. CASE Finish
  <2>1. /\ pc = "finish" /\ job.done /\ ~job.hasJob /\ service = "idle"
        /\ loader["main"].phase = "none" /\ UNCHANGED <<service, eventValue, layer>>
        /\ job' = [job EXCEPT !.done = FALSE]
    BY <1>0, <1>8 DEF Finish, Taken, gpuVars, LoadPlaces
  <2>2. CASE pc' = "retry" /\ CallMain("begin", job.ids)
    <3>1. /\ loader'["main"].phase = "start" /\ loader'["service"] = loader["service"]
          /\ loader' = [t \in Thread |-> loader'[t]]
      BY <1>0, <2>2 DEF Goes, CallMain, Call, Away, Thread
    <3>. QED BY <1>0, <2>1, <2>2, <3>1 DEF LoadPlaces, AsyncPlaces
  <2>3. CASE pc' \in {"moe", "fail"} /\ loader' = loader
    BY <1>0, <2>1, <2>3 DEF LoadPlaces, AsyncPlaces
  <2>. QED BY <1>8, <2>2, <2>3 DEF Finish
<1>9. CASE LoadBack
  <2>1. /\ pc \in LoadPlaces /\ pc' \in {"moe", "encode", "resident", "join", "fail"}
        /\ Goes("main", Away) /\ UNCHANGED <<job, service, eventValue, layer>>
    BY <1>9 DEF LoadBack, Back, gpuVars, LoadPlaces
  <2>2. /\ loader'["main"].phase = "none" /\ loader'["service"] = loader["service"]
        /\ loader' = [t \in Thread |-> loader'[t]]
    BY <1>0, <2>1 DEF Goes, Away, Thread
  <2>. QED BY <1>0, <2>1, <2>2 DEF LoadPlaces, AsyncPlaces
<1>10. CASE Moe \/ EncodeResident
  <2>1. /\ pc \in {"moe", "resident"} /\ UNCHANGED <<job, service, eventValue, layer>>
        /\ \/ pc' = "encode" /\ loader' = loader
           \/ /\ pc' \in {"split", "load", "missing"}
              /\ \E kind : CallMain(kind, sel)
    BY <1>10 DEF Moe, EncodeResident, gpuVars
  <2>2. CASE pc' = "encode" /\ loader' = loader
    BY <1>0, <2>1, <2>2 DEF LoadPlaces, AsyncPlaces
  <2>3. CASE pc' \in {"split", "load", "missing"} /\ \E kind : CallMain(kind, sel)
    <3>1. /\ loader'["main"].phase = "start" /\ loader'["service"] = loader["service"]
          /\ loader' = [t \in Thread |-> loader'[t]]
      BY <1>0, <2>3 DEF Goes, CallMain, Call, Away, Thread
    <3>. QED BY <1>0, <2>1, <2>3, <3>1 DEF LoadPlaces, AsyncPlaces
  <2>. QED BY <2>1, <2>2, <2>3
<1>11. CASE LoaderStep("main")
  <2>1. UNCHANGED <<pc, layer, job, service, eventValue>>
    BY <1>0, <1>11, LoaderFrame DEF placeVars
  <2>. QED BY <1>0, <1>11, <2>1, LoaderPhase DEF LoadPlaces, AsyncPlaces, Thread
<1>12. CASE LoaderStep("service")
  <2>1. UNCHANGED <<pc, layer, job, service, eventValue>>
    BY <1>0, <1>12, LoaderFrame DEF placeVars
  <2>. QED BY <1>0, <1>12, <2>1, LoaderPhase DEF LoadPlaces, AsyncPlaces, Thread
<1>13. CASE ServiceTake \/ ServiceTimeout
  BY <1>0, <1>13 DEF ServiceTake, ServiceTimeout, Post, placeVars, gpuVars, loadVars
<1>14. CASE ServiceReady
  <2>1. UNCHANGED <<pc, layer, eventValue>> /\ service = "event" /\ service' = "load"
    BY <1>14 DEF ServiceReady, placeVars, gpuVars
  <2>2. PICK ids \in Routes : /\ job' = [job EXCEPT !.ids = ids]
                              /\ Goes("service", Call("begin", job.layer, ids))
    BY <1>14 DEF ServiceReady
  <2>3. /\ loader'["service"].phase = "start" /\ loader'["main"] = loader["main"]
        /\ loader' = [t \in Thread |-> loader'[t]]
    BY <1>0, <2>2 DEF Goes, Call, Away, Thread
  <2>4. ids \in SUBSET Expert
    BY DEF Routes
  <2>. QED BY <1>0, <2>1, <2>2, <2>3, <2>4
<1>15. CASE ServiceDone
  <2>1. UNCHANGED <<pc, layer, eventValue>> /\ service = "load" /\ service' = "idle"
    BY <1>15 DEF ServiceDone, placeVars, gpuVars
  <2>2. loader["service"].ok \in BOOLEAN
    BY <1>0 DEF CallOK, CallTypes, CallSet
  <2>3. /\ loader'["service"].phase = "none" /\ loader'["main"] = loader["main"]
        /\ loader' = [t \in Thread |-> loader'[t]]
    BY <1>0, <1>15 DEF Goes, ServiceDone, Away, Thread
  <2>4. job' = [job EXCEPT !.hasJob = FALSE, !.done = TRUE, !.ok = loader["service"].ok]
    BY <1>15 DEF ServiceDone, Post
  <2>. QED BY <1>0, <2>1, <2>2, <2>3, <2>4
<1>16. CASE GpuSignal \/ GpuDone \/ PoolReads \/ PoolFails \/ UNCHANGED vars
  <2>. UNCHANGED <<job, service, loader, eventValue, layer, pc>>
    BY <1>16 DEF GpuSignal, GpuDone, PoolReads, PoolFails, vars, placeVars, gpuVars, loadVars
  <2>. QED BY <1>0
<1>. QED
  BY <1>2, <1>3, <1>4, <1>5, <1>6, <1>7, <1>8, <1>9, <1>10, <1>11, <1>12, <1>13, <1>14, <1>15, <1>16
  DEF Next, MainStep, ServiceStep

-----------------------------------------------------------------------------
(* Who is in the loader, and what it holds. *)

LEMMA Alone ==
    ASSUME HandOK, NEW t \in Thread, NEW u \in Thread \ {t}, ~InPhase(t, "none")
    PROVE  InPhase(u, "none")
BY DEF HandOK, Thread, InPhase, LoadPlaces, AsyncPlaces

LEMMA OtherSlots ==
    ASSUME Inv, NEW t \in Thread, ~InPhase(t, "none")
    PROVE  LoadSlots = Range(pending.bufs) \cup LoaderSlots(t)
<1>1. \A u \in Thread : InPhase(u, "none") => LoaderSlots(u) = {}
  BY DEF Inv, LoadsOK, CallOK, Thread, InPhase, Busy, LoaderSlots, Range
<1>2. \A u \in Thread \ {t} : LoaderSlots(u) = {}
  BY <1>1, Alone DEF Inv
<1>. QED BY <1>2 DEF LoadSlots, Thread

(* A step of thread t: the other thread's call stays as it was, empty. *)
LEMMA OtherCall ==
    ASSUME Inv, NEW t \in Thread, ~InPhase(t, "none"), NEW ld, Goes(t, ld)
    PROVE  /\ loader'[t] = ld
           /\ LoadSlots' = Range(pending'.bufs) \cup Range(ld.bufs) \cup ld.batch
           /\ \A u \in Thread \ {t} : CallOK(u)'
<1>1. loader'[t] = ld /\ \A u \in Thread \ {t} : loader'[u] = loader[u]
  BY GoesTo DEF Inv
<1>2. \A u \in Thread \ {t} : InPhase(u, "none") /\ CallOK(u)
  BY Alone DEF Inv, LoadsOK, Thread
<1>3. \A u \in Thread \ {t} : DOMAIN loader[u].bufs = {} /\ loader[u].batch = {}
  BY <1>2 DEF CallOK, InPhase, Busy
<1>4. \A u \in Thread \ {t} : Range(loader'[u].bufs) \cup loader'[u].batch = {}
  BY <1>1, <1>3 DEF Range
<1>5. LoadSlots' = Range(pending'.bufs) \cup Range(ld.bufs) \cup ld.batch
  BY <1>1, <1>4 DEF LoadSlots, LoaderSlots, Thread
<1>6. \A u \in Thread \ {t} : CallOK(u)'
  BY <1>1, <1>2 DEF CallOK, CallTypes, Back2, InPhase, Busy
<1>. QED BY <1>1, <1>5, <1>6

-----------------------------------------------------------------------------
(* What becomes of the entries. *)

(* An entry of which a command buffer reads is in flight. *)
LEMMA BoundInFlight ==
    ASSUME Inv, NEW cb \in Range(queue) \cup {open}, NEW b \in cb.binds
    PROVE  /\ b[1] \in Slot /\ b[2] \in Key /\ entry[b[2]] = b[1]
           /\ InFlight(b[2])
<1>1. cb.binds \in Binds
  <2>0. queue \in Seq(BufferType)
    BY DEF Inv, GpuOK, BufferType
  <2>1. cb \in BufferType \/ cb = open
    BY <2>0 DEF Range
  <2>. QED BY <2>1 DEF Inv, GpuOK, BufferType
<1>2. b[1] \in Slot /\ b[2] \in Key
  BY <1>1 DEF Binds
<1>3. entry[b[2]] = b[1]
  BY DEF Inv, BindsOK
<1>4. mark[b[2]] \in Nat /\ doneSeq \in Nat /\ batchSeq \in Nat
  BY <1>2 DEF Inv, TypesOK, SeqOK
<1>5. mark[b[2]] > doneSeq
  <2>1. CASE cb \in Range(queue)
    BY <2>1 DEF Inv, BindsOK
  <2>2. CASE cb = open
    <3>1. open # NoBuffer
      BY <2>2 DEF NoBuffer
    <3>. QED BY <1>4, <2>2, <3>1 DEF Inv, BindsOK, SeqOK
  <2>. QED BY <2>1, <2>2
<1>. QED BY <1>2, <1>3, <1>5, Constants DEF InFlight, Valid, None, Slot

(* Binds stay good when entries in flight stay. *)
LEMMA BindsKept ==
    ASSUME Inv, NEW ent, SetEntries(ent), \A k \in Key : InFlight(k) => ent[k] = entry[k],
           UNCHANGED <<open, queue, batchSeq, doneSeq>>
    PROVE  BindsOK'
<1>1. \A cb \in Range(queue) \cup {open} : \A b \in cb.binds :
         b[2] \in Key /\ entry'[b[2]] = b[1] /\ mark'[b[2]] = mark[b[2]]
  BY BoundInFlight DEF SetEntries
<1>. QED BY <1>1 DEF Inv, BindsOK

(* Entries are cleared: of ks, those that are not in flight. *)
Freed(ks) == {entry[k] : k \in {j \in ks : j \in Valid /\ ~InFlight(j)}}

LEMMA EntriesCleared ==
    ASSUME Inv, NEW ks \in SUBSET Key, entry' = Cleared(ks)
    PROVE  /\ entry' \in [Key -> {None} \cup Slot]
           /\ EntrySlots' = EntrySlots \ Freed(ks) /\ Freed(ks) \subseteq EntrySlots
           /\ \A j, k \in Valid' : entry'[j] = entry'[k] => j = k
           /\ \A k \in Valid' : k \in Valid /\ entry'[k] = entry[k]
           /\ \A k \in Key : InFlight(k) => entry'[k] = entry[k]
           /\ \A k \in Key : entry[k] = None => entry'[k] = None
           /\ \A k \in Key \ ks : entry'[k] = entry[k]
<1>. USE DEF Inv, TypesOK, SlotsOK
<1>1. entry' \in [Key -> {None} \cup Slot]
  BY DEF Cleared
<1>2. /\ \A k \in Valid' : k \in Valid /\ entry'[k] = entry[k]
      /\ \A k \in Key : InFlight(k) => entry'[k] = entry[k]
      /\ \A k \in Key : entry[k] = None => entry'[k] = None
      /\ \A k \in Key \ ks : entry'[k] = entry[k]
  BY DEF Cleared, Valid, InFlight
<1>3. \A j, k \in Valid' : entry'[j] = entry'[k] => j = k
  BY <1>2
<1>4. Freed(ks) \subseteq EntrySlots
  BY DEF Freed, EntrySlots
<1>5. \A k \in Valid : k \in Valid' <=> ~(k \in ks /\ ~InFlight(k))
  BY DEF Cleared, Valid, None
<1>6. EntrySlots' \subseteq EntrySlots \ Freed(ks)
  BY <1>2, <1>5 DEF EntrySlots, Freed
<1>7. EntrySlots \ Freed(ks) \subseteq EntrySlots'
  BY <1>2, <1>5 DEF EntrySlots, Freed
<1>. QED BY <1>1, <1>2, <1>3, <1>4, <1>6, <1>7

(* Experts that had no entry get one, with buffers of their own. *)
LEMMA EntriesInstalled ==
    ASSUME Inv, NEW l \in Layer, NEW bufs, DOMAIN bufs \subseteq Expert,
           \A e \in DOMAIN bufs : bufs[e] \in Slot /\ entry[<<l, e>>] = None,
           OneEach(bufs), EntrySlots \cap Range(bufs) = {},
           entry' = Installed(entry, l, bufs)
    PROVE  /\ entry' \in [Key -> {None} \cup Slot]
           /\ EntrySlots' = EntrySlots \cup Range(bufs)
           /\ \A j, k \in Valid' : entry'[j] = entry'[k] => j = k
           /\ \A k \in Valid : k \in Valid' /\ entry'[k] = entry[k]
           /\ \A e \in DOMAIN bufs : <<l, e>> \in Valid' /\ entry'[<<l, e>>] = bufs[e]
           /\ \A k \in Valid' : k \in Valid \/ \E e \in DOMAIN bufs : k = <<l, e>>
<1>0. /\ entry \in [Key -> {None} \cup Slot]
      /\ \A j, k \in Valid : entry[j] = entry[k] => j = k
  BY DEF Inv, TypesOK, SlotsOK
<1>1. entry' \in [Key -> {None} \cup Slot]
  BY <1>0 DEF Installed, Key
<1>2. /\ \A s \in Slot : s # None
      /\ \A e \in DOMAIN bufs : <<l, e>> \in Key
      /\ \A k \in Key : k[1] = l => k = <<l, k[2]>>
  BY Constants DEF Slot, None, Key
<1>3. \A e \in DOMAIN bufs : <<l, e>> \in Valid' /\ entry'[<<l, e>>] = bufs[e]
  BY <1>0, <1>2 DEF Installed, Valid
<1>4. \A k \in Valid : k \in Valid' /\ entry'[k] = entry[k]
  BY <1>0, <1>2 DEF Installed, Valid
<1>5. \A k \in Valid' : k \in Valid \/ \E e \in DOMAIN bufs : k = <<l, e>>
  BY <1>0, <1>2 DEF Installed, Valid
<1>6. EntrySlots' = EntrySlots \cup Range(bufs)
  <2>1. EntrySlots' \subseteq EntrySlots \cup Range(bufs)
    BY <1>3, <1>4, <1>5 DEF EntrySlots, Range
  <2>2. EntrySlots \subseteq EntrySlots'
    BY <1>4 DEF EntrySlots
  <2>3. Range(bufs) \subseteq EntrySlots'
    BY <1>3 DEF EntrySlots, Range
  <2>. QED BY <2>1, <2>2, <2>3
<1>7. \A j, k \in Valid' : entry'[j] = entry'[k] => j = k
  <2>1. \A k \in Valid : entry[k] \in EntrySlots
    BY DEF EntrySlots
  <2>2. \A e \in DOMAIN bufs : bufs[e] \in Range(bufs)
    BY DEF Range
  <2>. QED BY <1>0, <1>3, <1>4, <1>5, <2>1, <2>2 DEF OneEach
<1>. QED BY <1>1, <1>3, <1>4, <1>5, <1>6, <1>7

-----------------------------------------------------------------------------
(* The steps of a call of the loader. *)

(* What a call has found out or still knows. *)
Result(t) ==
    IF loader'[t].phase = "done"
    THEN loader[t].kind = "missing" /\ loader'[t].ok
            => \A e \in loader[t].sel : entry'[<<loader[t].layer, e>>] # None
    ELSE /\ loader'[t].layer = loader[t].layer /\ loader'[t].sel = loader[t].sel
         /\ loader'[t].kind = loader[t].kind

LoaderGood(t) ==
    CallOK(t)' /\ TypesOK' /\ PendingOK' /\ SlotsOK' /\ ReadsOK' /\ BindsOK' /\ Result(t)

LEMMA AnswerFields ==
    ASSUME NEW ok \in BOOLEAN
    PROVE  /\ Answer(ok) \in CallSet(Answer(ok).bufs)
           /\ Answer(ok).phase = "done" /\ Answer(ok).ok = ok
           /\ Answer(ok).todo = {} /\ Answer(ok).batch = {}
           /\ DOMAIN Answer(ok).bufs = {} /\ Range(Answer(ok).bufs) = {}
<1>1. DOMAIN <<>> = {} /\ Range(<<>>) = {}
  BY DEF Range
<1>2. Away \in CallSet(<<>>)
  BY DEF Away, CallSet, Phase
<1>3. Answer(ok) \in CallSet(<<>>) /\ Answer(ok).bufs = <<>>
  BY <1>2 DEF Answer, CallSet, Phase
<1>4. /\ Answer(ok).phase = "done" /\ Answer(ok).ok = ok
      /\ Answer(ok).todo = {} /\ Answer(ok).batch = {}
  BY DEF Answer, Away
<1>. QED BY <1>1, <1>3, <1>4

LEMMA Answered ==
    ASSUME Inv, NEW t \in Thread, ~InPhase(t, "none"), NEW ok \in BOOLEAN, Goes(t, Answer(ok))
    PROVE  /\ CallOK(t)' /\ LoadSlots' = Range(pending'.bufs)
           /\ loader'[t].phase = "done" /\ loader'[t].ok = ok
<1>1. loader'[t] = Answer(ok)
  BY OtherCall
<1>2. LoadSlots' = Range(pending'.bufs) \cup Range(Answer(ok).bufs) \cup Answer(ok).batch
  BY OtherCall
<1>3. CallTypes(t)'
  BY <1>1, AnswerFields DEF CallTypes
<1>4. CallOK(t)'
  BY <1>1, <1>3, AnswerFields DEF CallOK, Back2, Busy
<1>. QED BY <1>1, <1>2, <1>4, AnswerFields

(* A call that has not begun to load holds nothing. *)
LEMMA StartHolds ==
    ASSUME Inv, NEW t \in Thread, InPhase(t, "start")
    PROVE  /\ LoadSlots = Range(pending.bufs)
           /\ loader[t].layer \in Layer /\ loader[t].sel \subseteq Expert
<1>1. CallOK(t) /\ ~InPhase(t, "none")
  BY DEF Inv, LoadsOK, Thread, InPhase
<1>2. LoaderSlots(t) = {} /\ loader[t].layer \in Layer /\ loader[t].sel \subseteq Expert
  BY <1>1 DEF CallOK, CallTypes, CallSet, InPhase, Busy, LoaderSlots, Range
<1>. QED BY <1>1, <1>2, OtherSlots

LEMMA LoadMatchedGood ==
    ASSUME Inv, NEW t \in Thread, LoadMatched(t)
    PROVE  LoaderGood(t)
<1>1. /\ InPhase(t, "start") /\ ~InPhase(t, "none") /\ loader[t].kind = "begin"
      /\ Goes(t, Answer(TRUE)) /\ NoteRoute(t)
      /\ UNCHANGED <<cacheVars, budget, policy, seqVars, gpuVars, content, lost, pending, pool>>
  BY DEF LoadMatched, InPhase
<1>2. CallOK(t)' /\ LoadSlots' = Range(pending.bufs) /\ LoadSlots = Range(pending.bufs)
      /\ loader'[t].phase = "done"
  BY <1>1, Answered, StartHolds
<1>3. TypesOK'
  BY <1>1, StartHolds DEF Inv, TypesOK, NoteRoute, cacheVars
<1>4. PendingOK' /\ ReadsOK' /\ BindsOK'
  BY <1>1 DEF Inv, LoadsOK, PendingOK, ReadsOK, BindsOK, cacheVars, seqVars, gpuVars, Valid
<1>5. SlotsOK'
  BY <1>1, <1>2 DEF Inv, SlotsOK, cacheVars, Valid, EntrySlots
<1>6. Result(t)
  BY <1>1, <1>2 DEF Result
<1>. QED BY <1>2, <1>3, <1>4, <1>5, <1>6 DEF LoaderGood

(* The pending load ends: its experts have entries, or its slots are lost. *)
LEMMA PendingFinished ==
    ASSUME Inv, NEW t \in Thread, InPhase(t, "start"), FinishPending,
           UNCHANGED <<free, handed, slots, content, budget, policy>>,
           previous' \in [Layer -> SUBSET Expert],
           UNCHANGED <<open, queue, batchSeq, doneSeq>>,
           LoadSlots' = {}
    PROVE  /\ TypesOK' /\ PendingOK' /\ SlotsOK' /\ ReadsOK' /\ BindsOK'
           /\ pending' = NoLoad /\ entry' = Settled
<1>. DEFINE l == pending.layer  bufs == pending.bufs
<1>1. /\ pending' = NoLoad /\ pool' = "idle" /\ SetEntries(Settled) /\ entry' = Settled
      /\ pool # "busy"
  BY DEF FinishPending, SetEntries
<1>2. /\ LoadSlots = Range(bufs) /\ PendingOK /\ TypesOK /\ SlotsOK /\ ReadsOK
  BY StartHolds DEF Inv, LoadsOK
<1>3. PendingOK'
  BY <1>1 DEF PendingOK
<1>4. CASE pool = "good"
  <2>1. /\ l \in Layer /\ DOMAIN bufs \subseteq Expert /\ OneEach(bufs)
        /\ \A e \in DOMAIN bufs : bufs[e] \in Slot /\ entry[<<l, e>>] = None
        /\ entry' = Installed(entry, l, bufs) /\ EntrySlots \cap Range(bufs) = {}
        /\ \A e \in DOMAIN bufs : content[bufs[e]] = <<l, e>>
    BY <1>1, <1>2, <1>4 DEF PendingOK, Settled, SlotsOK, ReadsOK
  <2>. HIDE DEF l, bufs
  <2>2. /\ entry' \in [Key -> {None} \cup Slot]
        /\ EntrySlots' = EntrySlots \cup Range(bufs)
        /\ \A j, k \in Valid' : entry'[j] = entry'[k] => j = k
        /\ \A k \in Valid : k \in Valid' /\ entry'[k] = entry[k]
        /\ \A e \in DOMAIN bufs : <<l, e>> \in Valid' /\ entry'[<<l, e>>] = bufs[e]
        /\ \A k \in Valid' : k \in Valid \/ \E e \in DOMAIN bufs : k = <<l, e>>
    BY <2>1, EntriesInstalled
  <2>3. lost' = lost
    BY <1>4 DEF FinishPending
  <2>4. SlotsOK'
    <3>1. EntrySlots' \cup LoadSlots' = EntrySlots \cup LoadSlots
      BY <1>2, <2>2 DEF bufs
    <3>. QED BY <1>2, <2>2, <2>3, <3>1 DEF SlotsOK, bufs
  <2>5. ReadsOK'
    BY <1>1, <1>2, <2>1, <2>2 DEF ReadsOK
  <2>6. \A k \in Key : InFlight(k) => Settled[k] = entry[k]
    BY <1>1, <2>2 DEF InFlight
  <2>7. BindsOK'
    BY <1>1, <2>6, BindsKept
  <2>8. TypesOK'
    BY <1>1, <1>2, <2>2, <2>3 DEF TypesOK, SetEntries
  <2>. QED BY <1>1, <1>3, <2>4, <2>5, <2>7, <2>8
<1>5. CASE pool # "good"
  <2>1. Settled = entry /\ entry' = entry /\ mark' = mark
    BY <1>1, <1>2, <1>5 DEF Settled, SetEntries, TypesOK
  <2>2. lost' = IF pool = "bad" THEN lost \cup (Range(bufs) \cap Slab) ELSE lost
    BY DEF FinishPending
  <2>3. pool # "bad" => Range(bufs) = {}
    BY <1>1, <1>2, <1>5 DEF PendingOK, TypesOK, NoLoad, Range
  <2>4. SlotsOK'
    <3>1. EntrySlots' = EntrySlots /\ Valid' = Valid
      BY <2>1 DEF EntrySlots, Valid
    <3>. QED BY <1>2, <2>1, <2>2, <2>3, <3>1 DEF SlotsOK
  <2>5. ReadsOK' /\ BindsOK'
    BY <1>1, <1>2, <2>1 DEF ReadsOK, Valid, Inv, BindsOK
  <2>6. TypesOK'
    BY <1>1, <1>2, <2>1, <2>2 DEF TypesOK
  <2>. QED BY <1>1, <1>3, <2>4, <2>5, <2>6
<1>. QED BY <1>4, <1>5

LEMMA Finite ==
    /\ IsFiniteSet(Slot) /\ IsFiniteSet(Key)
    /\ \A S \in SUBSET Slot : IsFiniteSet(S)
    /\ \A S \in SUBSET Key : IsFiniteSet(S)
    /\ \A S \in SUBSET Expert : IsFiniteSet(S)
<1>1. IsFiniteSet(Slot) /\ IsFiniteSet(Layer)
  BY Constants, FS_Interval DEF Slot, Layer
<1>2. IsFiniteSet(Key)
  BY <1>1, Constants, FS_Product DEF Key
<1>. QED BY <1>1, <1>2, Constants, FS_Subset

LEMMA Picked ==
    ASSUME NEW S, S # {}
    PROVE  PickOf(S) \in S
BY DEF PickOf

(* A load that was ended makes way for the call's own, of what is missing. *)
LEMMA LoadStartGood ==
    ASSUME Inv, NEW t \in Thread, LoadStart(t)
    PROVE  LoaderGood(t)
<1>. DEFINE old == loader[t]
            missing == {e \in old.sel : Settled[<<old.layer, e>>] = None}
            count == Cardinality({k \in Key : Settled[k] # None})
            refused == old.kind = "missing" /\ Matches(t) /\ pool = "bad"
            ld == [old EXCEPT !.phase = "batch", !.todo = missing, !.reserved = count]
<1>1. /\ InPhase(t, "start") /\ ~InPhase(t, "none") /\ FinishPending /\ NoteRoute(t)
      /\ UNCHANGED <<free, handed, slots, budget, policy, seqVars, gpuVars, content>>
      /\ IF refused \/ missing = {} THEN Goes(t, Answer(~refused)) ELSE Goes(t, ld)
  BY DEF LoadStart, InPhase
<1>2. /\ pending' = NoLoad /\ Range(pending'.bufs) = {} /\ entry' = Settled
  BY <1>1 DEF FinishPending, SetEntries, NoLoad, Range
<1>3. previous' \in [Layer -> SUBSET Expert]
  BY <1>1, StartHolds DEF NoteRoute, Inv, TypesOK
<1>4. ASSUME LoadSlots' = {}
      PROVE  TypesOK' /\ PendingOK' /\ SlotsOK' /\ ReadsOK' /\ BindsOK'
  BY <1>1, <1>3, <1>4, PendingFinished DEF seqVars, gpuVars
<1>5. CASE refused \/ missing = {}
  <2>1. CallOK(t)' /\ LoadSlots' = {} /\ loader'[t].phase = "done" /\ loader'[t].ok = ~refused
    BY <1>1, <1>2, <1>5, Answered
  <2>2. Result(t)
    BY <1>2, <1>5, <2>1 DEF Result
  <2>. QED BY <1>4, <2>1, <2>2 DEF LoaderGood
<1>6. CASE ~(refused \/ missing = {})
  <2>1. CallOK(t) /\ old \in CallSet(old.bufs) /\ old.phase = "start"
    BY <1>1 DEF Inv, LoadsOK, CallOK, CallTypes, Thread, InPhase
  <2>2. /\ DOMAIN old.bufs = {} /\ Range(old.bufs) = {} /\ old.batch = {} /\ old.layer \in Layer
    BY <2>1 DEF CallOK, CallTypes, Busy, Range
  <2>3. count \in Nat /\ missing \subseteq Expert /\ Cardinality(missing) \in Nat
        /\ Cardinality({}) = 0
    BY <2>1, Finite, FS_CardinalityType, FS_EmptySet DEF CallSet
  <2>4. /\ ld \in CallSet(ld.bufs) /\ ld.phase = "batch" /\ ld.todo = missing
        /\ ld.bufs = old.bufs /\ ld.batch = {} /\ ld.layer = old.layer /\ ld.sel = old.sel
        /\ ld.kind = old.kind
    <3>. HIDE DEF missing, count, old
    <3>. QED BY <2>1, <2>2, <2>3 DEF CallSet, Phase
  <2>5. Goes(t, ld)
    BY <1>1, <1>6
  <2>. HIDE DEF ld
  <2>6. loader'[t] = ld /\ LoadSlots' = {}
    BY <1>1, <1>2, <2>2, <2>4, <2>5, OtherCall
  <2>7. Result(t)
    BY <2>4, <2>6 DEF Result
  <2>8. CallTypes(t)'
    BY <2>2, <2>4, <2>6 DEF CallTypes
  <2>9. CallOK(t)'
    <3>1. ld.todo = {e \in ld.sel : entry'[<<ld.layer, e>>] = None} /\ ld.todo # {}
      BY <1>2, <1>6, <2>4
    <3>2. Cardinality(ld.batch) <= Cardinality(ld.todo)
      BY <2>3, <2>4
    <3>3. DOMAIN ld.bufs = {} /\ Range(ld.bufs) = {} /\ OneEach(ld.bufs)
      BY <2>2, <2>4 DEF OneEach
    <3>. HIDE DEF missing, count
    <3>. QED BY <1>2, <2>4, <2>6, <2>8, <3>1, <3>2, <3>3 DEF CallOK, Back2, Busy
  <2>. QED BY <1>4, <2>6, <2>7, <2>9 DEF LoaderGood
<1>. QED BY <1>5, <1>6

(* A call that is loading, and nothing else is. *)
LEMMA BusyHolds ==
    ASSUME Inv, NEW t \in Thread, loader[t].phase \in Busy
    PROVE  /\ CallOK(t) /\ ~InPhase(t, "none") /\ loader[t] \in CallSet(loader[t].bufs)
           /\ loader[t].layer \in Layer /\ loader[t].sel \subseteq Expert
           /\ pending = NoLoad /\ pool = "idle" /\ Range(pending.bufs) = {}
           /\ LoadSlots = Range(loader[t].bufs) \cup loader[t].batch
           /\ loader[t].batch \subseteq Slot /\ Range(loader[t].bufs) \subseteq Slot
           /\ loader[t].todo \subseteq Expert /\ DOMAIN loader[t].bufs \subseteq Expert
<1>1. CallOK(t) /\ PendingOK /\ ~InPhase(t, "none")
  BY DEF Inv, LoadsOK, Thread, InPhase, Busy
<1>2. /\ CallTypes(t) /\ loader[t].layer \in Layer /\ pending = NoLoad
      /\ loader[t].todo \cup DOMAIN loader[t].bufs \subseteq loader[t].sel
  BY <1>1 DEF CallOK, CallTypes, Busy
<1>3. /\ loader[t] \in CallSet(loader[t].bufs) /\ loader[t].sel \subseteq Expert
      /\ loader[t].batch \subseteq Slot /\ Range(loader[t].bufs) \subseteq Slot
  BY <1>2 DEF CallTypes, CallSet, Range
<1>4. pool = "idle" /\ Range(pending.bufs) = {}
  BY <1>1, <1>2 DEF PendingOK, NoLoad, Range
<1>. QED BY <1>1, <1>2, <1>3, <1>4, OtherSlots DEF LoaderSlots

(* The call goes on to another place with what it holds. *)
LEMMA Moved ==
    ASSUME Inv, NEW t \in Thread, loader[t].phase \in Busy, NEW ld, Goes(t, ld),
           ld \in CallSet(ld.bufs), ld.phase \in Busy,
           ld.layer = loader[t].layer, ld.sel = loader[t].sel, ld.kind = loader[t].kind,
           ld.todo = loader[t].todo, ld.bufs = loader[t].bufs, ld.batch = loader[t].batch,
           ld.phase \in {"flush", "wait"} => ld.back \in {"batch", "prepare"},
           NEW back, back = IF ld.phase \in {"flush", "wait"} THEN ld.back ELSE ld.phase,
           \/ back = Back2(t)
           \/ Back2(t) = "batch" /\ back = "prepare"
           \/ Back2(t) = "post" /\ back = "read",
           UNCHANGED <<entry, pending>>
    PROVE  CallOK(t)' /\ LoadSlots' = LoadSlots /\ Result(t)
<1>0. ~InPhase(t, "none") /\ Range(pending.bufs) = {}
      /\ LoadSlots = Range(loader[t].bufs) \cup loader[t].batch
  BY BusyHolds
<1>1. loader'[t] = ld /\ LoadSlots' = LoadSlots
  <2>1. loader'[t] = ld /\ LoadSlots' = Range(pending'.bufs) \cup Range(ld.bufs) \cup ld.batch
    BY <1>0, OtherCall
  <2>. QED BY <1>0, <2>1
<1>2. CallTypes(t)'
  BY <1>1, BusyHolds DEF CallOK, CallTypes
<1>3. Back2(t)' = back
  BY <1>1 DEF Back2
<1>4. CallOK(t)'
  BY <1>1, <1>2, <1>3, BusyHolds DEF CallOK, Busy
<1>5. Result(t)
  BY <1>1 DEF Result, Busy
<1>. QED BY <1>1, <1>4, <1>5

LEMMA SameCache ==
    ASSUME Inv, LoadSlots' = LoadSlots,
           UNCHANGED <<cacheVars, policyVars, content, lost, pending, pool>>
    PROVE  TypesOK' /\ PendingOK' /\ SlotsOK' /\ ReadsOK'
<1>. USE DEF cacheVars, policyVars, Inv, LoadsOK
<1>1. TypesOK' /\ PendingOK'
  BY DEF TypesOK, PendingOK
<1>2. SlotsOK' /\ ReadsOK'
  BY DEF SlotsOK, ReadsOK, EntrySlots, Valid
<1>. QED BY <1>1, <1>2

(* The open command buffer, as cb, joins those that are committed. *)
LEMMA FlushBinds ==
    ASSUME Inv, NEW cb \in BufferType, FlushOf(cb), doneSeq' = doneSeq,
           \A c \in Range(queue) \cup {cb} : \A b \in c.binds :
              entry'[b[2]] = b[1] /\ mark'[b[2]] > doneSeq
    PROVE  BindsOK'
<1>1. queue \in Seq(BufferType)
  BY DEF Inv, GpuOK, BufferType
<1>2. Range(queue') = Range(queue) \cup {cb}
  BY <1>1 DEF FlushOf, Range
<1>3. open'.binds = {}
  BY DEF FlushOf, Buffer
<1>. QED BY <1>2, <1>3 DEF BindsOK

LEMMA OpenFlushed ==
    ASSUME Inv, open # NoBuffer, Flush, UNCHANGED <<entry, mark, doneSeq>>
    PROVE  BindsOK'
<1>1. open \in BufferType
  BY OpenType DEF Inv
<1>2. \A c \in Range(queue) \cup {open} : \A b \in c.binds :
         entry'[b[2]] = b[1] /\ mark'[b[2]] > doneSeq
  BY BoundInFlight DEF InFlight
<1>. QED BY <1>1, <1>2, FlushBinds DEF Flush

LEMMA SameBinds ==
    ASSUME Inv, UNCHANGED <<entry, mark, open, batchSeq, queue>>,
           doneSeq' = doneSeq \/ queue = <<>>
    PROVE  BindsOK'
<1>1. queue = <<>> => Range(queue) = {}
  BY DEF Range
<1>. QED BY <1>1 DEF Inv, BindsOK

(* The call waits for the GPU, and looks again. *)
LEMMA WaitForGood ==
    ASSUME Inv, NEW t \in Thread, loader[t].phase \in {"batch", "prepare"}, WaitFor(t),
           UNCHANGED <<cacheVars, policyVars, content, lost, pending, pool>>,
           UNCHANGED <<open, queue, batchSeq, doneSeq>>
    PROVE  LoaderGood(t)
<1>. DEFINE ld == [loader[t] EXCEPT !.phase = "flush", !.back = loader[t].phase]
<1>0. loader[t].phase \in Busy
  BY DEF Busy
<1>1. /\ Goes(t, ld) /\ ld \in CallSet(ld.bufs) /\ ld.phase = "flush" /\ ld.back = loader[t].phase
      /\ ld.layer = loader[t].layer /\ ld.sel = loader[t].sel /\ ld.kind = loader[t].kind
      /\ ld.todo = loader[t].todo /\ ld.bufs = loader[t].bufs /\ ld.batch = loader[t].batch
  BY <1>0, BusyHolds DEF WaitFor, CallSet, Phase
<1>2. UNCHANGED <<entry, pending, mark>>
  BY DEF cacheVars
<1>3. Back2(t) = ld.back
  BY <1>1 DEF Back2
<1>. HIDE DEF ld
<1>4. CallOK(t)' /\ LoadSlots' = LoadSlots /\ Result(t)
  BY <1>0, <1>1, <1>2, <1>3, Moved DEF Busy
<1>. QED BY <1>2, <1>4, SameCache, SameBinds DEF LoaderGood

LEMMA WaitFlushGood ==
    ASSUME Inv, NEW t \in Thread, WaitFlush(t)
    PROVE  LoaderGood(t)
<1>. DEFINE ld == [loader[t] EXCEPT !.phase = "wait"]
<1>0. loader[t].phase = "flush" /\ loader[t].phase \in Busy /\ Goes(t, ld)
      /\ UNCHANGED <<cacheVars, policyVars, content, lost, pending, pool>>
  BY DEF WaitFlush, InPhase, Busy
<1>1. /\ ld \in CallSet(ld.bufs) /\ ld.phase = "wait" /\ ld.back = loader[t].back
      /\ ld.layer = loader[t].layer /\ ld.sel = loader[t].sel /\ ld.kind = loader[t].kind
      /\ ld.todo = loader[t].todo /\ ld.bufs = loader[t].bufs /\ ld.batch = loader[t].batch
  BY <1>0, BusyHolds DEF CallSet, Phase
<1>2. UNCHANGED <<entry, pending, mark>>
  BY <1>0 DEF cacheVars
<1>3. Back2(t) = ld.back /\ ld.back \in {"batch", "prepare"}
  BY <1>0, <1>1, BusyHolds DEF Back2, CallOK
<1>. HIDE DEF ld
<1>4. CallOK(t)' /\ LoadSlots' = LoadSlots /\ Result(t)
  BY <1>0, <1>1, <1>2, <1>3, Moved DEF Busy
<1>5. BindsOK'
  BY <1>2, SameBinds, OpenFlushed DEF WaitFlush, seqVars, gpuVars
<1>. QED BY <1>0, <1>4, <1>5, SameCache DEF LoaderGood

LEMMA WaitDoneGood ==
    ASSUME Inv, NEW t \in Thread, WaitDone(t)
    PROVE  LoaderGood(t)
<1>. DEFINE ld == [loader[t] EXCEPT !.phase = loader[t].back, !.waited = TRUE]
<1>0. loader[t].phase = "wait" /\ loader[t].phase \in Busy /\ Goes(t, ld)
      /\ UNCHANGED <<cacheVars, policyVars, content, lost, pending, pool>>
  BY DEF WaitDone, InPhase, Busy
<1>1. loader[t].back \in {"batch", "prepare"}
  BY <1>0, BusyHolds DEF CallOK
<1>2. /\ ld \in CallSet(ld.bufs) /\ ld.phase = loader[t].back
      /\ ld.layer = loader[t].layer /\ ld.sel = loader[t].sel /\ ld.kind = loader[t].kind
      /\ ld.todo = loader[t].todo /\ ld.bufs = loader[t].bufs /\ ld.batch = loader[t].batch
  BY <1>0, <1>1, BusyHolds DEF CallSet, Phase
<1>3. UNCHANGED <<entry, pending, mark>>
  BY <1>0 DEF cacheVars
<1>4. Back2(t) = ld.phase
  BY <1>0, <1>2 DEF Back2
<1>. HIDE DEF ld
<1>5. CallOK(t)' /\ LoadSlots' = LoadSlots /\ Result(t)
  BY <1>0, <1>1, <1>2, <1>3, <1>4, Moved DEF Busy
<1>6. BindsOK'
  BY <1>3, SameBinds DEF WaitDone, PendingDone, gpuVars
<1>. QED BY <1>0, <1>5, <1>6, SameCache DEF LoaderGood

(* Several misses take the buffers of as many victims. *)
LEMMA TakenSlots ==
    ASSUME Inv, NEW taken \in SUBSET Valid
    PROVE  /\ {entry[k] : k \in taken} \subseteq Slot
           /\ Cardinality({entry[k] : k \in taken}) <= Cardinality(taken)
           /\ Cardinality({entry[k] : k \in taken}) \in Nat /\ Cardinality(taken) \in Nat
<1>. DEFINE S == {entry[k] : k \in taken}  f == [k \in taken |-> entry[k]]
<1>1. S \subseteq Slot
  BY DEF Inv, TypesOK, Valid
<1>2. f \in Surjection(taken, S)
  BY DEF Surjection
<1>3. taken \in SUBSET Key
  BY DEF Valid
<1>. HIDE DEF S, f
<1>4. IsFiniteSet(taken) /\ IsFiniteSet(S)
  BY <1>1, <1>3, Finite
<1>5. Cardinality(S) <= Cardinality(taken)
  BY <1>2, <1>4, FS_Surjection
<1>6. Cardinality(S) \in Nat /\ Cardinality(taken) \in Nat
  BY <1>4, FS_CardinalityType
<1>. QED BY <1>1, <1>5, <1>6 DEF S

LEMMA TakeBatchGood ==
    ASSUME Inv, NEW t \in Thread, TakeBatch(t)
    PROVE  LoaderGood(t)
<1>. DEFINE old == loader[t]
            n == Cardinality(old.todo)
            ks == Victims(old.layer, old.sel)
            prepare == [old EXCEPT !.phase = "prepare", !.waited = FALSE]
            full(taken) == [prepare EXCEPT !.batch = {entry[k] : k \in taken}]
<1>0. /\ old.phase = "batch" /\ old.phase \in Busy
      /\ UNCHANGED <<free, handed, slots, policyVars, seqVars, gpuVars, content, lost, pending, pool>>
  BY DEF TakeBatch, InPhase, Busy
<1>1. /\ CallOK(t) /\ old \in CallSet(old.bufs) /\ DOMAIN old.bufs = {} /\ old.batch = {}
      /\ old.todo # {} /\ Range(old.bufs) = {} /\ LoadSlots = {} /\ ~InPhase(t, "none")
      /\ Range(pending.bufs) = {} /\ pending = NoLoad
  BY <1>0, BusyHolds DEF CallOK, Back2, Range
<1>2. /\ prepare \in CallSet(prepare.bufs) /\ prepare.phase = "prepare"
      /\ prepare.layer = old.layer /\ prepare.sel = old.sel /\ prepare.kind = old.kind
      /\ prepare.todo = old.todo /\ prepare.bufs = old.bufs /\ prepare.batch = {}
  BY <1>1 DEF CallSet, Phase
<1>3. CASE WaitFor(t) /\ UNCHANGED <<entry, mark>>
  BY <1>0, <1>3, WaitForGood DEF cacheVars, seqVars, gpuVars
<1>4. CASE Goes(t, prepare) /\ UNCHANGED <<entry, mark>>
  <2>. HIDE DEF prepare
  <2>1. CallOK(t)' /\ LoadSlots' = LoadSlots /\ Result(t)
    BY <1>0, <1>1, <1>2, <1>4, Moved DEF Busy, Back2
  <2>. QED BY <1>0, <1>4, <2>1, SameCache, SameBinds DEF LoaderGood, cacheVars, seqVars, gpuVars
<1>5. ASSUME NEW taken \in SUBSET ks, SetEntries(Cleared(taken)), Goes(t, full(taken)),
             Cardinality(taken) <= n
      PROVE  LoaderGood(t)
  <2>. DEFINE ld == full(taken)  B == {entry[k] : k \in taken}
  <2>1. /\ taken \in SUBSET Valid /\ taken \in SUBSET Key /\ Freed(taken) = B
        /\ \A k \in taken : ~(k[1] = old.layer /\ k[2] \in old.sel)
    BY DEF Victims, Protected, Freed, Valid
  <2>2. B \subseteq Slot /\ Cardinality(B) <= n
    <3>1. n \in Nat
      BY <1>1, Finite, FS_CardinalityType DEF CallSet
    <3>. QED BY <1>5, <2>1, <3>1, TakenSlots
  <2>3. /\ ld \in CallSet(ld.bufs) /\ ld.phase = "prepare" /\ ld.batch = B
        /\ ld.layer = old.layer /\ ld.sel = old.sel /\ ld.kind = old.kind
        /\ ld.todo = old.todo /\ ld.bufs = old.bufs
    <3>. HIDE DEF prepare, B
    <3>1. B \in SUBSET Slot
      BY <2>2
    <3>. QED BY <1>2, <3>1 DEF CallSet, B
  <2>. HIDE DEF ld, prepare
  <2>4. /\ entry' = Cleared(taken) /\ entry' \in [Key -> {None} \cup Slot]
        /\ EntrySlots' = EntrySlots \ B /\ B \subseteq EntrySlots
        /\ \A j, k \in Valid' : entry'[j] = entry'[k] => j = k
        /\ \A k \in Valid' : k \in Valid /\ entry'[k] = entry[k]
        /\ \A k \in Key : InFlight(k) => entry'[k] = entry[k]
        /\ \A k \in Key \ taken : entry'[k] = entry[k]
    BY <1>5, <2>1, EntriesCleared DEF SetEntries
  <2>5. loader'[t] = ld /\ LoadSlots' = B
    <3>1. loader'[t] = ld /\ LoadSlots' = Range(pending'.bufs) \cup Range(ld.bufs) \cup ld.batch
      BY <1>1, <1>5, OtherCall DEF ld
    <3>. QED BY <1>0, <1>1, <2>3, <3>1
  <2>6. CallOK(t)'
    <3>1. CallTypes(t)'
      BY <1>0, <1>1, <2>3, <2>5, BusyHolds DEF CallTypes
    <3>2. {e \in ld.sel : entry'[<<ld.layer, e>>] = None}
            = {e \in old.sel : entry[<<old.layer, e>>] = None}
      <4>1. \A e \in old.sel : <<old.layer, e>> \in Key \ taken
        BY <1>0, <2>1, BusyHolds DEF Key
      <4>. QED BY <2>3, <2>4, <4>1
    <3>. QED BY <1>0, <1>1, <2>2, <2>3, <2>5, <3>1, <3>2 DEF CallOK, Busy, Back2
  <2>7. Result(t)
    BY <2>3, <2>5 DEF Result
  <2>8. SlotsOK'
    BY <1>0, <1>1, <2>4, <2>5 DEF SlotsOK, Inv
  <2>9. TypesOK' /\ PendingOK' /\ ReadsOK'
    BY <1>0, <1>1, <1>5, <2>4 DEF TypesOK, PendingOK, ReadsOK, Inv, LoadsOK, policyVars, SetEntries
  <2>10. BindsOK'
    BY <1>0, <1>5, <2>4, BindsKept DEF seqVars, gpuVars
  <2>. QED BY <2>6, <2>7, <2>8, <2>9, <2>10 DEF LoaderGood
<1>. QED
  <2>1. ASSUME NEW taken \in SUBSET ks,
               Cardinality(taken) = IF n < Cardinality(ks) THEN n ELSE Cardinality(ks)
        PROVE  Cardinality(taken) <= n
    <3>1. ks \in SUBSET Valid
      BY DEF Victims
    <3>2. Cardinality(ks) \in Nat /\ n \in Nat
      BY <1>1, <3>1, TakenSlots, Finite, FS_CardinalityType DEF CallSet
    <3>. QED BY <2>1, <3>2
  <2>. QED BY <1>3, <1>4, <1>5, <2>1 DEF TakeBatch

(* A missing expert gets a buffer that is nobody's, or one of the batch. *)
LEMMA Given ==
    ASSUME Inv, NEW t \in Thread, loader[t].phase = "prepare", NEW s \in Slot, Give(t, s),
           s \notin Range(loader[t].bufs), s \in loader[t].batch \/ loader[t].batch = {},
           \A e \in loader[t].sel :
              entry'[<<loader[t].layer, e>>] = None <=> entry[<<loader[t].layer, e>>] = None,
           pending' = pending
    PROVE  CallOK(t)' /\ LoadSlots' = LoadSlots \cup {s} /\ Result(t)
<1>. DEFINE old == loader[t]
            e == PickOf(old.todo)
            bufs == [x \in DOMAIN old.bufs \cup {e} |-> IF x = e THEN s ELSE old.bufs[x]]
            reserved == IF old.reserved >= budget THEN old.reserved ELSE old.reserved + 1
            phase == IF old.todo = {e} THEN "post" ELSE "prepare"
            ld == [old EXCEPT !.todo = old.todo \ {e}, !.bufs = bufs, !.batch = old.batch \ {s},
                              !.waited = FALSE, !.reserved = reserved, !.phase = phase]
<1>0. /\ old.phase \in Busy /\ ~InPhase(t, "none") /\ CallOK(t) /\ old.layer \in Layer
      /\ LoadSlots = Range(old.bufs) \cup old.batch /\ Range(pending.bufs) = {}
      /\ old.todo \subseteq Expert /\ old.batch \subseteq Slot /\ pending = NoLoad
      /\ DOMAIN old.bufs \subseteq Expert
  BY BusyHolds DEF Busy
<1>1. /\ old \in CallSet(old.bufs) /\ old.todo # {} /\ e \in old.todo
      /\ \A d \in DOMAIN old.bufs : old.bufs[d] \in Slot
  BY <1>0, Picked DEF CallOK, CallTypes, Back2
<1>2. ld \in CallSet(bufs) /\ ld.bufs = bufs
  <2>1. reserved \in Nat
    BY <1>1 DEF CallSet, Inv, TypesOK
  <2>. HIDE DEF reserved, bufs, e
  <2>. QED BY <1>1, <2>1 DEF CallSet, Phase
<1>3. /\ ld.phase = phase /\ ld.todo = old.todo \ {e} /\ ld.batch = old.batch \ {s}
      /\ ld.layer = old.layer /\ ld.sel = old.sel /\ ld.kind = old.kind
  <2>. HIDE DEF reserved, bufs, e, phase
  <2>. QED BY <1>1 DEF CallSet
<1>4. Goes(t, ld)
  BY DEF Give
<1>5. /\ DOMAIN bufs = DOMAIN old.bufs \cup {e} /\ bufs[e] = s
      /\ \A d \in DOMAIN old.bufs : bufs[d] = old.bufs[d]
  <2>1. e \notin DOMAIN old.bufs
    BY <1>0, <1>1 DEF CallOK
  <2>. HIDE DEF e
  <2>. QED BY <2>1
<1>. HIDE DEF ld, reserved, bufs, e
<1>6. Range(bufs) = Range(old.bufs) \cup {s}
  BY <1>5 DEF Range
<1>7. /\ loader'[t] = ld /\ LoadSlots' = LoadSlots \cup {s}
  <2>1. loader'[t] = ld /\ LoadSlots' = Range(pending'.bufs) \cup Range(ld.bufs) \cup ld.batch
    BY <1>0, <1>4, OtherCall
  <2>. QED BY <1>0, <1>2, <1>3, <1>6, <2>1
<1>8. Cardinality(ld.batch) <= Cardinality(ld.todo)
  <2>1. IsFiniteSet(old.batch) /\ IsFiniteSet(old.todo)
    BY <1>0, Finite
  <2>2. /\ Cardinality(old.batch) \in Nat /\ Cardinality(old.todo) \in Nat
        /\ Cardinality(old.batch) <= Cardinality(old.todo)
    BY <1>0, <2>1, FS_CardinalityType DEF CallOK
  <2>3. Cardinality(ld.todo) = Cardinality(old.todo) - 1
    BY <1>1, <1>3, <2>1, FS_RemoveElement
  <2>4. CASE s \in old.batch
    <3>1. Cardinality(ld.batch) = Cardinality(old.batch) - 1
      BY <1>3, <2>1, <2>4, FS_RemoveElement
    <3>. QED BY <2>2, <2>3, <3>1
  <2>5. CASE old.batch = {}
    <3>1. Cardinality(ld.batch) = 0
      BY <1>3, <2>5, FS_EmptySet
    <3>2. Cardinality(old.todo) # 0
      BY <1>1, <2>1, FS_EmptySet
    <3>. QED BY <2>2, <2>3, <3>1, <3>2
  <2>. QED BY <2>4, <2>5
<1>9. CallTypes(t)'
  BY <1>0, <1>1, <1>2, <1>3, <1>5, <1>7 DEF CallTypes
<1>10. ld.todo \cup DOMAIN ld.bufs = {d \in ld.sel : entry'[<<ld.layer, d>>] = None}
       /\ ld.todo \cap DOMAIN ld.bufs = {}
  BY <1>0, <1>1, <1>2, <1>3, <1>5 DEF CallOK
<1>11. OneEach(ld.bufs) /\ ld.batch \cap Range(ld.bufs) = {}
  <2>1. OneEach(old.bufs) /\ old.batch \cap Range(old.bufs) = {}
    BY <1>0 DEF CallOK
  <2>2. \A d \in DOMAIN old.bufs : old.bufs[d] # s
    BY DEF Range
  <2>. QED BY <1>2, <1>3, <1>5, <1>6, <2>1, <2>2 DEF OneEach
<1>12. (ld.phase = "prepare" => ld.todo # {}) /\ (ld.phase = "post" => ld.todo = {})
       /\ ld.phase \in {"prepare", "post"}
  BY <1>1, <1>3
<1>13. CallOK(t)'
  BY <1>0, <1>7, <1>8, <1>9, <1>10, <1>11, <1>12 DEF CallOK, Busy, Back2
<1>14. Result(t)
  BY <1>3, <1>7, <1>12 DEF Result
<1>. QED BY <1>7, <1>13, <1>14

(* A buffer that is nobody's: it is held by no entry and no load, it is not on
   the free list, and no slot that was lost. *)
LEMMA AllocatedFresh ==
    ASSUME Inv, NEW s \in Slot, FromFreeList(s) \/ FromSlab(s) \/ FromMemory(s)
    PROVE  /\ s \notin EntrySlots \cup LoadSlots \cup lost \cup free'
           /\ free' \cup {s} = free \cup {s} /\ free' \subseteq free
           /\ (1 .. handed) \cup ({s} \cap Slab) = 1 .. handed'
           /\ handed' \in 0 .. MaxBudget /\ slots' \in handed' .. MaxBudget
<1>1. SlotsOK /\ TypesOK
  BY DEF Inv
<1>2. (EntrySlots \cup LoadSlots \cup free \cup lost) \cap Slab = 1 .. handed
  BY <1>1 DEF SlotsOK
<1>3. CASE FromFreeList(s)
  <2>1. s \in free /\ free' = free \ {s} /\ UNCHANGED <<handed, slots>>
    BY <1>3, Picked DEF FromFreeList
  <2>2. s \in Slab /\ s \in 1 .. handed
    BY <1>1, <1>2, <2>1 DEF TypesOK
  <2>. QED BY <1>1, <2>1, <2>2 DEF SlotsOK, TypesOK
<1>4. CASE FromSlab(s)
  <2>1. /\ s = handed + 1 /\ handed' = s /\ free' = free
        /\ handed < slots \/ slots < budget
        /\ slots' = IF handed < slots THEN slots
                    ELSE IF slots + Chunk < budget THEN slots + Chunk ELSE budget
    BY <1>4 DEF FromSlab
  <2>2. handed \in Nat /\ slots \in Nat /\ handed <= slots /\ slots <= MaxBudget
        /\ budget \in Nat /\ budget <= MaxBudget /\ MaxBudget \in Nat /\ Chunk \in Nat \ {0}
    BY <1>1, Constants DEF TypesOK
  <2>3. handed' \in 0 .. MaxBudget /\ slots' \in handed' .. MaxBudget
    BY <2>1, <2>2
  <2>4. s \in Slab /\ s \notin 1 .. handed /\ 1 .. handed' = (1 .. handed) \cup {s}
    BY <2>1, <2>2 DEF Slab
  <2>. QED BY <1>2, <2>1, <2>3, <2>4
<1>5. CASE FromMemory(s)
  <2>1. /\ s \in SpareLeft /\ UNCHANGED <<free, handed, slots>>
    BY <1>5, Picked DEF FromMemory
  <2>2. s \notin Slab /\ s \notin EntrySlots /\ s \notin LoadSlots
    <3>1. InUse = EntrySlots \cup LoadSlots
      BY DEF InUse, EntrySlots, LoadSlots, Thread
    <3>. QED BY <2>1, <3>1 DEF SpareLeft
  <2>. QED BY <1>1, <2>1, <2>2 DEF TypesOK
<1>. QED BY <1>3, <1>4, <1>5

LEMMA PrepareGood ==
    ASSUME Inv, NEW t \in Thread, Prepare(t)
    PROVE  LoaderGood(t)
<1>. DEFINE old == loader[t]
<1>0. /\ old.phase = "prepare" /\ old.phase \in Busy /\ ~InPhase(t, "none")
      /\ UNCHANGED <<policyVars, seqVars, gpuVars, content, pending, pool>>
  BY DEF Prepare, InPhase, Busy
<1>1. /\ CallOK(t) /\ old.layer \in Layer /\ old.sel \subseteq Expert
      /\ LoadSlots = Range(old.bufs) \cup old.batch /\ old.batch \subseteq Slot
      /\ pending = NoLoad /\ Range(pending.bufs) = {}
  BY <1>0, BusyHolds
<1>2. TypesOK /\ SlotsOK /\ PendingOK /\ ReadsOK
  BY DEF Inv, LoadsOK
<1>3. CASE PrepareFromBatch(t)
  <2>1. /\ PickOf(old.batch) \in old.batch /\ Give(t, PickOf(old.batch))
        /\ UNCHANGED <<cacheVars, lost>>
    BY <1>3, Picked DEF PrepareFromBatch
  <2>2. PickOf(old.batch) \in Slot /\ PickOf(old.batch) \notin Range(old.bufs)
    BY <1>0, <1>1, <2>1 DEF CallOK
  <2>3. CallOK(t)' /\ LoadSlots' = LoadSlots /\ Result(t)
    <3>1. CallOK(t)' /\ LoadSlots' = LoadSlots \cup {PickOf(old.batch)} /\ Result(t)
      BY <1>0, <2>1, <2>2, Given DEF cacheVars
    <3>. QED BY <1>1, <2>1, <3>1
  <2>. QED BY <1>0, <2>1, <2>3, SameCache, SameBinds DEF LoaderGood, cacheVars, seqVars, gpuVars
<1>4. CASE PrepareReused(t)
  <2>1. PICK k \in Victims(old.layer, old.sel) : SetEntries(Cleared({k})) /\ Give(t, entry[k])
    BY <1>4 DEF PrepareReused
  <2>2. /\ old.batch = {} /\ UNCHANGED <<free, handed, slots, lost>>
    BY <1>4 DEF PrepareReused
  <2>3. /\ k \in Valid /\ k \in Key /\ {k} \in SUBSET Key /\ Freed({k}) = {entry[k]}
        /\ ~(k[1] = old.layer /\ k[2] \in old.sel) /\ entry[k] \in Slot
        /\ entry[k] \in EntrySlots
    BY <1>2, <2>1 DEF Victims, Protected, Freed, Valid, TypesOK, EntrySlots
  <2>4. /\ entry' = Cleared({k}) /\ entry' \in [Key -> {None} \cup Slot]
        /\ EntrySlots' = EntrySlots \ {entry[k]}
        /\ \A i, j \in Valid' : entry'[i] = entry'[j] => i = j
        /\ \A j \in Valid' : j \in Valid /\ entry'[j] = entry[j]
        /\ \A j \in Key : InFlight(j) => entry'[j] = entry[j]
        /\ \A j \in Key \ {k} : entry'[j] = entry[j]
    BY <2>1, <2>3, EntriesCleared DEF SetEntries
  <2>5. \A e \in old.sel : entry'[<<old.layer, e>>] = entry[<<old.layer, e>>]
    <3>1. \A e \in old.sel : <<old.layer, e>> \in Key \ {k}
      BY <1>1, <2>3 DEF Key
    <3>. QED BY <2>4, <3>1
  <2>6. entry[k] \notin Range(old.bufs)
    BY <1>1, <1>2, <2>3 DEF SlotsOK
  <2>7. CallOK(t)' /\ LoadSlots' = LoadSlots \cup {entry[k]} /\ Result(t)
    BY <1>0, <2>1, <2>2, <2>3, <2>5, <2>6, Given
  <2>8. SlotsOK'
    BY <1>2, <2>2, <2>3, <2>4, <2>7 DEF SlotsOK
  <2>9. TypesOK' /\ PendingOK' /\ ReadsOK'
    BY <1>0, <1>1, <1>2, <2>1, <2>2, <2>4 DEF TypesOK, PendingOK, ReadsOK, policyVars, SetEntries
  <2>10. BindsOK'
    BY <1>0, <2>1, <2>4, BindsKept DEF seqVars, gpuVars
  <2>. QED BY <2>7, <2>8, <2>9, <2>10 DEF LoaderGood
<1>5. CASE PrepareWaits(t)
  BY <1>0, <1>5, WaitForGood DEF PrepareWaits, cacheVars, seqVars, gpuVars
<1>6. CASE PrepareAllocated(t)
  <2>1. PICK s \in Slot : (FromFreeList(s) \/ FromSlab(s) \/ FromMemory(s)) /\ Give(t, s)
    BY <1>6 DEF PrepareAllocated
  <2>2. old.batch = {} /\ UNCHANGED <<entry, mark, lost>>
    BY <1>6 DEF PrepareAllocated
  <2>3. /\ s \notin EntrySlots \cup LoadSlots \cup lost \cup free'
        /\ free' \cup {s} = free \cup {s} /\ free' \subseteq free
        /\ (1 .. handed) \cup ({s} \cap Slab) = 1 .. handed'
        /\ handed' \in 0 .. MaxBudget /\ slots' \in handed' .. MaxBudget
    BY <2>1, AllocatedFresh
  <2>4. CallOK(t)' /\ LoadSlots' = LoadSlots \cup {s} /\ Result(t)
    BY <1>0, <1>1, <2>1, <2>2, <2>3, Given
  <2>5. SlotsOK'
    <3>1. EntrySlots' = EntrySlots /\ Valid' = Valid
      BY <2>2 DEF EntrySlots, Valid
    <3>. QED BY <1>2, <2>2, <2>3, <2>4, <3>1 DEF SlotsOK
  <2>6. TypesOK' /\ PendingOK' /\ ReadsOK'
    BY <1>0, <1>2, <2>2, <2>3 DEF TypesOK, PendingOK, ReadsOK, Valid, policyVars
  <2>. QED BY <1>0, <2>2, <2>4, <2>5, <2>6, SameBinds DEF LoaderGood, seqVars, gpuVars
<1>7. CASE PrepareFails(t)
  <2>1. /\ lost' = lost \cup (LoadSlots \cap Slab) /\ Goes(t, Answer(FALSE)) /\ UNCHANGED cacheVars
    BY <1>1, <1>7 DEF PrepareFails, LoaderSlots
  <2>2. CallOK(t)' /\ LoadSlots' = {} /\ loader'[t].phase = "done" /\ loader'[t].ok = FALSE
    BY <1>0, <1>1, <2>1, Answered
  <2>3. TypesOK' /\ PendingOK' /\ ReadsOK'
    BY <1>0, <1>2, <2>1 DEF TypesOK, PendingOK, ReadsOK, Valid, cacheVars, policyVars
  <2>4. SlotsOK'
    BY <1>2, <2>1, <2>2 DEF SlotsOK, EntrySlots, Valid, cacheVars
  <2>5. Result(t)
    BY <2>2 DEF Result
  <2>. QED BY <1>0, <2>1, <2>2, <2>3, <2>4, <2>5, SameBinds DEF LoaderGood, cacheVars, seqVars, gpuVars
<1>. QED BY <1>3, <1>4, <1>5, <1>6, <1>7 DEF Prepare

(* When the last buffer is prepared, nothing is left to do and no batch. *)
LEMMA AllPrepared ==
    ASSUME Inv, NEW t \in Thread, loader[t].phase \in {"post", "read"}
    PROVE  /\ loader[t].phase \in Busy /\ loader[t].todo = {} /\ loader[t].batch = {}
           /\ LoadSlots = Range(loader[t].bufs) /\ OneEach(loader[t].bufs)
           /\ DOMAIN loader[t].bufs
                 = {e \in loader[t].sel : entry[<<loader[t].layer, e>>] = None}
           /\ DOMAIN loader[t].bufs \subseteq Expert
           /\ \A e \in DOMAIN loader[t].bufs : loader[t].bufs[e] \in Slot
           /\ EntrySlots \cap Range(loader[t].bufs) = {}
<1>1. loader[t].phase \in Busy
  BY DEF Busy
<1>2. /\ CallOK(t) /\ loader[t].batch \subseteq Slot /\ DOMAIN loader[t].bufs \subseteq Expert
      /\ LoadSlots = Range(loader[t].bufs) \cup loader[t].batch
  BY <1>1, BusyHolds
<1>3. loader[t].todo = {} /\ Cardinality(loader[t].batch) <= Cardinality(loader[t].todo)
  BY <1>1, <1>2 DEF CallOK, Back2
<1>4. loader[t].batch = {}
  <2>1. IsFiniteSet(loader[t].batch) /\ Cardinality(loader[t].batch) \in Nat
    BY <1>2, Finite, FS_CardinalityType
  <2>2. Cardinality(loader[t].batch) <= 0
    BY <1>3, FS_EmptySet
  <2>. QED BY <2>1, <2>2, FS_EmptySet
<1>5. EntrySlots \cap LoadSlots = {}
  BY DEF Inv, SlotsOK
<1>. QED BY <1>1, <1>2, <1>3, <1>4, <1>5 DEF CallOK, CallTypes

(* What a read leaves in the buffers. *)
LEMMA ReadHolds ==
    ASSUME Inv, NEW l \in Layer, NEW bufs, DOMAIN bufs \subseteq Expert, OneEach(bufs),
           \A e \in DOMAIN bufs : bufs[e] \in Slot, content' = ReadInto(l, bufs)
    PROVE  /\ content' \in [Slot -> {Junk} \cup Key]
           /\ \A e \in DOMAIN bufs : content'[bufs[e]] = <<l, e>>
           /\ \A s \in Slot : s \notin Range(bufs) => content'[s] = content[s]
<1>1. \A e \in DOMAIN bufs : (CHOOSE d \in DOMAIN bufs : bufs[d] = bufs[e]) = e
  BY DEF OneEach
<1>2. \A e \in DOMAIN bufs : content'[bufs[e]] = <<l, e>>
  BY <1>1 DEF ReadInto, Range
<1>3. \A s \in Slot : s \notin Range(bufs) => content'[s] = content[s]
  BY DEF ReadInto
<1>4. \A s \in Slot : content'[s] \in {Junk} \cup Key
  <2>1. \A s \in Range(bufs) : \E e \in DOMAIN bufs : s = bufs[e]
    BY DEF Range
  <2>2. \A e \in DOMAIN bufs : <<l, e>> \in Key
    BY DEF Key
  <2>3. \A s \in Slot : content[s] \in {Junk} \cup Key
    BY DEF Inv, TypesOK
  <2>4. \A s \in Range(bufs) : content'[s] \in Key
    BY <1>2, <2>1, <2>2
  <2>. QED BY <1>3, <2>3, <2>4
<1>5. content' = [s \in Slot |-> content'[s]]
  BY DEF ReadInto
<1>. QED BY <1>2, <1>3, <1>4, <1>5

LEMMA LoadPostGood ==
    ASSUME Inv, NEW t \in Thread, LoadPost(t)
    PROVE  LoaderGood(t)
<1>. DEFINE old == loader[t]
            ld == [old EXCEPT !.phase = "read"]
<1>0. /\ old.phase = "post" /\ ~InPhase(t, "none")
      /\ UNCHANGED <<cacheVars, policyVars, seqVars, gpuVars, lost>>
      /\ content' = [s \in Slot |-> IF s \in Range(old.bufs) THEN Junk ELSE content[s]]
  BY DEF LoadPost, InPhase
<1>1. /\ old.phase \in Busy /\ old.todo = {} /\ old.batch = {} /\ OneEach(old.bufs)
      /\ LoadSlots = Range(old.bufs) /\ EntrySlots \cap Range(old.bufs) = {}
      /\ DOMAIN old.bufs = {e \in old.sel : entry[<<old.layer, e>>] = None}
      /\ DOMAIN old.bufs \subseteq Expert /\ \A e \in DOMAIN old.bufs : old.bufs[e] \in Slot
  BY <1>0, AllPrepared
<1>2. /\ CallOK(t) /\ old \in CallSet(old.bufs) /\ old.layer \in Layer /\ old.sel \subseteq Expert
      /\ pending = NoLoad /\ pool = "idle" /\ Range(pending.bufs) = {}
  BY <1>1, BusyHolds
<1>3. TypesOK /\ SlotsOK /\ ReadsOK /\ PendingOK
  BY DEF Inv, LoadsOK
<1>4. EntrySlots' = EntrySlots /\ Valid' = Valid /\ entry' = entry
  BY <1>0 DEF cacheVars, EntrySlots, Valid
<1>5. \A k \in Valid' : content'[entry'[k]] = k
  <2>1. \A k \in Valid : entry[k] \in EntrySlots /\ entry[k] \in Slot
    BY <1>3 DEF EntrySlots, Valid, TypesOK
  <2>. QED BY <1>0, <1>1, <1>3, <1>4, <2>1 DEF ReadsOK
<1>6. content' \in [Slot -> {Junk} \cup Key]
  BY <1>0, <1>3 DEF TypesOK
<1>7. BindsOK'
  BY <1>0, SameBinds DEF cacheVars, seqVars, gpuVars
<1>8. ASSUME LoadSlots' = LoadSlots
      PROVE  SlotsOK'
  BY <1>0, <1>3, <1>4, <1>8 DEF SlotsOK, cacheVars
<1>9. CASE Posted(t)
  <2>1. /\ pending' = [layer |-> old.layer, sel |-> old.sel, bufs |-> old.bufs]
        /\ pool' = "busy" /\ Goes(t, Answer(TRUE))
    BY <1>9 DEF Posted
  <2>2. pending'.bufs = old.bufs /\ pending'.layer = old.layer /\ pending'.sel = old.sel
    BY <2>1
  <2>3. CallOK(t)' /\ LoadSlots' = LoadSlots /\ loader'[t].phase = "done" /\ loader'[t].ok
    BY <1>0, <1>1, <2>1, <2>2, Answered
  <2>4. PendingOK'
    <3>1. pending' # NoLoad
      <4>1. old.layer # 0 /\ NoLoad.layer = 0
        BY <1>2, Constants DEF Layer, NoLoad
      <4>. QED BY <2>2, <4>1
    <3>. QED BY <1>1, <1>2, <1>4, <2>1, <2>2, <3>1 DEF PendingOK
  <2>5. ReadsOK' /\ TypesOK'
    BY <1>0, <1>3, <1>5, <1>6, <2>1 DEF ReadsOK, TypesOK, cacheVars, policyVars
  <2>6. Result(t)
    BY <1>9, <2>3 DEF Result, Posted
  <2>. QED BY <1>7, <1>8, <2>3, <2>4, <2>5, <2>6 DEF LoaderGood
<1>10. CASE Refused(t)
  <2>1. Goes(t, ld) /\ UNCHANGED <<pending, pool, entry>>
    BY <1>4, <1>10 DEF Refused
  <2>2. /\ ld \in CallSet(ld.bufs) /\ ld.phase = "read" /\ ld.layer = old.layer
        /\ ld.sel = old.sel /\ ld.kind = old.kind
        /\ ld.todo = old.todo /\ ld.bufs = old.bufs /\ ld.batch = old.batch
    BY <1>2 DEF CallSet, Phase
  <2>3. Back2(t) = "post"
    BY <1>0 DEF Back2
  <2>. HIDE DEF ld
  <2>4. CallOK(t)' /\ LoadSlots' = LoadSlots /\ Result(t)
    BY <1>1, <2>1, <2>2, <2>3, Moved DEF Busy
  <2>5. PendingOK' /\ ReadsOK' /\ TypesOK'
    BY <1>0, <1>2, <1>3, <1>5, <1>6, <2>1 DEF PendingOK, ReadsOK, TypesOK, cacheVars, policyVars
  <2>. QED BY <1>7, <1>8, <2>4, <2>5 DEF LoaderGood
<1>. QED BY <1>9, <1>10 DEF LoadPost

LEMMA ReadEndsGood ==
    ASSUME Inv, NEW t \in Thread, ReadEnds(t)
    PROVE  LoaderGood(t)
<1>. DEFINE old == loader[t]
<1>0. /\ old.phase = "read" /\ ~InPhase(t, "none") /\ Goes(t, Answer(TRUE))
      /\ content' = ReadInto(old.layer, old.bufs)
      /\ SetEntries(Installed(entry, old.layer, old.bufs))
      /\ UNCHANGED <<free, handed, slots, policyVars, seqVars, gpuVars, lost, pending, pool>>
  BY DEF ReadEnds, InPhase
<1>1. /\ old.phase \in Busy /\ OneEach(old.bufs)
      /\ LoadSlots = Range(old.bufs) /\ EntrySlots \cap Range(old.bufs) = {}
      /\ DOMAIN old.bufs = {e \in old.sel : entry[<<old.layer, e>>] = None}
      /\ DOMAIN old.bufs \subseteq Expert /\ \A e \in DOMAIN old.bufs : old.bufs[e] \in Slot
  BY <1>0, AllPrepared
<1>2. /\ old.layer \in Layer /\ old.sel \subseteq Expert
      /\ pending = NoLoad /\ pool = "idle" /\ Range(pending.bufs) = {}
  BY <1>1, BusyHolds
<1>3. TypesOK /\ SlotsOK /\ ReadsOK /\ PendingOK
  BY DEF Inv, LoadsOK
<1>4. CallOK(t)' /\ LoadSlots' = {} /\ loader'[t].phase = "done"
  BY <1>0, <1>2, Answered
<1>5. /\ entry' \in [Key -> {None} \cup Slot]
      /\ EntrySlots' = EntrySlots \cup Range(old.bufs)
      /\ \A j, k \in Valid' : entry'[j] = entry'[k] => j = k
      /\ \A k \in Valid : k \in Valid' /\ entry'[k] = entry[k]
      /\ \A e \in DOMAIN old.bufs :
            <<old.layer, e>> \in Valid' /\ entry'[<<old.layer, e>>] = old.bufs[e]
      /\ \A k \in Valid' : k \in Valid \/ \E e \in DOMAIN old.bufs : k = <<old.layer, e>>
  BY <1>0, <1>1, <1>2, EntriesInstalled DEF SetEntries
<1>6. /\ content' \in [Slot -> {Junk} \cup Key]
      /\ \A e \in DOMAIN old.bufs : content'[old.bufs[e]] = <<old.layer, e>>
      /\ \A s \in Slot : s \notin Range(old.bufs) => content'[s] = content[s]
  BY <1>0, <1>1, <1>2, ReadHolds
<1>7. SlotsOK'
  BY <1>0, <1>1, <1>3, <1>4, <1>5 DEF SlotsOK
<1>8. TypesOK' /\ PendingOK'
  BY <1>0, <1>2, <1>3, <1>5, <1>6 DEF TypesOK, PendingOK, policyVars, SetEntries
<1>9. ReadsOK'
  <2>1. \A k \in Valid : entry[k] \in Slot /\ entry[k] \notin Range(old.bufs)
    BY <1>1, <1>3 DEF TypesOK, Valid, EntrySlots
  <2>2. ASSUME NEW k \in Valid' PROVE content'[entry'[k]] = k
    <3>1. CASE k \in Valid
      <4>1. entry'[k] = entry[k] /\ content'[entry[k]] = content[entry[k]]
        BY <1>5, <1>6, <2>1, <3>1
      <4>2. content[entry[k]] = k
        BY <1>3, <3>1 DEF ReadsOK
      <4>. QED BY <4>1, <4>2
    <3>2. ASSUME NEW e \in DOMAIN old.bufs, k = <<old.layer, e>>
          PROVE  content'[entry'[k]] = k
      BY <1>5, <1>6, <3>2
    <3>. QED BY <1>5, <2>2, <3>1, <3>2
  <2>3. pool' = "idle"
    BY <1>0, <1>2
  <2>. QED BY <2>2, <2>3 DEF ReadsOK
<1>10. BindsOK'
  <2>1. \A k \in Key : InFlight(k) => Installed(entry, old.layer, old.bufs)[k] = entry[k]
    BY <1>0, <1>5 DEF InFlight, SetEntries
  <2>. QED BY <1>0, <2>1, BindsKept DEF seqVars, gpuVars
<1>11. Result(t)
  <2>1. \A s \in Slot : s # None
    BY Constants DEF Slot, None
  <2>2. \A e \in old.sel : entry'[<<old.layer, e>>] # None
    <3>. TAKE e \in old.sel
    <3>1. CASE e \in DOMAIN old.bufs
      BY <1>1, <1>5, <2>1, <3>1
    <3>2. CASE e \notin DOMAIN old.bufs
      <4>1. <<old.layer, e>> \in Valid
        BY <1>1, <1>2, <3>2 DEF Valid, Key
      <4>. QED BY <1>5, <4>1 DEF Valid
    <3>. QED BY <3>1, <3>2
  <2>. QED BY <1>4, <2>2 DEF Result
<1>. QED BY <1>4, <1>7, <1>8, <1>9, <1>10, <1>11 DEF LoaderGood

LEMMA ReadFailsGood ==
    ASSUME Inv, NEW t \in Thread, ReadFails(t)
    PROVE  LoaderGood(t)
<1>0. /\ loader[t].phase = "read" /\ loader[t].phase \in Busy /\ ~InPhase(t, "none")
      /\ Goes(t, Answer(FALSE)) /\ lost' = lost \cup (LoaderSlots(t) \cap Slab)
      /\ UNCHANGED <<cacheVars, policyVars, seqVars, gpuVars, content, pending, pool>>
  BY DEF ReadFails, InPhase, Busy
<1>1. LoadSlots = LoaderSlots(t) /\ Range(pending.bufs) = {}
  BY <1>0, BusyHolds DEF LoaderSlots
<1>2. TypesOK /\ SlotsOK /\ ReadsOK /\ PendingOK
  BY DEF Inv, LoadsOK
<1>3. CallOK(t)' /\ LoadSlots' = {} /\ loader'[t].phase = "done" /\ loader'[t].ok = FALSE
  BY <1>0, <1>1, Answered
<1>4. TypesOK' /\ PendingOK' /\ ReadsOK'
  BY <1>0, <1>2 DEF TypesOK, PendingOK, ReadsOK, Valid, cacheVars, policyVars
<1>5. SlotsOK'
  BY <1>0, <1>1, <1>2, <1>3 DEF SlotsOK, EntrySlots, Valid, cacheVars
<1>6. Result(t)
  BY <1>3 DEF Result
<1>. QED BY <1>0, <1>3, <1>4, <1>5, <1>6, SameBinds DEF LoaderGood, cacheVars, seqVars, gpuVars

LEMMA LoaderStepGood ==
    ASSUME Inv, NEW t \in Thread, LoaderStep(t)
    PROVE  LoaderGood(t)
BY LoadMatchedGood, LoadStartGood, TakeBatchGood, PrepareGood, WaitFlushGood, WaitDoneGood,
   LoadPostGood, ReadEndsGood, ReadFailsGood
DEF LoaderStep

-----------------------------------------------------------------------------
(* What the main thread knows of the experts it encodes. *)

(* A call that begins, or that its thread has come back from. *)
LEMMA CallFields ==
    ASSUME NEW kind \in {"begin", "missing"}, NEW l \in {0} \cup Layer, NEW s \in SUBSET Expert
    PROVE  /\ Call(kind, l, s) \in CallSet(Call(kind, l, s).bufs)
           /\ Call(kind, l, s).phase = "start" /\ Call(kind, l, s).kind = kind
           /\ Call(kind, l, s).layer = l /\ Call(kind, l, s).sel = s
           /\ Call(kind, l, s).todo = {} /\ Call(kind, l, s).batch = {}
           /\ DOMAIN Call(kind, l, s).bufs = {}
<1>1. DOMAIN <<>> = {}
  OBVIOUS
<1>2. Away \in CallSet(<<>>)
  BY DEF Away, CallSet, Phase
<1>3. Call(kind, l, s) \in CallSet(<<>>) /\ Call(kind, l, s).bufs = <<>>
  BY <1>2 DEF Call, CallSet, Phase
<1>4. /\ Call(kind, l, s).phase = "start" /\ Call(kind, l, s).kind = kind
      /\ Call(kind, l, s).layer = l /\ Call(kind, l, s).sel = s
      /\ Call(kind, l, s).todo = {} /\ Call(kind, l, s).batch = {}
  BY DEF Call, Away
<1>. QED BY <1>1, <1>3, <1>4

LEMMA AwayFields ==
    /\ Away \in CallSet(Away.bufs) /\ Away.phase = "none"
    /\ Away.todo = {} /\ Away.batch = {} /\ DOMAIN Away.bufs = {}
<1>1. DOMAIN <<>> = {}
  OBVIOUS
<1>2. Away \in CallSet(<<>>) /\ Away.bufs = <<>>
  BY DEF Away, CallSet, Phase
<1>3. Away.phase = "none" /\ Away.todo = {} /\ Away.batch = {}
  BY DEF Away
<1>. QED BY <1>1, <1>2, <1>3

LEMMA SelNext ==
    ASSUME Inv, [Next]_vars
    PROVE  SelOK'
<1>. USE DEF InPhase
<1>0. SelOK /\ HandOK /\ MainOK
  BY DEF Inv, LoadsOK
<1>1. CASE UNCHANGED <<entry, layer, sel, loader, pc>>
  BY <1>0, <1>1 DEF SelOK
<1>2. CASE pc' \notin LoadPlaces \cup {"encode", "join"}
  BY <1>2 DEF SelOK, LoadPlaces
<1>3. CASE Start \/ Finished \/ EndDone \/ Route \/ Synchronize \/ Encode \/ Join \/ Cancel
  BY <1>2, <1>3 DEF Start, Finished, EndDone, Route, Synchronize, Encode, Join, Cancel, LoadPlaces
<1>4. CASE Resize \/ SetPolicy \/ BeginCommands \/ EndCommands \/ Release
  BY <1>2, <1>4 DEF Resize, SetPolicy, BeginCommands, EndCommands, Release, IsOp, LoadPlaces
<1>5. CASE EarlyFlush \/ Shared
  BY <1>2, <1>5 DEF EarlyFlush, Shared, FlushAnd, LoadPlaces
<1>6. ASSUME NEW kind \in {"begin", "missing"}, NEW l \in Layer, NEW s \in SUBSET Expert,
             Goes("main", Call(kind, l, s)), layer' = l, sel' = s,
             pc' \in LoadPlaces, pc' \in {"load", "missing"} => kind = "missing"
      PROVE  SelOK'
  <2>1. loader'["main"] = Call(kind, l, s)
    BY <1>0, <1>6, GoesTo DEF Thread
  <2>2. /\ loader'["main"].phase = "start" /\ loader'["main"].kind = kind
        /\ loader'["main"].layer = l /\ loader'["main"].sel = s
    <3>1. /\ Call(kind, l, s).phase = "start" /\ Call(kind, l, s).kind = kind
          /\ Call(kind, l, s).layer = l /\ Call(kind, l, s).sel = s
      BY DEF Call, Away
    <3>. QED BY <2>1, <3>1
  <2>. QED BY <1>6, <2>2 DEF SelOK, LoadPlaces
<1>7. CASE HashLayer
  <2>1. PICK s \in Routes : sel' = s /\ Goes("main", Call("begin", step.layer, s))
    BY <1>7 DEF HashLayer
  <2>2. step.layer \in Layer /\ s \in SUBSET Expert /\ layer' = step.layer /\ pc' = "hash"
    BY <1>7, Constants DEF HashLayer, Routes
  <2>. QED BY <1>6, <2>1, <2>2 DEF LoadPlaces
<1>8. CASE Finish
  <2>1. /\ pc = "finish" /\ sel' = job.ids /\ layer' = layer /\ job.ids \in SUBSET Expert
        /\ layer \in Layer
    BY <1>0, <1>8 DEF Finish, HandOK, MainOK, LayerPlaces, LoadPlaces, AsyncPlaces
  <2>2. CASE pc' = "retry" /\ CallMain("begin", job.ids)
    BY <1>6, <2>1, <2>2 DEF CallMain, LoadPlaces
  <2>3. CASE pc' \in {"moe", "fail"}
    BY <1>2, <2>3 DEF LoadPlaces
  <2>. QED BY <1>8, <2>2, <2>3 DEF Finish
<1>9. CASE LoadBack
  <2>1. UNCHANGED <<entry, layer, sel>> /\ pc' \notin LoadPlaces
    BY <1>9 DEF LoadBack, Back, cacheVars, LoadPlaces
  <2>2. CASE pc' \in {"encode", "join"}
    <3>1. /\ pc \in {"load", "missing"} /\ InPhase("main", "done") /\ loader["main"].ok = TRUE
      BY <1>9, <2>2 DEF LoadBack, Back
    <3>. QED BY <1>0, <2>1, <3>1 DEF SelOK, LoadPlaces
  <2>. QED BY <1>2, <2>1, <2>2
<1>10. CASE Moe
  <2>1. /\ layer \in Layer /\ sel \in SUBSET Expert /\ UNCHANGED <<entry, layer, sel>>
    BY <1>0, <1>10 DEF Moe, MainOK, LayerPlaces, cacheVars
  <2>2. CASE sel \ ResidentOf(sel) = {} /\ pc' = "encode"
    <3>1. \A e \in sel : entry[<<layer, e>>] # None
      BY <2>2 DEF ResidentOf
    <3>. QED BY <2>1, <2>2, <3>1 DEF SelOK, LoadPlaces
  <2>3. CASE pc' = "split" /\ CallMain("begin", sel)
    BY <1>6, <2>1, <2>3 DEF CallMain, LoadPlaces
  <2>4. CASE pc' = "load" /\ CallMain("missing", sel)
    BY <1>6, <2>1, <2>4 DEF CallMain, LoadPlaces
  <2>. QED BY <1>10, <2>2, <2>3, <2>4 DEF Moe
<1>11. CASE EncodeResident
  <2>1. /\ layer \in Layer /\ sel \in SUBSET Expert /\ UNCHANGED <<layer, sel>>
        /\ pc' = "missing" /\ CallMain("missing", sel)
    BY <1>0, <1>11 DEF EncodeResident, MainOK, LayerPlaces
  <2>. QED BY <1>6, <2>1 DEF CallMain, LoadPlaces
<1>12. CASE LoaderStep("main")
  <2>1. UNCHANGED <<pc, layer, sel>>
    BY <1>12, LoaderFrame DEF placeVars, Thread
  <2>2. Result("main") /\ loader["main"].phase \notin {"none", "done"}
    BY <1>0, <1>12, LoaderStepGood, LoaderPhase DEF LoaderGood, Thread, Inv, LoadsOK
  <2>3. pc \in LoadPlaces
    BY <1>0, <2>2 DEF HandOK
  <2>. QED BY <1>0, <2>1, <2>2, <2>3 DEF SelOK, Result, LoadPlaces
<1>13. CASE LoaderStep("service")
  <2>1. UNCHANGED <<pc, layer, sel>>
    BY <1>13, LoaderFrame DEF placeVars, Thread
  <2>2. loader["service"].phase # "none"
    BY <1>0, <1>13, LoaderPhase DEF Thread, Inv, LoadsOK
  <2>3. pc \in AsyncPlaces
    BY <1>0, <2>2 DEF HandOK
  <2>. QED BY <1>2, <2>1, <2>3 DEF LoadPlaces, AsyncPlaces
<1>14. CASE ServiceTake \/ ServiceTimeout \/ GpuSignal \/ GpuDone \/ PoolReads \/ PoolFails
            \/ UNCHANGED vars
  BY <1>1, <1>14 DEF ServiceTake, ServiceTimeout, GpuSignal, GpuDone, PoolReads, PoolFails,
                     vars, cacheVars, placeVars, loadVars
<1>15. CASE ServiceReady \/ ServiceDone
  <2>1. pc \in AsyncPlaces /\ pc' = pc
    BY <1>0, <1>15 DEF ServiceReady, ServiceDone, HandOK, placeVars
  <2>. QED BY <1>2, <2>1 DEF LoadPlaces, AsyncPlaces
<1>. QED
  BY <1>3, <1>4, <1>5, <1>7, <1>8, <1>9, <1>10, <1>11, <1>12, <1>13, <1>14, <1>15
  DEF Next, MainStep, ServiceStep

-----------------------------------------------------------------------------
(* The cache under the steps outside the loader. *)

CallsOK == CallOK("main") /\ CallOK("service")
CacheOK == TypesOK /\ CallsOK /\ PendingOK /\ SlotsOK /\ ReadsOK /\ BindsOK

(* Steps that leave the entries and the loads alone. *)
LEMMA SameCalls ==
    ASSUME Inv, UNCHANGED <<entry, pending, loader>>
    PROVE  CallsOK' /\ LoadSlots' = LoadSlots
<1>1. CallOK("main") /\ CallOK("service")
  BY DEF Inv, LoadsOK
<1>2. CallOK("main")' /\ CallOK("service")'
  BY <1>1 DEF CallOK, CallTypes, Back2
<1>. QED BY <1>2 DEF CallsOK, LoadSlots, LoaderSlots

(* A call begins, or its thread has come back from it. *)
LEMMA NewCall ==
    ASSUME Inv, NEW t \in Thread, loader[t].phase \in {"none", "done"}, NEW ld, Goes(t, ld),
           ld \in CallSet(ld.bufs), ld.phase \in {"none", "start"}, ld.todo = {}, ld.batch = {},
           DOMAIN ld.bufs = {}, ld.phase = "start" => ld.layer \in Layer,
           pending' = pending,
           entry' = entry \/ \A u \in Thread : InPhase(u, "none")
    PROVE  CallsOK' /\ LoadSlots' = LoadSlots
<1>1. loader'[t] = ld /\ \A u \in Thread \ {t} : loader'[u] = loader[u]
  BY GoesTo DEF Inv
<1>2. \A u \in Thread : CallOK(u)
  BY DEF Inv, LoadsOK, Thread
<1>3. CallOK(t)'
  BY <1>1 DEF CallOK, CallTypes, Back2, Busy
<1>4. \A u \in Thread \ {t} : CallOK(u)'
  <2>. TAKE u \in Thread \ {t}
  <2>1. CASE entry' = entry
    BY <1>1, <1>2, <2>1 DEF CallOK, CallTypes, Back2
  <2>2. CASE InPhase(u, "none")
    BY <1>1, <1>2, <2>2 DEF CallOK, CallTypes, Back2, InPhase, Busy
  <2>. QED BY <2>1, <2>2
<1>5. \A u \in Thread : LoaderSlots(u)' = LoaderSlots(u)
  <2>1. LoaderSlots(t) = {}
    BY <1>2 DEF CallOK, Busy, LoaderSlots, Range
  <2>2. Range(ld.bufs) \cup ld.batch = {}
    BY DEF Range
  <2>. QED BY <1>1, <2>1, <2>2 DEF LoaderSlots
<1>. QED BY <1>3, <1>4, <1>5 DEF CallsOK, LoadSlots, Thread

LEMMA BackHome ==
    ASSUME Inv, NEW t \in Thread, loader[t].phase = "done", Goes(t, Away),
           UNCHANGED <<entry, pending>>
    PROVE  CallsOK' /\ LoadSlots' = LoadSlots
BY AwayFields, NewCall

LEMMA CallBegins ==
    ASSUME Inv, NEW t \in Thread, InPhase(t, "none"), NEW kind \in {"begin", "missing"},
           NEW l \in Layer, NEW s \in SUBSET Expert, Goes(t, Call(kind, l, s)), pending' = pending,
           entry' = entry \/ \A u \in Thread : InPhase(u, "none")
    PROVE  CallsOK' /\ LoadSlots' = LoadSlots
<1>. DEFINE ld == Call(kind, l, s)
<1>1. l \in {0} \cup Layer
  OBVIOUS
<1>2. ld \in CallSet(ld.bufs)
  BY <1>1, CallFields
<1>3. ld.todo = {} /\ ld.batch = {} /\ DOMAIN ld.bufs = {} /\ ld.phase = "start" /\ ld.layer = l
  BY DEF Call, Away
<1>4. Goes(t, ld) /\ loader[t].phase \in {"none", "done"}
  BY DEF InPhase
<1>. HIDE DEF ld
<1>. QED BY <1>2, <1>3, <1>4, NewCall

(* Nobody is in the loader where the main thread neither waits for a load nor
   for an answer. *)
LEMMA NobodyIn ==
    ASSUME Inv, pc \notin LoadPlaces \cup AsyncPlaces
    PROVE  /\ \A u \in Thread : InPhase(u, "none")
           /\ LoadSlots = Range(pending.bufs)
<1>1. \A u \in Thread : InPhase(u, "none") /\ CallOK(u)
  BY DEF Inv, HandOK, LoadsOK, Thread
<1>2. \A u \in Thread : LoaderSlots(u) = {}
  BY <1>1 DEF CallOK, InPhase, Busy, LoaderSlots, Range
<1>. QED BY <1>1, <1>2 DEF LoadSlots, Thread

LEMMA SameCacheCalls ==
    ASSUME Inv, UNCHANGED <<entry, mark, free, handed, slots, lost, content, pending, pool>>,
           CallsOK', LoadSlots' = LoadSlots, BindsOK',
           budget' \in 1 .. MaxBudget, policy' \in {"none", "lru", "probation"},
           previous' \in [Layer -> SUBSET Expert]
    PROVE  CacheOK'
<1>1. TypesOK /\ PendingOK /\ SlotsOK /\ ReadsOK
  BY DEF Inv, LoadsOK
<1>2. TypesOK' /\ PendingOK'
  BY <1>1 DEF TypesOK, PendingOK
<1>3. SlotsOK' /\ ReadsOK'
  BY <1>1 DEF SlotsOK, ReadsOK, EntrySlots, Valid
<1>. QED BY <1>2, <1>3 DEF CacheOK

(* Entries are cleared that are not in flight, and their slots freed. *)
LEMMA PrunedCache ==
    ASSUME Inv, NEW ks \in SUBSET Key, entry' = Cleared(ks), free' = free \cup SlotsOf(ks),
           mark' \in [Key -> Nat], LoadSlots' = LoadSlots, CallsOK', BindsOK',
           UNCHANGED <<handed, slots, lost, content, pending, pool, budget, policy, previous>>
    PROVE  CacheOK'
<1>1. TypesOK /\ PendingOK /\ SlotsOK /\ ReadsOK
  BY DEF Inv, LoadsOK
<1>2. /\ entry' \in [Key -> {None} \cup Slot]
      /\ EntrySlots' = EntrySlots \ Freed(ks) /\ Freed(ks) \subseteq EntrySlots
      /\ \A j, k \in Valid' : entry'[j] = entry'[k] => j = k
      /\ \A k \in Valid' : k \in Valid /\ entry'[k] = entry[k]
      /\ \A k \in Key : entry[k] = None => entry'[k] = None
  BY EntriesCleared
<1>3. SlotsOf(ks) = Freed(ks) \cap Slab
  BY DEF SlotsOf, Freed
<1>4. SlotsOK'
  BY <1>1, <1>2, <1>3 DEF SlotsOK
<1>5. TypesOK' /\ ReadsOK'
  BY <1>1, <1>2, <1>3 DEF TypesOK, ReadsOK
<1>6. PendingOK'
  <2>1. pending # NoLoad => \A e \in DOMAIN pending.bufs : <<pending.layer, e>> \in Key
    BY <1>1 DEF PendingOK, Key
  <2>. QED BY <1>1, <1>2, <2>1 DEF PendingOK
<1>. QED BY <1>4, <1>5, <1>6 DEF CacheOK

(* Experts that have an entry are encoded, and victims go. *)
LEMMA PrunedBinds ==
    ASSUME Inv, step.op = "layer", layer \in Layer, NEW pruned \in SUBSET Valid, Prune(pruned),
           entry' = Cleared(pruned), NEW s \in SUBSET sel,
           mark' = MarkedIn(Cleared(pruned), batchSeq, s),
           \A e \in s : entry[<<layer, e>>] # None
    PROVE  /\ pruned \in SUBSET Key /\ mark' \in [Key -> Nat] /\ free' = free \cup SlotsOf(pruned)
           /\ open \in BufferType /\ Bound(open, s) \in BufferType /\ Bound(open, s) # NoBuffer
           /\ \A b \in Bound(open, s).binds : entry'[b[2]] = b[1] /\ mark'[b[2]] >= batchSeq
           /\ \A cb \in Range(queue) : \A b \in cb.binds :
                 entry'[b[2]] = b[1] /\ (mark'[b[2]] = mark[b[2]] \/ mark'[b[2]] = batchSeq)
           /\ batchSeq > doneSeq /\ batchSeq > pendingMax
<1>0. TypesOK /\ GpuOK /\ SeqOK /\ MainOK /\ BindsOK
  BY DEF Inv
<1>1. open # NoBuffer /\ open \in BufferType /\ batchSeq > doneSeq /\ batchSeq > pendingMax
      /\ batchSeq \in Nat
  BY <1>0, OpenType DEF GpuOK, SeqOK
<1>2. pruned \in SUBSET Key /\ free' = free \cup SlotsOf(pruned)
      /\ \A k \in pruned : ~InFlight(k) /\ ~(k[1] = layer /\ k[2] \in sel)
  BY DEF Prune, Victims, Protected, Valid
<1>3. mark' \in [Key -> Nat]
  BY <1>0, <1>1 DEF MarkedIn, TypesOK
<1>4. /\ s \in SUBSET Expert
      /\ Bound(open, s) \in BufferType
      /\ Bound(open, s).binds
            = open.binds \cup {<<entry[<<layer, e>>], <<layer, e>>>> : e \in s}
      /\ Bound(open, s).event = open.event
  <2>1. s \in SUBSET Expert
    BY <1>0 DEF MainOK
  <2>. QED BY <1>0, <1>1, <2>1, BoundType
<1>5. Bound(open, s) # NoBuffer
  BY <1>4 DEF BufferType, NoBuffer
<1>6. /\ \A k \in Key : InFlight(k) => entry'[k] = entry[k]
      /\ \A k \in Key \ pruned : entry'[k] = entry[k]
  BY <1>2, EntriesCleared
<1>7. \A k \in Key : entry'[k] = entry[k] => mark'[k] = mark[k] \/ mark'[k] = batchSeq
  BY DEF MarkedIn
<1>8. \A cb \in Range(queue) \cup {open} : \A b \in cb.binds :
         /\ b[2] \in Key /\ entry'[b[2]] = b[1]
         /\ mark'[b[2]] = mark[b[2]] \/ mark'[b[2]] = batchSeq
  BY <1>6, <1>7, BoundInFlight
<1>9. \A e \in s : /\ entry'[<<layer, e>>] = entry[<<layer, e>>]
                   /\ mark'[<<layer, e>>] = batchSeq
  <2>. TAKE e \in s
  <2>1. <<layer, e>> \in Key /\ <<layer, e>> \notin pruned
    BY <1>2, <1>4 DEF Key
  <2>. QED BY <1>6, <2>1 DEF MarkedIn
<1>10. \A b \in open.binds : mark[b[2]] >= batchSeq
  BY <1>0 DEF BindsOK
<1>11. \A b \in Bound(open, s).binds : entry'[b[2]] = b[1] /\ mark'[b[2]] >= batchSeq
  <2>. TAKE b \in Bound(open, s).binds
  <2>1. CASE b \in open.binds
    BY <1>1, <1>8, <1>10, <2>1
  <2>2. CASE \E e \in s : b = <<entry[<<layer, e>>], <<layer, e>>>>
    BY <1>1, <1>9, <2>2
  <2>. QED BY <1>4, <2>1, <2>2
<1>. QED BY <1>1, <1>2, <1>3, <1>4, <1>5, <1>8, <1>11

LEMMA IdleCalls ==
    ASSUME Inv, \A u \in Thread : InPhase(u, "none"), UNCHANGED <<loader, pending>>
    PROVE  CallsOK' /\ LoadSlots' = LoadSlots
<1>1. CallOK("main") /\ CallOK("service") /\ InPhase("main", "none") /\ InPhase("service", "none")
  BY DEF Inv, LoadsOK, Thread
<1>2. CallOK("main")' /\ CallOK("service")'
  BY <1>1 DEF CallOK, CallTypes, Back2, InPhase, Busy
<1>. QED BY <1>2 DEF CallsOK, LoadSlots, LoaderSlots

LEMMA CacheNext ==
    ASSUME Inv, [Next]_vars
    PROVE  CacheOK'
<1>. USE DEF cacheVars, policyVars, seqVars, gpuVars, loadVars
<1>0. /\ MainOK /\ GpuOK /\ SeqOK /\ HandOK /\ TypesOK /\ SelOK
      /\ "main" \in Thread /\ "service" \in Thread
  BY DEF Inv, LoadsOK, Thread
<1>1. ASSUME UNCHANGED <<entry, mark, free, handed, slots, lost, content, pending, pool, loader>>,
             BindsOK', budget' \in 1 .. MaxBudget, policy' \in {"none", "lru", "probation"},
             previous' \in [Layer -> SUBSET Expert]
      PROVE  CacheOK'
  BY <1>1, SameCalls, SameCacheCalls
<1>2. ASSUME UNCHANGED <<entry, mark, free, handed, slots, lost, content, pending, pool, loader>>,
             UNCHANGED policyVars, BindsOK'
      PROVE  CacheOK'
  BY <1>0, <1>1, <1>2 DEF TypesOK
<1>3. CASE Start \/ Finished \/ Cancel \/ ServiceTake \/ ServiceTimeout \/ GpuSignal \/ UNCHANGED vars
  <2>1. UNCHANGED <<cacheVars, policyVars, seqVars, open, queue, loadVars>>
    BY <1>3 DEF Start, Finished, Cancel, ServiceTake, ServiceTimeout, GpuSignal, vars
  <2>. QED BY <1>2, <2>1, SameBinds
<1>4. CASE SetPolicy
  <2>1. UNCHANGED <<cacheVars, budget, seqVars, gpuVars, loadVars>>
    BY <1>4 DEF SetPolicy
  <2>2. policy' \in {"none", "lru", "probation"} /\ previous' \in [Layer -> SUBSET Expert]
    BY <1>4 DEF SetPolicy
  <2>. QED BY <1>0, <1>1, <2>1, <2>2, SameBinds DEF TypesOK
<1>5. CASE Resize
  <2>1. budget' \in 1 .. MaxBudget /\ policy' = policy /\ previous' = previous /\ loader' = loader
        /\ UNCHANGED <<open, queue>>
    <3>1. served # 0
      BY <1>0, <1>5 DEF Resize, IsOp, MainOK
    <3>. QED BY <1>0, <1>5, <3>1, RequestType DEF Resize
  <2>2. CASE UNCHANGED <<cacheVars, content, lost, pending, pool, doneSeq, batchSeq>>
    BY <1>0, <1>1, <2>1, <2>2, SameBinds DEF TypesOK
  <2>3. CASE ClearAll
    <3>1. pc = "op" /\ step.op = "resize"
      BY <1>5 DEF Resize, IsOp
    <3>2. queue = <<>> /\ open = NoBuffer
      BY <1>0, <3>1 DEF GpuOK
    <3>3. BindsOK'
      <4>1. Range(queue') = {} /\ open'.binds = {}
        BY <2>1, <3>2 DEF Range, NoBuffer
      <4>. QED BY <4>1 DEF BindsOK
    <3>4. \A u \in Thread : InPhase(u, "none")
      BY <3>1, NobodyIn DEF LoadPlaces, AsyncPlaces
    <3>5. CallsOK' /\ LoadSlots' = {}
      <4>1. \A u \in Thread : CallOK(u) /\ loader'[u] = loader[u]
        BY <2>1 DEF Inv, LoadsOK, Thread
      <4>2. \A u \in Thread : CallOK(u)'
        BY <3>4, <4>1 DEF CallOK, CallTypes, Back2, InPhase, Busy
      <4>3. \A u \in Thread : LoaderSlots(u)' = {}
        BY <3>4, <4>1 DEF CallOK, InPhase, Busy, LoaderSlots, Range
      <4>4. Range(pending'.bufs) = {}
        BY <2>3 DEF ClearAll, NoLoad, Range
      <4>. QED BY <1>0, <4>2, <4>3, <4>4 DEF CallsOK, LoadSlots
    <3>6. Valid' = {} /\ EntrySlots' = {}
      BY <2>3 DEF ClearAll, Valid, EntrySlots
    <3>7. TypesOK'
      BY <1>0, <2>1, <2>3, Constants DEF TypesOK, ClearAll
    <3>8. PendingOK' /\ ReadsOK'
      BY <2>3, <3>6 DEF ClearAll, PendingOK, ReadsOK
    <3>9. SlotsOK'
      BY <2>3, <3>5, <3>6 DEF ClearAll, SlotsOK
    <3>. QED BY <3>3, <3>5, <3>7, <3>8, <3>9 DEF CacheOK
  <2>. QED BY <1>5, <2>2, <2>3 DEF Resize
<1>6. CASE BeginCommands
  <2>1. UNCHANGED <<cacheVars, policyVars, doneSeq, queue, loadVars>> /\ open' = Buffer
    BY <1>6 DEF BeginCommands
  <2>2. BindsOK'
    BY <2>1 DEF Inv, BindsOK, Buffer
  <2>. QED BY <1>2, <2>1, <2>2
<1>7. CASE EndCommands \/ Synchronize
  <2>1. UNCHANGED <<cacheVars, policyVars, doneSeq, loadVars>> /\ queue' = Append(queue, open)
        /\ open' = NoBuffer
    BY <1>7 DEF EndCommands, Synchronize, Commit
  <2>2. step.op \in {"layer", "end"}
    BY <1>0, <1>7 DEF EndCommands, Synchronize, IsOp, MainOK, LayerPlaces
  <2>3. queue \in Seq(BufferType) /\ open \in BufferType
    BY <1>0, <2>2, OpenType DEF GpuOK, BufferType
  <2>4. Range(queue') = Range(queue) \cup {open}
    BY <2>1, <2>3 DEF Range
  <2>5. BindsOK'
    BY <2>1, <2>4, BoundInFlight DEF BindsOK, NoBuffer, InFlight
  <2>. QED BY <1>2, <2>1, <2>5
<1>8. CASE EndDone
  <2>1. UNCHANGED <<cacheVars, policyVars, batchSeq, gpuVars, loadVars>> /\ queue = <<>>
    BY <1>8 DEF EndDone
  <2>. QED BY <1>2, <2>1, SameBinds
<1>9. CASE Route
  <2>1. UNCHANGED <<cacheVars, policyVars, seqVars, queue, loadVars>>
        /\ open' = [open EXCEPT !.event = eventValue + 1]
    BY <1>9 DEF Route
  <2>2. open'.binds = open.binds
    BY <1>0, <2>1 DEF GpuOK
  <2>3. BindsOK'
    BY <2>1, <2>2 DEF Inv, BindsOK
  <2>. QED BY <1>2, <2>1, <2>3
<1>10. CASE EarlyFlush \/ Shared
  <2>1. UNCHANGED <<cacheVars, policyVars, doneSeq, loadVars>> /\ Flush /\ step.op = "layer"
    BY <1>0, <1>10 DEF EarlyFlush, Shared, FlushAnd, MainOK, LayerPlaces, AsyncPlaces
  <2>2. BindsOK'
    BY <1>0, <2>1, OpenFlushed DEF GpuOK
  <2>. QED BY <1>2, <2>1, <2>2
<1>11. CASE GpuDone
  <2>1. UNCHANGED <<cacheVars, policyVars, seqVars, open, loadVars>>
        /\ queue # <<>> /\ queue' = Tail(queue)
    BY <1>11 DEF GpuDone
  <2>2. Range(queue') \subseteq Range(queue)
    <3>1. queue \in Seq(BufferType)
      BY <1>0 DEF GpuOK, BufferType
    <3>. QED BY <2>1, <3>1 DEF Range
  <2>3. BindsOK'
    BY <2>1, <2>2 DEF Inv, BindsOK
  <2>. QED BY <1>2, <2>1, <2>3
<1>12. ASSUME UNCHANGED <<cacheVars, policyVars, seqVars, gpuVars, content, lost, pending, pool>>,
              CallsOK', LoadSlots' = LoadSlots
       PROVE  CacheOK'
  BY <1>0, <1>12, SameCacheCalls, SameBinds DEF TypesOK
<1>13. CASE HashLayer
  <2>1. PICK s \in Routes : Goes("main", Call("begin", step.layer, s))
    BY <1>13 DEF HashLayer
  <2>2. step.layer \in Layer /\ s \in SUBSET Expert /\ pc = "op"
        /\ UNCHANGED <<cacheVars, policyVars, seqVars, gpuVars, content, lost, pending, pool>>
    BY <1>13, Constants DEF HashLayer, Routes, IsOp
  <2>3. InPhase("main", "none")
    BY <1>0, <2>2, NobodyIn DEF LoadPlaces, AsyncPlaces
  <2>. QED BY <1>0, <1>12, <2>1, <2>2, <2>3, CallBegins
<1>14. CASE Finish
  <2>1. UNCHANGED <<cacheVars, policyVars, seqVars, gpuVars, content, lost, pending, pool>>
    BY <1>14 DEF Finish
  <2>2. CASE loader' = loader
    BY <1>12, <2>1, <2>2, SameCalls
  <2>3. CASE CallMain("begin", job.ids)
    <3>1. layer \in Layer /\ job.ids \in SUBSET Expert /\ InPhase("main", "none")
      BY <1>0, <1>14 DEF Finish, HandOK, MainOK, LayerPlaces, LoadPlaces, AsyncPlaces
    <3>. QED BY <1>0, <1>12, <2>1, <2>3, <3>1, CallBegins DEF CallMain
  <2>. QED BY <1>14, <2>2, <2>3 DEF Finish
<1>15. CASE LoadBack
  <2>1. UNCHANGED <<cacheVars, policyVars, seqVars, gpuVars, content, lost, pending, pool>>
        /\ InPhase("main", "done") /\ Goes("main", Away)
    BY <1>15 DEF LoadBack, Back
  <2>. QED BY <1>0, <1>12, <2>1, BackHome DEF InPhase
<1>16. CASE Moe
  <2>1. UNCHANGED <<cacheVars, policyVars, seqVars, gpuVars, content, lost, pending, pool>>
        /\ pc = "moe"
    BY <1>16 DEF Moe
  <2>2. CASE loader' = loader
    BY <1>12, <2>1, <2>2, SameCalls
  <2>3. ASSUME NEW kind \in {"begin", "missing"}, CallMain(kind, sel)
        PROVE  CacheOK'
    <3>1. layer \in Layer /\ sel \in SUBSET Expert /\ InPhase("main", "none")
      BY <1>0, <2>1, NobodyIn DEF MainOK, LayerPlaces, LoadPlaces, AsyncPlaces
    <3>. QED BY <1>0, <1>12, <2>1, <2>3, <3>1, CallBegins DEF CallMain
  <2>. QED BY <1>16, <2>2, <2>3 DEF Moe
<1>17. CASE Encode \/ Join
  <2>1. PICK pruned \in SUBSET Valid :
           /\ Prune(pruned) /\ entry' = Cleared(pruned)
           /\ mark' = MarkedIn(Cleared(pruned), batchSeq, sel)
    BY <1>17 DEF Encode, Join
  <2>2. /\ pc \in {"encode", "join"} /\ open' = Bound(open, sel)
        /\ UNCHANGED <<handed, slots, policyVars, batchSeq, queue, loadVars>>
        /\ doneSeq' = doneSeq \/ queue = <<>>
    BY <1>17 DEF Encode, Join, PendingDone
  <2>3. /\ step.op = "layer" /\ layer \in Layer /\ \A e \in sel : entry[<<layer, e>>] # None
    BY <1>0, <2>2 DEF MainOK, LayerPlaces, LoadPlaces, AsyncPlaces, SelOK
  <2>4. /\ pruned \in SUBSET Key /\ mark' \in [Key -> Nat] /\ free' = free \cup SlotsOf(pruned)
        /\ \A b \in Bound(open, sel).binds : entry'[b[2]] = b[1] /\ mark'[b[2]] >= batchSeq
        /\ \A cb \in Range(queue) : \A b \in cb.binds :
              entry'[b[2]] = b[1] /\ (mark'[b[2]] = mark[b[2]] \/ mark'[b[2]] = batchSeq)
        /\ batchSeq > doneSeq
    BY <2>1, <2>3, PrunedBinds
  <2>5. BindsOK'
    <3>1. \A b \in open'.binds : entry'[b[2]] = b[1] /\ mark'[b[2]] >= batchSeq'
      BY <2>2, <2>4
    <3>2. \A cb \in Range(queue) : \A b \in cb.binds : mark[b[2]] > doneSeq
      BY DEF Inv, BindsOK
    <3>3. queue = <<>> => Range(queue) = {}
      BY DEF Range
    <3>. QED BY <2>2, <2>4, <3>1, <3>2, <3>3 DEF BindsOK
  <2>6. \A u \in Thread : InPhase(u, "none")
    BY <2>2, NobodyIn DEF LoadPlaces, AsyncPlaces
  <2>7. CallsOK' /\ LoadSlots' = LoadSlots
    BY <2>2, <2>6, IdleCalls
  <2>. QED BY <2>1, <2>2, <2>4, <2>5, <2>7, PrunedCache
<1>18. CASE EncodeResident
  <2>. DEFINE s == ResidentOf(sel)
  <2>1. PICK pruned \in SUBSET Valid :
           /\ Prune(pruned) /\ entry' = Cleared(pruned)
           /\ mark' = MarkedIn(Cleared(pruned), batchSeq, s)
    BY <1>18 DEF EncodeResident
  <2>2. /\ pc = "resident" /\ FlushOf(Bound(open, s)) /\ CallMain("missing", sel)
        /\ UNCHANGED <<handed, slots, policyVars, doneSeq, content, lost, pending, pool>>
    BY <1>18 DEF EncodeResident
  <2>3. /\ step.op = "layer" /\ layer \in Layer /\ sel \in SUBSET Expert /\ s \in SUBSET sel
        /\ \A e \in s : entry[<<layer, e>>] # None
    BY <1>0, <2>2 DEF MainOK, LayerPlaces, LoadPlaces, AsyncPlaces, ResidentOf
  <2>. HIDE DEF s
  <2>4. /\ pruned \in SUBSET Key /\ mark' \in [Key -> Nat] /\ free' = free \cup SlotsOf(pruned)
        /\ Bound(open, s) \in BufferType
        /\ \A b \in Bound(open, s).binds : entry'[b[2]] = b[1] /\ mark'[b[2]] >= batchSeq
        /\ \A cb \in Range(queue) : \A b \in cb.binds :
              entry'[b[2]] = b[1] /\ (mark'[b[2]] = mark[b[2]] \/ mark'[b[2]] = batchSeq)
        /\ batchSeq > doneSeq
    BY <2>1, <2>3, PrunedBinds
  <2>5. BindsOK'
    <3>1. \A c \in Range(queue) \cup {Bound(open, s)} : \A b \in c.binds :
             b[2] \in Key /\ entry'[b[2]] = b[1]
      <4>1. \A b \in Bound(open, s).binds : b[2] \in Key
        BY <2>4 DEF BufferType, Binds
      <4>. QED BY <2>4, <4>1, BoundInFlight
    <3>2. \A c \in Range(queue) \cup {Bound(open, s)} : \A b \in c.binds : mark'[b[2]] > doneSeq
      <4>1. \A c \in Range(queue) : \A b \in c.binds : mark[b[2]] > doneSeq
        BY DEF Inv, BindsOK
      <4>2. batchSeq \in Nat /\ doneSeq \in Nat
        BY <1>0 DEF SeqOK
      <4>. QED BY <2>4, <3>1, <4>1, <4>2
    <3>. QED BY <2>2, <2>4, <3>1, <3>2, FlushBinds
  <2>6. \A u \in Thread : InPhase(u, "none")
    BY <2>2, NobodyIn DEF LoadPlaces, AsyncPlaces
  <2>7. CallsOK' /\ LoadSlots' = LoadSlots
    BY <1>0, <2>2, <2>3, <2>6, CallBegins DEF CallMain
  <2>. QED BY <2>1, <2>2, <2>4, <2>5, <2>7, PrunedCache
<1>19. CASE Release
  <2>. DEFINE ks == Released(step.layer)
  <2>1. /\ SetEntries(Cleared(ks)) /\ free' = free \cup SlotsOf(ks) /\ pc = "op"
        /\ UNCHANGED <<handed, slots, policyVars, seqVars, gpuVars, loadVars>>
    BY <1>19 DEF Release, Clear, IsOp
  <2>2. ks \in SUBSET Key
    <3>1. step.layer \in Layer
      BY <1>0, <1>19 DEF Release, IsOp, MainOK, Steps, NoStep, Step
    <3>. QED BY <3>1 DEF Released, Key
  <2>. HIDE DEF ks
  <2>3. entry' = Cleared(ks) /\ mark' \in [Key -> Nat]
    BY <1>0, <2>1 DEF SetEntries, TypesOK
  <2>4. \A k \in Key : InFlight(k) => Cleared(ks)[k] = entry[k]
    BY <2>2, <2>3, EntriesCleared
  <2>5. BindsOK'
    BY <2>1, <2>4, BindsKept
  <2>6. \A u \in Thread : InPhase(u, "none")
    BY <2>1, NobodyIn DEF LoadPlaces, AsyncPlaces
  <2>7. CallsOK' /\ LoadSlots' = LoadSlots
    BY <2>1, <2>6, IdleCalls
  <2>. QED BY <2>1, <2>2, <2>3, <2>5, <2>7, PrunedCache
<1>20. CASE \E t \in Thread : LoaderStep(t)
  <2>1. PICK t \in Thread : LoaderStep(t)
    BY <1>20
  <2>2. LoaderGood(t) /\ ~InPhase(t, "none")
    BY <1>0, <2>1, LoaderStepGood, LoaderPhase DEF InPhase, Inv, LoadsOK, Thread
  <2>3. \A u \in Thread \ {t} : CallOK(u)'
    <3>1. \A u \in Thread \ {t} : InPhase(u, "none") /\ CallOK(u) /\ loader'[u] = loader[u]
      BY <1>0, <2>1, <2>2, Alone, LoaderPhase DEF Inv, LoadsOK, Thread
    <3>. QED BY <3>1 DEF CallOK, CallTypes, Back2, InPhase, Busy
  <2>. QED BY <2>2, <2>3 DEF LoaderGood, CacheOK, CallsOK, Thread
<1>21. CASE ServiceReady
  <2>1. PICK ids \in Routes : Goes("service", Call("begin", job.layer, ids))
    BY <1>21 DEF ServiceReady
  <2>2. /\ service = "event"
        /\ UNCHANGED <<cacheVars, policyVars, seqVars, gpuVars, content, lost, pending, pool>>
    BY <1>21 DEF ServiceReady
  <2>3. /\ job.layer \in Layer /\ ids \in SUBSET Expert /\ InPhase("service", "none")
    BY <1>0, <2>2 DEF HandOK, MainOK, LayerPlaces, AsyncPlaces, LoadPlaces, Routes
  <2>. QED BY <1>0, <1>12, <2>1, <2>2, <2>3, CallBegins
<1>22. CASE ServiceDone
  <2>1. UNCHANGED <<cacheVars, policyVars, seqVars, gpuVars, content, lost, pending, pool>>
        /\ InPhase("service", "done") /\ Goes("service", Away)
    BY <1>22 DEF ServiceDone
  <2>. QED BY <1>0, <1>12, <2>1, BackHome DEF InPhase
<1>23. CASE PoolReads
  <2>. DEFINE l == pending.layer  bufs == pending.bufs
  <2>1. /\ pool = "busy" /\ pool' = "good" /\ content' = ReadInto(l, bufs)
        /\ UNCHANGED <<cacheVars, policyVars, seqVars, gpuVars, lost, pending, loader>>
    BY <1>23 DEF PoolReads
  <2>2. /\ PendingOK /\ SlotsOK /\ ReadsOK /\ pending # NoLoad
    BY <2>1 DEF Inv, LoadsOK, PendingOK
  <2>3. /\ l \in Layer /\ DOMAIN bufs \subseteq Expert /\ OneEach(bufs)
        /\ \A e \in DOMAIN bufs : bufs[e] \in Slot
    BY <2>2 DEF PendingOK
  <2>4. /\ content' \in [Slot -> {Junk} \cup Key]
        /\ \A e \in DOMAIN bufs : content'[bufs[e]] = <<l, e>>
        /\ \A x \in Slot : x \notin Range(bufs) => content'[x] = content[x]
    BY <2>1, <2>3, ReadHolds
  <2>5. TypesOK' /\ PendingOK'
    BY <1>0, <2>1, <2>2, <2>4 DEF TypesOK, PendingOK
  <2>6. CallsOK' /\ LoadSlots' = LoadSlots
    BY <2>1, SameCalls
  <2>7. SlotsOK'
    BY <2>1, <2>2, <2>6 DEF SlotsOK, EntrySlots, Valid
  <2>8. ReadsOK'
    <3>1. \A k \in Valid : entry[k] \in Slot /\ entry[k] \notin Range(bufs)
      BY <1>0, <2>2 DEF TypesOK, Valid, SlotsOK, EntrySlots, LoadSlots
    <3>. QED BY <2>1, <2>2, <2>4, <3>1 DEF ReadsOK, Valid
  <2>. QED BY <2>1, <2>5, <2>6, <2>7, <2>8, SameBinds DEF CacheOK
<1>24. CASE PoolFails
  <2>1. /\ pool = "busy" /\ pool' = "bad"
        /\ UNCHANGED <<cacheVars, policyVars, seqVars, gpuVars, content, lost, pending, loader>>
    BY <1>24 DEF PoolFails
  <2>2. PendingOK /\ SlotsOK /\ ReadsOK
    BY DEF Inv, LoadsOK
  <2>3. TypesOK' /\ PendingOK'
    BY <1>0, <2>1, <2>2 DEF TypesOK, PendingOK
  <2>4. CallsOK' /\ LoadSlots' = LoadSlots
    BY <2>1, SameCalls
  <2>5. SlotsOK' /\ ReadsOK'
    BY <2>1, <2>2, <2>4 DEF SlotsOK, EntrySlots, Valid, ReadsOK
  <2>. QED BY <2>1, <2>3, <2>4, <2>5, SameBinds DEF CacheOK
<1>. QED
  BY <1>3, <1>4, <1>5, <1>6, <1>7, <1>8, <1>9, <1>10, <1>11, <1>13, <1>14, <1>15, <1>16, <1>17,
     <1>18, <1>19, <1>20, <1>21, <1>22, <1>23, <1>24
  DEF Next, MainStep, ServiceStep, Thread

-----------------------------------------------------------------------------
(* The invariant, and the theorems. *)

LEMMA InvInit ==
    ASSUME Init
    PROVE  Inv
<1>. USE DEF Init
<1>1. /\ "main" \in Thread /\ "service" \in Thread
      /\ \A t \in Thread : loader[t] = Away
  BY DEF Thread
<1>2. MainOK
  BY Constants DEF MainOK, Places, LayerPlaces, LoadPlaces, AsyncPlaces, Steps, NoStep, Step
<1>3. GpuOK
  BY DEF GpuOK, NoBuffer, Binds, NoStep, Step
<1>4. SeqOK
  BY DEF SeqOK
<1>5. HandOK
  BY <1>1, AwayFields DEF HandOK, NoJob, InPhase, LoadPlaces, AsyncPlaces, Thread
<1>6. TypesOK
  <2>1. 1 .. StartBudget \subseteq Slab /\ StartBudget \in 0 .. MaxBudget
    BY Constants DEF Slab
  <2>. QED BY <2>1, Constants DEF TypesOK, None
<1>7. \A t \in Thread : CallOK(t) /\ LoaderSlots(t) = {}
  BY <1>1, AwayFields DEF CallOK, CallTypes, Busy, Back2, LoaderSlots, Range
<1>8. PendingOK
  BY DEF PendingOK
<1>9. SelOK
  BY <1>1, AwayFields DEF SelOK, LoadPlaces
<1>10. Valid = {} /\ EntrySlots = {} /\ LoadSlots = {}
  <2>1. Range(pending.bufs) = {}
    BY DEF NoLoad, Range
  <2>. QED BY <1>1, <1>7, <2>1 DEF Valid, EntrySlots, LoadSlots
<1>11. SlotsOK
  <2>1. (1 .. StartBudget) \cap Slab = 1 .. StartBudget
    BY Constants DEF Slab
  <2>. QED BY <1>10, <2>1 DEF SlotsOK
<1>12. ReadsOK
  BY <1>10 DEF ReadsOK
<1>13. BindsOK
  BY DEF BindsOK, NoBuffer, Range
<1>. QED BY <1>1, <1>2, <1>3, <1>4, <1>5, <1>6, <1>7, <1>8, <1>9, <1>11, <1>12, <1>13 DEF Inv, LoadsOK

LEMMA InvNext ==
    ASSUME Inv, [Next]_vars
    PROVE  Inv'
BY MainNext, GpuNext, HandNext, SelNext, CacheNext DEF Inv, LoadsOK, CacheOK, CallsOK

LEMMA Invariant == Spec => []Inv
<1>1. Init => Inv
  BY InvInit
<1>2. Inv /\ [Next]_vars => Inv'
  BY InvNext
<1>. QED BY <1>1, <1>2, PTL DEF Spec

(* The state has its types, whatever the load, the fault or the budget: the
   slots that are handed out stay within the slabs, and no command buffer is
   counted as done that does not exist (ds4_gpu_stream_expert_alloc_slab_slot,
   ds4_gpu_wait_pending_command_buffers). *)
THEOREM CacheTypes == Spec => []TypeOK
<1>1. Inv => TypeOK
  <2>. SUFFICES ASSUME Inv PROVE TypeOK
    OBVIOUS
  <2>1. \A t \in Thread : loader[t].phase \in Phase
    BY DEF Inv, LoadsOK, CallOK, CallTypes, CallSet, Thread
  <2>2. job.ids \subseteq Expert /\ job.layer \in {0} \cup Layer
        /\ service \in {"idle", "event", "load"}
    BY DEF Inv, HandOK
  <2>. QED BY <2>1, <2>2 DEF Inv, TypesOK, SeqOK, TypeOK
<1>. QED BY <1>1, Invariant, PTL

(* The cache needs no lock: main and service thread are never in it together,
   and an answer that waits to be taken is of the layer that is encoded, so a
   late one is never bound to another layer
   (metal_graph_selected_async_load_begin and _finish). *)
THEOREM CacheHandedOver == Spec => []JobHandedOver
<1>1. Inv => JobHandedOver
  BY DEF Inv, HandOK, JobHandedOver, InPhase, LoadPlaces, AsyncPlaces
<1>. QED BY <1>1, Invariant, PTL

(* Every slot of a slab that was handed out is an entry's, a load's, free or
   lost with a load that failed, and no buffer has two of these owners, in all
   interleavings of the two threads and the pool
   (ds4_gpu_stream_expert_alloc_slab_slot, _take_reusable_batch and
   _release_slab_slot). *)
THEOREM CacheSlots == Spec => []SlotsAccounted
<1>1. Inv => SlotsAccounted
  <2>. SUFFICES ASSUME Inv PROVE SlotsAccounted
    OBVIOUS
  <2>. DEFINE P == Range(pending.bufs)  M == LoaderSlots("main")  S == LoaderSlots("service")
  <2>1. SlotsOK
    BY DEF Inv
  <2>2. \A t \in Thread : CallOK(t)
    BY DEF Inv, LoadsOK, Thread
  <2>3. \A t \in Thread : loader[t].phase \notin Busy => LoaderSlots(t) = {}
    BY <2>2 DEF CallOK, LoaderSlots, Range
  <2>4. \A t \in Thread : loader[t].phase \in Busy => P = {}
    BY BusyHolds
  <2>5. loader["main"].phase \notin Busy \/ loader["service"].phase \notin Busy
    <3>1. InPhase("main", "none") \/ InPhase("service", "none")
      BY Alone DEF Inv, Thread
    <3>. QED BY <3>1 DEF InPhase, Busy
  <2>6. P \cap M = {} /\ P \cap S = {} /\ M \cap S = {}
    BY <2>3, <2>4, <2>5 DEF Thread
  <2>7. LoadSlots = P \cup M \cup S
    BY DEF LoadSlots
  <2>. HIDE DEF P, M, S
  <2>8. Owners = <<EntrySlots, P, M, S, free, lost>>
    BY DEF Owners, EntrySlots, P, M, S
  <2>9. DOMAIN Owners = 1 .. 6 /\ Range(Owners) = {EntrySlots, P, M, S, free, lost}
    BY <2>8 DEF Range
  <2>10. (UNION Range(Owners)) \cap Slab = 1 .. handed
    <3>1. UNION Range(Owners) = EntrySlots \cup LoadSlots \cup free \cup lost
      BY <2>7, <2>9
    <3>. QED BY <2>1, <3>1 DEF SlotsOK
  <2>11. \A i, j \in DOMAIN Owners : i # j => Owners[i] \cap Owners[j] = {}
    <3>1. /\ EntrySlots \cap P = {} /\ EntrySlots \cap M = {} /\ EntrySlots \cap S = {}
          /\ EntrySlots \cap free = {} /\ EntrySlots \cap lost = {}
          /\ P \cap free = {} /\ M \cap free = {} /\ S \cap free = {}
          /\ P \cap lost = {} /\ M \cap lost = {} /\ S \cap lost = {} /\ free \cap lost = {}
      BY <2>1, <2>7 DEF SlotsOK
    <3>. QED BY <2>6, <2>8, <2>9, <3>1
  <2>. QED BY <2>1, <2>10, <2>11 DEF SlotsAccounted, SlotsOK
<1>. QED BY <1>1, Invariant, PTL

(* What a command buffer was bound to stays in its buffer until the GPU has run
   it, and an entry holds its expert: no load, eviction, release or change of
   the budget, on either thread, gives a buffer away that is still read
   (ds4_gpu_stream_expert_cache_entry_protected). *)
THEOREM CacheBuffers == Spec => []BuffersHold
<1>1. Inv => BuffersHold
  <2>. SUFFICES ASSUME Inv PROVE BuffersHold
    OBVIOUS
  <2>1. \A k \in Valid : content[entry[k]] = k
    BY DEF Inv, ReadsOK
  <2>2. \A cb \in Range(queue) \cup {open} : \A b \in cb.binds : content[b[1]] = b[2]
    BY <2>1, BoundInFlight DEF InFlight
  <2>. QED BY <2>1, <2>2 DEF BuffersHold
<1>. QED BY <1>1, Invariant, PTL

=============================================================================
