---------------------------- MODULE ExpertCache ----------------------------
(***************************************************************************)
(* The expert cache of SSD streaming: src/src/runtime/ds4_metal.m, and its *)
(* callers in ds4.c.                                                       *)
(*                                                                         *)
(* The routed experts do not fit in memory.  A cache entry holds one       *)
(* expert of one layer in a buffer that command buffers read; which experts*)
(* a layer needs is known when the GPU has run its router.  Four parties   *)
(* take part:                                                              *)
(*   the main thread   encodes a layer, flushes command buffers, waits for *)
(*                     the loader, binds the experts, ends the commands    *)
(*   the service       a thread that waits for the router's event, reads   *)
(*   thread            the ids and starts to load the missing experts      *)
(*   the pool          reads into the buffers (PreadPool has its inside)   *)
(*   the GPU           runs committed command buffers, in their order      *)
(* The cache has no lock.  Handing a job over and waiting for its answer   *)
(* keeps the two threads apart, and a number on every entry, the latest    *)
(* command buffer that reads it, keeps its buffer from being overwritten.  *)
(*                                                                         *)
(* An expert's contents, its heat and its age are left out: a victim is    *)
(* any entry that may be one.  pc is the place of the main thread:         *)
(*   idle, op          between requests, at the request's next step    *)
(*   hash, early, shared, finish, retry, moe, load, encode                 *)
(*                     in metal_graph_encode_decode_layer                  *)
(*   split, missing, join   the same with the missing experts split off    *)
(*   ending, sync      waits for the GPU after a scope, after a failure    *)
(***************************************************************************)
EXTENDS Integers, Sequences, FiniteSets, Functions

CONSTANTS
    Layers,        \* the number of layers
    HashLayers,    \* those whose experts follow from the token
    Expert, Used,  \* the experts of a layer; how many a row is routed to
    StartBudget,   \* entries of the cache at the start
    MaxBudget,     \* the largest budget of a request
    Chunk,         \* slots that one slab adds
    Spare,         \* buffers outside the slabs that memory has room for
    SplitMisses,   \* misses from which the layer is encoded in two parts
    ShortRows,     \* rows of a prefill from which the policy is plain LRU
    KeepHashLayer, \* DS4_METAL_KEEP_HASH_LAYER0
    Requests,      \* bound: the requests, each rows and tokens, with its budgets
    MaxFaults      \* bound: reads that fail, events late, kernels refused

None == 0
Slab == 1 .. MaxBudget
Slot == 1 .. MaxBudget + Spare
Layer == 1 .. Layers
Key == Layer \X Expert
Junk == <<0, 0>>
Routes == {s \in SUBSET Expert : Cardinality(s) = Used}
Thread == {"main", "service"}

RequestSet == [rows : Nat \ {0}, tokens : Nat,
               prefill : 1 .. MaxBudget, decode : 1 .. MaxBudget]

ASSUME CacheAssumption ==
    /\ Layers \in Nat \ {0} /\ HashLayers \subseteq Layer
    /\ IsFiniteSet(Expert) /\ Used \in 1 .. Cardinality(Expert)
    /\ MaxBudget \in Nat \ {0} /\ StartBudget \in 1 .. MaxBudget
    /\ Chunk \in Nat \ {0} /\ Spare \in Nat /\ SplitMisses \in Nat /\ ShortRows \in Nat
    /\ Requests \in Seq(RequestSet)
    /\ KeepHashLayer \in BOOLEAN /\ MaxFaults \in Nat

VARIABLES
    entry, mark,          \* a key's buffer; the command buffer it is in use by
    content,              \* what a buffer holds
    free, handed, slots,  \* the slots: free list, taken so far, in slabs
    lost,                 \* history: slots of loads that failed
    budget, policy, previous,
    cbSeq, batchSeq, ownedSeq, pendingMax, doneSeq,
    open, queue,          \* the open command buffer; those committed
    eventValue, signalled,
    pending, pool,        \* g_stream_expert_pending_load; its reads
    job,                  \* the job of the service thread
    loader,               \* a thread's call that loads experts
    pc, service,          \* places of the main and the service thread
    step, layer, sel,     \* the request's next step; the layer and its experts
    encoded,              \* whether the shared expert could be encoded
    served, faults

cacheVars == <<entry, mark, free, handed, slots>>
policyVars == <<budget, policy, previous>>
seqVars == <<cbSeq, batchSeq, ownedSeq, pendingMax, doneSeq>>
gpuVars == <<open, queue, eventValue, signalled>>
loadVars == <<content, lost, pending, pool, loader>>
placeVars == <<pc, step, layer, sel, encoded, served>>
vars == <<cacheVars, policyVars, seqVars, gpuVars, loadVars, placeVars,
          job, service, faults>>

NoBuffer == [binds |-> {}, event |-> -1]
Buffer == [binds |-> {}, event |-> 0]
NoLoad == [layer |-> 0, sel |-> {}, bufs |-> <<>>]
NoJob == [hasJob |-> FALSE, done |-> FALSE, layer |-> 0, event |-> 0,
          ids |-> {}, ok |-> FALSE]
Away == [phase |-> "none", kind |-> "begin", layer |-> 0, sel |-> {}, todo |-> {},
         bufs |-> <<>>, batch |-> {}, back |-> "none", reserved |-> 0,
         waited |-> FALSE, ok |-> FALSE]

-----------------------------------------------------------------------------
(* Entries and slots. *)

Valid == {k \in Key : entry[k] # None}
Count == Cardinality(Valid)
InFlight(k) == k \in Valid /\ mark[k] > doneSeq

(* The first layer stays once all its experts are there. *)
Kept(l) == KeepHashLayer /\ l = 1 /\ {l} \X Expert \subseteq Valid

Protected(k, l, s) ==
    \/ InFlight(k)
    \/ Kept(k[1])
    \/ policy = "probation" /\ k[2] \in previous[k[1]]
    \/ k[1] = l /\ k[2] \in s

Victims(l, s) == {k \in Valid : ~Protected(k, l, s)}
SomeInFlight == \E k \in Valid : InFlight(k)

(* The entries after those of ks are cleared; an entry in flight stays. *)
Cleared(ks) == [k \in Key |-> IF k \in ks /\ ~InFlight(k) THEN None ELSE entry[k]]
SlotsOf(ks) == {entry[k] : k \in {j \in ks : j \in Valid /\ ~InFlight(j)}} \cap Slab

(* A cleared or a new entry is in nobody's use. *)
SetEntries(ent) ==
    /\ entry' = ent
    /\ mark' = [k \in Key |-> IF ent[k] = entry[k] THEN mark[k] ELSE 0]

Clear(ks) ==
    /\ SetEntries(Cleared(ks))
    /\ free' = free \cup SlotsOf(ks)

(* Entries with the buffers of a load that was read. *)
Installed(ent, l, bufs) ==
    [k \in Key |-> IF k[1] = l /\ k[2] \in DOMAIN bufs THEN bufs[k[2]] ELSE ent[k]]

LoaderSlots(t) == Range(loader[t].bufs) \cup loader[t].batch
InUse == {entry[k] : k \in Valid} \cup Range(pending.bufs) \cup UNION {LoaderSlots(t) : t \in Thread}
SpareLeft == (Slot \ Slab) \ InUse

PickOf(S) == CHOOSE x \in S : TRUE

-----------------------------------------------------------------------------
(* Command buffers. *)

Larger(a, b) == IF a > b THEN a ELSE b

(* ds4_gpu_flush_commands with this as the open command buffer. *)
FlushOf(cb) ==
    /\ queue' = Append(queue, cb)
    /\ open' = Buffer
    /\ pendingMax' = Larger(pendingMax, batchSeq)
    /\ cbSeq' = cbSeq + 1
    /\ batchSeq' = cbSeq + 1

Flush == FlushOf(open)

\* Mutant: what was committed counts as done before the GPU has run it.
PendingDoneMutant ==
    /\ doneSeq' = Larger(doneSeq, pendingMax)
    /\ pendingMax' = 0

(* ds4_gpu_wait_pending_command_buffers, when the GPU has run them. *)
PendingDone ==
    /\ queue = <<>>
    /\ doneSeq' = Larger(doneSeq, pendingMax)
    /\ pendingMax' = 0

GpuSignal ==
    /\ queue # <<>> /\ Head(queue).event > signalled
    /\ signalled' = Head(queue).event
    /\ UNCHANGED <<cacheVars, policyVars, seqVars, open, queue, eventValue,
                   loadVars, placeVars, job, service, faults>>

GpuDone ==
    /\ queue # <<>> /\ Head(queue).event <= signalled
    /\ queue' = Tail(queue)
    /\ UNCHANGED <<cacheVars, policyVars, seqVars, open, eventValue, signalled,
                   loadVars, placeVars, job, service, faults>>

-----------------------------------------------------------------------------
(* Loading: begin_selected_load, which starts a read and returns, and        *)
(* load_selected_missing, which reads and waits.  A phase of loader[t] is    *)
(* where thread t is in it.                                                  *)

(* Thread t goes on as ld says. *)
Goes(t, ld) == loader' = [loader EXCEPT ![t] = ld]

Call(kind, l, s) == [Away EXCEPT !.phase = "start", !.kind = kind, !.layer = l, !.sel = s]
Answer(ok) == [Away EXCEPT !.phase = "done", !.ok = ok]
InPhase(t, phase) == loader[t].phase = phase

(* ds4_gpu_stream_expert_pending_load_finish: waits for the pool. *)
Settled == IF pool = "good" THEN Installed(entry, pending.layer, pending.bufs) ELSE entry

FinishPending ==
    /\ pool # "busy"
    /\ SetEntries(Settled)
    /\ lost' = IF pool = "bad" THEN lost \cup (Range(pending.bufs) \cap Slab) ELSE lost
    /\ pending' = NoLoad /\ pool' = "idle"

Matches(t) == pending # NoLoad /\ pending.layer = loader[t].layer /\ pending.sel = loader[t].sel

(* ds4_gpu_stream_expert_cache_note_previous_route *)
NoteRoute(t) ==
    previous' = IF loader[t].kind = "begin" /\ policy = "probation"
                THEN [previous EXCEPT ![loader[t].layer] = loader[t].sel]
                ELSE previous

(* The load that was asked for is already under way. *)
LoadMatched(t) ==
    /\ InPhase(t, "start") /\ loader[t].kind = "begin" /\ Matches(t)
    /\ NoteRoute(t)
    /\ Goes(t, Answer(TRUE))
    /\ UNCHANGED <<cacheVars, budget, policy, seqVars, gpuVars, content, lost,
                   pending, pool, placeVars, job, service, faults>>

(* Ends the pending load, whosever it is, and sees what is missing now. *)
LoadStart(t) ==
    LET l == loader[t].layer
        missing == {e \in loader[t].sel : Settled[<<l, e>>] = None}
        refused == loader[t].kind = "missing" /\ Matches(t) /\ pool = "bad"
    IN /\ InPhase(t, "start") /\ ~(loader[t].kind = "begin" /\ Matches(t))
       /\ NoteRoute(t)
       /\ FinishPending
       /\ IF refused \/ missing = {} THEN Goes(t, Answer(~refused))
          ELSE Goes(t, [loader[t] EXCEPT !.phase = "batch", !.todo = missing,
                            !.reserved = Cardinality({k \in Key : Settled[k] # None})])
       /\ UNCHANGED <<free, handed, slots, budget, policy, seqVars, gpuVars,
                      content, placeVars, job, service, faults>>

(* Only entries in flight could be victims: wait for the GPU, once, and look
   again at the same place. *)
MustWait(t) ==
    /\ Victims(loader[t].layer, loader[t].sel) = {} /\ SomeInFlight
    /\ ~loader[t].waited

WaitFor(t) == Goes(t, [loader[t] EXCEPT !.phase = "flush", !.back = loader[t].phase])

(* ds4_gpu_stream_expert_cache_take_reusable_batch: several misses in a full
   cache look for their buffers in one scan.  It does not ask on which thread
   it is. *)
WantsBatch(t) == Cardinality(loader[t].todo) > 1 /\ Count >= budget

TakeBatch(t) ==
    LET ks == Victims(loader[t].layer, loader[t].sel)
        n == Cardinality(loader[t].todo)
        prepare == [loader[t] EXCEPT !.phase = "prepare", !.waited = FALSE]
    IN /\ InPhase(t, "batch")
       /\ IF ~WantsBatch(t) THEN Goes(t, prepare) /\ UNCHANGED <<entry, mark>>
          ELSE IF MustWait(t) THEN WaitFor(t) /\ UNCHANGED <<entry, mark>>
          ELSE \E taken \in SUBSET ks :
                   /\ Cardinality(taken) = IF n < Cardinality(ks) THEN n ELSE Cardinality(ks)
                   /\ SetEntries(Cleared(taken))
                   /\ Goes(t, [prepare EXCEPT !.batch = {entry[k] : k \in taken}])
       /\ UNCHANGED <<free, handed, slots, policyVars, seqVars, gpuVars, content, lost,
                      pending, pool, placeVars, job, service, faults>>

(* ds4_gpu_stream_expert_alloc_slab_slot, then a buffer of its own. *)
FromFreeList(s) ==
    /\ free # {} /\ s = PickOf(free)
    /\ free' = free \ {s} /\ UNCHANGED <<handed, slots>>

FromSlab(s) ==
    /\ free = {} /\ (handed < slots \/ slots < budget)
    /\ s = handed + 1
    /\ handed' = handed + 1
    /\ slots' = IF handed < slots THEN slots
                ELSE IF slots + Chunk < budget THEN slots + Chunk ELSE budget
    /\ UNCHANGED free

NoSlot == free = {} /\ handed >= slots /\ slots >= budget

FromMemory(s) ==
    /\ NoSlot /\ SpareLeft # {} /\ s = PickOf(SpareLeft)
    /\ UNCHANGED <<free, handed, slots>>

(* A victim's buffer when the load must reuse one, or the cache is full. *)
Reuse(t) == loader[t].reserved >= budget \/ Count >= budget

(* The service thread may not wait: it does without a victim. *)
WaitsForReuse(t) == Reuse(t) /\ MustWait(t) /\ t = "main"

Give(t, s) ==
    LET ld == loader[t]
        e == PickOf(ld.todo)
    IN Goes(t, [ld EXCEPT
           !.todo = @ \ {e}, !.bufs = [x \in DOMAIN ld.bufs \cup {e} |->
                                          IF x = e THEN s ELSE ld.bufs[x]],
           !.batch = @ \ {s}, !.waited = FALSE,
           !.reserved = IF @ >= budget THEN @ ELSE @ + 1,
           !.phase = IF ld.todo = {e} THEN "post" ELSE "prepare"])

PrepareFromBatch(t) ==
    /\ loader[t].batch # {}
    /\ Give(t, PickOf(loader[t].batch))
    /\ UNCHANGED <<cacheVars, lost>>

\* Mutant: the victim's slot goes to the free list as well.
PrepareReusedMutant(t) ==
    /\ loader[t].batch = {} /\ Reuse(t)
    /\ \E k \in Victims(loader[t].layer, loader[t].sel) :
          /\ Clear({k})
          /\ Give(t, entry[k])
    /\ UNCHANGED <<handed, slots, lost>>

PrepareReused(t) ==
    /\ loader[t].batch = {} /\ Reuse(t)
    /\ \E k \in Victims(loader[t].layer, loader[t].sel) :
          /\ SetEntries(Cleared({k}))
          /\ Give(t, entry[k])
    /\ UNCHANGED <<free, handed, slots, lost>>

PrepareWaits(t) ==
    /\ loader[t].batch = {} /\ WaitsForReuse(t)
    /\ WaitFor(t)
    /\ UNCHANGED <<cacheVars, lost>>

NoVictim(t) ==
    \/ ~Reuse(t)
    \/ Victims(loader[t].layer, loader[t].sel) = {} /\ ~WaitsForReuse(t)

PrepareAllocated(t) ==
    /\ loader[t].batch = {} /\ NoVictim(t)
    /\ \E s \in Slot :
          /\ FromFreeList(s) \/ FromSlab(s) \/ FromMemory(s)
          /\ Give(t, s)
    /\ UNCHANGED <<entry, mark, lost>>

(* No memory: the load is given up, and the slots it had taken with it. *)
PrepareFails(t) ==
    /\ loader[t].batch = {} /\ NoVictim(t) /\ NoSlot /\ SpareLeft = {}
    /\ lost' = lost \cup (LoaderSlots(t) \cap Slab)
    /\ Goes(t, Answer(FALSE))
    /\ UNCHANGED cacheVars

(* ds4_gpu_stream_expert_cache_prepare_load_buffers, for one expert. *)
Prepare(t) ==
    /\ InPhase(t, "prepare")
    /\ \/ PrepareFromBatch(t) \/ PrepareReused(t) \/ PrepareWaits(t)
       \/ PrepareAllocated(t) \/ PrepareFails(t)
    /\ UNCHANGED <<policyVars, seqVars, gpuVars, content, pending, pool,
                   placeVars, job, service, faults>>

(* ds4_gpu_stream_expert_cache_wait_inflight: flush, then wait for all that is
   committed. *)
WaitFlush(t) ==
    /\ InPhase(t, "flush")
    /\ IF open = NoBuffer THEN UNCHANGED <<seqVars, gpuVars>>
       ELSE Flush /\ UNCHANGED <<ownedSeq, doneSeq, eventValue, signalled>>
    /\ Goes(t, [loader[t] EXCEPT !.phase = "wait"])
    /\ UNCHANGED <<cacheVars, policyVars, content, lost, pending, pool,
                   placeVars, job, service, faults>>

WaitDone(t) ==
    /\ InPhase(t, "wait")
    /\ PendingDone
    /\ Goes(t, [loader[t] EXCEPT !.phase = loader[t].back, !.waited = TRUE])
    /\ UNCHANGED <<cacheVars, policyVars, cbSeq, batchSeq, ownedSeq, gpuVars, content,
                   lost, pending, pool, placeVars, job, service, faults>>

(* The read begins: what the buffers held is gone.  A pool that refuses the
   batch, as load_selected_missing, leaves it to the thread itself. *)
Posted(t) ==
    /\ loader[t].kind = "begin"
    /\ pending' = [layer |-> loader[t].layer, sel |-> loader[t].sel, bufs |-> loader[t].bufs]
    /\ pool' = "busy"
    /\ Goes(t, Answer(TRUE))
    /\ UNCHANGED faults

Refused(t) ==
    /\ IF loader[t].kind = "missing" THEN UNCHANGED faults
       ELSE faults < MaxFaults /\ faults' = faults + 1
    /\ Goes(t, [loader[t] EXCEPT !.phase = "read"])
    /\ UNCHANGED <<pending, pool>>

LoadPost(t) ==
    /\ InPhase(t, "post")
    /\ content' = [s \in Slot |-> IF s \in Range(loader[t].bufs) THEN Junk ELSE content[s]]
    /\ Posted(t) \/ Refused(t)
    /\ UNCHANGED <<cacheVars, policyVars, seqVars, gpuVars, lost, placeVars, job, service>>

(* What buffers hold when they were read for layer l. *)
ReadInto(l, bufs) ==
    [s \in Slot |-> IF s \in Range(bufs)
                    THEN <<l, CHOOSE e \in DOMAIN bufs : bufs[e] = s>> ELSE content[s]]

ReadEnds(t) ==
    LET ld == loader[t]
    IN /\ InPhase(t, "read")
       /\ content' = ReadInto(ld.layer, ld.bufs)
       /\ SetEntries(Installed(entry, ld.layer, ld.bufs))
       /\ Goes(t, Answer(TRUE))
       /\ UNCHANGED <<free, handed, slots, policyVars, seqVars, gpuVars, lost,
                      pending, pool, placeVars, job, service, faults>>

ReadFails(t) ==
    /\ InPhase(t, "read")
    /\ lost' = lost \cup (LoaderSlots(t) \cap Slab)
    /\ Goes(t, Answer(FALSE))
    /\ UNCHANGED <<cacheVars, policyVars, seqVars, gpuVars, content, pending, pool,
                   placeVars, job, service, faults>>

LoaderStep(t) ==
    \/ LoadMatched(t) \/ LoadStart(t) \/ TakeBatch(t) \/ Prepare(t)
    \/ WaitFlush(t) \/ WaitDone(t) \/ LoadPost(t) \/ ReadEnds(t) \/ ReadFails(t)

(* The pool ends a read that begin_selected_load has posted. *)
PoolReads ==
    /\ pool = "busy" /\ pool' = "good"
    /\ content' = ReadInto(pending.layer, pending.bufs)
    /\ UNCHANGED <<cacheVars, policyVars, seqVars, gpuVars, lost, pending, loader,
                   placeVars, job, service, faults>>

PoolFails ==
    /\ pool = "busy" /\ pool' = "bad" /\ faults < MaxFaults
    /\ faults' = faults + 1
    /\ UNCHANGED <<cacheVars, policyVars, seqVars, gpuVars, content, lost, pending,
                   loader, placeVars, job, service>>

-----------------------------------------------------------------------------
(* The service thread, and the hand-over of its job. *)

ServiceTake ==
    /\ service = "idle" /\ job.hasJob
    /\ service' = "event"
    /\ UNCHANGED <<cacheVars, policyVars, seqVars, gpuVars, loadVars, placeVars, job, faults>>

(* The router has run: the ids are there, and the load begins. *)
ServiceReady ==
    /\ service = "event" /\ signalled >= job.event
    /\ \E ids \in Routes :
          /\ job' = [job EXCEPT !.ids = ids]
          /\ Goes("service", Call("begin", job.layer, ids))
    /\ service' = "load"
    /\ UNCHANGED <<cacheVars, policyVars, seqVars, gpuVars, content, lost, pending, pool,
                   placeVars, faults>>

\* Mutant: a job that failed is not reported.
PostMutant(ok) == job' = [job EXCEPT !.hasJob = FALSE, !.done = ok, !.ok = ok]

Post(ok) == job' = [job EXCEPT !.hasJob = FALSE, !.done = TRUE, !.ok = ok]

(* waitUntilSignaledValue gives up. *)
ServiceTimeout ==
    /\ service = "event" /\ signalled < job.event /\ faults < MaxFaults
    /\ faults' = faults + 1
    /\ Post(FALSE)
    /\ service' = "idle"
    /\ UNCHANGED <<cacheVars, policyVars, seqVars, gpuVars, loadVars, placeVars>>

ServiceDone ==
    /\ service = "load" /\ InPhase("service", "done")
    /\ Post(loader["service"].ok)
    /\ Goes("service", Away)
    /\ service' = "idle"
    /\ UNCHANGED <<cacheVars, policyVars, seqVars, gpuVars, content, lost, pending, pool,
                   placeVars, faults>>

ServiceStep ==
    \/ ServiceTake \/ ServiceReady \/ ServiceTimeout \/ ServiceDone
    \/ LoaderStep("service")

-----------------------------------------------------------------------------
(* The steps of a request, which the main thread works off: what to do, in    *)
(* which part of the request, for which layer, and how many rows of the layer *)
(* or tokens of the decode are left.                                          *)

Step(op, part, l, left) == [op |-> op, part |-> part, layer |-> l, left |-> left]
NoStep == Step("none", "over", 0, 0)
Request == Requests[served]

(* A token of the decode is one scope for all layers; then the policy ends. *)
NextToken(left) ==
    IF left = 0 THEN Step("policy", "over", 0, 0) ELSE Step("begin", "decode", 1, left)

(* A prefill of few rows goes layer by layer, each in a scope of its own for
   all rows, and releases the layer's experts after it. *)
PrefillLayer(l) ==
    IF l > Layers THEN Step("resize", "decode", 0, 0)
    ELSE Step("begin", "prefill", l, Request.rows)

(* All rows or all layers of the scope are encoded. *)
ScopeDone(s) == IF s.part = "prefill" THEN s.left <= 1 ELSE s.layer >= Layers

After(s) ==
    CASE s.op = "begin" -> [s EXCEPT !.op = "layer"]
      [] s.op = "layer" /\ ScopeDone(s) -> [s EXCEPT !.op = "end"]
      [] s.op = "layer" /\ ~ScopeDone(s) /\ s.part = "prefill" -> [s EXCEPT !.left = @ - 1]
      [] s.op = "layer" /\ ~ScopeDone(s) /\ s.part = "decode" -> [s EXCEPT !.layer = @ + 1]
      [] s.op = "end" /\ s.part = "prefill" -> [s EXCEPT !.op = "release"]
      [] s.op = "end" /\ s.part = "decode" -> NextToken(s.left - 1)
      [] s.op = "release" -> PrefillLayer(s.layer + 1)
      [] s.op = "resize" /\ s.part = "prefill" -> PrefillLayer(1)
      [] s.op = "resize" /\ s.part = "decode" -> Step("policy", "decode", 0, 0)
      [] s.op = "policy" /\ s.part = "decode" -> NextToken(Request.tokens)
      [] OTHER -> NoStep

(* After a failed prefill the cache is resized for the decode; after a failed
   token the policy ends. *)
Rest(s) == IF s.part = "prefill" THEN Step("resize", "over", 0, 0)
           ELSE Step("policy", "over", 0, 0)

IsOp(name) == pc = "op" /\ step.op = name
NextOp == step' = After(step)

Start ==
    /\ pc = "idle" /\ served < Len(Requests)
    /\ step' = Step("resize", "prefill", 0, 0)
    /\ served' = served + 1
    /\ pc' = "op"
    /\ UNCHANGED <<cacheVars, policyVars, seqVars, gpuVars, loadVars, layer, sel, encoded,
                   job, service, faults>>

Finished ==
    /\ IsOp("none")
    /\ pc' = "idle"
    /\ UNCHANGED <<cacheVars, policyVars, seqVars, gpuVars, loadVars, step, layer, sel,
                   encoded, served, job, service, faults>>

(* ds4_gpu_stream_expert_cache_clear_all: the pending load is ended, nothing
   is in flight by decree, and the slabs go. *)
ClearAll ==
    /\ pool # "busy"
    /\ pending' = NoLoad /\ pool' = "idle"
    /\ entry' = [k \in Key |-> None] /\ mark' = [k \in Key |-> 0]
    /\ free' = {} /\ handed' = 0 /\ slots' = 0 /\ lost' = {}
    /\ content' = [s \in Slot |-> Junk]
    /\ doneSeq' = cbSeq /\ batchSeq' = 0 /\ ownedSeq' = 0 /\ pendingMax' = 0

Resident == slots + Cardinality({k \in Valid : entry[k] \notin Slab})

(* ds4_gpu_resize_streaming_expert_cache_budget *)
Resize ==
    LET n == IF step.part = "prefill" THEN Request.prefill ELSE Request.decode
        shrinks == /\ step.part # "prefill" /\ Request.decode < Request.prefill
                   /\ n < budget /\ Resident > n
    IN /\ IsOp("resize")
       /\ budget' = n
       /\ IF shrinks THEN ClearAll
          ELSE UNCHANGED <<cacheVars, content, lost, pending, pool, doneSeq, batchSeq,
                           ownedSeq, pendingMax>>
       /\ NextOp
       /\ UNCHANGED <<policy, previous, cbSeq, gpuVars, loader, pc, layer, sel, encoded,
                      served, job, service, faults>>

(* ds4_gpu_stream_expert_cache_decode_eviction_policy_begin and _end *)
SetPolicy ==
    /\ IsOp("policy")
    /\ policy' = IF step.part = "over" THEN "none"
                 ELSE IF Request.rows > ShortRows THEN "lru" ELSE "probation"
    /\ previous' = [l \in Layer |-> {}]
    /\ NextOp
    /\ UNCHANGED <<cacheVars, budget, seqVars, gpuVars, loadVars, pc, layer, sel, encoded,
                   served, job, service, faults>>

BeginCommands ==
    /\ IsOp("begin")
    /\ open' = Buffer
    /\ cbSeq' = cbSeq + 1 /\ batchSeq' = cbSeq + 1
    /\ NextOp
    /\ UNCHANGED <<cacheVars, policyVars, ownedSeq, pendingMax, doneSeq, queue, eventValue,
                   signalled, loadVars, pc, layer, sel, encoded, served, job, service, faults>>

(* ds4_gpu_end_commands commits; EndDone is the return of its wait. *)
Commit ==
    /\ queue' = Append(queue, open) /\ open' = NoBuffer
    /\ ownedSeq' = batchSeq /\ batchSeq' = 0
    /\ UNCHANGED <<cbSeq, pendingMax, doneSeq, eventValue, signalled>>

EndCommands ==
    /\ IsOp("end")
    /\ Commit
    /\ NextOp /\ pc' = "ending"
    /\ UNCHANGED <<cacheVars, policyVars, loadVars, layer, sel, encoded, served,
                   job, service, faults>>

(* ds4_gpu_synchronize, after a failure and with the scope still open. *)
Synchronize ==
    /\ pc = "fail"
    /\ Commit
    /\ step' = Rest(step) /\ pc' = "sync"
    /\ UNCHANGED <<cacheVars, policyVars, loadVars, layer, sel, encoded, served,
                   job, service, faults>>

EndDone ==
    /\ pc \in {"ending", "sync"} /\ queue = <<>>
    /\ doneSeq' = Larger(doneSeq, Larger(pendingMax, ownedSeq))
    /\ pendingMax' = 0 /\ ownedSeq' = 0
    /\ pc' = "op"
    /\ UNCHANGED <<cacheVars, policyVars, cbSeq, batchSeq, gpuVars, loadVars, step, layer,
                   sel, encoded, served, job, service, faults>>

(* ds4_gpu_stream_expert_cache_release_layer *)
Released(l) == IF Kept(l) THEN {} ELSE {l} \X Expert

Release ==
    /\ IsOp("release")
    /\ Clear(Released(step.layer))
    /\ NextOp
    /\ UNCHANGED <<handed, slots, policyVars, seqVars, gpuVars, loadVars, pc, layer, sel,
                   encoded, served, job, service, faults>>

(* The caller of a prefill cancels it between two rows. *)
Cancel ==
    /\ IsOp("layer") /\ step.part = "prefill" /\ faults < MaxFaults
    /\ faults' = faults + 1
    /\ pc' = "fail"
    /\ UNCHANGED <<cacheVars, policyVars, seqVars, gpuVars, loadVars, step, layer, sel,
                   encoded, served, job, service>>

-----------------------------------------------------------------------------
(* A layer of a row or a token: metal_graph_encode_decode_layer. *)

CallMain(kind, s) == Goes("main", Call(kind, layer, s))
ResidentOf(s) == {e \in s : entry[<<layer, e>>] # None}

(* metal_graph_decode_set_hash_selected_override: the token names the experts. *)
HashLayer ==
    LET l == step.layer
    IN /\ IsOp("layer") /\ l \in HashLayers
       /\ layer' = l
       /\ \E s \in Routes : sel' = s /\ Goes("main", Call("begin", l, s))
       /\ encoded' = TRUE
       /\ pc' = "hash"
       /\ UNCHANGED <<cacheVars, policyVars, seqVars, gpuVars, content, lost, pending, pool,
                      step, served, job, service, faults>>

(* A call to the loader in one of the places froms is back. *)
Back(froms, ok, to) ==
    /\ pc \in froms /\ InPhase("main", "done") /\ loader["main"].ok = ok
    /\ Goes("main", Away)
    /\ pc' = to
    /\ UNCHANGED <<cacheVars, policyVars, seqVars, gpuVars, content, lost, pending, pool,
                   step, layer, sel, encoded, served, job, service, faults>>

LoadBack ==
    \/ Back({"hash"}, TRUE, "moe")
    \/ Back({"retry"}, TRUE, IF encoded THEN "moe" ELSE "fail")
    \/ Back({"load"}, TRUE, "encode")
    \/ Back({"split"}, TRUE, "resident")
    \/ Back({"missing"}, TRUE, "join")
    \/ Back({"hash", "retry", "load", "split", "missing"}, FALSE, "fail")

(* The router's event is encoded and its number handed to the service thread;
   a job whose answer nobody took refuses it. *)
Route ==
    LET l == step.layer
    IN /\ IsOp("layer") /\ l \notin HashLayers
       /\ layer' = l
       /\ eventValue' = eventValue + 1
       /\ open' = [open EXCEPT !.event = eventValue + 1]
       /\ IF job.hasJob \/ job.done
          THEN /\ pc' = "fail" /\ UNCHANGED job
          ELSE /\ pc' = "early"
               /\ job' = [NoJob EXCEPT !.hasJob = TRUE, !.layer = l,
                                       !.event = eventValue + 1]
       /\ encoded' = TRUE
       /\ UNCHANGED <<cacheVars, policyVars, seqVars, queue, signalled, loadVars, step, sel,
                      served, service, faults>>

FlushAnd(from, to) ==
    /\ pc = from /\ pc' = to
    /\ Flush
    /\ UNCHANGED <<cacheVars, policyVars, ownedSeq, doneSeq, eventValue, signalled, loadVars,
                   step, layer, sel, served, job, service>>

EarlyFlush == FlushAnd("early", "shared") /\ UNCHANGED <<encoded, faults>>

\* Mutant: a kernel that is refused ends the layer at once.
SharedMutant ==
    \/ FlushAnd("shared", "finish") /\ UNCHANGED <<encoded, faults>>
    \/ /\ FlushAnd("shared", "fail")
       /\ faults < MaxFaults /\ faults' = faults + 1 /\ encoded' = FALSE

(* The shared expert is encoded while the service thread works; when that
   fails the answer is taken all the same. *)
Shared ==
    /\ FlushAnd("shared", "finish")
    /\ \/ UNCHANGED <<encoded, faults>>
       \/ faults < MaxFaults /\ faults' = faults + 1 /\ encoded' = FALSE

Taken == [job EXCEPT !.done = FALSE]

(* metal_graph_selected_async_load_finish, and the retry on this thread. *)
Finish ==
    /\ pc = "finish" /\ job.done
    /\ job' = Taken
    /\ sel' = job.ids
    /\ IF ~job.ok /\ job.ids # {}
       THEN pc' = "retry" /\ CallMain("begin", job.ids)
       ELSE pc' = (IF job.ok /\ encoded THEN "moe" ELSE "fail") /\ UNCHANGED loader
    /\ UNCHANGED <<cacheVars, policyVars, seqVars, gpuVars, content, lost, pending, pool,
                   step, layer, encoded, served, service, faults>>

(* ds4_gpu_routed_moe_one_tensor looks its experts up; with many missing it
   encodes those that are there first. *)
Moe ==
    LET missing == sel \ ResidentOf(sel)
        split == missing # sel /\ Cardinality(missing) >= SplitMisses
    IN /\ pc = "moe"
       /\ IF missing = {} THEN pc' = "encode" /\ UNCHANGED loader
          ELSE IF split THEN pc' = "split" /\ CallMain("begin", sel)
          ELSE pc' = "load" /\ CallMain("missing", sel)
       /\ UNCHANGED <<cacheVars, policyVars, seqVars, gpuVars, content, lost, pending, pool,
                      step, layer, sel, encoded, served, job, service, faults>>

(* ds4_gpu_stream_expert_cache_prune_global *)
Prune(pruned) ==
    /\ pruned \subseteq Victims(layer, sel)
    /\ \/ Count - Cardinality(pruned) = budget
       \/ Count - Cardinality(pruned) > budget /\ pruned = Victims(layer, sel)
       \/ Count <= budget /\ pruned = {}
    /\ free' = free \cup SlotsOf(pruned)

(* Experts s are encoded: noted as in use by the open command buffer cb. *)
Bound(cb, s) == [cb EXCEPT !.binds = @ \cup {<<entry[<<layer, e>>], <<layer, e>>>> : e \in s}]
MarkedIn(ent, seq, s) ==
    [k \in Key |-> IF k[1] = layer /\ k[2] \in s THEN seq
                   ELSE IF ent[k] = entry[k] THEN mark[k] ELSE 0]

Encode ==
    /\ pc = "encode"
    /\ \E pruned \in SUBSET Valid :
          /\ Prune(pruned)
          /\ entry' = Cleared(pruned)
          /\ mark' = MarkedIn(Cleared(pruned), batchSeq, sel)
    /\ open' = Bound(open, sel)
    /\ NextOp /\ pc' = "op"
    /\ UNCHANGED <<handed, slots, policyVars, seqVars, queue, eventValue, signalled, loadVars,
                   layer, sel, encoded, served, job, service, faults>>

(* The resident experts go to the GPU, and the missing ones are waited for. *)
EncodeResident ==
    /\ pc = "resident"
    /\ \E pruned \in SUBSET Valid :
          /\ Prune(pruned)
          /\ entry' = Cleared(pruned)
          /\ mark' = MarkedIn(Cleared(pruned), batchSeq, ResidentOf(sel))
    /\ FlushOf(Bound(open, ResidentOf(sel)))
    /\ CallMain("missing", sel)
    /\ pc' = "missing"
    /\ UNCHANGED <<handed, slots, policyVars, ownedSeq, doneSeq, eventValue, signalled, content,
                   lost, pending, pool, step, layer, sel, encoded, served, job, service, faults>>

(* The missing ones are there: once the GPU is through with the resident ones,
   whose scratch they use, all are encoded. *)
Join ==
    /\ pc = "join"
    /\ PendingDone
    /\ \E pruned \in SUBSET Valid :
          /\ Prune(pruned)
          /\ entry' = Cleared(pruned)
          /\ mark' = MarkedIn(Cleared(pruned), batchSeq, sel)
    /\ open' = Bound(open, sel)
    /\ NextOp /\ pc' = "op"
    /\ UNCHANGED <<handed, slots, policyVars, cbSeq, batchSeq, ownedSeq, queue, eventValue,
                   signalled, loadVars, layer, sel, encoded, served, job, service, faults>>

-----------------------------------------------------------------------------
Init ==
    /\ entry = [k \in Key |-> None] /\ mark = [k \in Key |-> 0]
    /\ content = [s \in Slot |-> Junk]
    \* ds4_gpu_stream_expert_cache_preallocate_slabs
    /\ free = 1 .. StartBudget /\ handed = StartBudget
    /\ slots = handed /\ lost = {}
    /\ budget = StartBudget /\ policy = "none" /\ previous = [l \in Layer |-> {}]
    /\ cbSeq = 0 /\ batchSeq = 0 /\ ownedSeq = 0 /\ pendingMax = 0 /\ doneSeq = 0
    /\ open = NoBuffer /\ queue = <<>> /\ eventValue = 0 /\ signalled = 0
    /\ pending = NoLoad /\ pool = "idle"
    /\ job = NoJob /\ loader = [t \in Thread |-> Away]
    /\ pc = "idle" /\ service = "idle"
    /\ step = NoStep /\ layer = 0 /\ sel = {} /\ encoded = TRUE
    /\ served = 0 /\ faults = 0

MainStep ==
    \/ Start \/ Finished \/ Resize \/ SetPolicy \/ BeginCommands \/ EndCommands
    \/ Synchronize \/ EndDone \/ Release \/ Cancel
    \/ HashLayer \/ Route \/ EarlyFlush \/ Shared \/ Finish \/ LoadBack
    \/ Moe \/ Encode \/ EncodeResident \/ Join
    \/ LoaderStep("main")

Next ==
    \/ MainStep \/ ServiceStep \/ GpuSignal \/ GpuDone \/ PoolReads \/ PoolFails

Spec == Init /\ [][Next]_vars

Fairness ==
    /\ WF_vars(MainStep) /\ WF_vars(ServiceStep)
    /\ WF_vars(GpuSignal) /\ WF_vars(GpuDone) /\ WF_vars(PoolReads)

FairSpec == Spec /\ Fairness

-----------------------------------------------------------------------------
(* What must hold. *)

Phase == {"none", "start", "batch", "prepare", "flush", "wait", "post", "read", "done"}

(* The variables have their types: a buffer is a slot of a slab or one of the
   spare ones, sequence numbers are numbers, a thread's call is at one of its
   phases. *)
TypeOK ==
    /\ entry \in [Key -> {None} \cup Slot] /\ mark \in [Key -> Nat]
    /\ content \in [Slot -> {Junk} \cup Key]
    /\ free \subseteq Slab /\ lost \subseteq Slab
    /\ handed \in 0 .. MaxBudget /\ slots \in handed .. MaxBudget
    /\ budget \in 1 .. MaxBudget /\ policy \in {"none", "lru", "probation"}
    /\ previous \in [Layer -> SUBSET Expert]
    /\ cbSeq \in Nat /\ batchSeq \in 0 .. cbSeq /\ ownedSeq \in 0 .. cbSeq
    /\ pendingMax \in 0 .. cbSeq /\ doneSeq \in 0 .. cbSeq
    /\ pool \in {"idle", "busy", "good", "bad"}
    /\ \A t \in Thread : loader[t].phase \in Phase
    /\ job.ids \subseteq Expert /\ job.layer \in {0} \cup Layer
    /\ service \in {"idle", "event", "load"}

(* What a command buffer reads stays what it was bound to until the GPU is
   through with it: no load, eviction, release or budget change gives a buffer
   away that an open or a committed command buffer still reads
   (ds4_gpu_stream_expert_cache_entry_protected).  And an entry holds its
   expert: one whose read failed was never entered. *)
BuffersHold ==
    /\ \A cb \in Range(queue) \cup {open} : \A b \in cb.binds : content[b[1]] = b[2]
    /\ \A k \in Valid : content[entry[k]] = k

(* No buffer has two owners, and a slot of a slab that was handed out is an
   entry's, a load's, on the free list, or lost with a load that failed. *)
Owners ==
    <<{entry[k] : k \in Valid}, Range(pending.bufs), LoaderSlots("main"),
      LoaderSlots("service"), free, lost>>

SlotsAccounted ==
    /\ \A j, k \in Valid : entry[j] = entry[k] => j = k
    /\ \A i, j \in DOMAIN Owners : i # j => Owners[i] \cap Owners[j] = {}
    /\ (UNION Range(Owners)) \cap Slab = 1 .. handed

(* The cache has no lock.  While the service thread is in it, the main thread
   encodes the shared expert or waits for the answer, and is not in it; and
   an answer is of the layer that is being encoded, whatever timed out, failed
   or was cancelled before: a stale one would bind another layer's experts. *)
JobHandedOver ==
    /\ ~InPhase("service", "none") =>
           InPhase("main", "none") /\ pc \in {"early", "shared", "finish"}
    /\ job.hasJob \/ job.done =>
           /\ job.event = eventValue /\ job.layer = layer
           /\ pc \in {"early", "shared", "finish"}

(* "The Metal cache paths must never wait on command buffers from this thread
   while the main thread is encoding" (src/src/runtime/ds4.c:20128), and "cache
   paths that would flush/wait on command buffers (a race against the encoding
   thread) fail the load instead" (src/src/runtime/ds4_metal.m:459): while the
   main thread encodes the shared expert, the service thread is not in
   wait_inflight, whatever the budget. *)
ServiceNeverWaits ==
    pc = "shared" => loader["service"].phase \notin {"flush", "wait"}

(* Every request ends, also with late events, failed reads, kernels that are
   refused and a prefill that is cancelled: nobody waits for an answer, a read
   or a command buffer that never comes.  At any time the place between two
   requests is still to be reached. *)
RequestsEnd == []<>(pc = "idle")

=============================================================================
