# Verification of the ds4f server

`src/` is a local inference product for one large mixture-of-experts model on
one Mac: an HTTP server with several resident conversations
(`src/src/runtime/ds4_server.c`), the inference engine it links
(`ds4.c`, `ds4_metal.m`, `metal/*.metal`), a disk store of session checkpoints
(`ds4_kvstore.c`), and scripts that build the model and talk to the server.
This directory holds TLA+ models of the parts whose correctness is a matter of
order, sharing, failure or bookkeeping, the TLC configurations that check them,
and TLAPS proofs about eight of these parts.

Paths below are relative to `src/src/runtime/` unless they say otherwise.

## 1. The system

### Threads and shared state

| thread | made by | what it does |
|---|---|---|
| main | the process | opens engine and sessions, starts workers, accepts connections, then drains and closes |
| client thread | `pthread_create` per connection | reads and parses a request, enqueues a job that lives on its stack, waits for it, closes |
| slot worker | one per resident session (`--batch-slots`) | takes the job assigned to it, runs `generate_job` |
| single worker | instead of slot workers when not batched | takes the head of the queue |
| decode worker | batched mode | collects the tokens that slots want evaluated, runs one batch |
| pread workers | the first parallel read of experts | read routed experts from the SSD into Metal buffers |
| selected-load service thread | the first layer that overlaps its loads | waits for the router's event, reads the ids, begins to load the missing experts |
| coordinator's accept and client threads | distributed sessions | register workers, watch their connections, forget them |
| prefill sender and reader | each pipelined prefill | write hidden states to the first worker, read the results |
| worker threads | each connection of a distributed worker | read work, evaluate it, forward it, relay the answers |
| signal handler | `SIGINT`, `SIGTERM` | sets `g_stop_requested`, closes the listening socket |

| lock | protects |
|---|---|
| `s.mu` (with `s.cv`, `clients_cv`) | job list, assignments, `stopping`, client count |
| `j.mu` (with `j.cv`) | one job's `done` |
| `tool_mu` | live tool-call bindings, tool memory |
| `model_mu` (with `model_cv`) | the turn of the lane: `model_busy`, requests, counters |
| `inference_mu` | the model executor and everything below it |
| `kv_mu` | the checkpoint directory as this process sees it |
| the coordinator's `state.mu` | the registry of workers and its generation |
| `sender->mu`, `progress_mu`, a worker's queue and forwarder mutexes | the rings and queues of a pipelined prefill |
| pread pool mutex (two condition variables) | the posted batch of reads |
| `g_metal_graph_selected_async_load_mutex` | the one job of the service thread; the expert cache itself has no lock |

### Components

*Request queue and dispatcher* (`ds4_server.c` 12383-13010, 13560-13720).
State: a singly linked list of jobs, `assigned`/`busy` per slot, the client
count, `stopping`.  Operations: accept, enqueue, dispatch, run, release, answer,
stop, drain.  Interacts with client threads through `j.cv`, with slots through
`s.cv`, with session reuse through the live bindings it reads under `tool_mu`.
Hard: two locks are taken one inside the other and released between decisions;
the list is edited in its middle; jobs are stack memory; shutdown must drain.
Correct when a job is run once, by the slot that holds what it must continue,
its client is answered, and nothing is freed under a thread.

*Batched model lane* (10560-10720, 11060-11330).  State: `model_busy`, the
per-slot prefill and decode requests, the counters.  Operations: enter and leave
a prefill turn, enter and leave a generation, submit a token, collect and
evaluate a batch, stop.  Hard: one condition variable for all, decode has
priority, a quantum that depends on others, a stop that cannot broadcast.
Correct when the executor has one user, every submitted token is answered to
the slot that asked, no slot starves, and shutdown ends.

*Session reuse of a slot* (`generate_job` and what it calls, 8840-9120,
9700-10300, 11330-12080).  State: the session's tokens and `checkpoint_valid`,
three live bindings, the continued-checkpoint schedule.  Operations: choose what
to reuse, prefill, generate, remember, canonicalise, checkpoint.  Hard: token
counts stand for contents, one text has several tokenizations, failures leave
some of the state behind.  Correct when what is evaluated is the conversation
that the client means, and what is stored holds what its key says.

*KV checkpoint store* (`ds4_kvstore.c`).  State: files, and an index rebuilt
from them.  Operations: open, find, load, touch, store, rewrite a trailer,
evict, discard.  Hard: crashes, failing calls, other settings at the next start,
a budget that is estimated before the file exists.  Correct when a name has a
whole file or none, the budget holds, a reported store can be loaded, and the
least recently used goes first.

*SSD read pool* (`ds4_metal.m` 11995-12363, 15773-15890, 16093-16130, 9495).
State: the posted batch, a generation, the workers.  Operations: create, post,
take a task, check in, wait, shut down; an early load that is finished later.
Hard: workers that are late for a generation, arrays on the caller's stack, a
pool that is busy or cannot be created.  Correct when nobody writes to an array
that is gone, and the caller goes on only with all of it read.

*Expert cache* (`ds4_metal.m` 1178-1263, 12785-12977, 14255-16564, the routed
layer 38470-39790; `ds4.c` 19619-20247, 22462-22552).  Routed experts do not fit
in memory; a cache entry is one expert of one layer in a slot that command
buffers read.  State: entries, free slots, budget, eviction policy, sequence
numbers of command buffers, the load that is under way, the service thread's
job.  Operations: begin, flush, end, synchronize; load selected experts early or
on demand; bind, prune, release a layer, resize, clear.  Hard: two threads share
the cache without a lock, the GPU reads buffers long after they were bound, which
experts are needed is known only when the GPU has run the router, and every step
can fail.  Correct when no buffer is overwritten before its readers are through,
no slot has two owners, and a failed token leaves nothing that the next one takes
for its own.

*Distributed inference* (`ds4_distributed.c`).  A coordinator evaluates the first
layers of a session and sends hidden states down a route of workers, each with
the next layers.  State: the session's tokens, the registry of workers and its
generation, the plan, a session per worker; within a long prompt, buffers,
windows and queues of many threads.  Operations: register and remove workers,
plan a route, prefill, evaluate, rewind, rebuild after a failure, save, load.
Hard: connections and processes that go at any moment, results that belong to
nothing any more, a route planned from a registry that has changed, a chain of
bounded queues.  Correct when a successful call has the logits of its tokens and
every worker evaluated every token before, no thread waits for ever, and a
healthy prompt never fails.

*Tool memory* (`ds4_server.c` 8561-8733, 8892-9036, 9147-9400, 9501-9696).  A
client sends tool calls back as JSON; what the model sampled for them is kept
under their ids, so that the prompt is rendered with the very text that the
session holds.  State: a list of ids by last use, blocks shared by ids, two
limits; the ids in the trailer of each checkpoint.  Operations: remember, look
up, prune, write into a trailer, read from one, scan every checkpoint for a
request's ids.  Hard: `tool_mu` is free between the measuring and the writing of
a trailer, scans do not take `kv_mu`, and processes with other limits and models
share a directory.  Correct when a request never gets another turn's text, gets
its own when it was kept, and the counters that decide what goes say what is
there.

*Streamed model build* (`.agents/skills/ds4f-mac-mini-ops/scripts/build_official_q4_stream.py`,
`src/deepseek4-quantize.c` beside it, 1928-2077).  Source shards are downloaded
group by group, quantized into place and removed.  State: the output, its
checkpoint of groups, shards and their `.part` files.  Hard: a run may die
between any two calls and the same command goes on.  Correct when what the
checkpoint calls done is whole, and one group at a time is staged.

*Not modelled.*  `PROJECT.json` lists every other part with its reason.  In
short: the engine's sessions, sampler and kernels are numerics; JSON, HTTP, SSE
and chat templates are parsing and formatting, whose decisions are inputs here;
tensor-parallel inference is not used by the product; the launcher, the terminal
client and what the quantizer computes are sequential programs.  The memory
planner and layer placement are planned (section 7).

## 2. Modules

| module | what it is |
|---|---|
| `ModelLane` | the lane: slots, decode worker, main thread and stop signal |
| `ModelLaneProofs` | TLAPS: types, exclusion, batches, token counts and end of the lane |
| `JobQueue` | queue, dispatcher, client threads, workers, shutdown |
| `JobService` | what the queue promises: the abstract specification |
| `JobQueueProofs` | TLAPS: all safety of `JobQueue`, and that it implements `JobService` |
| `MCJobQueue` | symmetry sets for the safety run of `JobQueue` |
| `SlotReuse`, `MCSlotReuse` | one slot's reuse decisions, prefill, generation, checkpoints; its three settings |
| `SlotReuseProofs` | TLAPS: what a job evaluates, what it reports as cached, what is stored under which key, and the lemmas about texts and tokens they need |
| `KvStore` | the checkpoint directory |
| `ToolMemory` | the memory of sampled tool calls, the ids in checkpoints, the requests that ask for them |
| `StreamBuild` | the streamed build of the model file |
| `MCStorage` | five settings of the three modules above for TLC |
| `StorageProofs` | TLAPS: of the store, whole files, stores that are served, the order of eviction, the budget, and the lemmas about sums it needs; of the build, that what it calls done is whole, and that one group is staged at a time; of the tool memory, that its counters are right and its replies exact |
| `PreadPool` | the pool of SSD readers, its callers and its shutdown |
| `PreadPoolProofs` | TLAPS: the pool's readers write only where they may, and a read is complete |
| `ExpertCache`, `MCExpertCache` | the expert cache of SSD streaming: main thread, service thread, pool and GPU; requests for TLC |
| `MCStreaming` | two settings for TLC: the cache, the pool |
| `ExpertCacheProofs` | TLAPS: types, hand-over, owners and contents of the cache |
| `DistLink` | the connections of a route: frames of work and of results, a cut |
| `DistPrefill` | the coordinator of a pipelined prefill: producer, sender, reader |
| `DistWorker` | a worker's connection: reader, prefetch queue, evaluation, forwarder, relay |
| `DistPipeline` | `DistPrefill` and the workers on shared connections |
| `DistPipelineProofs` | TLAPS: types of the pipeline, its ring, that a prefill that succeeds evaluated every chunk everywhere, and that one fails only by a fault |
| `DistSession`, `MCDistSession` | the coordinator's session, its registry and route, the workers' sessions |
| `MCDistributed` | two settings for TLC: one pipelined prompt, the calls of a session |
| `DistSessionProofs` | TLAPS: a call goes by workers that are registered, and its answer is of the tokens it was asked for |

How they fit together.  `JobQueue` hands a job to a slot; `ModelLane` is what
happens to the executor while slots run their jobs; `SlotReuse` is what one job
does to its slot's session; `KvStore` is where its checkpoints live; `ExpertCache`
and, under it, `PreadPool` work under `inference_mu`, inside an evaluation.  Each one reduces its
neighbours to what it can observe of them: `JobQueue` sees of `generate_job` the
binding that a response leaves and whether the session still fits it,
`ModelLane` the number of tokens, `SlotReuse` sees of the disk a set of entries,
`KvStore` sees of a session the text it is stored under,
`ExpertCache` sees of the pool that a read is under way, done or failed.  `JobQueue` is composed
with its abstract specification by `INSTANCE JobService` under a refinement
mapping; `DistPipeline` composes `DistPrefill` with an instance of `DistWorker`,
and `DistSession` sees of such a pipeline chunks that go from hop to hop in
order.  The other interfaces are kept apart because their product is out of
TLC's reach and the shared state is small.

Conventions.  A region between lock and unlock is one action, unless a lock is
held while another is released (`inference_mu`, `s.mu` in the dispatcher), in
which case the lock is a variable or a program counter.  A condition variable is
the set of its sleepers or a program counter; a broadcast empties it, a wait's
condition is tested again on every wake-up, and spurious wake-ups are actions in
the runs whose configuration enables them.  An operator named `...Mutant` is the
form of the definition after it that a plausible mistake would give it; nothing
uses it in the specification.

## 3. The models and the code

### ModelLane

`pc[s]` follows a slot worker through `server_session_sync`,
`server_prefill_enter`/`leave`, `server_generation_enter`/`leave`,
`server_eval_token` and the end of `generate_job`; `dpc` follows
`decode_worker_main`; `main` the shutdown sequence.  `pos` is the length of the
session, `done` what the worker believes it to be.  `asleep` is `model_cv`.
`inference_mu` is a variable because prefill, evaluation and stores hold it
across steps.

* Data is reduced to lengths: a prompt is a length and whether the session is a
  prefix of it.  The lengths differ enough to need one chunk or two.
* Failures are nondeterministic: a cancelled chunk leaves a shorter prefix, a
  failed one an invalid session or the old one; a batch advances every member
  or fails for all.
* Whether the session is stored, whether a tool call is retried, whether a
  stream fails are choices at the points where the code decides them.

### JobQueue and JobService

`head`, `tail` and `next` are the list as it is; `QueuedAt` follows it
(`LinkedFrom`, a recursive function).  The
thread inside `dispatch_jobs_locked` holds `s.mu`, so its program counter
(`"dispatch"`) is the lock.  `bind` and `fits` are the live binding of each slot
and whether the session still has the length it had; `seen` are the call ids
that clients know.  `Spawn` may fail.  `WorkerStop` covers both the end of the
accept loop and a start that fails half way.  `batched` is `s.batched_mode`, which
the options fix at the start (`Modes`); `SpuriousIn` and `StoppableIn` say in
which modes a run has spurious wake-ups and a stop.

`JobService` has three ideas: jobs wait in arrival order, a slot runs one at a
time, and a closed service still runs what it accepted.  `QueueIsService` is the
refinement; `JobsAnswered` and `StopCompletes` are its liveness.

Longest-common-prefix scores among several eligible slots are left open.

### SlotReuse

Text is a sequence over `"a"`, `"b"` (visible) and `"t"` (hidden: reasoning, a
refused tool call), tokens are `"a"`, `"b"`, `"t"` and the merge `"ab"`.  That
is the least that has two tokenizations of one text and a transcript that is
shorter than its session.  `"o"` is a prompt of tool outputs only, which begins
no full transcript.  `Sources` is the order in which `generate_job` looks for
something to reuse, `Applies` the condition of each, `LiveTarget` the tokens it
then evaluates.

* Clients are honest: the ids of a turn stand for the conversation up to it.
  The model names them by its visible text.
* A request that is refused with 409 changes nothing, and has no action.  One
  whose prompt fills the context is refused before it is a job (`Admitted`).
* `failed` is history: whether a prefill, a rebuild or an evaluation has failed.
  Section 4 says why three of the properties hold until then only.
* `DS4_SERVER_LIVE_REWIND_DISABLE` is unset.
* There is one slot: its jobs run in sequence and its state has one writer.
  The disk is shared with other slots, which `KvStore` accounts for.

### KvStore

An operation holds `kv_mu` from its first to its last step; `pc` is the next
one, so that a crash may come between any two.  A text stands for its hash.
`entries` and `total` are what an eviction pass believes.  `settings` are model
and context of the running process and may differ after a restart.  Time is in
seconds, as in the headers.  `stored`, `lastUse` and `refused` are history: the last
reported store, the uses, and whether a pass has failed since one made room.

* Weighted eviction is an arbitrary choice among entries; strict LRU is exact.
* `min_tokens` is the same in every process and left out; header encoding is.
* A trailer is its size.  It is cut off and rewritten in place with no budget
  pass, as the code does.
* A failed write loses the files that were evicted for it; a discarded file is
  unlinked by path.  Both are in the model.
* What is in a trailer is `ToolMemory`'s.

### ToolMemory

`toolMem` is the list of ids, newest first, with the block of each id, the
references of each block and the byte count.  `turn` is what a slot has sampled,
and streamed to its client, and not remembered yet.  `writer` is the store that
holds `kv_mu`, between measuring and writing a trailer; `request[c]` a client
thread between `kv_cache_restore_tool_memory_for_messages` and
`tool_memory_attach_to_messages`.  A text is the set of blocks in it.  `sampled`
and `owes` are history: what was drawn for an id, and which ids the memory held
for a text when its trailer was written.

* An id is 128 random bits: none is drawn twice, and the loops that draw again
  are not modelled.  An unknown id is like one that was forgotten.
* A checkpoint is read in one step.  The code reads it without `kv_mu`; see
  section 4 for what that may do.
* Where an id came from (a statistic), the route heat in front of the ids and
  `--disable-exact-dsml-tool-replay` are left out.
* `Prune` is the loop of `tool_memory_prune_locked` as a fold: `DropOldest` does nothing
  once the limits hold, so as many rounds as there are ids are all that it can take.

### StreamBuild

`Groups` are the classes of tensors that are tied by shared files, in the order of
their first tensors, as `build_groups` finds them with `UnionFind`; `group` is the
first tensor of the group in hand, or the least one that the next group may begin with.
`step` is the next call of the run; `output` says whether the file has its size
and whether each tensor in it is empty, torn, wrong or whole; `state` is the
checkpoint; `partial` and `staged` are the bytes of `.part` files and shards.  `Interrupt`
stands for every way in which a run ends early.  `tampered` is history: whether
somebody took the output away, or asked for a reset that no refusal had asked for.

* The server always says how long a file is, and answers a Range request with
  the range, the whole file, or 416 when nothing is left.
* `--keep-shards`, the identity checks of source and layout, the disk preflight and
  the index, one more download, are left out.

### PreadPool

The caller (the thread that holds `inference_mu`) is one program counter; a
worker is another.  `size[a]` is the number of tasks of an array, zero when the
array is not alive; `finished[a]` the tasks whose read ended.  The early load's
array is part of a static structure, the plain one is on the stack.  `helper`
are the threads that a read creates for itself when the pool is busy or off.

* A read of one task needs no thread, and is left out (`Sizes` begin at two).
* The pool is not disabled by its environment variable.
* A `pread` that fails is a task that ended; the caller's test of `ok` is not
  modelled, because it concerns that task alone.

### ExpertCache

`pc` follows the main thread through `metal_graph_encode_decode_layer` and
`ds4_gpu_routed_moe_one_tensor`; `loader[t]` is where thread `t` is inside
`begin_selected_load` or `load_selected_missing`, `service` where the service
thread is around it, and `job` what they hand over.  `step` is the request's
next step, and `After` the one that follows it: the budget for its prefill, one scope
per layer for all rows and the release of the layer, the budget and the policy of its
decode, one scope per token.  `open` and `queue` are the command buffers, each with the buffers it reads and
what they were bound as; `content` is what a buffer really holds.
`cbSeq`, `batchSeq`, `ownedSeq`, `pendingMax` and `doneSeq` are the five numbers by
which the code knows what is in flight; the properties compare them with `queue`.

* Buffers 1 to `MaxBudget` are slots of slabs, those above are allocations of
  their own (`Spare`), which fail when there are no more.
* A victim is any entry that may be one: heat and age decide among them.
* A layer whose missing experts are worth it (`SplitMisses`) is encoded in two
  parts, the resident experts before the missing ones are waited for.
* A fault is an event that comes too late, a read that fails, a pool that refuses, a kernel that
  is refused, or a prefill that is cancelled between two rows.
* The slots of a load that failed are returned to nobody until the cache is
  cleared: `ds4_gpu_stream_expert_pending_load_release_buffers` (15668) and the
  error returns of the other path drop them.  `lost` keeps account of them.
* The first layer is kept once all its experts are there (`Kept`): none of them is a
  victim (`entry_protected`, 14601) and the layer is not released (15570).
  `KeepHashLayer` is the switch for it, which the launcher sets; TLC's
  runs have it on, the proofs cover both.
* Left out: the `mlock` path with its capped reuse, the reuse of an entry of the same
  expert, the prefetch of whole layers and the
  prepared batches of a prefill, seeds and the GPU copy, the paths with events or the
  asynchronous load disabled, `release_layer_keep_recent` and `_force` (both are reached only
  through a probe's environment variable), a server that keeps the
  decode budget for a short prefill, and the wrap of the 64-bit numbers.

### DistLink, DistPrefill, DistWorker, DistPipeline

`dist_coordinator_prefill_prompt_pipelined` is `prod`, `sender` and `reader`.
The hidden buffers of the ring are `slots`, and a buffer that is being computed
into is `Torn`, so that a sender that reads too early is seen.  `window` and
`slot` are the two waits of the producer.  A worker's threads are fields of
`worker[h]`: `reader`, `eval`, `relay`, with the prefetch queue between the first
two and the queue of forwarded requests between the last two.  `kv` and `hash`
are how many chunks the worker's session has evaluated and what it believes.

* A frame is read and written as a whole.  A write waits for room
  (`WorkRoom`); results go against the stream and always find room, because
  they are small.
* A fault is a connection that is cut, a thread that cannot be created, an
  evaluation or an allocation that fails.  A worker's first error shuts what the
  code shuts, and nothing else.
* Wire formats, activation widths and telemetry are left out.
* The prompt begins with a reset, so a worker's session begins empty and its first chunk
  always fits.  A pipelined continuation (`reset_first_chunk` false, 5545-5557) is
  compared with what the worker holds (7492-7499) and may be refused without any
  fault.  Its order of calls is in `DistSession`; the threads of this module see it as a
  prefill whose first chunk is not at zero, and `HealthySucceeds` is not claimed of it.

### DistSession

`checkpoint` and `valid` are the owner's session, `logits` whether `s->logits` are
those after it.  `registry` is `state->workers`; `planFresh` says whether
`d->plan_generation` is `state->generation`, which is the one use of both numbers.
`pc` is the place of the caller in `ds4_dist_session_sync`, `_eval`,
`_save_payload` or `_load_payload`; `work` is what is on its way or queued at a
worker, and a piece that is not `current` belongs to a call that was given up.
`side[w]` is the worker's side of its connection; `Slices` are the hops of a route,
`failures` counts what has gone wrong.
`kv[w]` is the tokens that the worker's session claims, whether it is valid, and
whether its KV state is really theirs (`sound`), which nobody in the code knows
and the property is about.

* A worker that restarts listens on a new port, so a plan that names the old one
  cannot reach it.
* After a sync or an evaluation that failed the caller may invalidate its session or go
  on with it (`Invalidate` is enabled, never required): the server invalidates only when the
  prompt began with a loaded checkpoint (`ds4_server.c` 9836, 9850), and
  `ds4_session_sync` (`ds4.c` 54238-54246) never does.  After a load that failed
  (`outcome` is `"lost"`) it must (`ds4_kvstore.c` 1296-1330).
* `sound` of a save is about the KV states in the shards.  A checkpoint file also
  holds logits; `ShardsDone` takes those of a loaded file to be right, which a file
  that was saved after a failed sync is not.
* Saves and loads happen between calls.  The save that a progress callback
  starts within a prefill is left out.
* Slices do not overlap, and the coordinator does not hold all of them.
* Descriptors are not numbered, and no connection is closed twice.
* A machine that vanishes without closing its connections is left to the send
  and receive timeouts, which end as a lost connection does.

## 4. Properties, runs and bounds

Each run's purpose is in `PROJECT.json`; here is why its bounds are enough.
Every property has a mutant of the code under which TLC finds it violated in the
same run, so that each bound is large enough for its property to bite.

| run | bounds | checks |
|---|---|---|
| `lane_stop` | two slots, context 2, spurious wake-ups, stop at any moment, one job in the backlog | `ModelExclusive`, `LaneInv`, `BatchWellFormed`, `QuietAtClose`, `TokensEvaluatedOnce`, `JobsEnd` |
| `lane_shutdown` | two slots, stop | finds `ShutdownCompletes` violated |
| `queue_batch` | two slots, or one worker with spurious wake-ups; three client threads that come and go, stop, failed start | `JobsAccounted`, `Routed`, `NoIdleSlot`, `QueueIsService`, and deadlock |
| `queue_live` | two slots and no stop, or one worker, spurious wake-ups and a stop; two clients | `JobsAnswered`, `StopCompletes` |
| `reuse` | conversations of two characters; context 3, two protocols, every checkpoint and no injected fault; or context 4, three protocols and no disk; or context 3, every fault and no checkpoint on the way | `FaithfulUntilFailure`, `CachedIsKept`, `DiskUntilFailure`, `FrontierBacked`, `PlainFaithful` |
| `reuse_wrong_key` | conversations of three characters, a failing prefill | finds `DiskFaithful` violated |
| `storage` | checkpoints: three texts (one begins another), crashes; two contexts and strict LRU without faults, or two models and weighted eviction where every call may fail. Tool ids: three ids in one checkpoint or two ids in two, two blocks, a small and a large memory, one client. Build: three tensors, four shards of two pieces, two groups | `BudgetHeld`, `StoredIsServed`, `LruOrder`, `PathsAreWhole`, `ReplayExact`, `MemoryAccounted`, `BuildWhole`, `OneGroupStaged` |
| `streaming` | the cache: two layers (one a hash layer, the first is kept), three experts of which a row needs two, budgets of four and three entries, one spare buffer; a request of two rows and one token, then one of one row and one token; one fault. Or the pool: three threads, reads of two or four tasks, three batches per pool, failing creation, shutdown | `BuffersHold`, `SlotsAccounted`, `JobHandedOver`, `RequestsEnd`; `ReadersOwn`, `ReadComplete`, `ReadsEnd`; and deadlock |
| `expert_cache_small_budget` | the same cache, one request of one row and one token, a decode budget of two entries, no fault | finds `ServiceNeverWaits` violated |
| `distributed` | one pipelined prompt: two workers, one with a prefetch queue and one inline, three chunks, a ring of one buffer, a window of two, one frame of room, one forwarded request, one fault. Or a session's calls: two workers on two slices, two tokens, a prompt of two, a checkpoint that begins it, context 3, chunks of one, one failure, one late piece of work | `SlotsOwned`, `PrefillFaithful`, `HealthySucceeds`, `ThreadsEnd`; `EvaluationFaithful`, `RouteCurrent`, `CallsEnd`; and deadlock |
| `dist_eval_replay` | the session, with no checkpoint on disk | finds `EvalAppends` violated |
| `dist_sync_repeat` | the same | finds `SyncHasLogits` violated |

* `streaming` has 550,286 distinct states and takes over two minutes on two cores,
  `distributed` 1,132,962 and three and a half; the others are smaller.
* `MCSlotReuse`, `MCStorage`, `MCStreaming` and `MCDistributed` put several settings in one
  run: the setting is chosen at the start and never changes.
* A memory of two ids or four bytes (with two checkpoints: one id or three bytes)
  forgets by either limit while two ids share a block; two checkpoints let an id be
  found in either.  The setting with two checkpoints draws the first two of the three ids.  A turn has one or two
  calls, so that a message may mix turns.
* The first and the last tensor of the build share a shard, so a group is not an
  interval, and its shards are not those of its first tensor.
* The pipeline's queues all have their least size, so that every wait happens;
  with three chunks one is computed, one is on its way and one is at a worker.
  The first worker forwards, the last one answers.
* The session's one prompt is `xy`, its checkpoint is `x`, and single evaluations are of
  `x` (`Samples`): what an evaluation makes of the checkpoint is `xx`, another sequence
  of the prompt's length, so that a check by length alone is not enough.  A larger
  instance (two prompts, two late pieces of work, before saves and loads
  were in the model) has 10.8 million states and no violation.  Renumbering
  requests is not needed: an answer is read from the call's own connection.
* Two slots are what exclusion and priority need.  A context of two tokens lets a session fill up, which is the boundary
  of `BatchWellFormed`.
* Three clients are needed to have a job in the middle of the list while a third
  runs; two slots to have a job that may run only on the busy one.
* Conversations of two characters have a merge, a hidden token and a prompt that
  is a proper prefix; a context of three is filled by them.  The wrong key needs
  three characters.  The theorems of `SlotReuseProofs` have no bound at all.
* Two tasks for three threads leave a worker out of a batch; four are more than
  the threads.  Three batches let a worker be late for one and meet the next.
* A cache of three entries is smaller than the four that a token uses, so loads reuse,
  wait, fail and retry; one above makes the decode budget the smaller one, which
  clears the cache.  Three experts of which two are used let a layer be found
  there, missing, or half of each.  Three is also
  `Layers * Used - 1`, with which TLC does not find `ServiceNeverWaits` violated in these
  requests; the two of `expert_cache_small_budget` are below it, as the product's 227
  entries are for its 43 layers of six.
* Each module's `TypeOK` states the types of its variables.  Those of the lane are
  part of `LaneInv`, and those of the queue, the pool and the cache are proved; the
  others were invariants of these configurations during development, and cost no
  run here.
* `MaxClock`, `MaxText`, `MaxBacklog` and `MaxPosted` bound counters that have no
  bound in the code; each is a guard, and no property mentions it.
* `MCJobQueue` declares clients and call ids interchangeable.  It is used in the
  safety run only; liveness runs use no symmetry.
* Deadlock is checked wherever the configuration does not say otherwise.  The
  lane's runs say so, because the server stops for good, and because
  `lane_shutdown` shows that it may hang; `expert_cache_small_budget` says so because
  its request comes to an end.  `MCStreaming` and `MCDistributed` have a stuttering step for
  exactly that end (`Served`, `Returned`), so that any other stop is a deadlock.

### What the violations are

`lane_shutdown`.  A slot that `server_prefill_enter` turns away because of the
stop flag lowers `prefill_waiting` and returns without a broadcast
(`ds4_server.c` 10622-10626).  A slot that went back to sleep behind it is not
woken any more, its thread never ends, and `main` joins it for ever although
"shutdown requested, draining requests" was printed.

`reuse_wrong_key`.  `kv_cache_store_current` (9720) takes the visible transcript
of a binding as a key when token counts agree.  A prefill that was interrupted
has replaced the session and left the bindings of the conversation before; when
the counts happen to agree, the tokens of one conversation are filed under the
transcript of another, and a later request loads them.

`dist_eval_replay`.  The owner's layers put the token into the owner's checkpoint
(`ds4.c` 54112) before anything is sent.  When a worker then fails,
`ds4_dist_session_eval` rebuilds from a transcript that is that checkpoint with the
token pushed once more (5680), and returns 0 for a session with the token twice.

`dist_sync_repeat`.  For the same reason a sync that failed on a worker leaves a valid
checkpoint that is the whole prompt.  The next sync of that prompt finds
nothing to evaluate (`ds4_distributed.c` 5536) and returns 0 with the logits of before,
unless the caller has invalidated the session, which it does only after a loaded
checkpoint; `ds4_distributed.h` 83 promises the prompt's timeline.  `EvaluationFaithful`
is what remains true without any assumption about the caller: a call
that evaluates has faithful logits.

`expert_cache_small_budget`.  `ds4_metal.m` 459-461 and `ds4.c` 20128-20130 say
that the service thread never flushes and never waits for command buffers.
`take_reusable` asks for the thread first (14707-14716);
`take_reusable_batch` (14851-14858) does not, so when all entries that it
could take are in flight it flushes and waits while the main thread encodes into
the same command buffer.  A token of `Layers * Used` routed experts
needs at least `Layers * Used - 1` entries to never get there, 257 in the product, and
more while the first layer is kept; decode starts at 227 (`ds4_server.c` 8315-8316), and any budget is accepted with a warning
(`ds4.c` 51919-51925).  The other properties of the cache do not depend on the budget.

### Observed, with no run

* A binding left behind by a prefill as in `reuse_wrong_key` also lets the next request continue
  another conversation's tokens directly, without the disk in between.
* It takes no fault of the machine.  `anthropic_live_remember` (`ds4_server.c` 12313)
  records the token count before `canonicalize_tool_checkpoint` (12329) rewrites the session
  to another one.  A later request that continues the session and runs into the end of the
  context fails after it has made progress (10679-10684); that may bring the session back
  to the recorded count with other tokens, and a request of tool outputs then continues these.
  Without `failed` in it, `Faithful` is violated so with `Api = {"anthropic"}`,
  `MaxText = 5`, `CtxSize = 4`, no disk and `Faults = {}`.
* A session whose evaluation failed (11482) is still compared by its tokens
  (9911): its length may be reported as cached although the next sync starts
  from zero.
* A checkpoint of a context smaller than `DS4_N_SWA` passes the lookup
  (`ds4_kvstore.c` 515) and is refused by the loader (`ds4.c` 47872), so that it
  hides a shorter one.
* The temporary file of a store that dies is named after the process and never
  listed, so no later pass counts or removes it.
* `ds4_gpu_stream_expert_cache_get_protected` (`ds4_metal.m` 15495) builds its
  read tasks without a file descriptor, so they name descriptor 0.
* A save from a progress callback within a pipelined prefill calls
  `dist_session_ensure_route` (`ds4_distributed.c` 4339).  If a worker registered or
  left meanwhile, the plan is freed and built again under the sender and the
  reader that use it, against the comment at 5449.
* `dist_coordinator_forget_route_workers` (2121) closes a connection that the
  client thread closes again later; the number may be another connection's.
* A relay that cannot allocate its buffer leaves its queue of requests open
  (6441), and the evaluation may wait for room in it for ever.  `ThreadsEnd` lets it
  out by `Orphaned`.
* An error that overtakes the results of earlier chunks is reported as a metadata
  mismatch; the call fails all the same.
* A worker whose forward fails may answer the same request twice; the second
  answer is read by nobody, since the call has failed.
* After a failed pipelined call the connection is shut, so the attempt to
  rebuild on the same plan after a worker's error always fails.
* `build_official_q4_stream.py` reads the completed groups (301-309) before it
  looks for the output (313).  When the output is gone it is created again, the
  old groups are skipped all the same, and the build is called complete; hence
  `tampered` in `BuildWhole`.
* A build that dies between `--stream-init` and its first checkpoint is refused by the
  next run, which asks for `--reset` (316), although `SKILL.md` 62-63 says that
  the same command goes on.
* Storing a text that has a checkpoint already keeps the ids that are in memory
  now; ids that only the old trailer had are lost (`ds4_kvstore.c` 921-926).
* When another thread changes the tool memory between measuring (9542) and writing
  (9571) a trailer, a new checkpoint of hundreds of megabytes is given up, and an
  old one keeps a header with the wrong size, which matters only when it is zero:
  its ids are then never read (9655).
* A client thread reads trailers without `kv_mu` while a store may cut and
  rewrite one (`ds4_kvstore.c` 923): beyond its buffer it reads new bytes at an
  old offset.

## 5. Fairness

`ModelLane`: threads that can run do, and the coalescing deadline passes.  The
threads that wait for `inference_mu` get it when it is unlocked again and again
(strong fairness): a mutex that hands itself to one thread for ever is not what
the platform does, and the holders are finitely many turns of the same lane.
Nothing is assumed of the signal, of new jobs or of spurious wake-ups.  A wait
on `model_cv` needs no assumption: a broadcast removes every sleeper.

`JobQueue`: whoever holds `s.mu` proceeds; `s.mu` is taken by whoever asks for it
again and again (strong fairness).  Nothing is assumed of connections,
requests or the signal, except that a client thread that exists proceeds.

`PreadPool`: workers and helpers run, a `pread` ends, and the caller goes on with
what it has begun.  When to read and when to shut down is its choice.

`ExpertCache`: the main thread and the service thread go on when they can, the GPU
runs what was committed and signals its events, and a read ends (weak fairness of
each).  Faults are nobody's duty.

`DistPipeline`: while some thread can go on without a new fault, one does.  No
thread can go on for ever by itself, so this is less than any scheduler gives.
Connections are cut by nobody's duty, and a write that waits for room is helped
only by who reads, never by a timeout.

`DistSession`: the caller goes on with its call, and each worker with its work and
with its connection (weak fairness of `CallStep` and of `WorkerStep(w)`).  Nobody has
to start a call, to remove a dead entry, or to fail.

`SlotReuse`, `KvStore`, `ToolMemory` and `StreamBuild` have safety properties only.

`MCStreaming` and `MCDistributed` ask each module's fairness of its own setting:
`[]<>(setting = ...) \/ Fairness`, where the first disjunct says that the behaviour is of the
other one, since a setting never changes.  `RequestsEnd`, `ReadsEnd` and `CallsEnd` are
written as `[]<>(idle)`, which says of a thread with the one resting place the same as
"every call leads back to it"; so is `ThreadsEnd`, whose threads stay ended.

## 6. Proofs

The proofs are checked by TLAPS for every value of the constants that the named
assumptions allow.  TLC evaluates the same assumptions on the constants of every
run, and each inductive invariant was a TLC invariant of the small instance
before it was proved.

| module | theorem | what it says, beyond the bounds of the runs |
|---|---|---|
| `ModelLaneProofs` | `LaneTypes` | types of the lane; `decode_pending` is the number of raised requests, so subtracting a batch from it never goes below zero |
| | `LaneExclusive` | at most one thread uses the executor, and `model_busy` says whether one does |
| | `LaneQuiet` | when the sessions are saved and freed no thread of the lane is left, and nobody holds `inference_mu` |
| | `LaneBatch` | a request is raised or taken, not both, and every session of a batch has room for its token, even at shutdown |
| | `LaneTokens` | until the stop, the session of a slot that chooses its next token has exactly the tokens that its worker believes |
| `JobQueueProofs` | `QueueTypes` | types of the queue; the client count never goes below zero |
| | `QueueAccounts` | an accepted job is in exactly one place until it is done, and a closed server has nothing left that runs |
| | `QueueRoutes` | a request of tool outputs only is with the slot that made the calls, from its dispatch until its worker looks |
| | `QueueKeepsBusy` | while `s.mu` is free, no job waits that an idle slot could run |
| | `QueueRefines` | the queue implements the safety of `JobService` |
| `SlotReuseProofs` | `PromptsAreFaithful` | until a prefill, a rebuild or an evaluation fails, what a job evaluates shows the conversation that the client means, by whichever rule its beginning was reused |
| | `CheckpointsAreFaithful` | until then, a checkpoint on disk holds the conversation that its key shows, whatever binding lent the key |
| | `CachedTokensAreKept` | until then, what is reported as read from the cache begins the prompt and is not evaluated again |
| | `PlainRulesAreFaithful` | the rules that compare tokens or text evaluate the text of the request, whatever has failed |
| | `FrontiersAreBacked` | a frontier counts as stored for good only in a step that leaves its checkpoint on disk |
| | `SlotStaysWithinBounds` | type correctness: session, bindings, cached and stored frontiers stay within the context, the checkpoints within their budget |
| `StorageProofs` | `CheckpointsWhole` | a checkpoint's name has a whole file or none, whatever fails and wherever the process dies |
| | `StoresAreServed` | a text that was reported as stored is found and can be loaded, for contexts that are no smaller than the raw window |
| | `LeastRecentGoesFirst` | strict LRU removes no file that was used after one it leaves, if every use can be written down |
| | `BudgetIsHeld` | headers, texts and payloads are within the budget at every moment, unless a removal failed and no pass has made room since |
| | `BuildIsWhole` | what the checkpoint calls done is whole, and so is a complete build, for every plan and however often runs die |
| | `OneGroupIsStaged` | the staged files, in part or whole, are of one group at every moment |
| | `MemoryIsAccounted` | list, blocks, references and bytes of the tool memory agree and both limits hold, for every two limits, also those smaller than one entry |
| | `RepliesAreExact` | a message gets the text its ids were sampled for or none, through any forgetting, restarts and checkpoints of any model; where nothing can be pushed out it gets its text |
| `PreadPoolProofs` | `PoolTypes` | types of the pool; a batch never has more workers than there are threads |
| | `PoolReadersOwn` | a pool thread reads only into the posted array, at a task that is its own |
| | `PoolReadComplete` | when the caller goes on, every task of its array has been read, by the pool or by threads of its own |
| `ExpertCacheProofs` | `CacheTypes` | types of the cache, for every list of requests and any faults |
| | `CacheHandedOver` | main and service thread are never in the cache together, and an answer is of the layer that is encoded |
| | `CacheSlots` | a slot that was handed out has exactly one owner |
| | `CacheBuffers` | what a command buffer was bound to stays in its buffer until the GPU has run it |
| `DistPipelineProofs` | `RingKeepsChunks` | a hidden state that waits to be sent or is being sent stays the one of its chunk, for every depth, window and number of workers, chunks and faults |
| | `PipelineTypes` | types of the coordinator, of the connections and of the workers |
| | `PrefillIsFaithful` | a prefill that returns success evaluated every chunk on every worker, and hands out the result of the last chunk |
| | `HealthyPrefillSucceeds` | without a fault no prefill fails, for every bound on a queue and every interleaving |
| `DistSessionProofs` | `RouteIsCurrent` | a call goes by workers that are registered as they were when its plan was built, whatever comes and goes |
| | `EvaluationIsFaithful` | a call that ends well leaves a valid session with the tokens it was asked for; one that evaluates leaves logits of a KV state that is theirs on every worker, one that saves has saved such a state; whatever failed before and whether or not the caller kept the session after it |

**The lane** (from `LaneAssumption`: at least one slot, a context of at least two
tokens, quanta of at least one).  Types alone are not inductive: the decode
worker assigns `decode_pending - batch` without a test, so `decode_pending` stays
a number only while it equals the number of raised flags.  The invariant is
therefore `LaneInv`, `TypeOK /\ PendingCounted`, and one lemma per half shows that each
step keeps it: raising a request adds one member (`FS_AddElement`) and one to the
counter, taking a batch takes all of both.  Then
`ModelExclusive` is inductive over it: `UsesModel` reads the program counters of
slots and of the decode worker, and the only steps that make one a user test
`model_busy` first in the same critical section.

The other theorems of the lane add to it.  `ShutdownOrder` and `LockHeld` say who
has ended and who holds `inference_mu` when the main thread comes to free the
sessions.  `BatchWellFormed` alone is not inductive: the room that a slot tested for
must still be there when its token is evaluated.  `Requests` says where a worker
may be while its request stands (`AskedAt`), also after a stop in which it gave up
and came as far as the next prefill, and that nobody but the batch advances its session.
`TokensTold` follows one token from the flag to the answer: the session is one
token ahead of its worker exactly between the evaluation and the wake-up.  After the
stop it need not be: a worker that gives up leaves its token to a batch that runs later.

**The queue** (from `QueueAssumption`: a positive number of slots, finitely many
client threads, null pointers that are none of them).  The state has pointers and the
properties are about sequences, so `ListInv` says that there is a sequence of jobs, each once,
that `head`, `next` and `tail` link (`IsList`).  `LinkedIsList` proves that
`QueuedAt`, a recursive function, then finds that sequence; it is an induction
over the naturals (`SetInduction`, from the library's theorem that `<` is
well-founded on them).  `ListAppend` and `ListRemove` are what
`enqueue` and the unlinking in the middle of the list do to it.  Around it,
`WorkerInv` says what a worker's place tells about its slot, `MainInv` which workers and
clients there are at each stage of start and shutdown, with
`clients = Cardinality(Present)` and one more while a thread is being created,
`ClientInv` what a client may hold, `BindInv` that a call id is bound to one session.
`PlaceInv` is `JobOnce` without the counting: no job is in two
places, and those in service are in one.
`Routed` is inductive with these because a slot's binding changes only when
its own worker ends a job, and the slot is busy until then.  `NoIdleSlot` is
inductive because a thread leaves the dispatcher only when nothing
is runnable, and every step that frees a slot or adds a job enters it before it gives
`s.mu` back.

`QueueRefines` maps the list to `Waiting` and the workers' jobs to `RunningJob`: enqueue is
`Submit`, a dispatch or a `dequeue` is `Start` at the place where the job was,
the end of a job is `Finish`, the stop is `Close`, and the rest are stutters.
It holds of the specification without fairness; `JobsAnswered` and `StopCompletes` stay with TLC.

**The slot** (from `ReuseAssumption`: protocols and faults are among those modelled,
and the sizes are numbers, those of a context, a quantum and a conversation not zero).
The first half of the module is about data: that the text of tokens and the visible part of a
text are what their parts are, one after the other (`TextConcat`, `VisibleConcat`), and that
the canonical tokens of a text spell it (`TokenizeText`), by induction on lengths as a
set of exceptions without a least one (`NoFirst`).

`PlainFaithful` needs no more than that and types.  A part of a prompt that is
evaluated first must lie within it (`ColdWithin`), or `Goal` would not be tokens.
`FrontierBacked` rests on `HeldBack`: a frontier is held back from zero only, for the cold
checkpoint that will be taken at the end of this prompt or before, and until then no step
reaches a frontier beyond it; so a write that fails restores zero and none is forgotten.
`CachedIsKept` rests on `Reused`: what was reused begins the prompt, and a
prefill lengthens what begins its prompt.

`TypeOK` needs `HeldBack` too (what is restored is zero) and the planned length of a cold
checkpoint within the context.  That a rewind, a load or a planned checkpoint fits is what
the refusal of a prompt that fills the context (`Admitted`) and of such a payload (`Fits`)
are for; that the disk keeps its room is that `Stored` removes an entry before it adds one.

`FaithfulUntilFailure` and `DiskUntilFailure` are inductive only together
(`MeaningInv`).  A binding is compared by its token count, so the question is why a count
that agrees stands for the right tokens.  `Named` says that it does whenever a request may look: a
binding at the frontier shows what the session shows.  It is kept because of `Behind`:
when a prompt has been evaluated, the bindings that were not continued are gone and
the one that was is shorter than the prompt, hence than the session, also when the
client leaves in the middle of the response.  `Meant` follows the prompt and the response behind it.
`Keyed` is the disk's part: it takes its keys from `Named` and gives `StartMiss` what it loads.
A rewrite of tool calls needs that the request was not of outputs only: then its rendering
would begin with a token that no session has (`RewritesIs`).
Nothing of this survives a failure, as `reuse_wrong_key` and section 4 show: a prefill that
fails leaves the bindings and not the tokens.

**The store** (from `StoreAssumption` and `MissingAssumption`: finitely many texts
with lengths, faults from the four modelled, and a value that is no file).
`PathsAreWhole` is not inductive: a rename puts what was written under the
checkpoint's name, an append writes to a file that is already there.
`RenamesWhole` says that a file that is about to be renamed was written to its
end, `EvictsFor` that the eviction before a write knows the file it makes room
for, `DiskTypes` that directory and new file are what they should be.  A crash takes away
the operation and leaves the directory as it is.

`StoresAreServed` adds `ServedInv`: the file under the stored text is one that this
model and context may use, while another file is made nothing is reported, and
the pass of a restart that keeps the report has nothing to remove.  That the
lookup returns the text itself and not another one of the same length is
`FoundItself`, from what a prefix is.  The hypothesis `ContextsCoverWindow` is needed: a
payload's raw window is the smaller of the context and `DS4_N_SWA`, and the
loader refuses another one, while `kv_cache_existing_compatible` does not look at it; so a
store under a context below the window would be a success that nobody can load
under a larger one.

`LeastRecentGoesFirst` compares the time in a file with the last use of its text
(`UseInv`).  They are equal only while every use is written: its
hypothesis `UsesAreRecorded` asks that touching and writing do not fail and that there
is a trailer to rewrite, since a store of a text that exists with nothing to append
returns without a touch (`ds4_kvstore.c` 1016-1024).  Removals may fail.

`BudgetIsHeld` has no hypothesis.  The budget is exceeded only
after an unlink that fails: `ds4_kvstore_evict` then leaves its loop and the store
goes on.  `refused` remembers that until a pass ends that removed all it wanted.
`BudgetInv` says that a pass which did not fail knows the files and
bytes that are left (`entries = Holds(disk)`, `total = Space(disk)`), and that from its end
to the rename the file to come fits beside the payloads.  A pass may end because
nothing is left; then the test of `kv_cache_budget_required` before it is what makes the file
fit.  The bytes are a sum over a set that the community modules take by a recursive
function over its subsets.  That such a function exists (`SumsExist`), that any
element may be taken first (`SumsTake`) and that smaller numbers give a smaller sum
(`SumsCompare`) are proved by the smallest subset that would be an exception,
from the library's theorem that `<` is well-founded on the naturals.

**The build** (from `BuildAssumption`: tensors and files are finite sets of numbers,
a tensor has a file, a file has a byte, and `Absent` is none of what may be there).
First the groups: `TiedClosed` and `TiedSame` show that being tied by
shared files is an equivalence, since what is left over of a set that shares nothing
with the rest shares nothing either; so two groups have no tensor in common
(`GroupsApart`) and differ in their first one (`FirstTells`).  `OrderInv` says that
the groups before `group` are done, so at the end all are, and that the group in hand is not
done, so writing it tears nothing that the checkpoint promises.  `ShardsInv` says that
a shard has its name only when it is whole, `OutputInv` that what the checkpoint
calls done is whole and what a run has in mind is what the checkpoint says, both
unless the output was taken away.  `StagedInv` is why a run that died cannot leave
files of two groups: what is there belongs to the group that the checkpoint names
next (`NextIs`), and that is the group in hand (`StagedForCurrent`), since every run
begins with the checkpoint.

**The tool memory** (from `ToolAssumption`: finitely many blocks of at least one byte, limits of
at least one id).  Both properties are about operators that go through a list: `Prune`
over the ids, `PutAll` over what a turn or a trailer has, `AttachText` over
the ids of a message.  `FoldLeft` is defined by choice from a recursive function on sets,
so `FoldsExist` proves once that for every step there is a function that does it for one
element after the other, and `FirstPlaces` that it goes by `1 .. 0`, `1 .. 1` and so on;
`PruneSteps`, `PutAllSteps` and `LookUpAll` are inductions along these (`UpTo`).
What they carry is `Sound`: the list is a sequence of different ids, exactly those that
have a block, each block's references are the number of its ids, the bytes
are one for each id and the length of each used block, once.  `DropSound`,
`TouchSound` and `InsertSound` show it of the three ways in which an entry changes; the
sum over the used blocks changes only when the first id of a block comes or the last
one goes (`BlockLost`, `BlockGained`).  `PruneFacts`: after as many
rounds as there are ids either the limits hold or the memory is empty, and then they
hold too.

`ToolInv` says of a state that every place where an id lies beside a block has the
block it was drawn for: the memory (`Faithful`), a turn that was streamed and not yet
remembered (`TurnTold`), the trailer of every checkpoint (`FilesTold`).  Neither an
entry pushed out, nor a trailer that was written of another memory than the one it was
measured by, nor a restart can break that; ids are drawn in order
(`DrawnInOrder`), so no draw meets an id that lies somewhere.  That a text is also
*given* needs more: `FilesTold` says that a trailer has all ids it owes and is not of
size zero, and `RequestsTold` that a request which cannot lose an id knows all it has
seen.  `AmpleIsRoomy` is the reason why it cannot: a memory that is `Sound` has at most
all ids and at most the bytes of all blocks, so with `Ample` limits no fold ever drops one.

**The pool** (from `PoolAssumption`: more than one thread, and more than one task
in each read, since a read of one task is done in place).  That the caller's
array outlives its readers rests on counting.  `Due` is the set of
workers that are inside the posted batch or will enter it when they see its generation;
`CountsDue` says `Cardinality(Due) <= remainingWorkers`.  So when the last
worker checks in, the set without it is empty: nobody reads, and no
thread that wakes late can still join.  Posting starts from an empty set and
makes at most `activeWorkers` members, numbered below it; joining and claiming
add none; checking in removes one.  The other parts say what surrounds this:
`CallerInv` where the caller is and which arrays it keeps, `BatchInv` that a
posted array is kept and has `nTasks` tasks, and `TaskInv` that indices in hand are
different, below `nextTask` and not yet read.  `ReadersOwn` follows, with
`nTasks = size[tasks]` from `remainingWorkers > 0`.

`PoolReadComplete` needs the other direction: nothing is left out.  `Covered` says that what has
been taken of the posted array is read or in a reader's hands; when the batch is
over there are no hands left, and `nextTask = nTasks`.  `Striped` is the
same for the threads that a read creates for itself: thread `w` has read all of its
stripe before its next task, and the stripes are the remainders.  `Complete` carries
the result from the end of the batch to the moment when the caller relies
on it, which for an early load is much later.

**The cache** (from `CacheAssumption`: layers, a finite set of experts of which a
row uses at least one, budgets, chunks and requests of any size).  No lock protects
it, so the argument has three strands.  `HandOK` says that service thread and main
thread exchange places: while a job is handed over, the main thread is at a place
where it does not touch the cache, so one of the two is outside
the loader (`Alone`).  `SlotsOK` says that the buffers of entries, of the pending
load, of each thread's call, the free and the lost slots are disjoint and make up all that were handed
out; `CallOK` and `PendingOK` say what a load that stops in its
middle has and what it still lacks.  `BindsOK` says that what an open or a
committed command buffer reads is an entry whose mark is at least that buffer's
number, and `SeqOK` orders the numbers, so that an entry whose mark is
`doneSeq` or below is read by nobody; only those become victims.
`BuffersHold` follows with `ReadsOK`: a buffer of an entry holds its expert.

**The ring** (from `LinkAssumption`, `PrefillAssumption` and `PipelineAssumption`:
at least one worker and chunk, a depth and a window between one and the number of
chunks).  `SlotsOwned` says that each chunk between `sent` and `submitted` is in its
buffer.  It is kept because the producer writes into a buffer only when fewer
than `Depth` chunks are queued: two numbers closer than `Depth` have different
remainders (`ModApart`), so the buffer it writes is none of theirs.  The rest of
the invariant is where the producer is when the ring is full and which chunk it
computes; no step of a worker touches it.

**The chunks on their way** (from the same assumptions).  `PrefillFaithful` looks at
the moment of success only; the invariant follows each chunk there.  `IsWorker`
relates a worker's program counters to what it holds.  `InOrder` says that the frames
before a worker (on the connection, in the reader's hand, in the prefetch queue) have
ascending numbers beyond the one it evaluates, none beyond what was sent to
it: so a chunk may be lost but never overtakes another.  `Hashed` says that a session
whose hash is that of `n` chunks has evaluated these `n`.  A worker that is to
evaluate a frame out of turn finds that the hash does not fit and gives an error, so
what it hands on is right: `GoodFrame` and `GoodAnswer` say of every frame and of
every answer that is not an error that it is its chunk's, and, for the last
chunk, that all workers before it (for an answer: all workers) have `Count` chunks.
The coordinator succeeds only on an answer to the last chunk.  There is one
lemma per step of a worker, with what it leaves alone stated once (`SameWork`, `SameKv`,
`SameRelay`, `SameFlags`).

**Nothing turns down a healthy prompt** (from the same assumptions).  An error of the
code's own making would be one of four: a frame out of turn, an answer of the wrong
number or kind, a closed connection that nothing cut, a queue that refuses.  `Healthy`
excludes each while `faults = 0`.  `InStep` is `InOrder` made exact: the
numbers before a worker are consecutive, and what the sender has sent is what lies
on the way.  `Back` is the same for the answers, which carry only a number and
a kind: what a worker has given back, what lies on the connection and what was
taken of it add up, and the relay's record of forwarded requests is exactly the
chunks between; so the head of that record is always the request that the next
answer is for (`dist_worker_forwarder_enqueue_request` against the relay's
pop).  `Well` and `CoordinatorWell` say that every thread is in its loop.  The proof of a
step then shows that its branches to an error have no state to start from, and
`FaultsCounted` that no step lowers `faults`.

**The route of a session** (from `SessionAssumption`).  `RouteInv`: while the plan is ready and
its generation is the registry's, every entry of the plan has the port that the
registry has.  Registering and removing a worker make the generation new;
everything else leaves ports alone or empties the plan.  Between `ForgetRoute` and
`Reroute` the plan is empty while its generation may still be right; the
invariant excepts that place, and no call starts from it.

**The answers of a session** (from `SessionAssumption`; nothing is assumed of the
caller).  That no worker goes on from the state of
another sequence (`KvSound`) is the hash check, step by step.  The rest is why the
answers that the coordinator counts are those of its own chunks.  `WorkDue`: the
pieces of the current call are consecutive parts of its target and lie on the
route in that order (`Ahead`: what is nearer to its answer has the smaller
numbers), none of them answered; so the piece that the last hop takes is the next in order
(`TakenInOrder`, `AnswerIsNext`), and when `done` reaches the end of the
target nothing is left that a later call could take for its own.  `LateWork`
says the same of a call that was given up.  `CallerOK` says what the caller
relies on at each place: from the first chunk on, `checkpoint` is the beginning of the
target that was evaluated.  It says nothing of the logits of an idle session: a failed
call leaves a valid session without them, which is why the theorem speaks of a call
that evaluates and why `SyncHasLogits` is false.

Nothing of the runs' bounds enters: `MaxBacklog`, `MaxClock`, `MaxPosted`,
`MaxFaults`, `MaxFailures` and `MaxLate` are arbitrary numbers in the theorems.

What stays with TLC: liveness under fairness and `ENABLED`, which the prover does
not do.  Induction over the naturals and over finite sets is done with the least
exception in place of a predicate.
Every invariant of a passing run is a theorem too; the
liveness properties are those without one.

## 7. Plan

Order of the work, the most important behaviour first: the lane, the queue with
its service, session reuse, the checkpoint store, the read pool, the distributed
pipeline, the distributed session, the expert cache, the tool memory and the
streamed build (these are done), then

1. The memory planner (8278-8400, `ds4_ssd.c` 70-136) and
   `ds4_compute_layer_placement` (`ds4_layer_pack.c` 11-43): operators checked
   against reference definitions, the placement as a loop with a proof.
2. Distributed inference: saves within a prefill, with the plan as storage that
   can be freed; overlapping slices.
3. What `ExpertCache` leaves out: the prefetch of whole layers in a prefill and its
   prepared batches, which use the same slots.
4. The prefix of a stream that is safe to send.
