----------------------------- MODULE PreadPool -----------------------------
(***************************************************************************)
(* The pool of threads that reads routed experts from the SSD into Metal   *)
(* buffers: ds4_gpu_stream_expert_pread_pool_* of ds4_metal.m, with the    *)
(* early load that is begun before the router's choice is needed and       *)
(* finished after, the plain reads beside it, and the shutdown.            *)
(*                                                                         *)
(* One thread, the caller, issues all reads: it runs under inference_mu.   *)
(* A read is an array of tasks that the caller owns: "early" is            *)
(* g_stream_expert_pending_load.tasks and the buffers behind it, alive     *)
(* while an early load is pending; "plain" is an array on the caller's     *)
(* stack, alive during one call.  A region between lock and unlock of the  *)
(* pool's mutex is one action.                                             *)
(***************************************************************************)
EXTENDS Integers, FiniteSets

CONSTANTS
    Threads,     \* ds4_gpu_stream_expert_pread_thread_limit
    Sizes,       \* how many tasks a read may have
    CreateFails, \* whether pthread_create may fail
    MaxPosted    \* bound: batches the pool is given before it is shut down

ASSUME PoolAssumption ==
    /\ Threads \in Nat \ {0, 1}
    /\ Sizes \subseteq Nat \ {0, 1}
    /\ CreateFails \in BOOLEAN
    /\ MaxPosted \in Nat

Worker == 0 .. Threads - 1
Array == {"early", "plain"}
Null == "NULL"

VARIABLES
    initialized, threadCount, activeWorkers, remainingWorkers,
    tasks,      \* the array that is posted, or NULL
    nTasks, nextTask, generation, stopping,
    thread,     \* where a pool thread is
    seen,       \* its seen_generation
    taken,      \* the task it has taken: its array and index
    helper,     \* a thread of one read: the next index of its stripe, or -1
    caller,     \* where the caller is
    reading,    \* the array of the read it is in, or NULL
    early,      \* the read is an early load that need not be waited for
    created,    \* threads it has created so far
    size,       \* the number of tasks of an array; 0 when it is not alive
    finished,   \* the tasks of an array whose read has ended, well or not
    ok,         \* the caller could start every thread it needed
    earlyPending \* g_stream_expert_pending_load.active

batchVars == <<activeWorkers, remainingWorkers, tasks, nTasks, nextTask>>
sharedVars == <<initialized, threadCount, batchVars, generation, stopping>>
workerVars == <<thread, seen, taken>>
ownVars == <<helper, created>>
readVars == <<reading, early, size, earlyPending, ok>>
poolVars == <<sharedVars, workerVars, ownVars, readVars, caller, finished>>

-----------------------------------------------------------------------------
NoTask == [array |-> Null, index |-> 0]

PoolInit ==
    /\ initialized = FALSE /\ threadCount = 0
    /\ activeWorkers = 0 /\ remainingWorkers = 0
    /\ tasks = Null /\ nTasks = 0 /\ nextTask = 0
    /\ generation = 0 /\ stopping = FALSE
    /\ thread = [w \in Worker |-> "absent"]
    /\ seen = [w \in Worker |-> 0]
    /\ taken = [w \in Worker |-> NoTask]
    /\ helper = [w \in Worker |-> -1]
    /\ caller = "idle" /\ reading = Null /\ early = FALSE /\ created = 0
    /\ size = [a \in Array |-> 0]
    /\ finished = [a \in Array |-> {}] /\ ok = TRUE
    /\ earlyPending = FALSE

\* A broadcast on start_cond.
Woken == [w \in Worker |-> IF thread[w] = "asleep" THEN "top" ELSE thread[w]]

\* Mutant: the last worker does not signal.
SignalledMutant == caller

\* The caller sleeps on done_cond until it is signalled.
Signalled == IF caller = "asleep" THEN "wait" ELSE caller

\* The fields of a task and its bytes are written with no lock held.
Perform(a, i) == finished' = [finished EXCEPT ![a] = @ \cup {i}]

-----------------------------------------------------------------------------
(* A pool thread.                                                          *)

Sleep(w) ==
    /\ thread[w] = "top" /\ ~stopping /\ generation = seen[w]
    /\ thread' = [thread EXCEPT ![w] = "asleep"]
    /\ UNCHANGED <<sharedVars, seen, taken, ownVars, readVars, caller, finished>>

Exit(w) ==
    /\ thread[w] = "top" /\ stopping
    /\ thread' = [thread EXCEPT ![w] = "exited"]
    /\ UNCHANGED <<sharedVars, seen, taken, ownVars, readVars, caller, finished>>

\* The next task, if one is left.
Claim(w) ==
    /\ nextTask < nTasks
    /\ nextTask' = nextTask + 1
    /\ taken' = [taken EXCEPT ![w] = [array |-> tasks, index |-> nextTask]]
    /\ thread' = [thread EXCEPT ![w] = "read"]
    /\ UNCHANGED <<activeWorkers, remainingWorkers, tasks, nTasks, caller>>

\* Mutant: the batch is over when its last task is taken.
LastInMutant == remainingWorkers = 1 \/ nextTask = nTasks
LastIn == remainingWorkers = 1

\* No task is left: the worker checks in, and the last one ends the batch.
CheckIn(w) ==
    /\ nextTask >= nTasks
    /\ taken' = [taken EXCEPT ![w] = NoTask]
    /\ thread' = [thread EXCEPT ![w] = "top"]
    /\ IF remainingWorkers > 0 /\ LastIn
       THEN /\ tasks' = Null /\ nTasks' = 0 /\ activeWorkers' = 0
            /\ remainingWorkers' = 0
            /\ caller' = Signalled
       ELSE /\ remainingWorkers' = IF remainingWorkers > 0
                                   THEN remainingWorkers - 1 ELSE 0
            /\ UNCHANGED <<tasks, nTasks, activeWorkers, caller>>
    /\ nextTask' = nextTask + 1

\* Mutant: a thread beyond the batch's workers joins in.
InBatchMutant(w) == w <= activeWorkers
InBatch(w) == w < activeWorkers

\* A new generation: a worker of the batch takes its first task.
JoinBatch(w) ==
    /\ thread[w] = "top" /\ ~stopping /\ generation # seen[w]
    /\ InBatch(w)
    /\ seen' = [seen EXCEPT ![w] = generation]
    /\ Claim(w) \/ CheckIn(w)
    /\ UNCHANGED <<initialized, threadCount, generation, stopping, ownVars,
                   readVars, finished>>

\* A thread that the batch does not need goes back to the wait.
StandBy(w) ==
    /\ thread[w] = "top" /\ ~stopping /\ generation # seen[w]
    /\ ~InBatch(w)
    /\ seen' = [seen EXCEPT ![w] = generation]
    /\ UNCHANGED <<sharedVars, thread, taken, ownVars, readVars, caller, finished>>

\* pread, with the mutex released.
ReadTask(w) ==
    /\ thread[w] = "read"
    /\ Perform(taken[w].array, taken[w].index)
    /\ thread' = [thread EXCEPT ![w] = "done"]
    /\ UNCHANGED <<sharedVars, seen, taken, ownVars, readVars, caller>>

NextTask(w) ==
    /\ thread[w] = "done"
    /\ Claim(w) \/ CheckIn(w)
    /\ UNCHANGED <<initialized, threadCount, generation, stopping, seen,
                   ownVars, readVars, finished>>

-----------------------------------------------------------------------------
(* The caller starts a read.                                               *)

Begin(a, n) ==
    /\ caller = "idle" /\ (initialized => generation < MaxPosted)
    /\ reading' = a /\ early' = (a = "early")
    /\ size' = [size EXCEPT ![a] = n]
    /\ ok' = TRUE
    /\ caller' = IF initialized THEN "post" ELSE "init"
    /\ UNCHANGED <<sharedVars, workerVars, ownVars, earlyPending, finished>>

\* An early load; a pending one has been finished or cleared before.
BeginEarly == ~earlyPending /\ \E n \in Sizes : Begin("early", n)

\* A read of missing experts, also while an early load is pending.
BeginPlain == \E n \in Sizes : Begin("plain", n)

\* pread_pool_init: the pool's state, then its threads.
InitPool ==
    /\ caller = "init"
    /\ threadCount' = Threads /\ stopping' = FALSE /\ generation' = 0
    /\ activeWorkers' = 0 /\ remainingWorkers' = 0
    /\ tasks' = Null /\ nTasks' = 0 /\ nextTask' = 0
    /\ created' = 0 /\ caller' = "create"
    /\ UNCHANGED <<initialized, workerVars, helper, readVars, finished>>

CreateThread ==
    /\ caller = "create" /\ created < Threads
    /\ thread' = [thread EXCEPT ![created] = "top"]
    /\ seen' = [seen EXCEPT ![created] = 0]
    /\ created' = created + 1
    /\ UNCHANGED <<sharedVars, taken, helper, readVars, caller, finished>>

Created ==
    /\ caller = "create" /\ created = Threads
    /\ initialized' = TRUE /\ created' = 0 /\ caller' = "post"
    /\ UNCHANGED <<threadCount, batchVars, generation, stopping, workerVars,
                   helper, readVars, finished>>

\* A thread cannot be created: those that were must go.
CreateFailed ==
    /\ caller = "create" /\ created < Threads /\ CreateFails
    /\ stopping' = TRUE /\ generation' = generation + 1
    /\ thread' = Woken
    /\ caller' = "undo"
    /\ UNCHANGED <<initialized, threadCount, batchVars, seen, taken, ownVars,
                   readVars, finished>>

Joined(n) == \A w \in Worker : w < n => thread[w] = "exited"

\* The pool stays off.  An early load is tried once more as a plain read.
UndoCreate ==
    /\ caller = "undo" /\ Joined(created)
    /\ thread' = [w \in Worker |-> "absent"]
    /\ threadCount' = 0 /\ stopping' = FALSE /\ created' = 0
    /\ caller' = IF early THEN "init" ELSE "spawn"
    /\ early' = FALSE
    /\ UNCHANGED <<initialized, batchVars, generation, seen, taken, helper,
                   reading, size, earlyPending, ok, finished>>

Fewer(m, n) == IF m < n THEN m ELSE n

\* The workers of a read: one for each task, up to the limit.
WorkersFor(n) == Fewer(Threads, n)

BatchOut == remainingWorkers # 0 \/ tasks # Null

\* pread_pool_begin posts the batch.
PostBatch ==
    /\ caller = "post" /\ ~BatchOut
    /\ tasks' = reading /\ nTasks' = size[reading] /\ nextTask' = 0
    /\ activeWorkers' = Fewer(WorkersFor(size[reading]), threadCount)
    /\ remainingWorkers' = Fewer(WorkersFor(size[reading]), threadCount)
    /\ generation' = generation + 1
    /\ thread' = Woken
    /\ caller' = IF early THEN "idle" ELSE "wait"
    /\ reading' = IF early THEN Null ELSE reading
    /\ earlyPending' = (earlyPending \/ early)
    /\ early' = FALSE
    /\ UNCHANGED <<initialized, threadCount, stopping, seen, taken, ownVars,
                   size, ok, finished>>

\* An early load is out: this read gets threads of its own.
BatchRefused ==
    /\ caller = "post" /\ BatchOut
    /\ caller' = "spawn"
    /\ UNCHANGED <<sharedVars, workerVars, ownVars, readVars, finished>>

-----------------------------------------------------------------------------
(* Threads of one read, a stripe of the tasks each.                        *)

Stripes == WorkersFor(size[reading])

SpawnHelper ==
    /\ caller = "spawn" /\ created < Stripes
    /\ helper' = [helper EXCEPT ![created] = created]
    /\ created' = created + 1
    /\ UNCHANGED <<sharedVars, workerVars, readVars, caller, finished>>

HelperRead(w) ==
    /\ helper[w] >= 0 /\ helper[w] < size[reading]
    /\ Perform(reading, helper[w])
    /\ helper' = [helper EXCEPT ![w] = helper[w] + Stripes]
    /\ UNCHANGED <<sharedVars, workerVars, created, readVars, caller>>

\* Every helper is there, or one could not be created: those are joined.
JoinHelpers ==
    /\ caller = "spawn"
    /\ created = Stripes \/ CreateFails
    /\ \A w \in Worker : w < created => helper[w] >= size[reading]
    /\ helper' = [w \in Worker |-> -1]
    /\ ok' = (created = Stripes) /\ created' = 0
    /\ caller' = "collect"
    /\ UNCHANGED <<sharedVars, workerVars, reading, early, size, earlyPending,
                   finished>>

-----------------------------------------------------------------------------
(* The caller waits, and uses what was read.                               *)

FinishEarly ==
    /\ caller = "idle" /\ earlyPending
    /\ reading' = "early" /\ ok' = TRUE /\ caller' = "wait"
    /\ UNCHANGED <<sharedVars, workerVars, ownVars, early, size, earlyPending,
                   finished>>

Wait ==
    /\ caller = "wait"
    /\ caller' = IF remainingWorkers = 0 THEN "collect" ELSE "asleep"
    /\ UNCHANGED <<sharedVars, workerVars, ownVars, readVars, finished>>

\* The read succeeded if every thread was there and every task is ok: the
\* experts are installed.  The array is no longer used.
Collect ==
    /\ caller = "collect"
    /\ size' = [size EXCEPT ![reading] = 0]
    /\ finished' = [finished EXCEPT ![reading] = {}]
    /\ earlyPending' = (earlyPending /\ reading # "early")
    /\ reading' = Null /\ caller' = "idle"
    /\ UNCHANGED <<sharedVars, workerVars, ownVars, early, ok>>

-----------------------------------------------------------------------------
(* ds4_gpu_cleanup: the pool is shut down, then a pending load is dropped.  *)

StopPool ==
    /\ caller = "idle" /\ initialized
    /\ stopping' = TRUE /\ generation' = generation + 1
    /\ thread' = Woken
    /\ caller' = "joinPool"
    /\ UNCHANGED <<initialized, threadCount, batchVars, seen, taken, ownVars,
                   readVars, finished>>

JoinPool ==
    /\ caller = "joinPool" /\ Joined(threadCount)
    /\ thread' = [w \in Worker |-> "absent"]
    /\ threadCount' = 0 /\ initialized' = FALSE /\ stopping' = FALSE
    /\ activeWorkers' = 0 /\ remainingWorkers' = 0
    /\ tasks' = Null /\ nTasks' = 0 /\ nextTask' = 0
    /\ earlyPending' = FALSE
    /\ size' = [size EXCEPT !["early"] = 0]
    /\ finished' = [finished EXCEPT !["early"] = {}]
    /\ caller' = "idle"
    /\ UNCHANGED <<generation, seen, taken, ownVars, reading, early, ok>>

-----------------------------------------------------------------------------
WorkerStep(w) ==
    Sleep(w) \/ Exit(w) \/ JoinBatch(w) \/ StandBy(w) \/ ReadTask(w) \/ NextTask(w)

\* What the caller does once it has begun a read or a shutdown.
CallerStep ==
    \/ InitPool \/ CreateThread \/ Created \/ CreateFailed \/ UndoCreate
    \/ PostBatch \/ BatchRefused \/ SpawnHelper \/ JoinHelpers \/ Wait \/ Collect
    \/ JoinPool

PoolNext ==
    \/ BeginEarly \/ BeginPlain \/ FinishEarly \/ StopPool \/ CallerStep
    \/ \E w \in Worker : WorkerStep(w) \/ HelperRead(w)

PoolSpec == PoolInit /\ [][PoolNext]_poolVars

(* Threads that can run do, and none is kept from the mutex for ever; a pread
   ends.  When to read and when to shut down is the caller's choice. *)
PoolFairness ==
    /\ WF_poolVars(CallerStep)
    /\ \A w \in Worker : WF_poolVars(WorkerStep(w)) /\ WF_poolVars(HelperRead(w))

PoolFairSpec == PoolSpec /\ PoolFairness

-----------------------------------------------------------------------------
(* Properties. *)

ThreadPC == {"absent", "top", "asleep", "read", "done", "exited"}
CallerPC == {"idle", "init", "create", "undo", "post", "spawn", "wait",
             "asleep", "collect", "joinPool"}

(* Types: a batch never has more workers than the pool has threads, and a
   thread is never taken for one beyond the pool. *)
PoolTypeOK ==
    /\ initialized \in BOOLEAN /\ stopping \in BOOLEAN
    /\ earlyPending \in BOOLEAN /\ early \in BOOLEAN /\ ok \in BOOLEAN
    /\ threadCount \in 0 .. Threads /\ created \in 0 .. Threads
    /\ activeWorkers \in 0 .. Threads /\ remainingWorkers \in 0 .. Threads
    /\ tasks \in Array \cup {Null} /\ reading \in Array \cup {Null}
    /\ nTasks \in Nat /\ nextTask \in Nat /\ generation \in Nat
    /\ thread \in [Worker -> ThreadPC] /\ seen \in [Worker -> Nat]
    /\ taken \in [Worker -> [array : Array \cup {Null}, index : Nat]]
    /\ helper \in [Worker -> Nat \cup {-1}]
    /\ caller \in CallerPC
    /\ size \in [Array -> Sizes \cup {0}]
    /\ finished \in [Array -> SUBSET Nat]

(* A pool thread writes only into an array that the caller still keeps: the
   one that is posted, at a task nobody has read and nobody else is reading.
   Otherwise it would write to a stack frame that is gone or into a Metal
   buffer that was given to another expert.
   (ds4_metal.m 12108-12160, 12250-12260) *)
ReadersOwn ==
    \A w \in Worker :
        thread[w] = "read" =>
            /\ taken[w].array = tasks
            /\ taken[w].index < size[tasks]
            /\ taken[w].index \notin finished[tasks]
            /\ \A v \in Worker \ {w} : thread[v] = "read" => taken[v] # taken[w]

(* When the caller goes on from a read, no thread is on its array any more,
   and, unless one of its own threads could not be created, every task was
   read: no expert is installed with bytes of another.
   (ds4_metal.m 12250-12260, 12298-12363, 15773-15794) *)
ReadComplete ==
    caller = "collect" =>
        /\ \A w \in Worker : thread[w] = "read" => taken[w].array # reading
        /\ ok => finished[reading] = 0 .. size[reading] - 1

(* Every read and every shutdown returns to the caller, which is idle again and
   again: the last worker of a batch wakes it, and no worker sleeps through a
   batch or the shutdown.
   (ds4_metal.m 12113-12157, 12250-12296) *)
ReadsEnd == []<>(caller = "idle")
=============================================================================
