-------------------------- MODULE PreadPoolProofs --------------------------
(***************************************************************************)
(* For every number of threads and every size of a read, with threads that *)
(* cannot be created and a shutdown between any two reads: a pool thread   *)
(* reads only into the array that is posted, at a task of its own.         *)
(*                                                                         *)
(* The heart of it is CountsDue: the batch is declared over only when no   *)
(* worker is still reading for it, and no worker can still join it.        *)
(***************************************************************************)
EXTENDS PreadPool, FiniteSetTheorems, TLAPS

\* Workers that are inside a batch, or will be once they see its generation.
Due ==
    {w \in Worker : \/ thread[w] \in {"read", "done"}
                    \/ w < activeWorkers /\ seen[w] # generation /\ ~stopping}

CountsDue == Cardinality(Due) <= remainingWorkers

\* The array is kept by the caller: an early load or the current read.
Live(a) == (a = "early" /\ earlyPending) \/ reading = a

Starting == {"init", "create", "undo", "post"}
Waiting == {"wait", "asleep"}

\* What is not kept has been cleared.
ArraysKept ==
    \A a \in Array : /\ Live(a) => size[a] \in Sizes
                     /\ ~Live(a) => finished[a] = {}

\* Where the caller is, what it reads, and what the pool is then.
CallerInv ==
    /\ caller \in {"idle", "joinPool"} <=> reading = Null
    /\ early => reading = "early" /\ ~earlyPending /\ caller \in Starting
    /\ caller \in {"init", "create", "undo"} => ~initialized
    /\ caller = "post" => initialized
    /\ initialized \/ caller = "create" => threadCount = Threads
    /\ caller # "spawn" => \A w \in Worker : helper[w] = -1
    /\ ArraysKept
    /\ caller \in Starting => finished[reading] = {}

\* The posted batch: whose it is, and when there is none.
BatchInv ==
    /\ remainingWorkers = 0 => tasks = Null /\ activeWorkers = 0
    /\ remainingWorkers > 0 => tasks \in Array /\ nTasks = size[tasks]
    /\ ~initialized => remainingWorkers = 0
    /\ tasks # Null => \/ tasks = "early" /\ earlyPending
                       \/ reading = tasks /\ caller \in Waiting
    /\ caller \in Starting \cup {"spawn", "collect"} => tasks # reading
    /\ \A w \in Worker : thread[w] \in {"read", "done"} =>
                             seen[w] = generation \/ stopping

\* What has been taken and what has been read of the posted batch.
TaskInv ==
    /\ tasks # Null => finished[tasks] \subseteq 0 .. nextTask - 1
    /\ \A w \in Worker : thread[w] = "read" =>
           /\ taken[w].array = tasks
           /\ taken[w].index < nextTask /\ taken[w].index < nTasks
           /\ taken[w].index \notin finished[tasks]
    /\ \A v, w \in Worker :
           v # w /\ thread[v] = "read" /\ thread[w] = "read" => taken[v] # taken[w]

Inv == PoolTypeOK /\ CallerInv /\ BatchInv /\ CountsDue /\ TaskInv

(* The number of threads and the sizes of reads are numbers above one.     *)
LEMMA PoolNumbers ==
    /\ Threads \in Nat /\ 1 < Threads
    /\ 0 \in 0 .. Threads /\ Threads \in 0 .. Threads
    /\ \A n \in Sizes : n \in Nat /\ 1 < n
<1>1. Threads \in Nat /\ Threads # 0 /\ Threads # 1
  BY PoolAssumption DEF PoolAssumption
<1>2. \A n \in Sizes : n \in Nat /\ n # 0 /\ n # 1
  BY PoolAssumption DEF PoolAssumption
<1> QED
  BY <1>1, <1>2

(* The pool begins with no thread and no batch.                            *)
LEMMA InvInit == PoolInit => Inv
<1> SUFFICES ASSUME PoolInit PROVE Inv
  OBVIOUS
<1>1. PoolTypeOK
  <2>1. taken \in [Worker -> [array : Array \cup {Null}, index : Nat]]
    BY DEF PoolInit, NoTask
  <2>2. size \in [Array -> Sizes \cup {0}] /\ finished \in [Array -> SUBSET Nat]
    BY DEF PoolInit
  <2>3. thread \in [Worker -> ThreadPC] /\ caller \in CallerPC
    BY DEF PoolInit, ThreadPC, CallerPC
  <2>4. seen \in [Worker -> Nat] /\ helper \in [Worker -> Nat \cup {-1}]
    BY DEF PoolInit
  <2>5. /\ threadCount \in 0 .. Threads /\ created \in 0 .. Threads
        /\ activeWorkers \in 0 .. Threads /\ remainingWorkers \in 0 .. Threads
        /\ nTasks \in Nat /\ nextTask \in Nat /\ generation \in Nat
    BY PoolNumbers DEF PoolInit
  <2> QED
    BY <2>1, <2>2, <2>3, <2>4, <2>5 DEF PoolInit, PoolTypeOK
<1>2. CallerInv
  BY DEF PoolInit, CallerInv, ArraysKept, Live, Array, Null, Starting
<1>3. BatchInv
  BY DEF PoolInit, BatchInv, Starting
<1>4. CountsDue
  <2>1. Due = {}
    BY PoolNumbers DEF PoolInit, Due, Worker
  <2> QED
    BY <2>1, FS_EmptySet DEF PoolInit, CountsDue
<1>5. TaskInv
  BY DEF PoolInit, TaskInv
<1> QED
  BY <1>1, <1>2, <1>3, <1>4, <1>5 DEF Inv

-----------------------------------------------------------------------------
(* Sets of workers are finite and counted.                                 *)
LEMMA CountWorkers ==
    ASSUME NEW S \in SUBSET Worker, NEW T \in SUBSET S
    PROVE  /\ IsFiniteSet(S) /\ Cardinality(S) \in Nat
           /\ Cardinality(T) \in Nat
           /\ Cardinality(T) <= Cardinality(S)
<1>1. IsFiniteSet(Worker)
  BY FS_Interval, PoolNumbers DEF Worker
<1>2. IsFiniteSet(S)
  BY <1>1, FS_Subset
<1>3. IsFiniteSet(T) /\ Cardinality(T) <= Cardinality(S)
  BY <1>2, FS_Subset
<1> QED
  BY <1>2, <1>3, FS_CardinalityType

(* There are n workers numbered below n.                                   *)
LEMMA Numbered ==
    ASSUME NEW n \in Nat
    PROVE  IsFiniteSet(0 .. n - 1) /\ Cardinality(0 .. n - 1) = n
<1>1. 0 \in Int /\ n - 1 \in Int
  OBVIOUS
<1>2. /\ IsFiniteSet(0 .. n - 1)
      /\ Cardinality(0 .. n - 1) = IF 0 > n - 1 THEN 0 ELSE n - 1 - 0 + 1
  BY <1>1, FS_Interval
<1>3. (IF 0 > n - 1 THEN 0 ELSE n - 1 - 0 + 1) = n
  OBVIOUS
<1> QED
  BY <1>2, <1>3

(* With nobody left to wait for, no worker reads and none can join.        *)
LEMMA NobodyDue ==
    ASSUME PoolTypeOK, CountsDue, remainingWorkers = 0
    PROVE  Due = {}
<1>1. Due \in SUBSET Worker /\ IsFiniteSet(Due) /\ Cardinality(Due) \in Nat
  <2>1. Due \in SUBSET Worker
    BY DEF Due
  <2> QED
    BY <2>1, CountWorkers
<1>2. Cardinality(Due) = 0
  BY <1>1 DEF CountsDue
<1> QED
  BY <1>1, <1>2, FS_EmptySet

(* Who checks in was due, and is not afterwards.                           *)
LEMMA DueLeaves ==
    ASSUME NEW w \in Due
    PROVE  /\ Cardinality(Due) \in Nat
           /\ Cardinality(Due \ {w}) = Cardinality(Due) - 1
<1>1. IsFiniteSet(Due) /\ Cardinality(Due) \in Nat
  <2>1. Due \in SUBSET Worker
    BY DEF Due
  <2> QED
    BY <2>1, CountWorkers
<1> QED
  BY <1>1, FS_RemoveElement

(* A step after which no new worker is due keeps the count.                *)
LEMMA CountKept ==
    ASSUME CountsDue, Due' \subseteq Due, remainingWorkers' = remainingWorkers,
           remainingWorkers \in Nat
    PROVE  CountsDue'
<1>1. Due \in SUBSET Worker
  BY DEF Due
<1>2. Cardinality(Due') \in Nat /\ Cardinality(Due) \in Nat
      /\ Cardinality(Due') <= Cardinality(Due)
  BY <1>1, CountWorkers
<1> QED
  BY <1>2 DEF CountsDue

-----------------------------------------------------------------------------
(* Types.                                                                  *)

(* The smaller of two numbers is one, and below both.                      *)
LEMMA FewerRange ==
    ASSUME NEW m \in Nat, NEW n \in Nat
    PROVE  Fewer(m, n) \in Nat /\ Fewer(m, n) <= m /\ Fewer(m, n) <= n
BY DEF Fewer

(* A pool thread keeps the types.                                          *)
LEMMA WorkerTypes ==
    ASSUME PoolTypeOK, NEW w \in Worker, WorkerStep(w)
    PROVE  PoolTypeOK'
<1> USE DEF PoolTypeOK, ThreadPC, CallerPC, sharedVars, batchVars, workerVars,
            ownVars, readVars
<1>1. CASE Sleep(w)
  BY <1>1 DEF Sleep
<1>2. CASE Exit(w)
  BY <1>2 DEF Exit
<1>3. ASSUME Claim(w)
      PROVE  /\ taken' \in [Worker -> [array : Array \cup {Null}, index : Nat]]
             /\ nextTask' \in Nat /\ thread' \in [Worker -> ThreadPC]
             /\ UNCHANGED <<activeWorkers, remainingWorkers, tasks, nTasks, caller>>
  BY <1>3 DEF Claim
<1>4. ASSUME CheckIn(w)
      PROVE  /\ taken' \in [Worker -> [array : Array \cup {Null}, index : Nat]]
             /\ nextTask' \in Nat /\ thread' \in [Worker -> ThreadPC]
             /\ remainingWorkers' \in 0 .. Threads
             /\ activeWorkers' \in 0 .. Threads
             /\ tasks' \in Array \cup {Null} /\ nTasks' \in Nat
             /\ caller' \in CallerPC
  <2>1. taken' \in [Worker -> [array : Array \cup {Null}, index : Nat]]
    BY <1>4 DEF CheckIn, NoTask
  <2>2. remainingWorkers' \in 0 .. Threads /\ activeWorkers' \in 0 .. Threads
    BY <1>4, PoolNumbers DEF CheckIn
  <2>3. tasks' \in Array \cup {Null} /\ nTasks' \in Nat /\ caller' \in CallerPC
    BY <1>4 DEF CheckIn, Signalled
  <2> QED
    BY <1>4, <2>1, <2>2, <2>3 DEF CheckIn
<1>5. CASE JoinBatch(w)
  BY <1>5, <1>3, <1>4 DEF JoinBatch
<1>6. CASE StandBy(w)
  BY <1>6 DEF StandBy
<1>7. CASE ReadTask(w)
  BY <1>7 DEF ReadTask, Perform
<1>8. CASE NextTask(w)
  BY <1>8, <1>3, <1>4 DEF NextTask
<1> QED
  BY <1>1, <1>2, <1>5, <1>6, <1>7, <1>8 DEF WorkerStep

(* An array has a number of tasks.                                         *)
LEMMA SizeNumbers ==
    ASSUME PoolTypeOK, NEW a \in Array
    PROVE  size[a] \in Nat
<1>1. size[a] \in Sizes \cup {0}
  BY DEF PoolTypeOK
<1> QED
  BY <1>1, PoolNumbers

(* So does the caller.                                                     *)
LEMMA CallerTypes ==
    ASSUME PoolTypeOK, CallerInv,
           CallerStep \/ BeginEarly \/ BeginPlain \/ FinishEarly \/ StopPool
    PROVE  PoolTypeOK'
<1> USE DEF PoolTypeOK, ThreadPC, CallerPC, sharedVars, batchVars, workerVars,
            ownVars, readVars
<1>1. ASSUME NEW a \in Array, NEW n \in Sizes, Begin(a, n) PROVE PoolTypeOK'
  BY <1>1 DEF Begin
<1>2. CASE BeginEarly \/ BeginPlain
  BY <1>1, <1>2 DEF BeginEarly, BeginPlain, Array
<1>3. CASE FinishEarly
  BY <1>3 DEF FinishEarly, Array
<1>4. CASE StopPool
  BY <1>4 DEF StopPool, Woken
<1>5. CASE InitPool
  BY <1>5, PoolNumbers DEF InitPool
<1>6. CASE CreateThread
  <2>1. created' \in 0 .. Threads
    BY <1>6, PoolNumbers DEF CreateThread
  <2> QED
    BY <1>6, <2>1 DEF CreateThread
<1>7. CASE Created
  BY <1>7 DEF Created
<1>8. CASE CreateFailed
  BY <1>8 DEF CreateFailed, Woken
<1>9. CASE UndoCreate
  BY <1>9, PoolNumbers DEF UndoCreate
<1>10. reading \in Array => size[reading] \in Nat
  BY SizeNumbers
<1>11. reading \in Array =>
          /\ Stripes \in 0 .. Threads
          /\ Fewer(Stripes, threadCount) \in 0 .. Threads
  BY <1>10, FewerRange, PoolNumbers DEF Stripes, WorkersFor
<1>12. caller \in {"post", "spawn"} => reading \in Array
  BY DEF CallerInv
<1>13. CASE PostBatch
  <2>1. reading \in Array /\ size[reading] \in Nat
    BY <1>13, <1>10, <1>12 DEF PostBatch
  <2>2. activeWorkers' \in 0 .. Threads /\ remainingWorkers' \in 0 .. Threads
    BY <1>13, <1>11, <2>1 DEF PostBatch, Stripes
  <2>3. thread' \in [Worker -> ThreadPC]
    BY <1>13 DEF PostBatch, Woken
  <2>4. tasks' \in Array \cup {Null} /\ reading' \in Array \cup {Null}
    BY <1>13, <2>1 DEF PostBatch
  <2>5. nTasks' \in Nat /\ nextTask' \in Nat /\ generation' \in Nat
    BY <1>13, <2>1 DEF PostBatch
  <2>6. caller' \in CallerPC /\ earlyPending' \in BOOLEAN /\ early' \in BOOLEAN
    BY <1>13 DEF PostBatch
  <2> QED
    BY <1>13, <2>2, <2>3, <2>4, <2>5, <2>6 DEF PostBatch
<1>14. CASE BatchRefused
  BY <1>14 DEF BatchRefused
<1>15. CASE SpawnHelper
  <2>1. created' \in 0 .. Threads
    BY <1>15, <1>11, <1>12, PoolNumbers DEF SpawnHelper
  <2>2. helper' \in [Worker -> Nat \cup {-1}]
    <3>1. created \in Nat
      BY PoolNumbers
    <3> QED
      BY <1>15, <3>1 DEF SpawnHelper
  <2> QED
    BY <1>15, <2>1, <2>2 DEF SpawnHelper
<1>16. CASE JoinHelpers
  <2>1. ok' \in BOOLEAN /\ created' \in 0 .. Threads
    BY <1>16, PoolNumbers DEF JoinHelpers
  <2>2. helper' \in [Worker -> Nat \cup {-1}] /\ caller' \in CallerPC
    BY <1>16 DEF JoinHelpers
  <2> QED
    BY <1>16, <2>1, <2>2 DEF JoinHelpers
<1>17. CASE Wait
  BY <1>17 DEF Wait
<1>18. CASE Collect
  BY <1>18 DEF Collect
<1>19. CASE JoinPool
  <2>1. size' \in [Array -> Sizes \cup {0}]
    BY <1>19 DEF JoinPool
  <2>2. finished' \in [Array -> SUBSET Nat] /\ thread' \in [Worker -> ThreadPC]
    BY <1>19 DEF JoinPool
  <2>3. /\ threadCount' \in 0 .. Threads /\ activeWorkers' \in 0 .. Threads
        /\ remainingWorkers' \in 0 .. Threads
        /\ nTasks' \in Nat /\ nextTask' \in Nat
    BY <1>19, PoolNumbers DEF JoinPool
  <2> QED
    BY <1>19, <2>1, <2>2, <2>3 DEF JoinPool
<1> QED
  BY <1>2, <1>3, <1>4, <1>5, <1>6, <1>7, <1>8, <1>9, <1>13, <1>14, <1>15,
     <1>16, <1>17, <1>18, <1>19 DEF CallerStep

(* And so does every step.                                                 *)
LEMMA TypesNext ==
    ASSUME PoolTypeOK, CallerInv, [PoolNext]_poolVars
    PROVE  PoolTypeOK'
<1>1. ASSUME NEW w \in Worker, HelperRead(w) PROVE PoolTypeOK'
  <2>1. reading \in Array /\ Stripes \in Nat
    <3>1. caller = "spawn"
      BY <1>1 DEF HelperRead, CallerInv, PoolTypeOK
    <3>2. reading \in Array
      BY <3>1 DEF CallerInv, PoolTypeOK
    <3>3. size[reading] \in Nat
      BY <3>2, SizeNumbers
    <3> QED
      BY <3>2, <3>3, FewerRange, PoolNumbers DEF Stripes, WorkersFor
  <2>2. helper[w] \in Nat
    BY <1>1 DEF HelperRead, PoolTypeOK
  <2>3. helper' \in [Worker -> Nat \cup {-1}]
    BY <1>1, <2>1, <2>2 DEF HelperRead, PoolTypeOK
  <2>4. finished' \in [Array -> SUBSET Nat]
    BY <1>1, <2>1, <2>2 DEF HelperRead, Perform, PoolTypeOK
  <2> QED
    BY <1>1, <2>3, <2>4 DEF HelperRead, PoolTypeOK, sharedVars, batchVars,
       workerVars, readVars
<1>2. CASE UNCHANGED poolVars
  BY <1>2 DEF poolVars, sharedVars, batchVars, workerVars, ownVars, readVars, PoolTypeOK
<1> QED
  BY <1>1, <1>2, WorkerTypes, CallerTypes DEF PoolNext

-----------------------------------------------------------------------------
(* The caller.                                                             *)

(* What a pool thread may change: it wakes the caller, nothing else of it. *)
LEMMA WorkerFrame ==
    ASSUME NEW w \in Worker, WorkerStep(w)
    PROVE  /\ UNCHANGED <<initialized, threadCount, generation, stopping,
                          helper, created, reading, early, size, earlyPending, ok>>
           /\ caller' = caller \/ (caller = "asleep" /\ caller' = "wait")
           /\ ReadTask(w) \/ UNCHANGED finished
BY DEF WorkerStep, Sleep, Exit, JoinBatch, StandBy, ReadTask, NextTask, Claim,
       CheckIn, Signalled, sharedVars, batchVars, workerVars, ownVars, readVars

(* A pool thread reads into the posted array, which the caller keeps.      *)
LEMMA ReadsPosted ==
    ASSUME Inv, NEW w \in Worker, ReadTask(w)
    PROVE  /\ tasks \in Array /\ Live(tasks)
           /\ taken[w].array = tasks /\ taken[w].index \in Nat
           /\ taken[w].index < nextTask /\ taken[w].index < nTasks
           /\ finished' = [finished EXCEPT ![tasks] = @ \cup {taken[w].index}]
<1>1. /\ taken[w].array = tasks /\ taken[w].index < nextTask
      /\ taken[w].index < nTasks /\ thread[w] = "read"
  BY DEF Inv, TaskInv, ReadTask
<1>2. w \in Due
  BY <1>1 DEF Due
<1>3. remainingWorkers > 0
  BY <1>2, NobodyDue DEF Inv, PoolTypeOK
<1>4. tasks \in Array
  BY <1>3 DEF Inv, BatchInv
<1>5. Live(tasks)
  BY <1>4 DEF Inv, BatchInv, Live, Array, Null
<1>6. taken[w].index \in Nat
  BY DEF Inv, PoolTypeOK
<1> QED
  BY <1>1, <1>4, <1>5, <1>6 DEF ReadTask, Perform

(* Where the caller is agrees with what it keeps.                          *)
LEMMA CallerNext ==
    ASSUME Inv, [PoolNext]_poolVars
    PROVE  CallerInv'
<1>0. PoolTypeOK /\ CallerInv /\ BatchInv /\ Null \notin Array
  BY DEF Inv, Null, Array
<1> USE DEF CallerInv, ArraysKept, Live, Starting, sharedVars, batchVars, workerVars,
            ownVars, readVars
<1>1. ASSUME NEW w \in Worker, ReadTask(w) PROVE CallerInv'
  <2>1. caller' = caller /\ UNCHANGED <<reading, earlyPending, size>>
    BY <1>1 DEF ReadTask
  <2>2. ASSUME NEW a \in Array, ~Live(a)' PROVE finished'[a] = {}
    BY <1>0, <1>1, <2>1, <2>2, ReadsPosted DEF PoolTypeOK
  <2>3. caller \in Starting => tasks # reading
    BY <1>0 DEF BatchInv
  <2>4. caller' \in Starting => finished'[reading'] = {}
    BY <1>0, <1>1, <2>1, <2>3, ReadsPosted DEF PoolTypeOK
  <2> QED
    BY <1>0, <1>1, <2>1, <2>2, <2>4 DEF ReadTask
<1>2. ASSUME NEW w \in Worker, WorkerStep(w), ~ReadTask(w) PROVE CallerInv'
  BY <1>0, <1>2, WorkerFrame
<1>3. ASSUME NEW w \in Worker, HelperRead(w) PROVE CallerInv'
  <2>1. caller = "spawn" /\ reading \in Array
    BY <1>0, <1>3 DEF HelperRead, PoolTypeOK
  <2>2. \A a \in Array \ {reading} : finished'[a] = finished[a]
    BY <1>0, <1>3 DEF HelperRead, Perform, PoolTypeOK
  <2> QED
    BY <1>0, <1>3, <2>1, <2>2 DEF HelperRead
<1>4. ASSUME NEW a \in Array, NEW n \in Sizes, Begin(a, n), ~Live(a)
      PROVE  CallerInv'
  <2>1. finished[a] = {} /\ UNCHANGED <<finished, earlyPending, helper>> /\ reading' = a
    BY <1>0, <1>4 DEF Begin
  <2>2. size'[a] = n /\ \A b \in Array \ {a} : size'[b] = size[b]
    BY <1>0, <1>4 DEF Begin, PoolTypeOK
  <2>3. reading = Null
    BY <1>0, <1>4 DEF Begin
  <2>4. ArraysKept'
    BY <1>0, <2>1, <2>2, <2>3
  <2>5. early' => reading' = "early" /\ ~earlyPending'
    BY <1>4 DEF Begin
  <2>6. caller = "idle" /\ caller' = IF initialized THEN "post" ELSE "init"
    BY <1>4 DEF Begin
  <2>7. reading' # Null /\ UNCHANGED <<initialized, threadCount>>
    BY <1>0, <1>4 DEF Begin
  <2>8. early' => caller' \in Starting
    BY <2>6
  <2>9. caller' \in {"init", "create", "undo"} => ~initialized'
    BY <2>6, <2>7
  <2>10. caller' = "post" => initialized'
    BY <2>6, <2>7
  <2>11. initialized' \/ caller' = "create" => threadCount' = Threads
    BY <1>0, <2>6, <2>7
  <2>12. \A w \in Worker : helper'[w] = -1
    BY <1>0, <2>1, <2>6
  <2>13. finished'[reading'] = {}
    BY <2>1
  <2>14. caller' \notin {"idle", "joinPool"}
    BY <2>6
  <2> HIDE DEF ArraysKept
  <2> QED
    BY <2>4, <2>5, <2>7, <2>8, <2>9, <2>10, <2>11, <2>12, <2>13, <2>14
<1>5. CASE BeginEarly
  BY <1>0, <1>4, <1>5 DEF BeginEarly, Begin, Array
<1>6. CASE BeginPlain
  BY <1>0, <1>4, <1>6 DEF BeginPlain, Begin, Array
<1>7. CASE FinishEarly
  BY <1>0, <1>7 DEF FinishEarly, Array
<1>8. CASE StopPool
  BY <1>0, <1>8 DEF StopPool
<1>9. CASE InitPool \/ CreateThread \/ Created \/ CreateFailed
  BY <1>0, <1>9 DEF InitPool, CreateThread, Created, CreateFailed
<1>10. CASE UndoCreate
  BY <1>0, <1>10 DEF UndoCreate
<1>11. CASE PostBatch
  BY <1>0, <1>11 DEF PostBatch
<1>12. CASE SpawnHelper \/ Wait
  BY <1>0, <1>12 DEF SpawnHelper, Wait
<1>17. CASE BatchRefused
  <2>1. tasks # Null
    BY <1>0, <1>17 DEF BatchRefused, BatchOut, BatchInv, PoolTypeOK
  <2>2. earlyPending
    BY <1>0, <1>17, <2>1 DEF BatchRefused, BatchInv, Waiting
  <2> QED
    BY <1>0, <1>17, <2>2 DEF BatchRefused
<1>13. CASE JoinHelpers
  BY <1>0, <1>13 DEF JoinHelpers
<1>14. CASE Collect
  <2>1. reading \in Array
    BY <1>0, <1>14 DEF Collect, PoolTypeOK
  <2>2. finished'[reading] = {} /\ size'[reading] = 0
    BY <1>0, <1>14, <2>1 DEF Collect, PoolTypeOK
  <2>3. \A a \in Array \ {reading} : size'[a] = size[a] /\ finished'[a] = finished[a]
    BY <1>0, <1>14 DEF Collect, PoolTypeOK
  <2>4. /\ reading' = Null /\ earlyPending' = (earlyPending /\ reading # "early")
        /\ caller = "collect" /\ caller' = "idle"
        /\ UNCHANGED <<initialized, threadCount, early, helper>>
    BY <1>14 DEF Collect
  <2>5. ~early
    BY <1>0, <1>14 DEF Collect
  <2>6. ArraysKept'
    BY <1>0, <2>1, <2>2, <2>3, <2>4
  <2>7. initialized' \/ caller' = "create" => threadCount' = Threads
    BY <1>0, <2>4
  <2>8. \A w \in Worker : helper'[w] = -1
    BY <1>0, <2>4
  <2>9. ~early'
    BY <2>4, <2>5
  <2> HIDE DEF ArraysKept
  <2> QED
    BY <2>4, <2>6, <2>7, <2>8, <2>9
<1>15. CASE JoinPool
  <2>1. finished'["early"] = {} /\ finished'["plain"] = finished["plain"]
    BY <1>0, <1>15 DEF JoinPool, PoolTypeOK, Array
  <2>2. size'["plain"] = size["plain"]
    BY <1>0, <1>15 DEF JoinPool, PoolTypeOK, Array
  <2> QED
    BY <1>0, <1>15, <2>1, <2>2 DEF JoinPool, Array
<1>16. CASE UNCHANGED poolVars
  BY <1>0, <1>16 DEF poolVars
<1> QED
  BY <1>1, <1>2, <1>3, <1>5, <1>6, <1>7, <1>8, <1>9, <1>10, <1>11, <1>12,
     <1>13, <1>14, <1>15, <1>16, <1>17 DEF PoolNext, CallerStep

-----------------------------------------------------------------------------
(* The batch.                                                              *)

(* When nothing is left to wait for, or no batch is posted, nobody reads.  *)
LEMMA NobodyReads ==
    ASSUME Inv, remainingWorkers = 0 \/ tasks = Null
    PROVE  /\ remainingWorkers = 0 /\ tasks = Null /\ activeWorkers = 0
           /\ \A w \in Worker : thread[w] \notin {"read", "done"}
<1>1. remainingWorkers = 0
  BY PoolNumbers DEF Inv, PoolTypeOK, BatchInv, Null, Array
<1>2. Due = {}
  BY <1>1, NobodyDue DEF Inv
<1> QED
  BY <1>1, <1>2 DEF Inv, BatchInv, Due

(* A worker that claims or checks in is one the batch waits for.           *)
LEMMA TakersDue ==
    ASSUME Inv, NEW w \in Worker, JoinBatch(w) \/ NextTask(w)
    PROVE  w \in Due /\ remainingWorkers > 0 /\ tasks \in Array
<1>1. w \in Due
  BY DEF JoinBatch, NextTask, InBatch, Due
<1>2. remainingWorkers \in 0 .. Threads
  BY DEF Inv, PoolTypeOK
<1>3. remainingWorkers # 0
  BY <1>1, NobodyDue DEF Inv
<1>4. remainingWorkers > 0
  BY <1>2, <1>3, PoolNumbers
<1> QED
  BY <1>1, <1>4 DEF Inv, BatchInv

(* A batch that is posted has a worker.                                    *)
LEMMA PostPosts ==
    ASSUME Inv, PostBatch
    PROVE  /\ reading \in Array /\ remainingWorkers' > 0
           /\ remainingWorkers' \in Nat
           /\ activeWorkers' = remainingWorkers'
           /\ remainingWorkers = 0 /\ tasks = Null
<1>1. reading \in Array /\ reading # Null
  BY DEF Inv, CallerInv, PoolTypeOK, PostBatch
<1>2. size[reading] \in Sizes /\ threadCount = Threads
  BY <1>1 DEF Inv, CallerInv, ArraysKept, Live, PostBatch
<1>3. size[reading] \in Nat /\ size[reading] > 1
      /\ threadCount \in Nat /\ threadCount > 1 /\ Threads \in Nat
  BY <1>2, PoolNumbers
<1>4. Fewer(WorkersFor(size[reading]), threadCount) \in Nat
      /\ Fewer(WorkersFor(size[reading]), threadCount) > 0
  BY <1>3, <1>2 DEF Fewer, WorkersFor
<1>5. remainingWorkers = 0 /\ tasks = Null
  BY DEF PostBatch, BatchOut
<1> QED
  BY <1>1, <1>4, <1>5 DEF PostBatch

(* A step of a pool thread keeps what is said of the batch.                *)
LEMMA WorkerBatch ==
    ASSUME Inv, NEW w \in Worker, WorkerStep(w)
    PROVE  BatchInv'
<1>0. PoolTypeOK /\ CallerInv /\ BatchInv /\ Null \notin Array
  BY DEF Inv, Null, Array
<1>1. /\ UNCHANGED <<initialized, generation, stopping, reading, earlyPending, size>>
      /\ caller' = caller \/ (caller = "asleep" /\ caller' = "wait")
  BY WorkerFrame
<1>2. \A v \in Worker : thread'[v] \in {"read", "done"} =>
                            seen'[v] = generation \/ stopping
  <2> USE DEF PoolTypeOK, BatchInv, sharedVars, batchVars, workerVars
  <2>1. CASE Sleep(w) \/ Exit(w)
    BY <1>0, <2>1 DEF Sleep, Exit
  <2>2. CASE JoinBatch(w)
    BY <1>0, <2>2 DEF JoinBatch, Claim, CheckIn
  <2>3. CASE StandBy(w)
    BY <1>0, <2>3 DEF StandBy
  <2>4. CASE ReadTask(w) \/ NextTask(w)
    BY <1>0, <2>4 DEF ReadTask, NextTask, Claim, CheckIn
  <2> QED
    BY <2>1, <2>2, <2>3, <2>4 DEF WorkerStep
<1>3. ASSUME Claim(w) \/ UNCHANGED batchVars PROVE BatchInv'
  <2>1. UNCHANGED <<activeWorkers, remainingWorkers, tasks, nTasks>>
    BY <1>3 DEF Claim, batchVars
  <2> QED
    BY <1>0, <1>1, <1>2, <2>1 DEF BatchInv, Waiting, Starting
<1>4. ASSUME CheckIn(w), JoinBatch(w) \/ NextTask(w) PROVE BatchInv'
  <2>1. remainingWorkers > 0 /\ tasks \in Array
    BY <1>4, TakersDue
  <2>2. CASE LastIn
    <3>1. tasks' = Null /\ activeWorkers' = 0 /\ remainingWorkers' = 0
      BY <1>4, <2>1, <2>2 DEF CheckIn
    <3>2. caller' \in Starting \cup {"spawn", "collect"} => reading # Null
      BY <1>0, <1>1 DEF CallerInv, Starting
    <3> QED
      BY <1>0, <1>1, <1>2, <3>1, <3>2 DEF BatchInv
  <2>3. CASE ~LastIn
    <3>1. /\ remainingWorkers' = remainingWorkers - 1
          /\ UNCHANGED <<tasks, nTasks, activeWorkers>>
      BY <1>4, <2>1, <2>3 DEF CheckIn
    <3>2. remainingWorkers' > 0
      BY <1>0, <2>1, <2>3, <3>1, PoolNumbers DEF LastIn, PoolTypeOK
    <3>3. initialized
      BY <1>0, <2>1 DEF BatchInv, PoolTypeOK
    <3> QED
      BY <1>0, <1>1, <1>2, <2>1, <3>1, <3>2, <3>3
         DEF BatchInv, Waiting, Starting
  <2> QED
    BY <2>2, <2>3
<1> QED
  BY <1>3, <1>4 DEF WorkerStep, Sleep, Exit, JoinBatch, StandBy, ReadTask, NextTask,
     sharedVars

(* So does a step of the caller, or of a thread of one read.               *)
LEMMA CallerBatch ==
    ASSUME Inv, CallerStep \/ BeginEarly \/ BeginPlain \/ FinishEarly
                \/ StopPool \/ (\E w \in Worker : HelperRead(w))
    PROVE  BatchInv'
<1>0. PoolTypeOK /\ CallerInv /\ BatchInv /\ Null \notin Array
  BY DEF Inv, Null, Array
<1> USE DEF BatchInv, Starting, Waiting, sharedVars, batchVars, workerVars,
            ownVars, readVars
<1>1. ASSUME NEW a \in Array, NEW n \in Sizes, Begin(a, n), a = "early" => ~earlyPending
      PROVE  BatchInv'
  <2>1. tasks # a
    BY <1>0, <1>1 DEF Begin
  <2>2. size'[tasks] = size[tasks] \/ tasks \notin Array
    BY <1>0, <1>1, <2>1 DEF Begin, PoolTypeOK
  <2> QED
    BY <1>0, <1>1, <2>1, <2>2 DEF Begin
<1>2. CASE BeginEarly \/ BeginPlain
  BY <1>1, <1>2 DEF BeginEarly, BeginPlain, Array
<1>3. CASE FinishEarly
  BY <1>0, <1>3 DEF FinishEarly
<1>4. CASE StopPool
  <2>1. \A w \in Worker : thread'[w] \in {"read", "done"} => stopping'
    BY <1>4 DEF StopPool
  <2> QED
    BY <1>0, <1>4, <2>1 DEF StopPool, CallerInv
<1>5. CASE InitPool
  <2>1. remainingWorkers = 0
    BY <1>0, <1>5 DEF InitPool, CallerInv
  <2>2. \A w \in Worker : thread'[w] \notin {"read", "done"}
    BY <1>5, <2>1, NobodyReads DEF InitPool
  <2>3. reading # Null
    BY <1>0, <1>5 DEF InitPool, CallerInv
  <2> QED
    BY <1>5, <2>2, <2>3 DEF InitPool
<1>6. CASE CreateThread
  <2>1. \A w \in Worker : thread'[w] \in {"read", "done"} =>
                             thread'[w] = thread[w] /\ seen'[w] = seen[w]
    BY <1>0, <1>6 DEF CreateThread, PoolTypeOK
  <2> QED
    BY <1>0, <1>6, <2>1 DEF CreateThread
<1>7. CASE Created
  <2>1. remainingWorkers = 0
    BY <1>0, <1>7 DEF Created, CallerInv
  <2> QED
    BY <1>0, <1>7, <2>1 DEF Created
<1>8. CASE CreateFailed
  BY <1>0, <1>8 DEF CreateFailed
<1>9. CASE UndoCreate
  <2>1. remainingWorkers = 0 /\ tasks = Null /\ reading # Null
    BY <1>0, <1>9 DEF UndoCreate, CallerInv
  <2> QED
    BY <1>0, <1>9, <2>1 DEF UndoCreate
<1>10. CASE PostBatch
  <2>1. /\ reading \in Array /\ remainingWorkers' > 0 /\ remainingWorkers' # 0
        /\ remainingWorkers = 0
    BY <1>10, PostPosts
  <2>2. \A w \in Worker : thread'[w] \notin {"read", "done"}
    BY <1>10, <2>1, NobodyReads DEF PostBatch, Woken
  <2>3. /\ tasks' = reading /\ nTasks' = size[reading] /\ size' = size
        /\ initialized' = initialized
        /\ caller' = IF early THEN "idle" ELSE "wait"
        /\ reading' = IF early THEN Null ELSE reading
        /\ earlyPending' = (earlyPending \/ early)
    BY <1>10 DEF PostBatch
  <2>4. initialized /\ (early => reading = "early")
    BY <1>0, <1>10 DEF PostBatch, CallerInv
  <2> QED
    BY <2>1, <2>2, <2>3, <2>4
<1>11. CASE BatchRefused \/ SpawnHelper \/ JoinHelpers
  BY <1>0, <1>11 DEF BatchRefused, SpawnHelper, JoinHelpers
<1>12. CASE Wait
  <2>1. reading # Null
    BY <1>0, <1>12 DEF Wait, CallerInv
  <2> QED
    BY <1>0, <1>12, <2>1 DEF Wait
<1>13. CASE Collect
  <2>1. tasks # reading /\ (tasks # Null => tasks = "early" /\ earlyPending)
    BY <1>0, <1>13 DEF Collect
  <2>2. tasks \in Array => size'[tasks] = size[tasks]
    BY <1>0, <1>13, <2>1 DEF Collect, PoolTypeOK
  <2> QED
    BY <1>0, <1>13, <2>1, <2>2 DEF Collect
<1>14. CASE JoinPool
  <2>1. \A w \in Worker : thread'[w] \notin {"read", "done"}
    BY <1>14 DEF JoinPool
  <2> QED
    BY <1>0, <1>14, <2>1 DEF JoinPool
<1>15. ASSUME NEW w \in Worker, HelperRead(w) PROVE BatchInv'
  BY <1>0, <1>15 DEF HelperRead
<1> QED
  BY <1>2, <1>3, <1>4, <1>5, <1>6, <1>7, <1>8, <1>9, <1>10, <1>11, <1>12,
     <1>13, <1>14, <1>15 DEF CallerStep

-----------------------------------------------------------------------------
(* The count.                                                              *)

\* The caller's steps that leave the pool and its threads alone.
CallerAlone ==
    \/ BeginEarly \/ BeginPlain \/ FinishEarly \/ Created \/ BatchRefused
    \/ SpawnHelper \/ JoinHelpers \/ Wait \/ Collect
    \/ \E w \in Worker : HelperRead(w)

(* Those steps change nothing of the batch or of its workers.              *)
LEMMA PoolAlone ==
    ASSUME CallerAlone
    PROVE  UNCHANGED <<threadCount, activeWorkers, remainingWorkers, tasks,
                       nTasks, nextTask, generation, stopping, thread, seen, taken>>
<1>1. ASSUME NEW a, NEW n, Begin(a, n)
      PROVE  UNCHANGED <<sharedVars, workerVars>>
  BY <1>1 DEF Begin
<1>2. CASE BeginEarly \/ BeginPlain
  <2>1. UNCHANGED <<sharedVars, workerVars>>
    BY <1>1, <1>2 DEF BeginEarly, BeginPlain
  <2> QED
    BY <2>1 DEF sharedVars, batchVars, workerVars
<1>3. CASE \E w \in Worker : HelperRead(w)
  BY <1>3 DEF HelperRead, sharedVars, batchVars, workerVars
<1>4. CASE FinishEarly \/ Created \/ BatchRefused \/ SpawnHelper \/ JoinHelpers
  BY <1>4 DEF FinishEarly, Created, BatchRefused, SpawnHelper, JoinHelpers,
     sharedVars, batchVars, workerVars
<1>5. CASE Wait \/ Collect
  BY <1>5 DEF Wait, Collect, sharedVars, batchVars, workerVars
<1> QED
  BY <1>2, <1>3, <1>4, <1>5 DEF CallerAlone

(* A set of workers with none in it counts nothing.                        *)
LEMMA NoneDue ==
    ASSUME Due' = {}, remainingWorkers' \in Nat
    PROVE  CountsDue'
<1>1. Cardinality({}) = 0
  BY FS_EmptySet
<1>2. Cardinality(Due') = 0
  BY <1>1
<1> QED
  BY <1>2 DEF CountsDue

(* A pool thread that stops being due is counted off; no other step of it
   makes anyone due.                                                       *)
LEMMA WorkerCounts ==
    ASSUME Inv, NEW w \in Worker, WorkerStep(w)
    PROVE  CountsDue'
<1>0. PoolTypeOK /\ CountsDue /\ remainingWorkers \in Nat
  BY PoolNumbers DEF Inv, PoolTypeOK
<1>1. UNCHANGED <<generation, stopping>>
  BY WorkerFrame
<1>2. ASSUME Due' \subseteq Due, remainingWorkers' = remainingWorkers
      PROVE  CountsDue'
  BY <1>0, <1>2, CountKept
<1> USE DEF PoolTypeOK, sharedVars, batchVars, workerVars
<1>3. CASE Sleep(w) \/ Exit(w)
  <2>1. Due' \subseteq Due /\ remainingWorkers' = remainingWorkers
    BY <1>0, <1>1, <1>3 DEF Sleep, Exit, Due
  <2> QED
    BY <2>1, <1>2
<1>4. CASE StandBy(w)
  <2>1. Due' \subseteq Due /\ remainingWorkers' = remainingWorkers
    BY <1>0, <1>1, <1>4 DEF StandBy, Due
  <2> QED
    BY <2>1, <1>2
<1>5. CASE ReadTask(w)
  <2>1. Due' \subseteq Due /\ remainingWorkers' = remainingWorkers
    BY <1>0, <1>1, <1>5 DEF ReadTask, Due
  <2> QED
    BY <2>1, <1>2
<1>6. ASSUME JoinBatch(w) \/ NextTask(w), Claim(w) PROVE CountsDue'
  <2>1. w \in Due
    BY <1>6, TakersDue
  <2>2. \A v \in Worker \ {w} : thread'[v] = thread[v] /\ seen'[v] = seen[v]
    BY <1>0, <1>6 DEF JoinBatch, NextTask, Claim
  <2>3. /\ activeWorkers' = activeWorkers
        /\ remainingWorkers' = remainingWorkers
    BY <1>6 DEF Claim
  <2>4. Due' \subseteq Due
    BY <1>1, <2>1, <2>2, <2>3 DEF Due
  <2> QED
    BY <1>2, <2>3, <2>4
<1>7. ASSUME JoinBatch(w) \/ NextTask(w), CheckIn(w) PROVE CountsDue'
  <2>1. w \in Due /\ remainingWorkers > 0
    BY <1>7, TakersDue
  <2>2. /\ thread'[w] = "top"
        /\ \A v \in Worker \ {w} : thread'[v] = thread[v] /\ seen'[v] = seen[v]
    BY <1>0, <1>7 DEF JoinBatch, NextTask, CheckIn
  <2>3. /\ activeWorkers' \in {activeWorkers, 0}
        /\ remainingWorkers' = remainingWorkers - 1
    BY <1>0, <1>7, <2>1 DEF CheckIn, LastIn
  <2>4. activeWorkers' = 0 => \A v \in Worker : ~ (v < activeWorkers')
    BY PoolNumbers DEF Worker
  <2>5. seen'[w] = generation \/ stopping \/ ~ (w < activeWorkers)
    BY <1>0, <1>7 DEF JoinBatch, NextTask, Inv, BatchInv
  <2>6. Due' \subseteq Due \ {w}
    BY <1>1, <2>2, <2>3, <2>4, <2>5 DEF Due
  <2>7. /\ Due \in SUBSET Worker
        /\ Due \ {w} \in SUBSET Worker
        /\ Due' \in SUBSET (Due \ {w})
    BY <2>6 DEF Due
  <2>8. /\ Cardinality(Due') \in Nat
        /\ Cardinality(Due') <= Cardinality(Due \ {w})
        /\ Cardinality(Due \ {w}) = Cardinality(Due) - 1
        /\ Cardinality(Due) \in Nat
    BY <2>1, <2>7, CountWorkers, DueLeaves
  <2> QED
    BY <1>0, <2>3, <2>8 DEF CountsDue
<1> QED
  BY <1>3, <1>4, <1>5, <1>6, <1>7 DEF WorkerStep, JoinBatch, NextTask

(* A posted batch has at most as many workers due as it counts; a shutdown
   or a failed creation makes nobody due.                                  *)
LEMMA CallerCounts ==
    ASSUME Inv, CallerStep \/ CallerAlone \/ StopPool
    PROVE  CountsDue'
<1>0. PoolTypeOK /\ BatchInv /\ CallerInv /\ CountsDue /\ remainingWorkers \in Nat
  BY PoolNumbers DEF Inv, PoolTypeOK
<1> USE DEF PoolTypeOK, sharedVars, batchVars, workerVars
<1>1. CASE CallerAlone
  <2>1. Due' = Due /\ remainingWorkers' = remainingWorkers
    BY <1>1, PoolAlone DEF Due
  <2> QED
    BY <1>0, <2>1, CountKept
<1>2. CASE StopPool \/ CreateFailed
  <2>1. Due' \subseteq Due /\ remainingWorkers' = remainingWorkers
    BY <1>0, <1>2 DEF StopPool, CreateFailed, Woken, Due
  <2> QED
    BY <1>0, <2>1, CountKept
<1>3. CASE InitPool \/ CreateThread \/ UndoCreate \/ JoinPool
  <2>1. /\ activeWorkers' = 0 /\ remainingWorkers' = 0
        /\ \A v \in Worker : thread'[v] \notin {"read", "done"}
    <3>1. CASE JoinPool
      BY <3>1 DEF JoinPool
    <3>2. CASE InitPool \/ CreateThread \/ UndoCreate
      <4>1. remainingWorkers = 0
        BY <1>0, <3>2 DEF InitPool, CreateThread, UndoCreate, CallerInv, BatchInv
      <4>2. /\ activeWorkers = 0
            /\ \A v \in Worker : thread[v] \notin {"read", "done"}
        BY <4>1, NobodyReads
      <4> QED
        BY <1>0, <3>2, <4>1, <4>2 DEF InitPool, CreateThread, UndoCreate
    <3> QED
      BY <1>3, <3>1, <3>2
  <2>2. Due' = {}
    BY <2>1, PoolNumbers DEF Due, Worker
  <2> QED
    BY <2>1, <2>2, NoneDue
<1>4. CASE PostBatch
  <2>1. /\ remainingWorkers = 0 /\ remainingWorkers' \in Nat
        /\ activeWorkers' = remainingWorkers'
    BY <1>4, PostPosts
  <2>2. \A v \in Worker : thread'[v] \notin {"read", "done"}
    BY <1>4, <2>1, NobodyReads DEF PostBatch, Woken
  <2>3. Due' \in SUBSET (0 .. remainingWorkers' - 1)
    BY <2>1, <2>2, PoolNumbers DEF Due, Worker
  <2>4. /\ IsFiniteSet(0 .. remainingWorkers' - 1)
        /\ Cardinality(0 .. remainingWorkers' - 1) = remainingWorkers'
    BY <2>1, Numbered
  <2>5. Cardinality(Due') <= Cardinality(0 .. remainingWorkers' - 1)
    BY <2>3, <2>4, FS_Subset
  <2> QED
    BY <2>4, <2>5 DEF CountsDue
<1> QED
  BY <1>1, <1>2, <1>3, <1>4 DEF CallerStep, CallerAlone

-----------------------------------------------------------------------------
(* The tasks.                                                              *)

(* Nothing is lost when nobody starts to read and the posted array is not
   written.                                                                *)
LEMMA TasksKept ==
    ASSUME Inv, UNCHANGED <<tasks, nTasks, nextTask, taken>>,
           \A w \in Worker : thread'[w] = "read" => thread[w] = "read",
           tasks \in Array => finished'[tasks] \subseteq finished[tasks]
    PROVE  TaskInv'
<1>1. tasks # Null => tasks \in Array
  BY DEF Inv, PoolTypeOK
<1>2. tasks = Null => \A w \in Worker : thread[w] # "read"
  BY NobodyReads
<1> QED
  BY <1>1, <1>2 DEF Inv, TaskInv

(* With nobody reading, only what has been read of the array is left to
   say.                                                                    *)
LEMMA TasksNew ==
    ASSUME \A w \in Worker : thread'[w] # "read",
           tasks' # Null => finished'[tasks'] = {}
    PROVE  TaskInv'
BY DEF TaskInv

(* A worker takes a task of its own, and reads it once.                    *)
LEMMA WorkerTasks ==
    ASSUME Inv, NEW w \in Worker, WorkerStep(w)
    PROVE  TaskInv'
<1>0. PoolTypeOK /\ TaskInv
  BY DEF Inv
<1> USE DEF PoolTypeOK, sharedVars, batchVars, workerVars
<1>1. CASE Sleep(w) \/ Exit(w)
  <2>1. /\ UNCHANGED <<tasks, nTasks, nextTask, taken, finished>>
        /\ \A v \in Worker : thread'[v] = "read" => thread[v] = "read"
    BY <1>0, <1>1 DEF Sleep, Exit
  <2> QED
    BY <2>1, TasksKept
<1>2. CASE StandBy(w)
  <2>1. UNCHANGED <<tasks, nTasks, nextTask, taken, finished, thread>>
    BY <1>2 DEF StandBy
  <2> QED
    BY <2>1, TasksKept
<1>3. CASE ReadTask(w)
  <2>1. /\ UNCHANGED <<tasks, nTasks, nextTask, taken>>
        /\ thread'[w] = "done"
        /\ \A v \in Worker \ {w} : thread'[v] = thread[v]
        /\ thread[w] = "read"
    BY <1>0, <1>3 DEF ReadTask
  <2>2. /\ tasks \in Array /\ taken[w].array = tasks /\ taken[w].index \in Nat
        /\ taken[w].index < nextTask
        /\ finished'[tasks] = finished[tasks] \cup {taken[w].index}
    BY <1>0, <1>3, ReadsPosted
  <2>3. finished'[tasks] \subseteq 0 .. nextTask - 1
    <3>1. finished[tasks] \subseteq 0 .. nextTask - 1
      BY <1>0, <2>2 DEF TaskInv, Null, Array
    <3>2. taken[w].index \in 0 .. nextTask - 1
      BY <1>0, <2>2
    <3> QED
      BY <2>2, <3>1, <3>2
  <2>4. ASSUME NEW v \in Worker, thread'[v] = "read"
        PROVE  taken[v].index \notin finished'[tasks]
    <3>1. v # w /\ thread[v] = "read"
      BY <2>1, <2>4
    <3>2. taken[v] # taken[w] /\ taken[v].array = taken[w].array
      BY <1>0, <2>1, <2>2, <3>1 DEF TaskInv
    <3>3. taken[v].index # taken[w].index
      <4>1. /\ taken[v] \in [array : Array \cup {Null}, index : Nat]
            /\ taken[w] \in [array : Array \cup {Null}, index : Nat]
        BY <1>0
      <4> QED
        BY <3>2, <4>1
    <3>4. taken[v].index \notin finished[tasks]
      BY <1>0, <3>1 DEF TaskInv
    <3> QED
      BY <2>2, <3>3, <3>4
  <2>5. \A v \in Worker : thread'[v] = "read" => thread[v] = "read" /\ v # w
    BY <2>1
  <2> QED
    BY <1>0, <2>1, <2>3, <2>4, <2>5 DEF TaskInv
<1>4. ASSUME JoinBatch(w) \/ NextTask(w), Claim(w) PROVE TaskInv'
  <2>1. /\ tasks \in Array /\ finished[tasks] \subseteq 0 .. nextTask - 1
    <3>1. tasks \in Array
      BY <1>4, TakersDue
    <3> QED
      BY <1>0, <3>1 DEF TaskInv, Null, Array
  <2>2. /\ UNCHANGED <<tasks, nTasks, finished>>
        /\ nextTask' = nextTask + 1 /\ nextTask < nTasks
        /\ taken'[w] = [array |-> tasks, index |-> nextTask]
        /\ \A v \in Worker \ {w} : taken'[v] = taken[v] /\ thread'[v] = thread[v]
    BY <1>0, <1>4 DEF JoinBatch, NextTask, Claim
  <2>3. /\ finished'[tasks'] \subseteq 0 .. nextTask' - 1
        /\ nextTask \notin finished[tasks]
        /\ nextTask \in Nat
    <3>1. nextTask \in Nat /\ nTasks \in Nat
      BY <1>0
    <3> QED
      BY <2>1, <2>2, <3>1
  <2>4. ASSUME NEW v \in Worker \ {w}, thread'[v] = "read"
        PROVE  /\ taken'[v].array = tasks /\ taken'[v].index < nextTask
               /\ taken'[v].index \in Nat
               /\ taken'[v].index < nTasks /\ taken'[v].index \notin finished[tasks]
               /\ taken'[v] # taken'[w]
    <3>1. /\ taken[v].array = tasks /\ taken[v].index < nextTask
          /\ taken[v].index < nTasks /\ taken[v].index \notin finished[tasks]
      BY <1>0, <2>2, <2>4 DEF TaskInv
    <3>2. taken[v].index \in Nat
      BY <1>0
    <3>3. taken[v].index # nextTask
      BY <2>3, <3>1, <3>2
    <3>4. taken'[v] # taken'[w]
      BY <2>2, <3>3
    <3> QED
      BY <2>2, <3>1, <3>2, <3>4
  <2>5. \A v \in Worker : thread'[v] = "read" =>
           /\ taken'[v].array = tasks'
           /\ taken'[v].index < nextTask' /\ taken'[v].index < nTasks'
           /\ taken'[v].index \notin finished'[tasks']
    <3>1. ASSUME NEW v \in Worker \ {w}, thread'[v] = "read"
          PROVE  /\ taken'[v].array = tasks' /\ taken'[v].index < nextTask'
                 /\ taken'[v].index < nTasks'
                 /\ taken'[v].index \notin finished'[tasks']
      BY <2>2, <2>3, <2>4, <3>1
    <3>2. /\ taken'[w].array = tasks' /\ taken'[w].index < nextTask'
          /\ taken'[w].index < nTasks' /\ taken'[w].index \notin finished'[tasks']
      BY <2>2, <2>3
    <3> QED
      BY <3>1, <3>2
  <2>6. ASSUME NEW u \in Worker, NEW v \in Worker, u # v,
               thread'[u] = "read", thread'[v] = "read"
        PROVE  taken'[u] # taken'[v]
    <3>1. CASE u = w \/ v = w
      BY <2>4, <2>6, <3>1
    <3>2. CASE u # w /\ v # w
      BY <1>0, <2>2, <2>6, <3>2 DEF TaskInv
    <3> QED
      BY <3>1, <3>2
  <2> QED
    BY <2>3, <2>5, <2>6 DEF TaskInv
<1>5. ASSUME JoinBatch(w) \/ NextTask(w), CheckIn(w) PROVE TaskInv'
  <2>1. /\ UNCHANGED finished /\ nextTask' = nextTask + 1
        /\ thread'[w] = "top"
        /\ \A v \in Worker \ {w} : taken'[v] = taken[v] /\ thread'[v] = thread[v]
    BY <1>0, <1>5 DEF JoinBatch, NextTask, CheckIn
  <2>2. w \in Due /\ remainingWorkers > 0 /\ tasks \in Array
    BY <1>5, TakersDue
  <2>3. CASE LastIn
    <3>1. tasks' = Null
      BY <1>5, <2>2, <2>3 DEF CheckIn
    <3>2. Due \ {w} = {}
      <4>1. /\ Cardinality(Due) \in Nat
            /\ Cardinality(Due \ {w}) = Cardinality(Due) - 1
        BY <2>2, DueLeaves
      <4>2. Cardinality(Due) <= 1
        BY <2>3 DEF LastIn, Inv, CountsDue
      <4>3. Due \ {w} \in SUBSET Worker
        BY DEF Due
      <4>4. IsFiniteSet(Due \ {w}) /\ Cardinality(Due \ {w}) \in Nat
        BY <4>3, CountWorkers
      <4>5. Cardinality(Due \ {w}) = 0
        BY <4>1, <4>2, <4>4
      <4> QED
        BY <4>4, <4>5, FS_EmptySet
    <3>3. \A v \in Worker : thread'[v] # "read"
      BY <2>1, <3>2 DEF Due
    <3> QED
      BY <3>1, <3>3, TasksNew
  <2>4. CASE ~LastIn
    <3>1. UNCHANGED <<tasks, nTasks>>
      BY <1>5, <2>4 DEF CheckIn
    <3>2. nextTask \in Nat /\ finished[tasks] \subseteq 0 .. nextTask - 1
      BY <1>0, <2>2 DEF TaskInv, Null, Array
    <3>3. finished'[tasks'] \subseteq 0 .. nextTask' - 1
      BY <2>1, <3>1, <3>2
    <3>4. \A v \in Worker : thread'[v] = "read" =>
             v # w /\ thread[v] = "read" /\ taken'[v] = taken[v]
      BY <2>1
    <3>5. ASSUME NEW v \in Worker, thread'[v] = "read"
          PROVE  /\ taken'[v].array = tasks'
                 /\ taken'[v].index < nextTask' /\ taken'[v].index < nTasks'
                 /\ taken'[v].index \notin finished'[tasks']
      <4>1. /\ taken[v].array = tasks
            /\ taken[v].index < nextTask /\ taken[v].index < nTasks
            /\ taken[v].index \notin finished[tasks]
        BY <1>0, <3>4, <3>5 DEF TaskInv
      <4>2. taken[v].index \in Nat
        BY <1>0
      <4>3. taken[v].index < nextTask + 1
        BY <3>2, <4>1, <4>2
      <4> QED
        BY <2>1, <3>1, <3>4, <3>5, <4>1, <4>3
    <3>6. \A u, v \in Worker :
             u # v /\ thread'[u] = "read" /\ thread'[v] = "read"
                => taken'[u] # taken'[v]
      BY <1>0, <3>4 DEF TaskInv
    <3> QED
      BY <3>3, <3>5, <3>6 DEF TaskInv
  <2> QED
    BY <2>3, <2>4
<1> QED
  BY <1>1, <1>2, <1>3, <1>4, <1>5 DEF WorkerStep, JoinBatch, NextTask

(* The caller posts an array of which nothing has been read, and writes into
   or gives up only an array that is not posted.                           *)
LEMMA CallerTasks ==
    ASSUME Inv, CallerStep \/ CallerAlone \/ StopPool
    PROVE  TaskInv'
<1>0. PoolTypeOK /\ CallerInv /\ BatchInv /\ Null \notin Array
  BY DEF Inv, Null, Array
<1> USE DEF PoolTypeOK, sharedVars, batchVars, workerVars
<1>1. CASE CallerAlone
  <2>1. UNCHANGED <<tasks, nTasks, nextTask, taken, thread>>
    BY <1>1, PoolAlone
  <2>2. tasks \in Array => finished'[tasks] \subseteq finished[tasks]
    <3>1. CASE UNCHANGED finished
      BY <3>1
    <3>2. CASE Collect
      BY <1>0, <3>2 DEF Collect
    <3>3. ASSUME NEW w \in Worker, HelperRead(w)
          PROVE  tasks \in Array => finished'[tasks] = finished[tasks]
      <4>1. caller = "spawn" /\ tasks # reading
        BY <1>0, <3>3 DEF HelperRead, CallerInv, BatchInv
      <4> QED
        BY <1>0, <3>3, <4>1 DEF HelperRead, Perform
    <3> QED
      BY <1>1, <3>1, <3>2, <3>3 DEF CallerAlone, BeginEarly, BeginPlain, Begin,
         FinishEarly, Created, BatchRefused, SpawnHelper, JoinHelpers, Wait
  <2> QED
    BY <2>1, <2>2, TasksKept
<1>2. CASE StopPool \/ CreateFailed \/ CreateThread \/ UndoCreate
  <2>1. /\ UNCHANGED <<tasks, nTasks, nextTask, taken, finished>>
        /\ \A w \in Worker : thread'[w] = "read" => thread[w] = "read"
    BY <1>0, <1>2 DEF StopPool, CreateFailed, CreateThread, UndoCreate, Woken
  <2> QED
    BY <2>1, TasksKept
<1>3. CASE InitPool
  <2>1. remainingWorkers = 0
    BY <1>0, <1>3 DEF InitPool, CallerInv, BatchInv
  <2>2. /\ tasks' = Null
        /\ \A w \in Worker : thread'[w] # "read"
    BY <1>3, <2>1, NobodyReads DEF InitPool
  <2> QED
    BY <2>2, TasksNew
<1>4. CASE JoinPool
  <2>1. /\ tasks' = Null
        /\ \A w \in Worker : thread'[w] # "read"
    BY <1>4 DEF JoinPool
  <2> QED
    BY <2>1, TasksNew
<1>5. CASE PostBatch
  <2>1. remainingWorkers = 0
    BY <1>5, PostPosts
  <2>2. \A w \in Worker : thread'[w] # "read"
    BY <1>5, <2>1, NobodyReads DEF PostBatch, Woken
  <2>3. tasks' = reading /\ finished'[reading] = {}
    BY <1>0, <1>5 DEF PostBatch, CallerInv, Starting
  <2> QED
    BY <2>2, <2>3, TasksNew
<1> QED
  BY <1>1, <1>2, <1>3, <1>4, <1>5 DEF CallerStep, CallerAlone

-----------------------------------------------------------------------------
(* Every step keeps the invariant.                                         *)
LEMMA InvNext ==
    ASSUME Inv, [PoolNext]_poolVars
    PROVE  Inv'
<1> SUFFICES BatchInv' /\ CountsDue' /\ TaskInv'
  BY TypesNext, CallerNext DEF Inv
<1>1. ASSUME NEW w \in Worker, WorkerStep(w)
      PROVE  BatchInv' /\ CountsDue' /\ TaskInv'
  BY <1>1, WorkerBatch, WorkerCounts, WorkerTasks
<1>2. CASE CallerStep \/ CallerAlone \/ StopPool
  <2>1. CallerStep \/ BeginEarly \/ BeginPlain \/ FinishEarly
        \/ StopPool \/ (\E w \in Worker : HelperRead(w))
    BY <1>2 DEF CallerStep, CallerAlone
  <2>2. BatchInv'
    BY <2>1, CallerBatch
  <2>3. CountsDue' /\ TaskInv'
    BY <1>2, CallerCounts, CallerTasks
  <2> QED
    BY <2>2, <2>3
<1>3. CASE UNCHANGED poolVars
  <2>1. UNCHANGED <<thread, seen, activeWorkers, generation, stopping,
                    remainingWorkers>>
    BY <1>3 DEF poolVars, sharedVars, batchVars, workerVars
  <2>2. CountsDue'
    BY <2>1 DEF Inv, CountsDue, Due
  <2>3. BatchInv'
    BY <1>3 DEF poolVars, sharedVars, batchVars, workerVars, readVars, Inv, BatchInv
  <2>4. TaskInv'
    BY <1>3 DEF poolVars, sharedVars, batchVars, workerVars, Inv, TaskInv
  <2> QED
    BY <2>2, <2>3, <2>4
<1>4. \/ \E w \in Worker : WorkerStep(w)
      \/ CallerStep \/ CallerAlone \/ StopPool
      \/ UNCHANGED poolVars
  BY DEF PoolNext, CallerAlone
<1> QED
  BY <1>1, <1>2, <1>3, <1>4

(* A reader is counted, so its array is posted and has as many tasks as the
   batch says.                                                             *)
LEMMA InvReadersOwn == Inv => ReadersOwn
<1> SUFFICES ASSUME Inv, NEW w \in Worker, thread[w] = "read"
             PROVE  /\ taken[w].array = tasks
                    /\ taken[w].index < size[tasks]
                    /\ taken[w].index \notin finished[tasks]
                    /\ \A v \in Worker \ {w} :
                           thread[v] = "read" => taken[v] # taken[w]
  BY DEF ReadersOwn
<1>1. remainingWorkers > 0
  <2>1. remainingWorkers # 0
    BY NobodyReads
  <2> QED
    BY <2>1, PoolNumbers DEF Inv, PoolTypeOK
<1>2. nTasks = size[tasks]
  BY <1>1 DEF Inv, BatchInv
<1> QED
  BY <1>2 DEF Inv, TaskInv

(* The invariant holds in every state.                                     *)
LEMMA PoolInv == PoolSpec => []Inv
<1> QED
  BY InvInit, InvNext, PTL DEF PoolSpec

(* The variables keep their types for every number of threads: a batch never
   has more workers than the pool has threads, and a task's index is never
   negative (ds4_metal.m 12089-12296).                                     *)
THEOREM PoolTypes == PoolSpec => []PoolTypeOK
<1>1. Inv => PoolTypeOK
  BY DEF Inv
<1> QED
  BY <1>1, PoolInv, PTL

(* A pool thread writes only into the array that is posted, at a task that
   nobody has read and nobody else is reading, for every number of threads
   and every size of a read (ds4_metal.m 12108-12160, 12218-12260).        *)
THEOREM PoolReadersOwn == PoolSpec => []ReadersOwn
<1> QED
  BY InvReadersOwn, PoolInv, PTL

-----------------------------------------------------------------------------
(* A read is complete.                                                     *)

\* A pool thread is reading task i of array a.
Reads(a, i) ==
    \E w \in Worker : thread[w] = "read" /\ taken[w].array = a /\ taken[w].index = i

\* What has been taken of the posted array has been read or is being read.
Covered ==
    tasks # Null =>
        /\ finished[tasks] \subseteq 0 .. nTasks - 1
        /\ \A i \in 0 .. nTasks - 1 :
               i < nextTask => i \in finished[tasks] \/ Reads(tasks, i)

\* The caller takes the array for one that a batch has read, or will.
Expected(a) ==
    \/ a = "early" /\ earlyPending
    \/ reading = a /\ caller \in Waiting
    \/ reading = a /\ caller = "collect" /\ ok

\* An array that is expected, and posted no more, has been read.
Complete ==
    \A a \in Array : Expected(a) /\ tasks # a => finished[a] = 0 .. size[a] - 1

\* Each thread of one read is the first of its stripe that is not read yet.
Striped ==
    /\ caller \notin {"create", "undo", "spawn"} => created = 0
    /\ caller = "spawn" =>
          /\ created <= Stripes
          /\ finished[reading] \subseteq 0 .. size[reading] - 1
          /\ \A w \in Worker : IF w >= created THEN helper[w] = -1 ELSE
                /\ helper[w] \in Nat /\ helper[w] % Stripes = w
                /\ \A i \in 0 .. size[reading] - 1 :
                      i % Stripes = w /\ i < helper[w] => i \in finished[reading]

(* Euclidean division by a divisor that is not a literal.                  *)
LEMMA Divides ==
    ASSUME NEW a \in Nat, NEW d \in Nat, d > 0
    PROVE  /\ a \div d \in Int
           /\ a % d \in 0 .. d - 1
           /\ a = d * (a \div d) + (a % d)
BY SMT

(* Two numbers with the same remainder are a divisor apart.                *)
LEMMA StripeApart ==
    ASSUME NEW a \in Nat, NEW b \in Nat, NEW d \in Nat, d > 0, a < b,
           a % d = b % d
    PROVE  a + d <= b
<1> DEFINE p == b \div d
           q == a \div d
<1>1. p \in Int /\ q \in Int /\ b - a = d * p - d * q
  BY Divides
<1> HIDE DEF p, q
<1>2. b - a = d * (p - q)
  BY <1>1
<1>3. CASE p - q <= 0
  <2>1. d * (p - q) <= 0
    BY <1>1, <1>3
  <2> QED
    BY <2>1, <1>2
<1>4. CASE p - q >= 1
  <2>1. d * (p - q) >= d
    BY <1>1, <1>4
  <2> QED
    BY <2>1, <1>2
<1> QED
  BY <1>1, <1>3, <1>4

(* The number of a thread is its remainder, and so is the next of its
   stripe's.                                                               *)
LEMMA StripeNext ==
    ASSUME NEW d \in Nat, NEW a \in Nat, d > 0
    PROVE  (a < d => a % d = a) /\ (a + d) % d = a % d
<1>1. ASSUME NEW b \in Nat, NEW q \in Int, NEW r \in 0 .. d - 1, b = d * q + r
      PROVE  b % d = r
  <2> DEFINE p == b \div d
             s == b % d
  <2>1. p \in Int /\ s \in 0 .. d - 1 /\ b = d * p + s
    BY Divides
  <2> HIDE DEF p, s
  <2>2. d * (p - q) = r - s
    BY <1>1, <2>1
  <2>3. CASE p - q >= 1
    <3>1. d * (p - q) >= d
      BY <2>1, <2>3
    <3> QED
      BY <2>1, <2>2, <3>1
  <2>4. CASE p - q <= -1
    <3>1. d * (p - q) <= -d
      BY <2>1, <2>4
    <3> QED
      BY <2>1, <2>2, <3>1
  <2>5. CASE p = q
    <3>1. s = r
      BY <2>1, <2>2, <2>5
    <3> QED
      BY <3>1 DEF s
  <2> QED
    BY <2>1, <2>3, <2>4, <2>5
<1>2. a < d => a % d = a
  BY <1>1
<1>3. (a + d) % d = a % d
  <2> DEFINE q == a \div d
             r == a % d
  <2>1. q \in Int /\ r \in 0 .. d - 1 /\ a = d * q + r
    BY Divides
  <2> HIDE DEF q, r
  <2>2. a + d = d * (q + 1) + r /\ q + 1 \in Int /\ a + d \in Nat
    BY <2>1
  <2>3. (a + d) % d = r
    BY <1>1, <2>1, <2>2
  <2> QED
    BY <2>3 DEF r
<1> QED
  BY <1>2, <1>3

\* An early load is begun when none is pending.
EarlyApart ==
    reading = "early" /\ caller \notin Waiting \cup {"collect"} => ~earlyPending

(* The stripes of a read: there is at least one, and each has a thread.    *)
LEMMA StripesRange ==
    ASSUME Inv, reading \in Array
    PROVE  /\ size[reading] \in Nat
           /\ Stripes \in Nat /\ Stripes > 0 /\ Stripes <= Threads
<1>1. size[reading] \in Sizes
  BY DEF Inv, CallerInv, ArraysKept, Live
<1>2. size[reading] \in Nat /\ size[reading] > 1 /\ Threads \in Nat /\ Threads > 1
  BY <1>1, PoolNumbers
<1> QED
  BY <1>2 DEF Stripes, WorkersFor, Fewer

(* When the last worker of a batch checks in, nobody else reads for it.    *)
LEMMA LastReader ==
    ASSUME Inv, NEW w \in Worker, JoinBatch(w) \/ NextTask(w), LastIn
    PROVE  \A v \in Worker : thread[v] # "read"
<1>1. w \in Due
  BY TakersDue
<1>2. Due \in SUBSET Worker /\ Due \ {w} \in SUBSET Worker
  BY DEF Due
<1>3. /\ Cardinality(Due) \in Nat
      /\ Cardinality(Due \ {w}) = Cardinality(Due) - 1
      /\ IsFiniteSet(Due \ {w}) /\ Cardinality(Due \ {w}) \in Nat
  BY <1>1, <1>2, DueLeaves, CountWorkers
<1>4. Cardinality(Due) <= 1
  BY DEF LastIn, Inv, CountsDue
<1>5. Due \ {w} = {}
  BY <1>3, <1>4, FS_EmptySet
<1>6. thread[w] # "read"
  BY DEF JoinBatch, NextTask
<1> QED
  BY <1>5, <1>6 DEF Due

(* Who reads goes on reading when others move.                             *)
LEMMA ReadsKept ==
    ASSUME NEW w \in Worker, thread[w] # "read",
           \A v \in Worker \ {w} : thread'[v] = thread[v] /\ taken'[v] = taken[v],
           NEW a, NEW i, Reads(a, i)
    PROVE  Reads(a, i)'
BY DEF Reads

(* No task that was taken is forgotten.                                    *)
LEMMA WorkerCovers ==
    ASSUME Inv, Covered, NEW w \in Worker, WorkerStep(w)
    PROVE  Covered'
<1>0. PoolTypeOK /\ nextTask \in Nat /\ nTasks \in Nat
  BY DEF Inv, PoolTypeOK
<1> USE DEF PoolTypeOK, sharedVars, batchVars, workerVars
<1>1. CASE Sleep(w) \/ Exit(w) \/ StandBy(w)
  <2>1. /\ UNCHANGED <<tasks, nTasks, nextTask, finished, taken>>
        /\ \A v \in Worker : thread[v] = "read" => thread'[v] = "read"
    BY <1>0, <1>1 DEF Sleep, Exit, StandBy
  <2> QED
    BY <2>1 DEF Covered, Reads
<1>2. CASE ReadTask(w)
  <2>1. /\ UNCHANGED <<tasks, nTasks, nextTask, taken>>
        /\ \A v \in Worker \ {w} : thread'[v] = thread[v]
    BY <1>0, <1>2 DEF ReadTask
  <2>2. /\ tasks \in Array /\ taken[w].array = tasks /\ taken[w].index \in Nat
        /\ taken[w].index < nTasks
        /\ finished'[tasks] = finished[tasks] \cup {taken[w].index}
    BY <1>0, <1>2, ReadsPosted
  <2>3. ASSUME NEW i \in 0 .. nTasks - 1, Reads(tasks, i)
        PROVE  i \in finished'[tasks] \/ Reads(tasks, i)'
    BY <2>1, <2>2, <2>3 DEF Reads
  <2>4. taken[w].index \in 0 .. nTasks - 1
    BY <1>0, <2>2
  <2> QED
    BY <2>1, <2>2, <2>3, <2>4 DEF Covered
<1>3. ASSUME JoinBatch(w) \/ NextTask(w) PROVE Covered'
  <2>1. thread[w] # "read" /\ UNCHANGED finished
    BY <1>3 DEF JoinBatch, NextTask
  <2>2. CASE Claim(w)
    <3>1. /\ UNCHANGED <<tasks, nTasks>> /\ nextTask' = nextTask + 1
          /\ \A v \in Worker \ {w} : thread'[v] = thread[v] /\ taken'[v] = taken[v]
          /\ thread'[w] = "read" /\ taken'[w].array = tasks
          /\ taken'[w].index = nextTask
      BY <1>0, <2>2 DEF Claim
    <3>2. \E v \in Worker : /\ thread'[v] = "read" /\ taken'[v].array = tasks'
                            /\ taken'[v].index = nextTask
      BY <3>1
    <3>3. nextTask' \in Nat /\ nextTask' = nextTask + 1
      BY <1>0, <3>1
    <3>4. ASSUME tasks' # Null, NEW i \in 0 .. nTasks' - 1, i < nextTask'
          PROVE  i \in finished'[tasks'] \/ Reads(tasks, i)'
      <4>1. i \in Nat /\ i \in 0 .. nTasks - 1
        BY <1>0, <3>1, <3>4
      <4>2. CASE i = nextTask
        BY <3>2, <4>2 DEF Reads
      <4>3. CASE i # nextTask
        <5>1. i < nextTask
          BY <1>0, <3>3, <3>4, <4>1, <4>3
        <5>2. i \in finished[tasks] \/ Reads(tasks, i)
          BY <3>1, <3>4, <4>1, <5>1 DEF Covered
        <5> QED
          BY <2>1, <3>1, <5>2, ReadsKept DEF Reads
      <4> QED
        BY <4>2, <4>3
    <3> QED
      BY <2>1, <3>1, <3>4 DEF Covered
  <2>3. CASE CheckIn(w)
    <3>1. /\ tasks' = Null \/ UNCHANGED <<tasks, nTasks>>
          /\ nextTask >= nTasks
          /\ \A v \in Worker \ {w} : thread'[v] = thread[v] /\ taken'[v] = taken[v]
      BY <1>0, <2>3 DEF CheckIn
    <3>2. \A i \in 0 .. nTasks - 1 : i < nextTask
      BY <1>0, <3>1
    <3> QED
      BY <2>1, <3>1, <3>2, ReadsKept DEF Covered
  <2> QED
    BY <1>3, <2>2, <2>3 DEF JoinBatch, NextTask
<1> QED
  BY <1>1, <1>2, <1>3 DEF WorkerStep

(* Nor by the caller, which posts with no task taken.                      *)
LEMMA CallerCovers ==
    ASSUME Inv, Covered, CallerStep \/ CallerAlone \/ StopPool
    PROVE  Covered'
<1>0. PoolTypeOK /\ CallerInv /\ BatchInv /\ Null \notin Array
  BY DEF Inv, Null, Array
<1> USE DEF PoolTypeOK, sharedVars, batchVars, workerVars
<1>1. ASSUME UNCHANGED <<tasks, nTasks, nextTask, taken>>,
             \A w \in Worker : thread[w] = "read" => thread'[w] = "read",
             tasks # Null => finished'[tasks] = finished[tasks]
      PROVE  Covered'
  BY <1>1 DEF Covered, Reads
<1>2. CASE CallerAlone
  <2>1. UNCHANGED <<tasks, nTasks, nextTask, taken, thread>>
    BY <1>2, PoolAlone
  <2>2. tasks # Null => finished'[tasks] = finished[tasks]
    <3>1. CASE UNCHANGED finished
      BY <3>1
    <3>2. CASE Collect
      BY <1>0, <3>2 DEF Collect, BatchInv
    <3>3. ASSUME NEW w \in Worker, HelperRead(w)
          PROVE  tasks # Null => finished'[tasks] = finished[tasks]
      <4>1. caller = "spawn" /\ tasks # reading
        BY <1>0, <3>3 DEF HelperRead, CallerInv, BatchInv
      <4> QED
        BY <1>0, <3>3, <4>1 DEF HelperRead, Perform
    <3> QED
      BY <1>2, <3>1, <3>2, <3>3 DEF CallerAlone, BeginEarly, BeginPlain, Begin,
         FinishEarly, Created, BatchRefused, SpawnHelper, JoinHelpers, Wait
  <2> QED
    BY <1>1, <2>1, <2>2
<1>3. CASE StopPool \/ CreateFailed
  <2>1. /\ UNCHANGED <<tasks, nTasks, nextTask, taken, finished>>
        /\ \A w \in Worker : thread[w] = "read" => thread'[w] = "read"
    BY <1>0, <1>3 DEF StopPool, CreateFailed, Woken
  <2> QED
    BY <1>1, <2>1
<1>4. CASE CreateThread \/ UndoCreate
  <2>1. tasks = Null
    BY <1>0, <1>4 DEF CreateThread, UndoCreate, CallerInv, BatchInv
  <2>2. tasks' = Null
    BY <1>4, <2>1 DEF CreateThread, UndoCreate
  <2> QED
    BY <2>2 DEF Covered
<1>5. CASE InitPool \/ JoinPool
  BY <1>5 DEF InitPool, JoinPool, Covered
<1>6. CASE PostBatch
  <2>1. tasks' = reading /\ nextTask' = 0 /\ finished'[reading] = {}
    BY <1>0, <1>6 DEF PostBatch, CallerInv, Starting
  <2> QED
    BY <2>1 DEF Covered
<1> QED
  BY <1>2, <1>3, <1>4, <1>5, <1>6 DEF CallerStep, CallerAlone

(* A batch ends when all its tasks have been read.                         *)
LEMMA WorkerCompletes ==
    ASSUME Inv, Covered, Complete, NEW w \in Worker, WorkerStep(w)
    PROVE  Complete'
<1>0. PoolTypeOK /\ BatchInv /\ nextTask \in Nat /\ nTasks \in Nat
  BY DEF Inv, PoolTypeOK
<1>1. /\ UNCHANGED <<reading, size, earlyPending, ok>>
      /\ caller' = caller \/ (caller = "asleep" /\ caller' = "wait")
      /\ ReadTask(w) \/ UNCHANGED finished
  BY WorkerFrame
<1>2. \A a \in Array : Expected(a)' => Expected(a)
  BY <1>1 DEF Expected, Waiting
<1>3. CASE UNCHANGED tasks
  <2>1. \A a \in Array : a # tasks => finished'[a] = finished[a]
    BY <1>0, <1>1, ReadsPosted DEF PoolTypeOK
  <2> QED
    BY <1>1, <1>2, <1>3, <2>1 DEF Complete
<1>4. CASE ~UNCHANGED tasks
  <2>1. /\ JoinBatch(w) \/ NextTask(w)
        /\ CheckIn(w) /\ LastIn /\ nextTask >= nTasks
    BY <1>4 DEF WorkerStep, Sleep, Exit, JoinBatch, StandBy, ReadTask, NextTask,
       Claim, CheckIn, sharedVars, batchVars
  <2>2. tasks \in Array /\ nTasks = size[tasks] /\ UNCHANGED finished
    <3>1. tasks \in Array /\ remainingWorkers > 0
      BY <2>1, TakersDue
    <3> QED
      BY <1>0, <2>1, <3>1 DEF BatchInv, JoinBatch, NextTask
  <2>3. \A i : ~Reads(tasks, i)
    BY <2>1, LastReader DEF Reads
  <2>4. finished[tasks] = 0 .. nTasks - 1
    <3>1. \A i \in 0 .. nTasks - 1 : i < nextTask
      BY <1>0, <2>1
    <3>2. tasks # Null
      BY <2>2 DEF Null, Array
    <3> QED
      BY <2>3, <3>1, <3>2 DEF Covered
  <2> QED
    BY <1>1, <1>2, <2>2, <2>4 DEF Complete
<1> QED
  BY <1>3, <1>4

(* Threads of one read, all there and all joined, have read it.            *)
LEMMA HelpersComplete ==
    ASSUME Inv, Striped, JoinHelpers, created = Stripes
    PROVE  reading \in Array /\ finished[reading] = 0 .. size[reading] - 1
<1>1. reading \in Array /\ caller = "spawn"
  BY DEF JoinHelpers, Inv, CallerInv, PoolTypeOK
<1>2. /\ size[reading] \in Nat /\ Stripes \in Nat /\ Stripes > 0
      /\ Stripes <= Threads /\ Threads \in Nat
  BY <1>1, StripesRange, PoolNumbers
<1>3. ASSUME NEW i \in 0 .. size[reading] - 1
      PROVE  i \in finished[reading]
  <2>1. i \in Nat /\ i % Stripes \in 0 .. Stripes - 1
    BY <1>2, Divides
  <2>2. PICK w \in Worker : w = i % Stripes /\ w < created /\ ~(w >= created)
    BY <1>2, <2>1 DEF Worker
  <2>3. helper[w] \in Nat /\ helper[w] >= size[reading]
    BY <1>1, <2>2 DEF Striped, JoinHelpers
  <2>4. i < helper[w]
    BY <1>2, <2>1, <2>3
  <2> QED
    BY <1>1, <2>2, <2>4 DEF Striped
<1> QED
  BY <1>1, <1>3 DEF Striped

(* The caller takes an array for read only when it is.                     *)
LEMMA CallerCompletes ==
    ASSUME Inv, Complete, Striped, EarlyApart,
           CallerStep \/ CallerAlone \/ StopPool
    PROVE  Complete' /\ EarlyApart'
<1>0. PoolTypeOK /\ CallerInv /\ BatchInv /\ Null \notin Array
  BY DEF Inv, Null, Array
<1> USE DEF PoolTypeOK, Complete, Expected, EarlyApart, Waiting, sharedVars, batchVars,
            workerVars, ownVars, readVars
<1>1. ASSUME NEW a \in Array, NEW n \in Sizes, Begin(a, n), a = "early" => ~earlyPending
      PROVE  Complete' /\ EarlyApart'
  <2>1. /\ \A b \in Array \ {a} : size'[b] = size[b]
        /\ UNCHANGED <<finished, tasks, earlyPending>>
        /\ reading' = a /\ caller' \in {"init", "post"}
    BY <1>0, <1>1 DEF Begin
  <2> QED
    BY <1>1, <2>1
<1>2. CASE BeginEarly \/ BeginPlain
  BY <1>1, <1>2 DEF BeginEarly, BeginPlain, Array
<1>3. CASE FinishEarly \/ StopPool
  BY <1>0, <1>3 DEF FinishEarly, StopPool, CallerInv
<1>4. CASE InitPool
  BY <1>0, <1>4 DEF InitPool, CallerInv, BatchInv
<1>5. CASE CreateThread \/ Created \/ CreateFailed \/ UndoCreate
  BY <1>0, <1>5 DEF CreateThread, Created, CreateFailed, UndoCreate
<1>6. CASE BatchRefused \/ SpawnHelper
  BY <1>0, <1>6 DEF BatchRefused, SpawnHelper
<1>7. CASE PostBatch
  <2>1. tasks = Null /\ tasks' = reading /\ UNCHANGED <<finished, size>>
    BY <1>7 DEF PostBatch, BatchOut
  <2>2. \A a \in Array \ {reading} : Expected(a)' => Expected(a)
    BY <1>0, <1>7 DEF PostBatch, CallerInv
  <2>3. EarlyApart'
    BY <1>0, <1>7 DEF PostBatch, CallerInv
  <2> QED
    BY <1>0, <2>1, <2>2, <2>3
<1>8. CASE Wait
  <2>1. /\ UNCHANGED <<tasks, finished, size, reading, earlyPending>>
        /\ caller = "wait" /\ caller' \in {"collect", "asleep"}
    BY <1>8 DEF Wait
  <2>2. \A a \in Array : Expected(a)' => Expected(a)
    BY <2>1
  <2>3. EarlyApart'
    BY <2>1
  <2> HIDE DEF Expected
  <2> QED
    BY <2>1, <2>2, <2>3
<1>9. CASE Collect
  <2>1. /\ reading' = Null /\ caller' = "idle" /\ tasks' = tasks
        /\ earlyPending' => earlyPending /\ reading # "early"
    BY <1>9 DEF Collect
  <2>2. \A a \in Array \ {reading} : finished'[a] = finished[a] /\ size'[a] = size[a]
    BY <1>0, <1>9 DEF Collect
  <2>3. \A a \in Array : Expected(a)' => Expected(a) /\ a # reading
    BY <1>0, <2>1
  <2>4. EarlyApart'
    BY <2>1 DEF Null
  <2> HIDE DEF Expected
  <2> QED
    BY <2>1, <2>2, <2>3, <2>4
<1>10. CASE JoinPool
  BY <1>0, <1>10 DEF JoinPool, CallerInv
<1>11. CASE JoinHelpers
  <2>1. /\ UNCHANGED <<tasks, finished, size, reading, earlyPending>>
        /\ caller' = "collect" /\ ok' = (created = Stripes)
    BY <1>11 DEF JoinHelpers
  <2> QED
    BY <1>11, <2>1, HelpersComplete
<1>12. ASSUME NEW w \in Worker, HelperRead(w) PROVE Complete' /\ EarlyApart'
  <2>1. caller = "spawn"
    BY <1>0, <1>12 DEF HelperRead, CallerInv
  <2>2. ~Expected(reading)
    BY <2>1
  <2>3. \A a \in Array \ {reading} : finished'[a] = finished[a]
    BY <1>0, <1>12 DEF HelperRead, Perform
  <2> QED
    BY <1>12, <2>1, <2>2, <2>3 DEF HelperRead
<1> QED
  BY <1>2, <1>3, <1>4, <1>5, <1>6, <1>7, <1>8, <1>9, <1>10, <1>11, <1>12
     DEF CallerStep, CallerAlone

(* A thread of one read goes through its stripe and leaves nothing out.    *)
LEMMA StripedNext ==
    ASSUME Inv, Striped, [PoolNext]_poolVars
    PROVE  Striped'
<1>0. PoolTypeOK /\ CallerInv /\ BatchInv /\ created \in Nat
  BY PoolNumbers DEF Inv, PoolTypeOK
<1> USE DEF sharedVars, batchVars, workerVars, ownVars, readVars
<1>1. CASE UNCHANGED poolVars
  BY <1>1 DEF poolVars, Striped, Stripes
<1>2. ASSUME NEW w \in Worker, WorkerStep(w) PROVE Striped'
  <2>1. /\ UNCHANGED <<helper, created, reading, size>>
        /\ caller' = caller \/ (caller = "asleep" /\ caller' = "wait")
        /\ ReadTask(w) \/ UNCHANGED finished
    BY <1>2, WorkerFrame
  <2>2. caller = "spawn" => finished'[reading] = finished[reading]
    BY <1>0, <2>1, ReadsPosted DEF BatchInv, CallerInv, PoolTypeOK
  <2>3. reading' = reading /\ size' = size
    BY <2>1
  <2>4. caller' = "spawn" <=> caller = "spawn"
    BY <2>1
  <2>5. Stripes' = Stripes
    BY <2>3 DEF Stripes
  <2>6. caller' \notin {"create", "undo", "spawn"} => created' = 0
    BY <2>1 DEF Striped
  <2> QED
    BY <2>1, <2>2, <2>3, <2>4, <2>5, <2>6 DEF Striped
<1>3. ASSUME created' = 0, caller' # "spawn" PROVE Striped'
  BY <1>3 DEF Striped
<1>4. ASSUME created' = 0, caller' = "spawn", caller \in Starting,
             UNCHANGED <<reading, helper, finished, size>>
      PROVE  Striped'
  <2>1. /\ finished'[reading'] = {} /\ reading \in Array
        /\ \A w \in Worker : helper'[w] = -1
    BY <1>0, <1>4 DEF CallerInv, Starting, PoolTypeOK
  <2>2. \A w \in Worker : w >= created'
    BY <1>4, PoolNumbers DEF Worker
  <2>3. Stripes' = Stripes /\ Stripes \in Nat
    BY <1>4, <2>1, StripesRange DEF Stripes
  <2> QED
    BY <1>4, <2>1, <2>2, <2>3 DEF Striped
<1>5. ASSUME NEW a \in Array, NEW n \in Sizes, Begin(a, n) PROVE Striped'
  BY <1>5 DEF Begin, Striped
<1>6. CASE BeginEarly \/ BeginPlain
  BY <1>5, <1>6 DEF BeginEarly, BeginPlain, Array
<1>7. CASE FinishEarly \/ StopPool \/ Wait \/ Collect \/ JoinPool \/ PostBatch
  BY <1>7 DEF FinishEarly, StopPool, Wait, Collect, JoinPool, PostBatch, Striped
<1>8. CASE InitPool \/ Created \/ JoinHelpers
  BY <1>3, <1>8 DEF InitPool, Created, JoinHelpers
<1>9. CASE CreateThread \/ CreateFailed
  BY <1>9 DEF CreateThread, CreateFailed, Striped
<1>10. CASE UndoCreate
  BY <1>3, <1>4, <1>10 DEF UndoCreate, Starting
<1>11. CASE BatchRefused
  BY <1>4, <1>11 DEF BatchRefused, Starting, Striped
<1>12. CASE SpawnHelper
  <2>1. /\ reading \in Array /\ caller = "spawn" /\ caller' = "spawn"
        /\ created < Stripes /\ created' = created + 1
        /\ UNCHANGED <<reading, size, finished>>
    BY <1>0, <1>12 DEF SpawnHelper, CallerInv, PoolTypeOK
  <2>2. Stripes \in Nat /\ Stripes > 0 /\ Stripes <= Threads /\ Stripes' = Stripes
    BY <2>1, StripesRange DEF Stripes
  <2>3. created \in Worker /\ created % Stripes = created
    BY <1>0, <2>1, <2>2, StripeNext, PoolNumbers DEF Worker
  <2>4. /\ helper'[created] = created
        /\ \A w \in Worker \ {created} : helper'[w] = helper[w]
    BY <1>0, <1>12, <2>3 DEF SpawnHelper, PoolTypeOK
  <2>5. ASSUME NEW i \in 0 .. size[reading] - 1, i % Stripes = created, i < created
        PROVE  FALSE
    <3>1. i \in Nat /\ i < Stripes
      BY <1>0, <2>1, <2>2, <2>5, StripesRange
    <3>2. i % Stripes = i
      BY <2>2, <3>1, StripeNext
    <3> QED
      BY <1>0, <2>5, <3>1, <3>2
  <2>6. created' <= Stripes' /\ ~(created >= created')
    BY <1>0, <2>1, <2>2
  <2>7. \A w \in Worker : w # created => (w >= created' <=> w >= created)
    BY <1>0, <2>1, PoolNumbers DEF Worker
  <2>8. ASSUME NEW w \in Worker
        PROVE  IF w >= created' THEN helper'[w] = -1 ELSE
                  /\ helper'[w] \in Nat /\ helper'[w] % Stripes = w
                  /\ \A i \in 0 .. size[reading] - 1 :
                        i % Stripes = w /\ i < helper'[w] => i \in finished[reading]
    <3>1. CASE w = created
      BY <1>0, <2>3, <2>4, <2>5, <2>6, <3>1
    <3>2. CASE w # created
      BY <2>1, <2>4, <2>7, <3>2 DEF Striped
    <3> QED
      BY <3>1, <3>2
  <2> QED
    BY <2>1, <2>2, <2>6, <2>8 DEF Striped
<1>13. ASSUME NEW w \in Worker, HelperRead(w) PROVE Striped'
  <2>1. /\ reading \in Array /\ caller = "spawn" /\ w < created
        /\ helper[w] \in Nat /\ helper[w] % Stripes = w
        /\ helper[w] < size[reading] /\ ~(w >= created)
    <3>1. helper[w] # -1 /\ caller = "spawn"
      BY <1>0, <1>13 DEF HelperRead, CallerInv
    <3>2. ~(w >= created)
      BY <3>1 DEF Striped
    <3>3. w < created
      BY <1>0, <3>2, PoolNumbers DEF Worker
    <3> QED
      BY <1>0, <1>13, <3>1, <3>2, <3>3 DEF HelperRead, CallerInv, PoolTypeOK, Striped
  <2>2. /\ size[reading] \in Nat /\ Stripes \in Nat /\ Stripes > 0
    BY <2>1, StripesRange
  <2>3. /\ UNCHANGED <<caller, created, reading, size>>
        /\ finished'[reading] = finished[reading] \cup {helper[w]}
        /\ helper'[w] = helper[w] + Stripes
        /\ \A v \in Worker \ {w} : helper'[v] = helper[v]
    BY <1>0, <1>13, <2>1 DEF HelperRead, Perform, PoolTypeOK
  <2>4. Stripes' = Stripes
    BY <2>3 DEF Stripes
  <2>5. helper'[w] \in Nat /\ helper'[w] % Stripes = w
    <3>1. (helper[w] + Stripes) % Stripes = helper[w] % Stripes
      BY <2>1, <2>2, StripeNext
    <3> QED
      BY <2>1, <2>2, <2>3, <3>1
  <2>6. ASSUME NEW i \in 0 .. size[reading] - 1, i % Stripes = w, i < helper'[w]
        PROVE  i \in finished'[reading]
    <3>1. i \in Nat
      BY <2>2
    <3>2. CASE i < helper[w]
      BY <2>1, <2>3, <2>6, <3>2 DEF Striped
    <3>3. CASE i = helper[w]
      BY <2>3, <3>3
    <3>4. CASE helper[w] < i
      <4>1. helper[w] + Stripes <= i
        BY <2>1, <2>2, <2>6, <3>1, <3>4, StripeApart
      <4> QED
        BY <2>1, <2>2, <2>3, <2>6, <3>1, <4>1
    <3> QED
      BY <2>1, <3>1, <3>2, <3>3, <3>4
  <2>7. helper[w] \in 0 .. size[reading] - 1
    BY <2>1, <2>2
  <2>8. ASSUME NEW v \in Worker
        PROVE  IF v >= created THEN helper'[v] = -1 ELSE
                  /\ helper'[v] \in Nat /\ helper'[v] % Stripes = v
                  /\ \A i \in 0 .. size[reading] - 1 :
                        i % Stripes = v /\ i < helper'[v] => i \in finished'[reading]
    <3>1. CASE v = w
      BY <2>1, <2>5, <2>6, <3>1
    <3>2. CASE v # w
      BY <2>1, <2>3, <3>2 DEF Striped
    <3> QED
      BY <3>1, <3>2
  <2>9. created <= Stripes /\ finished'[reading] \subseteq 0 .. size[reading] - 1
    BY <2>1, <2>3, <2>7 DEF Striped
  <2> QED
    BY <2>1, <2>3, <2>4, <2>8, <2>9 DEF Striped
<1> QED
  BY <1>1, <1>2, <1>6, <1>7, <1>8, <1>9, <1>10, <1>11, <1>12, <1>13
     DEF PoolNext, CallerStep

(* Every step keeps what a complete read rests on.                         *)
LEMMA CompleteNext ==
    ASSUME Inv, Covered, Complete, Striped, EarlyApart, [PoolNext]_poolVars
    PROVE  (Covered /\ Complete /\ Striped /\ EarlyApart)'
<1>1. CASE UNCHANGED poolVars
  BY <1>1, StripedNext DEF poolVars, sharedVars, batchVars, workerVars, ownVars, readVars,
     Covered, Reads, Complete, Expected, EarlyApart
<1>2. ASSUME NEW w \in Worker, WorkerStep(w)
      PROVE  (Covered /\ Complete /\ EarlyApart)'
  <2>1. EarlyApart'
    BY <1>2, WorkerFrame DEF EarlyApart, Waiting
  <2> QED
    BY <1>2, <2>1, WorkerCovers, WorkerCompletes
<1>3. CASE CallerStep \/ CallerAlone \/ StopPool
  BY <1>3, CallerCovers, CallerCompletes, StripedNext
<1> QED
  BY <1>1, <1>2, <1>3, StripedNext DEF PoolNext, CallerAlone

(* For every number of threads and every size of a read: when the caller goes
   on, no thread is on its array and, unless one of its own threads could not
   be created, every task of the array has been read, by the pool or by
   threads of its own (ds4_metal.m 12250-12260, 12298-12363).              *)
THEOREM PoolReadComplete == PoolSpec => []ReadComplete
<1> DEFINE Whole == Covered /\ Complete /\ Striped /\ EarlyApart
<1>1. PoolInit => Whole
  BY DEF PoolInit, Covered, Complete, Expected, Striped, EarlyApart, Waiting
<1>2. Inv /\ Whole /\ [PoolNext]_poolVars => Whole'
  BY CompleteNext
<1>3. Inv /\ Whole => ReadComplete
  <2> SUFFICES ASSUME Inv, Whole, caller = "collect"
               PROVE  /\ \A w \in Worker : thread[w] = "read" => taken[w].array # reading
                      /\ ok => finished[reading] = 0 .. size[reading] - 1
    BY DEF ReadComplete
  <2>1. reading \in Array /\ tasks # reading
    BY DEF Inv, CallerInv, BatchInv, PoolTypeOK
  <2>2. \A w \in Worker : thread[w] = "read" => taken[w].array = tasks
    BY DEF Inv, TaskInv
  <2> QED
    BY <2>1, <2>2 DEF Complete, Expected
<1> QED
  BY <1>1, <1>2, <1>3, PoolInv, PTL DEF PoolSpec
=============================================================================
