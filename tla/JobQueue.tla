------------------------------ MODULE JobQueue ------------------------------
(***************************************************************************)
(* How ds4_server.c carries a request from its client thread to a resident *)
(* slot and back: the accept loop, the client threads, the linked queue of *)
(* jobs, the dispatcher that binds a job to a slot, the slot workers, and  *)
(* the shutdown that drains all of them.                                   *)
(*                                                                         *)
(* A job lives on the stack of its client thread, so a job and its client  *)
(* have one name.  s.mu is held by the thread that is inside               *)
(* dispatch_jobs_locked (its place is "dispatch"); every other section     *)
(* under s.mu is one action.  j.mu is held by the client from before       *)
(* enqueue until it waits (places "dispatch" and "hold").  s.cv is the set *)
(* `cv` of the workers that wait on it; every change that could end the    *)
(* wait for clients_cv is broadcast, so that wait is a guard.              *)
(*                                                                         *)
(* generate_job is reduced to what the queue can observe: the live binding *)
(* of the slot's session to the tool-call ids of its last response, and    *)
(* whether the session still has the length it had then.  The call ids of  *)
(* one response are one name; a slot's Responses and Anthropic bindings    *)
(* are one binding.                                                        *)
(***************************************************************************)
EXTENDS Integers, FiniteSets

CONSTANTS
    SlotCount,     \* resident sessions
    Client,        \* client threads that may exist at one time
    Call,          \* tool-call ids of responses that are told apart
    NoJob, NoCall, \* null pointers
    Modes,         \* values of batched_mode a server may start with
    SpuriousIn,    \* the modes in which waits may end with no broadcast
    StoppableIn    \* the modes in which starts may fail and a stop may come

ASSUME QueueAssumption ==
    /\ SlotCount \in Nat \ {0}
    /\ IsFiniteSet(Client) /\ NoJob \notin Client
    /\ NoCall \notin Call
    /\ Modes \subseteq BOOLEAN
    /\ SpuriousIn \subseteq Modes /\ StoppableIn \subseteq Modes

Slot == 0 .. SlotCount - 1
JobOrNull == Client \cup {NoJob}
CallOrNull == Call \cup {NoCall}

VARIABLES
    batched,          \* batched_mode: slot workers; otherwise one worker
    g_stop_requested,
    main,             \* where the main thread is
    started,          \* workers created
    (* under s.mu *)
    head, tail, next, \* the list of queued jobs
    stopping, clients,
    assigned, busy,
    cv,               \* the workers that wait on s.cv
    (* a client thread, its request and its job *)
    cpc, wants, live, jdone,
    (* a worker, the job it runs and whether that continues the session *)
    wpc, job, continues,
    (* under tool_mu: the binding, and whether the length still fits it *)
    bind, fits,
    (* outside the program: the ids that clients have received *)
    seen,
    (* history: the job was dispatched to the slot that held its binding *)
    bound

listVars   == <<head, tail, next>>
clientVars == <<cpc, wants, live, jdone>>
workVars   == <<wpc, job, continues>>
liveVars   == <<bind, fits, seen>>
mainVars   == <<batched, g_stop_requested, main, started>>
vars == <<listVars, clientVars, workVars, liveVars, mainVars,
          stopping, clients, assigned, busy, cv, bound>>

ClientPC == {"gone", "parse", "enqueue", "dispatch", "hold", "wait", "woken",
             "close"}
WorkerPC == {"absent", "top", "match", "prefill", "finish", "respond", "end",
             "release", "dispatch", "exited"}
MainPC == {"starting", "serving", "spawn", "dispatch", "joinSlots", "drain",
           "closed"}

TypeOK ==
    /\ batched \in Modes
    /\ g_stop_requested \in BOOLEAN
    /\ main \in MainPC
    /\ started \in 0 .. SlotCount
    /\ head \in JobOrNull
    /\ tail \in JobOrNull
    /\ next \in [Client -> JobOrNull]
    /\ stopping \in BOOLEAN
    /\ clients \in Nat
    /\ assigned \in [Slot -> JobOrNull]
    /\ busy \in [Slot -> BOOLEAN]
    /\ cv \subseteq Slot
    /\ cpc \in [Client -> ClientPC]
    /\ wants \in [Client -> CallOrNull]
    /\ live \in [Client -> BOOLEAN]
    /\ jdone \in [Client -> BOOLEAN]
    /\ wpc \in [Slot -> WorkerPC]
    /\ job \in [Slot -> JobOrNull]
    /\ continues \in [Slot -> BOOLEAN]
    /\ bind \in [Slot -> CallOrNull]
    /\ fits \in [Slot -> BOOLEAN]
    /\ seen \subseteq Call
    /\ bound \in [Client -> BOOLEAN]

Init ==
    /\ batched \in Modes
    /\ g_stop_requested = FALSE
    /\ main = "starting"
    /\ started = 0
    /\ head = NoJob /\ tail = NoJob
    /\ next = [c \in Client |-> NoJob]
    /\ stopping = FALSE
    /\ clients = 0
    /\ assigned = [s \in Slot |-> NoJob]
    /\ busy = [s \in Slot |-> FALSE]
    /\ cv = {}
    /\ cpc = [c \in Client |-> "gone"]
    /\ wants = [c \in Client |-> NoCall]
    /\ live = [c \in Client |-> FALSE]
    /\ jdone = [c \in Client |-> FALSE]
    /\ wpc = [s \in Slot |-> "absent"]
    /\ job = [s \in Slot |-> NoJob]
    /\ continues = [s \in Slot |-> FALSE]
    /\ bind = [s \in Slot |-> NoCall]
    /\ fits = [s \in Slot |-> FALSE]
    /\ seen = {}
    /\ bound = [c \in Client |-> FALSE]

Set(f, x, v) == [f EXCEPT ![x] = v]

(* Nobody holds s.mu across actions. *)
MuFree ==
    /\ main # "dispatch"
    /\ \A c \in Client : cpc[c] # "dispatch"
    /\ \A s \in Slot : wpc[s] # "dispatch"

(* What following the links nx from h gives, and the i-th queued job from 0. *)
LinkedFrom(h, nx) ==
    LET at[i \in 0 .. Cardinality(Client)] ==
          IF i = 0 THEN h
          ELSE IF at[i - 1] = NoJob THEN NoJob ELSE nx[at[i - 1]]
    IN  at
QueuedAt == LinkedFrom(head, next)
Place == 0 .. Cardinality(Client) - 1
Queued == {QueuedAt[i] : i \in Place} \ {NoJob}

-----------------------------------------------------------------------------
(* dispatch_jobs_locked.                                                   *)

(* job_required_slot_locked: the slots that hold the binding a tool-output
   only request needs.  Ids are unique, so there is one at most; with none
   every slot will do, and generate_job refuses the job. *)
RequiredSlots(c) == {s \in Slot : live[c] /\ bind[s] = wants[c]}

(* job_slot_score: who can run the job now.  Which of several gets it (the
   longest common prefix) is left open. *)
AnySlotMutant(c) == {s \in Slot : ~busy[s] /\ assigned[s] = NoJob}
EligibleSlots(c) ==
    {s \in Slot : /\ ~busy[s] /\ assigned[s] = NoJob
                  /\ RequiredSlots(c) # {} => s \in RequiredSlots(c)}

(* The first job in the queue that some slot can run. *)
FirstRunnable(i) ==
    /\ QueuedAt[i] # NoJob /\ EligibleSlots(QueuedAt[i]) # {}
    /\ \A k \in Place : k < i => EligibleSlots(QueuedAt[k]) = {}

(* chosen is unlinked behind prev; tail moves back when it was the last. *)
UnlinkMutant(chosen, prev) ==
    /\ head' = IF prev = NoJob THEN next[chosen] ELSE head
    /\ next' = [c \in Client |-> IF c = prev THEN next[chosen]
                                 ELSE IF c = chosen THEN NoJob ELSE next[c]]
    /\ tail' = IF tail = chosen /\ prev = NoJob THEN NoJob ELSE tail
Unlink(chosen, prev) ==
    /\ head' = IF prev = NoJob THEN next[chosen] ELSE head
    /\ next' = [c \in Client |-> IF c = prev THEN next[chosen]
                                 ELSE IF c = chosen THEN NoJob ELSE next[c]]
    /\ tail' = IF tail = chosen THEN prev ELSE tail

SilentMutant == cv
Broadcast == {}

(* One turn of the dispatcher's loop, for the thread that holds s.mu.
   tool_mu is released between two turns. *)
DispatchOne ==
    /\ ~MuFree
    /\ \E i \in Place :
         /\ FirstRunnable(i)
         /\ LET chosen == QueuedAt[i]
            IN  /\ Unlink(chosen, IF i = 0 THEN NoJob ELSE QueuedAt[i - 1])
                /\ bound' = Set(bound, chosen, RequiredSlots(chosen) # {})
                /\ \E s \in EligibleSlots(chosen) :
                     /\ assigned' = Set(assigned, s, chosen)
                     /\ busy' = Set(busy, s, TRUE)
    /\ cv' = Broadcast
    /\ UNCHANGED <<clientVars, workVars, liveVars, mainVars, stopping, clients>>

NothingRunnable == \A i \in Place : ~FirstRunnable(i)

-----------------------------------------------------------------------------
(* The main thread and the signal handler.                                 *)

StopSignal ==
    /\ batched \in StoppableIn
    /\ ~g_stop_requested
    /\ g_stop_requested' = TRUE
    /\ UNCHANGED <<batched, main, started, listVars, clientVars, workVars, liveVars,
                   stopping, clients, assigned, busy, cv, bound>>

(* One worker for each slot, or one. *)
WorkerCount == IF batched THEN SlotCount ELSE 1
AllStarted(n) == n = WorkerCount

(* One more worker thread; after the last one the socket is opened. *)
StartWorker ==
    /\ main = "starting"
    /\ wpc' = Set(wpc, started, "top")
    /\ started' = started + 1
    /\ main' = IF AllStarted(started + 1) THEN "serving" ELSE "starting"
    /\ UNCHANGED <<batched, g_stop_requested, listVars, clientVars, job, continues,
                   liveVars, stopping, clients, assigned, busy, cv, bound>>

Accept ==
    /\ main = "serving" /\ ~g_stop_requested /\ MuFree
    /\ clients' = clients + 1
    /\ main' = "spawn"
    /\ UNCHANGED <<batched, g_stop_requested, started, listVars, clientVars, workVars,
                   liveVars, stopping, assigned, busy, cv, bound>>

GiveBackCount == clients' = clients - 1

(* pthread_create, or its failure, which gives the count back. *)
Spawn ==
    /\ main = "spawn"
    /\ main' = "serving"
    /\ \/ /\ \E c \in Client : cpc[c] = "gone" /\ cpc' = Set(cpc, c, "parse")
          /\ UNCHANGED clients
       \/ /\ MuFree
          /\ GiveBackCount
          /\ UNCHANGED cpc
    /\ UNCHANGED <<batched, g_stop_requested, started, listVars, wants, live, jdone,
                   workVars, liveVars, stopping, assigned, busy, cv, bound>>

(* server_request_worker_stop: at the end of the accept loop, or when a
   worker or the listening socket could not be made. *)
WorkerStop ==
    /\ \/ main = "serving" /\ g_stop_requested
       \/ main = "starting" /\ started > 0 /\ batched \in StoppableIn
    /\ MuFree
    /\ stopping' = TRUE
    /\ IF batched THEN main' = "dispatch" /\ UNCHANGED cv
                  ELSE main' = "joinSlots" /\ cv' = Broadcast
    /\ UNCHANGED <<batched, g_stop_requested, started, listVars, clientVars, workVars,
                   liveVars, clients, assigned, busy, bound>>

MainDispatched ==
    /\ main = "dispatch" /\ NothingRunnable
    /\ cv' = Broadcast
    /\ main' = "joinSlots"
    /\ UNCHANGED <<batched, g_stop_requested, started, listVars, clientVars, workVars,
                   liveVars, stopping, clients, assigned, busy, bound>>

(* The workers that were started are joined. *)
JoinSlots ==
    /\ main = "joinSlots"
    /\ \A s \in Slot : s < started => wpc[s] = "exited"
    /\ main' = "drain"
    /\ UNCHANGED <<batched, g_stop_requested, started, listVars, clientVars, workVars,
                   liveVars, stopping, clients, assigned, busy, cv, bound>>

Drained == clients = 0

(* The wait for clients_cv; then sessions are saved and all is freed. *)
CloseServer ==
    /\ main = "drain" /\ Drained /\ MuFree
    /\ main' = "closed"
    /\ UNCHANGED <<batched, g_stop_requested, started, listVars, clientVars, workVars,
                   liveVars, stopping, clients, assigned, busy, cv, bound>>

-----------------------------------------------------------------------------
(* client_main.                                                            *)

(* A request that is answered at once, or one with its parse result: plain
   or replaying a tool call in full, or tool outputs alone, for which some
   slot must hold the binding at this moment. *)
ParseRequest(c) ==
    /\ cpc[c] = "parse"
    /\ \/ cpc' = Set(cpc, c, "close") /\ UNCHANGED <<wants, live>>
       \/ \E id \in {NoCall} \cup seen : \E alone \in BOOLEAN :
            /\ alone => \E s \in Slot : id # NoCall /\ bind[s] = id
            /\ wants' = Set(wants, c, id)
            /\ live' = Set(live, c, alone)
            /\ cpc' = Set(cpc, c, "enqueue")
    /\ UNCHANGED <<mainVars, listVars, jdone, workVars, liveVars, stopping,
                   clients, assigned, busy, cv, bound>>

(* The job's memory is gone, or was never part of the queue. *)
Forget(c) ==
    /\ wants' = Set(wants, c, NoCall)
    /\ live' = Set(live, c, FALSE)
    /\ jdone' = Set(jdone, c, FALSE)
    /\ bound' = Set(bound, c, FALSE)
    /\ cpc' = Set(cpc, c, "close")

AppendJob(c) ==
    /\ head' = IF tail = NoJob THEN c ELSE head
    /\ next' = IF tail = NoJob THEN next ELSE Set(next, tail, c)
    /\ tail' = c

(* pthread_cond_signal(&s->cv): at most one waiter is let go. *)
Signal == IF cv = {} THEN cv' = cv ELSE \E s \in cv : cv' = cv \ {s}

AcceptsJob == ~stopping

Enqueue(c) ==
    /\ cpc[c] = "enqueue" /\ MuFree
    /\ \/ /\ ~AcceptsJob
          /\ Forget(c)
          /\ UNCHANGED <<listVars, cv>>
       \/ /\ AcceptsJob
          /\ AppendJob(c)
          /\ IF batched THEN cpc' = Set(cpc, c, "dispatch") /\ UNCHANGED cv
                        ELSE cpc' = Set(cpc, c, "hold") /\ Signal
          /\ UNCHANGED <<wants, live, jdone, bound>>
    /\ UNCHANGED <<mainVars, workVars, liveVars, stopping, clients, assigned,
                   busy>>

Enqueued(c) ==
    /\ cpc[c] = "dispatch" /\ NothingRunnable
    /\ cv' = Broadcast
    /\ cpc' = Set(cpc, c, "hold")
    /\ UNCHANGED <<mainVars, listVars, wants, live, jdone, workVars, liveVars,
                   stopping, clients, assigned, busy, bound>>

MayLeaveMutant(c) == TRUE
MayLeave(c) == jdone[c]

(* The wait for j.cv; the job is destroyed when it is done. *)
AwaitJob(c) ==
    /\ cpc[c] \in {"hold", "woken"}
    /\ \/ MayLeave(c) /\ Forget(c)
       \/ /\ ~MayLeave(c)
          /\ cpc' = Set(cpc, c, "wait")
          /\ UNCHANGED <<wants, live, jdone, bound>>
    /\ UNCHANGED <<mainVars, listVars, workVars, liveVars, stopping, clients,
                   assigned, busy, cv>>

ClientDone(c) ==
    /\ cpc[c] = "close" /\ MuFree
    /\ clients' = IF clients > 0 THEN clients - 1 ELSE clients
    /\ cpc' = Set(cpc, c, "gone")
    /\ UNCHANGED <<mainVars, listVars, wants, live, jdone, workVars, liveVars,
                   stopping, assigned, busy, cv, bound>>

-----------------------------------------------------------------------------
(* slot_worker_main; worker_main and dequeue when there is one worker.     *)

HasWork(s) == IF batched THEN assigned[s] # NoJob ELSE head # NoJob

(* The negation of the wait's condition, when there is no work. *)
MayExit == stopping /\ head = NoJob

AtTop(s) == wpc[s] = "top" /\ s \notin cv /\ MuFree

WaitForWork(s) ==
    /\ AtTop(s) /\ ~HasWork(s) /\ ~MayExit
    /\ cv' = cv \cup {s}
    /\ UNCHANGED <<mainVars, listVars, clientVars, workVars, liveVars,
                   stopping, clients, assigned, busy, bound>>

ExitWorker(s) ==
    /\ AtTop(s) /\ ~HasWork(s) /\ MayExit
    /\ wpc' = Set(wpc, s, "exited")
    /\ UNCHANGED <<mainVars, listVars, clientVars, job, continues, liveVars,
                   stopping, clients, assigned, busy, cv, bound>>

TakeAssigned(s) ==
    /\ batched /\ AtTop(s) /\ HasWork(s)
    /\ job' = Set(job, s, assigned[s])
    /\ assigned' = Set(assigned, s, NoJob)
    /\ wpc' = Set(wpc, s, "match")
    /\ UNCHANGED <<mainVars, listVars, clientVars, continues, liveVars,
                   stopping, clients, busy, cv, bound>>

Dequeue(s) ==
    /\ ~batched /\ AtTop(s) /\ HasWork(s)
    /\ job' = Set(job, s, head)
    /\ head' = next[head]
    /\ tail' = IF next[head] = NoJob THEN NoJob ELSE tail
    /\ next' = Set(next, head, NoJob)
    /\ wpc' = Set(wpc, s, "match")
    /\ UNCHANGED <<mainVars, clientVars, continues, liveVars, stopping,
                   clients, assigned, busy, cv, bound>>

(* generate_job, up to its first change: the client has left; the request
   continues the session by its call ids; it needs that and cannot (409); it
   is matched in other ways or prefilled from nothing. *)
MatchSession(s) ==
    LET c == job[s]
        matches == wants[c] # NoCall /\ bind[s] = wants[c] /\ fits[s]
    IN  /\ wpc[s] = "match"
        /\ \/ wpc' = Set(wpc, s, "end")
           \/ ~(live[c] /\ ~matches) /\ wpc' = Set(wpc, s, "prefill")
        /\ continues' = Set(continues, s, matches)
        /\ UNCHANGED <<mainVars, listVars, clientVars, job, liveVars,
                       stopping, clients, assigned, busy, cv, bound>>

(* Prefill fails with the binding in place and the session at some length,
   or succeeds; then a binding that was not continued is dropped, and the
   job may still end early (a stream that failed). *)
PrefillJob(s) ==
    /\ wpc[s] = "prefill"
    /\ \/ /\ \E b \in BOOLEAN : fits' = Set(fits, s, b /\ bind[s] # NoCall)
          /\ wpc' = Set(wpc, s, "end")
          /\ UNCHANGED bind
       \/ /\ bind' = IF continues[s] THEN bind ELSE Set(bind, s, NoCall)
          /\ fits' = Set(fits, s, FALSE)
          /\ wpc' \in {Set(wpc, s, "finish"), Set(wpc, s, "end")}
    /\ UNCHANGED <<mainVars, listVars, clientVars, job, continues, seen,
                   stopping, clients, assigned, busy, cv, bound>>

Fresh(id) == /\ \A s \in Slot : bind[s] # id
             /\ \A c \in Client : wants[c] # id

(* The response is complete: its call ids, if it has any, are bound to the
   session before the client can learn them. *)
RememberLive(s) ==
    \E id \in {NoCall} \cup {i \in Call : Fresh(i)} :
        /\ bind' = Set(bind, s, id)
        /\ fits' = Set(fits, s, id # NoCall)
        /\ seen' = seen \ {id}

FinishJob(s) ==
    /\ wpc[s] = "finish"
    /\ RememberLive(s)
    /\ wpc' = Set(wpc, s, "respond")
    /\ UNCHANGED <<mainVars, listVars, clientVars, job, continues, stopping,
                   clients, assigned, busy, cv, bound>>

(* The final event is written, or the socket fails. *)
Respond(s) ==
    /\ wpc[s] = "respond"
    /\ seen' \in {seen, seen \cup ({bind[s]} \ {NoCall})}
    /\ wpc' = Set(wpc, s, "end")
    /\ UNCHANGED <<mainVars, listVars, clientVars, job, continues, bind, fits,
                   stopping, clients, assigned, busy, cv, bound>>

NotifyMutant(c) == UNCHANGED cpc
Notify(c) == cpc' = IF cpc[c] = "wait" THEN Set(cpc, c, "woken") ELSE cpc

(* done is set and signalled under j.mu. *)
MarkDone(s) ==
    /\ wpc[s] = "end"
    /\ cpc[job[s]] \notin {"dispatch", "hold"}
    /\ jdone' = Set(jdone, job[s], TRUE)
    /\ Notify(job[s])
    /\ job' = Set(job, s, NoJob)
    /\ continues' = Set(continues, s, FALSE)
    /\ wpc' = Set(wpc, s, IF batched THEN "release" ELSE "top")
    /\ UNCHANGED <<mainVars, listVars, wants, live, liveVars, stopping,
                   clients, assigned, busy, cv, bound>>

AfterReleaseMutant == "top"
AfterRelease == "dispatch"

Release(s) ==
    /\ wpc[s] = "release" /\ MuFree
    /\ busy' = Set(busy, s, FALSE)
    /\ wpc' = Set(wpc, s, AfterRelease)
    /\ UNCHANGED <<mainVars, listVars, clientVars, job, continues, liveVars,
                   stopping, clients, assigned, cv, bound>>

Released(s) ==
    /\ wpc[s] = "dispatch" /\ NothingRunnable
    /\ wpc' = Set(wpc, s, "top")
    /\ UNCHANGED <<mainVars, listVars, clientVars, job, continues, liveVars,
                   stopping, clients, assigned, busy, cv, bound>>

SpuriousWakeup ==
    /\ batched \in SpuriousIn
    /\ \/ \E s \in cv : cv' = cv \ {s} /\ UNCHANGED cpc
       \/ \E c \in Client : cpc[c] = "wait" /\ cpc' = Set(cpc, c, "woken")
                            /\ UNCHANGED cv
    /\ UNCHANGED <<mainVars, listVars, wants, live, jdone, workVars, liveVars,
                   stopping, clients, assigned, busy, bound>>

-----------------------------------------------------------------------------
MainStep ==
    \/ StartWorker \/ Accept \/ Spawn \/ WorkerStop \/ MainDispatched
    \/ JoinSlots \/ CloseServer

ClientStep(c) ==
    \/ ParseRequest(c) \/ Enqueue(c) \/ Enqueued(c) \/ AwaitJob(c)
    \/ ClientDone(c)

WorkerStep(s) ==
    \/ WaitForWork(s) \/ ExitWorker(s) \/ TakeAssigned(s) \/ Dequeue(s)
    \/ MatchSession(s) \/ PrefillJob(s) \/ FinishJob(s) \/ Respond(s)
    \/ MarkDone(s) \/ Release(s) \/ Released(s)

Terminated == main = "closed" /\ UNCHANGED vars

Next ==
    \/ StopSignal \/ MainStep \/ DispatchOne \/ SpuriousWakeup \/ Terminated
    \/ \E c \in Client : ClientStep(c)
    \/ \E s \in Slot : WorkerStep(s)

Spec == Init /\ [][Next]_vars

(* The thread that holds s.mu goes on, threads that can run do run, and none
   is passed over for ever when s.mu or j.mu is unlocked.  Reading a request
   and running a job take finite time: sockets have timeouts, and jobs end
   (ModelLane).  Nothing is assumed of new connections, of the signal or of
   spurious wakeups. *)
HolderStep ==
    \/ DispatchOne \/ MainDispatched
    \/ \E c \in Client : Enqueued(c)
    \/ \E s \in Slot : Released(s)
MainDuty == StartWorker \/ Spawn \/ WorkerStop \/ JoinSlots \/ CloseServer

Fairness ==
    /\ WF_vars(HolderStep)
    /\ SF_vars(MainDuty)
    /\ \A c \in Client : SF_vars(ClientStep(c))
    /\ \A s \in Slot : SF_vars(WorkerStep(s))

FairSpec == Spec /\ Fairness

-----------------------------------------------------------------------------
(* Properties. *)

(* A client whose job was accepted and is not done: the job is referenced. *)
InService(c) == cpc[c] \in {"dispatch", "hold", "wait", "woken"} /\ ~jdone[c]

(* No job is lost, run twice or touched after its client's stack is gone: an
   accepted, unfinished job is in exactly one place (queued, assigned, or
   run by a worker), and no other job is in any. *)
JobOnce ==
    \A c \in Client :
        Cardinality({s \in Slot : assigned[s] = c})
            + Cardinality({s \in Slot : job[s] = c})
            + (IF c \in Queued THEN 1 ELSE 0)
        = IF InService(c) THEN 1 ELSE 0

(* A tool-output-only request never runs on one slot while the session it
   continues is resident in another, and the binding the dispatcher saw is
   still there when the worker looks for it, though tool_mu and s.mu were
   released in between.  (job_required_slot_locked, ds4_server.c 12500-12517) *)
Routed ==
    \A s \in Slot : \A c \in {assigned[s], job[s]} \ {NoJob} :
        wpc[s] \in {"top", "dispatch", "match"}
            => /\ live[c] => \A t \in Slot \ {s} : bind[t] # wants[c]
               /\ bound[c] => bind[s] = wants[c]

(* No idle capacity: when s.mu is free a queued job waits for a slot, or for
   the binding of one, and a busy slot will run the dispatcher again. *)
NoIdleSlot ==
    MuFree /\ batched =>
        \A c \in Queued : /\ \E s \in Slot : busy[s]
                          /\ live[c] \/ \A s \in Slot : busy[s]

(* When the sessions are saved and freed, no thread is left that could use
   them, no job is queued and no client waits for an answer. *)
DrainedAtClose ==
    /\ main \in {"drain", "closed"} =>
           /\ Queued = {}
           /\ \A s \in Slot : wpc[s] \in {"absent", "exited"} /\ assigned[s] = NoJob
    /\ main = "closed" => \A c \in Client : cpc[c] = "gone"

(* Every job is in one place until it is done, down to the end of the
   shutdown, and then in none.  (12500-12602, 12880-12910, 13660-13688) *)
JobsAccounted == JobOnce /\ DrainedAtClose

(* Every accepted job is answered and its client thread ends, also when the
   server stops in between. *)
JobsAnswered == \A c \in Client : cpc[c] = "hold" ~> cpc[c] = "gone"

(* A server that was told to stop drains its requests and closes. *)
StopCompletes == stopping ~> main = "closed"

(* The list, the assignments and the workers implement the plain service. *)
QueueLength == Cardinality(Queued)
Service == INSTANCE JobService WITH
    Slots <- Slot, Jobs <- Client, Idle <- NoJob,
    open <- ~stopping,
    waiting <- [i \in 1 .. QueueLength |-> QueuedAt[i - 1]],
    running <- [s \in Slot |-> IF assigned[s] # NoJob THEN assigned[s] ELSE job[s]]
QueueIsService == Service!ServiceSafety
=============================================================================
