---------------------------- MODULE DistSession ----------------------------
(***************************************************************************)
(* A coordinator's session in src/src/runtime/ds4_distributed.c: sync,     *)
(* eval, save and load over a route of workers that come, go and forget.   *)
(*                                                                         *)
(* The session evaluates the first layers itself; each hop of the route is *)
(* a worker that evaluates the next ones on a session of its own, by the   *)
(* tokens it has seen.  Nothing tells the coordinator what a worker holds: *)
(* every piece of work carries the hash of the tokens before it, a worker  *)
(* refuses work that does not fit its session, and a call that fails is    *)
(* tried once more from token zero, on a new route when the connection was *)
(* at fault.  DistPrefill and DistWorker have the inside of one pipelined  *)
(* call; here its chunks go from hop to hop in order.                      *)
(*                                                                         *)
(* A worker is a host that serves one slice of the layers; port tells its  *)
(* process from the one before a crash.  pc is the place of the caller:    *)
(*   idle              between two calls                                   *)
(*   route             ensures a route                                     *)
(*   run               evaluates, sends and receives                       *)
(*   shard             saves or loads a checkpoint, hop by hop             *)
(*   forget, reroute   drops the workers of the route, ensures another     *)
(***************************************************************************)
EXTENDS Integers, Sequences, FiniteSets, SequencesExt

CONSTANTS
    Worker,        \* the hosts
    Slice,         \* [Worker -> 1..Slices]: the slice of the layers each serves
    Slices,        \* the slices after the coordinator's own
    Token,         \* the tokens
    Samples,       \* those that are evaluated one by one
    Prompts,       \* the prompts of sync
    Stored,        \* the checkpoints on disk, by the tokens they hold
    CtxSize,       \* the size of the context
    ChunkCap,      \* tokens evaluated at once
    MaxFailures,   \* crashes, lost connections and failed evaluations
    MaxLate        \* pieces of work that outlive their call

ASSUME SessionAssumption ==
    /\ Slices \in Nat \ {0} /\ Slice \in [Worker -> 1..Slices] /\ Samples \subseteq Token
    /\ ChunkCap \in Nat \ {0} /\ CtxSize \in Nat /\ MaxFailures \in Nat /\ MaxLate \in Nat
    /\ \A p \in Prompts \cup Stored : Len(p) \in 1..(CtxSize - 1) /\ p \in Seq(Token)

VARIABLES
    checkpoint, valid,  \* the session's tokens; whether its KV state is theirs
    logits,             \* whether s->logits are those after the checkpoint
    registry,           \* state->workers: the connection of each host
    plan, planReady,    \* d->plan and d->plan_ready
    planFresh,          \* d->plan_generation is state->generation
    planLive,           \* the first hop's connection in the plan is up
    side,               \* a worker's side of its connection
    port, kv,           \* its process; what its session has evaluated
    pc, call,           \* the caller and its call
    outcome,            \* how the last call ended; lost: a load that failed
    work,               \* the work that is on its way or queued at a worker
    failures            \* what has gone wrong

ownerVars == <<checkpoint, valid, logits>>
routeVars == <<registry, plan, planReady, planFresh, planLive>>
workerVars == <<side, port, kv>>
callVars == <<pc, call, outcome>>
vars == <<ownerVars, routeVars, workerVars, callVars, work, failures>>

Nothing == <<>>
Absent == [up |-> FALSE, port |-> -1]
Fresh == [tokens |-> <<>>, valid |-> FALSE, sound |-> TRUE]
NoCall == [kind |-> "none", want |-> <<>>, target |-> <<>>, base |-> 0,
           reset |-> FALSE, again |-> FALSE, forget |-> FALSE, next |-> 0,
           done |-> 0, sound |-> TRUE, failed |-> "no"]

SessionInit ==
    /\ checkpoint = <<>> /\ valid = FALSE /\ logits = FALSE
    /\ registry = [w \in Worker |-> Absent]
    /\ plan = Nothing /\ planReady = FALSE
    /\ planFresh = FALSE /\ planLive = FALSE
    /\ side = [w \in Worker |-> "off"] /\ port = [w \in Worker |-> 0]
    /\ kv = [w \in Worker |-> Fresh]
    /\ pc = "idle" /\ call = NoCall /\ outcome = "ok"
    /\ work = {} /\ failures = 0

Failure == failures < MaxFailures /\ failures' = failures + 1
Prefix(s, n) == SubSeq(s, 1, n)

-----------------------------------------------------------------------------
(* The workers' connections. *)

(* HELLO: an entry of the same host and layers is dropped, the new one put
   in its place, and every route is out of date. *)
Register(w) ==
    /\ side[w] = "off"
    /\ side' = [side EXCEPT ![w] = "on"]
    /\ registry' = [registry EXCEPT ![w] = [up |-> TRUE, port |-> port[w]]]
    /\ planFresh' = FALSE
    /\ UNCHANGED <<ownerVars, plan, planReady, planLive, port, kv, callVars,
                   work, failures>>

(* The connections of ws are gone, for the workers, for the registry, and
   for the plan, which holds a duplicate of its first one. *)
CutSides(ws) ==
    /\ side' = [w \in Worker |->
                   IF w \in ws /\ side[w] = "on" THEN "lost" ELSE side[w]]
    /\ planLive' = (planLive /\ plan[1].worker \notin ws)
CutEntries(ws) ==
    registry' = [w \in Worker |->
                    IF w \in ws /\ registry[w] # Absent
                    THEN [registry[w] EXCEPT !.up = FALSE] ELSE registry[w]]

LoseConnection(w) ==
    /\ Failure /\ side[w] = "on"
    /\ CutSides({w}) /\ CutEntries({w})
    /\ UNCHANGED <<ownerVars, plan, planReady, planFresh, port, kv, callVars,
                   work>>

(* The client thread of a connection that is gone removes its entry. *)
DropEntryMutant(w) ==
    /\ registry' = [registry EXCEPT ![w] = Absent]
    /\ UNCHANGED planFresh
DropEntry(w) ==
    /\ registry' = [registry EXCEPT ![w] = Absent]
    /\ planFresh' = FALSE
RemoveWorker(w) ==
    /\ registry[w] # Absent /\ ~registry[w].up
    /\ DropEntry(w)
    /\ UNCHANGED <<ownerVars, plan, planReady, planLive, workerVars, callVars,
                   work, failures>>

(* A worker whose coordinator has gone drops its sessions before it connects
   again, and with them the work of that connection it had not begun. *)
Cleared(w) == [kv EXCEPT ![w] = Fresh]
Disconnect(w) ==
    /\ side[w] = "lost"
    /\ side' = [side EXCEPT ![w] = "off"]
    /\ kv' = Cleared(w)
    /\ work' = {m \in work : ~(m.worker = w /\ m.hop = 1)}
    /\ UNCHANGED <<ownerVars, routeVars, port, callVars, failures>>

(* What a call learns of a fault behind its first hop: that hop answers with
   an error, or its connection goes too. *)
Failing(ms) == IF \E m \in ms : m.current THEN [call EXCEPT !.failed = "link"]
               ELSE call

Crash(w) ==
    /\ Failure
    /\ port' = [port EXCEPT ![w] = @ + 1]
    /\ kv' = [kv EXCEPT ![w] = Fresh]
    /\ side' = [side EXCEPT ![w] = "off"]
    /\ planLive' = (planLive /\ plan[1].worker # w)
    /\ CutEntries({w})
    /\ call' = Failing({m \in work : m.worker = w /\ m.hop > 1})
    /\ work' = {m \in work : m.worker # w}
    /\ UNCHANGED <<ownerVars, plan, planReady, planFresh, pc, outcome>>

(* A connection between two workers goes with the work on it.  Work of a
   call that was given up may go at any time: its connection is closed. *)
LoseWork(m) ==
    /\ m.hop > 1
    /\ IF m.current THEN Failure ELSE UNCHANGED failures
    /\ call' = Failing({m})
    /\ work' = IF m.current THEN {n \in work : n.hop # m.hop \/ ~n.current}
               ELSE work \ {m}
    /\ UNCHANGED <<ownerVars, routeVars, workerVars, pc, outcome>>

-----------------------------------------------------------------------------
(* A hop. *)

(* A worker takes the work of the call's connections in order, and what is
   left of earlier calls, on connections of their own, at any time. *)
FirstOf(m) ==
    m.current => \A n \in work : n.current /\ n.hop = m.hop
                                    => Len(n.before) >= Len(m.before)

(* Before the evaluation: a reset empties the session; the hash of its
   tokens must be that of the work, and a session that failed must be reset. *)
Opened(m) == IF m.reset THEN Fresh ELSE kv[m.worker]
FitsMutant(m) == Len(Opened(m).tokens) = Len(m.before)
Fits(m) == Opened(m).tokens = m.before
Accepts(m) ==
    /\ Fits(m)
    /\ Opened(m).valid \/ Len(m.before) = 0
    /\ Len(m.before) + Len(m.tokens) <= CtxSize

AnswerMutant(m, how) == call
Answer(m, how) ==
    IF m.current /\ call.failed = "no" THEN [call EXCEPT !.failed = how] ELSE call

(* The work does not fit, or its evaluation fails and leaves the session
   invalid: the worker answers with an error. *)
Refuse(m) ==
    /\ m \in work /\ FirstOf(m)
    /\ \/ ~Accepts(m) /\ UNCHANGED failures
          /\ kv' = [kv EXCEPT ![m.worker] = Opened(m)]
       \/ Accepts(m) /\ Failure
          /\ kv' = [kv EXCEPT ![m.worker] = [Opened(m) EXCEPT !.valid = FALSE]]
    /\ call' = Answer(m, "remote")
    /\ work' = work \ {m}
    /\ UNCHANGED <<ownerVars, routeVars, side, port, pc, outcome>>

(* The hidden state of the tokens is right when the one that came in is, and
   the session holds what it is meant to. *)
Sound(m) == /\ m.sound
            /\ Opened(m).sound
            /\ Opened(m).tokens = m.before
Evaluated(m) == [tokens |-> m.before \o m.tokens, valid |-> TRUE,
                 sound |-> Sound(m)]
NextHop(m) == m.route[1]

(* The last hop answers the coordinator, if that still listens. *)
FinishWork(m) ==
    /\ m \in work /\ FirstOf(m) /\ Accepts(m)
    /\ m.route = <<>>
    /\ kv' = [kv EXCEPT ![m.worker] = Evaluated(m)]
    /\ call' = IF m.current /\ call.failed = "no" /\ planLive
               THEN [call EXCEPT !.done = Len(m.before) + Len(m.tokens),
                                 !.sound = Sound(m)]
               ELSE call
    /\ work' = work \ {m}
    /\ UNCHANGED <<ownerVars, routeVars, side, port, pc, outcome, failures>>

(* Any other sends its hidden state on, to the process the route names; when
   that is gone it answers with an error and shuts its own connection. *)
ForwardWork(m) ==
    /\ m \in work /\ FirstOf(m) /\ Accepts(m)
    /\ m.route # <<>>
    /\ kv' = [kv EXCEPT ![m.worker] = Evaluated(m)]
    /\ IF NextHop(m).port = port[NextHop(m).worker]
       THEN /\ work' = (work \ {m}) \cup
                  {[m EXCEPT !.worker = NextHop(m).worker, !.hop = @ + 1,
                             !.route = Tail(@), !.sound = Sound(m)]}
            /\ UNCHANGED <<call, registry, side, planLive>>
       ELSE /\ work' = work \ {m}
            /\ call' = Answer(m, "link")
            /\ IF m.current /\ m.hop = 1
               THEN CutSides({m.worker}) /\ CutEntries({m.worker})
               ELSE UNCHANGED <<registry, side, planLive>>
    /\ UNCHANGED <<ownerVars, plan, planReady, planFresh, port, pc, outcome, failures>>

-----------------------------------------------------------------------------
(* The caller: ds4_session_sync and ds4_session_eval. *)

Begin(kind, want) ==
    /\ pc' = "route" /\ outcome' = "ok"
    /\ call' = [NoCall EXCEPT !.kind = kind, !.want = want]

(* ds4_session_invalidate: checkpoint.len = 0.  A caller may do so at any time;
   after a call that failed it need not, unless that was a load. *)
Invalidate ==
    /\ pc = "idle"
    /\ checkpoint' = <<>> /\ valid' = FALSE /\ logits' = FALSE
    /\ outcome' = "ok"
    /\ UNCHANGED <<routeVars, workerVars, pc, call, work, failures>>

Usable == pc = "idle" /\ outcome # "lost"

StartSync(prompt) ==
    /\ Usable
    /\ ~(valid /\ IsPrefix(prompt, checkpoint) /\ Len(prompt) \in 2..(Len(checkpoint) - 1))
    /\ Begin("sync", prompt)
    /\ UNCHANGED <<ownerVars, routeVars, workerVars, work, failures>>

(* A save takes the session as it is; a load replaces it by a checkpoint. *)
StartSave ==
    /\ Usable /\ valid
    /\ Begin("save", checkpoint)
    /\ UNCHANGED <<ownerVars, routeVars, workerVars, work, failures>>

StartLoad(stored) ==
    /\ Usable
    /\ Begin("load", stored)
    /\ UNCHANGED <<ownerVars, routeVars, workerVars, work, failures>>

StartEval(token) ==
    /\ Usable /\ valid
    /\ Begin("eval", Append(checkpoint, token))
    /\ UNCHANGED <<ownerVars, routeVars, workerVars, work, failures>>

(* A prompt that the session has gone past: the server rewinds to its failed
   token but one, which moves the end of the checkpoint and nothing else, and
   syncs. *)
StartRewound(prompt) ==
    /\ Usable /\ valid
    /\ Len(prompt) \in 2..(Len(checkpoint) - 1) /\ IsPrefix(prompt, checkpoint)
    /\ checkpoint' = Prefix(prompt, Len(prompt) - 1) /\ logits' = FALSE
    /\ Begin("sync", prompt)
    /\ UNCHANGED <<valid, routeVars, workerVars, work, failures>>

EndCall(result) ==
    /\ pc' = "idle" /\ call' = NoCall
    /\ outcome' = IF result = "failed" /\ call.kind = "load" THEN "lost" ELSE result

(* The work of a call that is given up runs on without it, or is lost. *)
Abandoned ==
    {late \in SUBSET {[m EXCEPT !.current = FALSE] : m \in work} :
        Cardinality(late) <= MaxLate}

(* A route is one registered worker for each slice, in order. *)
Routes == {r \in [1..Slices -> Worker] :
              \A h \in 1..Slices : Slice[r[h]] = h /\ registry[r[h]] # Absent}
PlanOf(r) == [h \in 1..Slices |-> [worker |-> r[h], port |-> registry[r[h]].port]]

BuildRoute(found) ==
    \/ \E r \in Routes :
          /\ plan' = PlanOf(r) /\ planLive' = registry[r[1]].up
          /\ planReady' = TRUE /\ planFresh' = TRUE
          /\ found
    \/ /\ Routes = {}
       /\ plan' = Nothing /\ planLive' = FALSE
       /\ planReady' = FALSE /\ planFresh' = FALSE
       /\ EndCall("failed")

(* What a call has to evaluate: the tokens after the checkpoint when that is
   the beginning of the prompt, everything otherwise. *)
Continues == valid /\ IsPrefix(checkpoint, call.want)
Planned ==
    IF Continues
    THEN [call EXCEPT !.target = call.want, !.base = Len(checkpoint),
                      !.next = Len(checkpoint), !.done = Len(checkpoint)]
    ELSE [call EXCEPT !.target = call.want, !.reset = TRUE]

UpToDate == planReady /\ planFresh
Run ==
    IF call.kind = "sync" /\ valid /\ checkpoint = call.want
    THEN EndCall("ok")
    ELSE /\ IF call.kind \in {"save", "load"}
            THEN pc' = "shard" /\ UNCHANGED call
            ELSE pc' = "run" /\ call' = Planned
         /\ UNCHANGED outcome

EnsureRoute ==
    /\ pc = "route"
    /\ \/ UpToDate /\ Run /\ UNCHANGED <<plan, planReady, planFresh, planLive>>
       \/ ~UpToDate /\ BuildRoute(Run)
    /\ UNCHANGED <<ownerVars, registry, workerVars, work, failures>>

Pipelined == Len(call.target) - call.base > ChunkCap
NextChunk == SubSeq(call.target, call.next + 1,
                IF call.next + ChunkCap < Len(call.target)
                THEN call.next + ChunkCap ELSE Len(call.target))

(* The coordinator's own layers of the next chunk.  A reset comes first; the
   tokens join the checkpoint before anything is sent. *)
Local == IF call.reset /\ call.next = 0 THEN <<>> ELSE checkpoint
LocalValid == valid /\ ~(call.reset /\ call.next = 0)
LocalFits ==
    /\ IF LocalValid THEN Len(Local) = call.next ELSE call.next = 0
    /\ call.next + Len(NextChunk) <= CtxSize
NewWork == [worker |-> plan[1].worker, hop |-> 1, route |-> Tail(plan),
         before |-> Prefix(call.target, call.next), tokens |-> NextChunk,
         reset |-> call.reset /\ call.next = 0, sound |-> TRUE,
         current |-> TRUE]

EvalLocal ==
    /\ pc = "run" /\ call.next < Len(call.target) /\ LocalFits
    /\ checkpoint' = Local \o NextChunk /\ valid' = TRUE /\ logits' = FALSE
    /\ call' = [call EXCEPT !.next = @ + Len(NextChunk)]
    /\ work' = IF planLive THEN work \cup {NewWork} ELSE work
    /\ UNCHANGED <<routeVars, workerVars, pc, outcome, failures>>

(* The transcript of a call that is tried again. *)
Transcript ==
    IF call.kind = "sync" THEN call.want
    ELSE Append(checkpoint', call.want[Len(call.want)])

(* The call fails: a second time for good, the first time to be tried again,
   on the same route when a worker had answered with an error.  A pipelined
   call has shut its connection. *)
Fail(forget) ==
    /\ work' \in Abandoned
    /\ IF Pipelined /\ planLive
       THEN CutSides({plan[1].worker}) /\ CutEntries({plan[1].worker})
       ELSE UNCHANGED <<registry, side, planLive>>
    /\ IF call.again
       THEN EndCall("failed") /\ planReady' = FALSE
       ELSE /\ pc' = IF forget THEN "forget" ELSE "run"
            /\ call' = [NoCall EXCEPT !.kind = call.kind, !.want = call.want,
                                      !.target = Transcript, !.reset = TRUE,
                                      !.again = TRUE]
            /\ UNCHANGED <<planReady, outcome>>
    /\ UNCHANGED <<plan, planFresh, port, kv>>

FailLocal ==
    /\ pc = "run" /\ call.next < Len(call.target)
    /\ \/ ~LocalFits /\ valid' = LocalValid /\ UNCHANGED failures
       \/ LocalFits /\ valid' = FALSE /\ Failure
    /\ checkpoint' = Local /\ logits' = (logits /\ checkpoint' = checkpoint)
    /\ Fail(TRUE)

FailRemote ==
    /\ pc = "run" /\ call.next > call.base
    /\ \E forget \in BOOLEAN :
          /\ IF forget THEN ~planLive \/ call.failed = "link"
             ELSE call.failed # "no"
          /\ UNCHANGED ownerVars
          /\ Fail(forget)
    /\ UNCHANGED failures

(* dist_coordinator_forget_route_workers: the entries of the route go and
   their connections are closed; the plan is freed. *)
Forgotten == {w \in Worker : \E h \in DOMAIN plan :
                 plan[h].worker = w /\ plan[h].port = registry[w].port}
ForgetRoute ==
    /\ pc = "forget"
    /\ registry' = [w \in Worker |-> IF w \in Forgotten THEN Absent ELSE registry[w]]
    /\ side' = [w \in Worker |->
                   IF w \in Forgotten /\ registry[w].up THEN "lost" ELSE side[w]]
    /\ planFresh' = (planFresh /\ Forgotten = {})
    /\ plan' = Nothing /\ planLive' = FALSE
    /\ pc' = "reroute"
    /\ UNCHANGED <<ownerVars, planReady, port, kv, call, outcome, work, failures>>

Reroute ==
    /\ pc = "reroute"
    /\ BuildRoute(pc' = "run" /\ UNCHANGED <<call, outcome>>)
    /\ UNCHANGED <<ownerVars, registry, workerVars, work, failures>>

Succeed ==
    /\ pc = "run" /\ call.done = Len(call.target)
    /\ logits' = (call.sound /\ call.target = checkpoint)
    /\ EndCall("ok")
    /\ UNCHANGED <<checkpoint, valid, routeVars, workerVars, work, failures>>

-----------------------------------------------------------------------------
(* The shards of a checkpoint: the session's own is the first, then that of
   each hop, over a connection of its own to the process the plan names.  Work
   that is left of earlier calls may come between two of them. *)

ThisHop == plan[call.next]
Reached == ThisHop.port = port[ThisHop.worker]
Remote == pc = "shard" /\ call.next \in 1..Slices
NextShard == [call EXCEPT !.next = @ + 1]

(* A worker saves the session of exactly these tokens. *)
HasShard == /\ Reached
            /\ kv[ThisHop.worker].tokens = checkpoint
            /\ kv[ThisHop.worker].valid

SaveLocal ==
    /\ pc = "shard" /\ call.kind = "save" /\ call.next = 0
    /\ call' = NextShard
    /\ UNCHANGED <<ownerVars, routeVars, workerVars, pc, outcome, work, failures>>

SaveShard ==
    /\ Remote /\ call.kind = "save" /\ HasShard
    /\ call' = [NextShard EXCEPT !.sound =
                   /\ @ /\ kv[ThisHop.worker].sound
                   /\ kv[ThisHop.worker].tokens = checkpoint]
    /\ UNCHANGED <<ownerVars, routeVars, workerVars, pc, outcome, work, failures>>

SaveFails ==
    /\ Remote /\ call.kind = "save"
    /\ \/ ~HasShard /\ UNCHANGED failures
       \/ HasShard /\ Failure
    /\ EndCall("failed")
    /\ UNCHANGED <<ownerVars, routeVars, workerVars, work>>

(* A load that fails may have replaced some shards, or part of one. *)
LoadLocal ==
    /\ pc = "shard" /\ call.kind = "load" /\ call.next = 0
    /\ logits' = FALSE
    /\ \/ /\ checkpoint' = call.want /\ valid' = TRUE
          /\ call' = NextShard
          /\ UNCHANGED <<pc, outcome, failures>>
       \/ /\ Failure /\ EndCall("failed")
          /\ valid' = FALSE /\ UNCHANGED checkpoint
    /\ UNCHANGED <<routeVars, workerVars, work>>

Loaded == [tokens |-> call.want, valid |-> TRUE, sound |-> TRUE]
LoadShard ==
    /\ Remote /\ call.kind = "load" /\ Reached
    /\ kv' = [kv EXCEPT ![ThisHop.worker] = Loaded]
    /\ call' = NextShard
    /\ UNCHANGED <<ownerVars, routeVars, side, port, pc, outcome, work, failures>>

LoadFails ==
    /\ Remote /\ call.kind = "load"
    /\ \/ ~Reached /\ UNCHANGED <<kv, failures>>
       \/ /\ Reached /\ Failure
          /\ \E left \in {kv[ThisHop.worker], Loaded,
                         [kv[ThisHop.worker] EXCEPT !.valid = FALSE]} :
                kv' = [kv EXCEPT ![ThisHop.worker] = left]
    /\ EndCall("failed")
    /\ UNCHANGED <<ownerVars, routeVars, side, port, work>>

(* The logits of the checkpoint come last. *)
ShardsDone ==
    /\ pc = "shard" /\ call.next = Slices + 1
    /\ logits' = (logits \/ call.kind = "load")
    /\ EndCall("ok")
    /\ UNCHANGED <<checkpoint, valid, routeVars, workerVars, work, failures>>

ShardStep == \/ SaveLocal \/ SaveShard \/ SaveFails
             \/ LoadLocal \/ LoadShard \/ LoadFails \/ ShardsDone

-----------------------------------------------------------------------------
WorkerStep(w) ==
    \/ Register(w) \/ Disconnect(w)
    \/ \E m \in work : m.worker = w /\ (Refuse(m) \/ FinishWork(m) \/ ForwardWork(m))

CallStep ==
    \/ EnsureRoute \/ EvalLocal \/ FailLocal \/ FailRemote \/ ForgetRoute
    \/ Reroute \/ Succeed \/ ShardStep

Next ==
    \/ CallStep \/ Invalidate \/ StartSave
    \/ \E p \in Prompts : StartSync(p) \/ StartRewound(p)
    \/ \E t \in Samples : StartEval(t)
    \/ \E stored \in Stored : StartLoad(stored)
    \/ \E w \in Worker : WorkerStep(w) \/ LoseConnection(w) \/ RemoveWorker(w) \/ Crash(w)
    \/ \E m \in work : LoseWork(m)

Spec == SessionInit /\ [][Next]_vars

(* A caller goes on with its call, and a worker with its work and with its
   connection; nothing else has to happen. *)
SessionFairness ==
    /\ WF_vars(CallStep)
    /\ \A w \in Worker : WF_vars(WorkerStep(w))

FairSpec == Spec /\ SessionFairness

-----------------------------------------------------------------------------
(* Properties. *)

(* The call ends well, and when it is one that evaluates or loads. *)
Answered == pc # "idle" /\ pc' = "idle" /\ outcome' = "ok"
Evaluates == pc = "run" \/ call.kind = "load"

(* Whatever failed before, and whether or not the caller kept a session after
   it: a call that succeeds leaves a valid checkpoint that is what was asked
   for; one that evaluates has logits that every worker computed on a KV state
   of exactly the tokens before them; and what is saved is such a KV state.
   What a worker kept of another timeline, a late piece of work that resets it,
   or a worker that restarted never gets into an answer or a file.  The hash
   check of dist_worker_process_work_payload and the rebuild from the transcript
   are all there is to it. *)
EvaluationFaithful ==
    [][Answered =>
           /\ valid'
           /\ Evaluates => logits'
           /\ call.kind \in {"sync", "load"} => checkpoint' = call.want
           /\ call.kind = "save" => call.sound]_vars

(* "Synchronize the distributed KV state to the requested prompt timeline"
   (src/src/runtime/ds4_distributed.h:83): after ds4_dist_session_sync returns
   0 the session is the prompt, with logits of a route that has evaluated it. *)
SyncHasLogits ==
    [][Answered /\ call.kind = "sync" => checkpoint' = call.want /\ logits']_vars

Current(e) == registry[e.worker].port = e.port
RouteTaken == pc \in {"route", "reroute"} /\ pc' \in {"run", "shard"}

(* A call that goes by the generation of its plan, or by a plan it has just
   built, goes by workers that are registered as they were when the plan was
   built (dist_session_ensure_route): every change of the registry shows in
   the generation. *)
RouteCurrent ==
    [][RouteTaken => \A h \in 1..Slices : Current(plan'[h])]_vars

(* A call ends, and the caller is idle again and again: whatever goes on its
   way, a worker answers, or the caller learns that it will not. *)
CallsEnd == []<>(pc = "idle")

(* "Evaluate one additional token across the current distributed route"
   (src/src/runtime/ds4_distributed.h:93): after ds4_dist_session_eval the
   session is the one before, and the token. *)
EvalAppends == [][Answered /\ call.kind = "eval" => checkpoint' = call.want]_vars
=============================================================================
