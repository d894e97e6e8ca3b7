----------------------------- MODULE DistWorker -----------------------------
(***************************************************************************)
(* One connection of each worker of a route,                               *)
(* src/src/runtime/ds4_distributed.c.  Worker h reads work on link[h].     *)
(* With a prefetch queue (Prefetch[h] > 0) a reader thread fills the queue *)
(* and an eval thread empties it; without one the reader evaluates itself. *)
(* A worker that is not the last forwards on link[h + 1] and a relay       *)
(* thread takes the answers of the next worker back, matched with a queue  *)
(* of the requests that were forwarded.                                    *)
(*                                                                         *)
(* The fields of worker[h]:                                                *)
(*   reader   read, put, work (the inline evaluation), join, destroy, gone *)
(*   frame    the frame the reader holds                                   *)
(*   queue, closed, canceled    the prefetch queue                         *)
(*   eval     pop, eval, open, track, send, lost, answer, error, fail, out *)
(*   job      the frame under evaluation, then what came of it             *)
(*   relay    none, start, read, write, exit, out; answer: what it holds   *)
(*   pending, closing           the forwarder's queue of requests          *)
(*   kv       the chunks the worker's KV holds; hash: its token hash       *)
(*   asleep   the threads in a pthread_cond_wait                           *)
(***************************************************************************)
EXTENDS DistLink

CONSTANTS
    Prefetch, \* depth of each worker's prefetch queue; 0: evaluated inline
    Forward   \* requests a worker forwards before an answer

VARIABLE worker

(* A session may hold an earlier prompt.  What the KV is when it is no      *)
(* prefix of the prompt, and the token hash of a session whose last        *)
(* evaluation failed.                                                      *)
Wrong == -1
NoHash == -1
NoFrame == [id |-> 0, hidden |-> Torn]
NoAnswer == [id |-> 0, kind |-> "none", of |-> Torn]

WorkerTypeOK ==
    /\ \A h \in Hop : /\ Len(worker[h].queue) <= Prefetch[h]
                      /\ Len(worker[h].pending) <= Forward
    /\ worker \in [Hop ->
        [reader : {"read", "put", "work", "join", "destroy", "gone"},
         frame : Work \cup {NoFrame},
         queue : Seq(Work), closed : BOOLEAN, canceled : BOOLEAN,
         eval : {"pop", "eval", "open", "track", "send", "lost", "answer",
                 "error", "fail", "out"},
         job : Work \cup {NoFrame},
         relay : {"none", "start", "read", "write", "exit", "out"},
         answer : Result \cup {NoAnswer},
         pending : Seq(Chunk), closing : BOOLEAN,
         kv : Content \cup {Wrong}, hash : Content \cup {NoHash},
         asleep : SUBSET {"reader", "eval"}]]

WorkerInit ==
    worker = [h \in Hop |->
        [reader |-> "read", frame |-> NoFrame,
         queue |-> <<>>, closed |-> FALSE, canceled |-> FALSE,
         eval |-> IF Prefetch[h] = 0 THEN "out" ELSE "pop",
         job |-> NoFrame,
         relay |-> "none", answer |-> NoAnswer,
         pending |-> <<>>, closing |-> FALSE,
         kv |-> Wrong, hash |-> NoHash, asleep |-> {}]]

-----------------------------------------------------------------------------
Inline(h) == Prefetch[h] = 0
HasNext(h) == h < Hops

Set(h, w) == worker' = [worker EXCEPT ![h] = w]
LeaveLinks == UNCHANGED <<link, faults>>

(* Signalling the condition variables of the two queues. *)
NotEmpty(w) == IF w.eval = "pop" THEN w.asleep \ {"eval"} ELSE w.asleep
NotFull(w) == w.asleep \ {"reader"}
PendingNotFull(w) == IF w.eval = "track" THEN w.asleep \ {"eval"} ELSE w.asleep

FinishQueue(w) ==
    [w EXCEPT !.closed = TRUE, !.asleep = NotEmpty(w) \ {"reader"}]
CancelQueue(w) ==
    [w EXCEPT !.closed = TRUE, !.canceled = TRUE, !.queue = <<>>,
              !.asleep = NotEmpty(w) \ {"reader"}]
CloseForwarderMutant(w) == [w EXCEPT !.closing = TRUE]
CloseForwarder(w) ==
    [w EXCEPT !.closing = TRUE, !.asleep = PendingNotFull(w)]
-----------------------------------------------------------------------------
(* dist_worker_read_loop and dist_worker_read_loop_prefetch *)

ReadWork(h) ==
    LET w == worker[h] IN
    /\ w.reader = "read" /\ link[h].work # <<>>
    /\ LET m == Head(link[h].work) IN
          Set(h, IF Inline(h)
                 THEN [w EXCEPT !.reader = "work", !.eval = "eval", !.job = m]
                 ELSE [w EXCEPT !.reader = "put", !.frame = m])
    /\ link' = [link EXCEPT ![h].work = Tail(@)]
    /\ UNCHANGED faults

(* The end of the connection, between two frames or within one. *)
ReadEnd(h) ==
    LET w == worker[h] IN
    /\ w.reader = "read" /\ ~link[h].open
    /\ \/ Set(h, [FinishQueue(w) EXCEPT !.reader = "join"])
       \/ Set(h, [CancelQueue(w) EXCEPT !.reader = "join"])
    /\ LeaveLinks

PutJob(h) ==
    LET w == worker[h] IN
    /\ w.reader = "put" /\ "reader" \notin w.asleep
    /\ Set(h, IF w.closed \/ w.canceled
              THEN [CancelQueue(w) EXCEPT !.reader = "join", !.frame = NoFrame]
              ELSE IF Len(w.queue) >= Prefetch[h]
              THEN [w EXCEPT !.asleep = @ \cup {"reader"}]
              ELSE [w EXCEPT !.queue = Append(@, w.frame), !.frame = NoFrame,
                             !.reader = "read", !.asleep = NotEmpty(w)])
    /\ LeaveLinks

(* The inline evaluation returned: the loop reads on, or ends. *)
InlineDone(h) ==
    LET w == worker[h] IN
    /\ w.reader = "work" /\ w.eval \in {"pop", "out"}
    /\ Set(h, IF w.eval = "pop"
              THEN [w EXCEPT !.reader = "read", !.eval = "out"]
              ELSE [w EXCEPT !.reader = "join"])
    /\ LeaveLinks

(* dist_worker_upstream_destroy: no request is forwarded any more, the     *)
(* relay's connection is shut down.                                        *)
JoinEval(h) ==
    LET w == worker[h] IN
    /\ w.reader = "join" /\ w.eval = "out"
    /\ IF w.relay = "none"
       THEN Set(h, [w EXCEPT !.reader = "destroy"]) /\ UNCHANGED link
       ELSE /\ Set(h, [CloseForwarder(w) EXCEPT !.reader = "destroy"])
            /\ link' = [link EXCEPT ![h + 1] = Shut(@)]
    /\ UNCHANGED faults

JoinRelay(h) ==
    LET w == worker[h] IN
    /\ w.reader = "destroy" /\ w.relay \in {"none", "out"}
    /\ Set(h, [w EXCEPT !.reader = "gone", !.pending = <<>>])
    /\ link' = [link EXCEPT ![h] = Shut(@)]
    /\ UNCHANGED faults
-----------------------------------------------------------------------------
(* dist_worker_prefetch_eval_main, and the evaluation of one frame. *)

PopJob(h) ==
    LET w == worker[h] IN
    /\ w.eval = "pop" /\ "eval" \notin w.asleep /\ ~Inline(h)
    /\ Set(h, IF w.canceled \/ (w.queue = <<>> /\ w.closed)
              THEN [w EXCEPT !.eval = "out"]
              ELSE IF w.queue = <<>>
              THEN [w EXCEPT !.asleep = @ \cup {"eval"}]
              ELSE [w EXCEPT !.eval = "eval", !.job = Head(w.queue),
                             !.queue = Tail(@), !.asleep = NotFull(w)])
    /\ LeaveLinks

(* The first chunk resets the session. *)
KvMutant(w) == w.kv
Kv(w) == IF w.job.id = 1 THEN 0 ELSE w.kv
PrefixMatches(w) == w.job.id = 1 \/ w.hash = w.job.id - 1

Extended(w) ==
    IF Kv(w) = w.job.id - 1 /\ w.job.hidden = w.job.id THEN w.job.id ELSE Wrong

(* What a worker hands on is right when its KV is. *)
Output(w) == IF w.kv = w.job.id THEN w.job.id ELSE Torn

(* dist_worker_process_work_payload, up to the answer; the session is under *)
(* state->mu.                                                              *)
Evaluate(h) ==
    LET w == worker[h] IN
    /\ w.eval = "eval"
    /\ \/ /\ PrefixMatches(w)
          /\ Set(h, [w EXCEPT !.kv = Extended(w), !.hash = w.job.id,
                              !.eval = IF HasNext(h) THEN "open" ELSE "answer"])
          /\ UNCHANGED faults
       \/ /\ ~PrefixMatches(w)
          /\ Set(h, [w EXCEPT !.eval = "error"])
          /\ UNCHANGED faults
       \/ /\ PrefixMatches(w) /\ Fault
          /\ Set(h, [w EXCEPT !.kv = Wrong, !.hash = NoHash, !.eval = "error"])
    /\ UNCHANGED link

(* The last worker answers itself. *)
Answer(h) ==
    LET w == worker[h]
        m == [id |-> w.job.id, of |-> Output(w),
              kind |-> IF w.job.id < Count THEN "ack" ELSE "final"] IN
    /\ w.eval = "answer"
    /\ \/ /\ link' = [link EXCEPT ![h] = ResultSent(@, m)]
          /\ Set(h, [w EXCEPT !.eval = "pop"])
       \/ ~link[h].open /\ Set(h, [w EXCEPT !.eval = "fail"]) /\ UNCHANGED link
    /\ UNCHANGED faults

Error(id) == [id |-> id, kind |-> "error", of |-> Torn]

AnswerError(h) ==
    LET w == worker[h] IN
    /\ w.eval = "error"
    /\ \/ /\ link' = [link EXCEPT ![h] = ResultSent(@, Error(w.job.id))]
          /\ Set(h, [w EXCEPT !.eval = "pop"])
       \/ ~link[h].open /\ Set(h, [w EXCEPT !.eval = "fail"]) /\ UNCHANGED link
    /\ UNCHANGED faults

(* The answer could not be written: the eval thread ends everything. *)
EvalFails(h) ==
    LET w == worker[h] IN
    /\ w.eval = "fail"
    /\ Set(h, [CancelQueue(w) EXCEPT !.eval = "out"])
    /\ link' = [link EXCEPT ![h] = Shut(@)]
    /\ UNCHANGED faults
-----------------------------------------------------------------------------
(* dist_forward_work_to_next *)

GetForwarder(h) ==
    LET w == worker[h] IN
    /\ w.eval = "open"
    /\ \/ /\ w.relay # "none"
          /\ Set(h, [w EXCEPT !.eval = "track"]) /\ LeaveLinks
       \/ /\ w.relay = "none" /\ link[h + 1].open
          /\ Set(h, [w EXCEPT !.eval = "track", !.relay = "start"])
          /\ LeaveLinks
       \/ /\ w.relay = "none" /\ ~link[h + 1].open
          /\ Set(h, [w EXCEPT !.eval = "error"]) /\ LeaveLinks

PendingFull(w) == Len(w.pending) >= Forward

Track(h) ==
    LET w == worker[h] IN
    /\ w.eval = "track" /\ "eval" \notin w.asleep
    /\ Set(h, IF w.closing
              THEN [w EXCEPT !.eval = "error"]
              ELSE IF PendingFull(w)
              THEN [w EXCEPT !.asleep = @ \cup {"eval"}]
              ELSE [w EXCEPT !.pending = Append(@, w.job.id), !.eval = "send"])
    /\ LeaveLinks

ForwardSend(h) ==
    LET w == worker[h] IN
    /\ w.eval = "send"
    /\ \E l \in WorkSent(link[h + 1],
                         [id |-> w.job.id, hidden |-> Output(w)]) :
          link' = [link EXCEPT ![h + 1] = l]
    /\ Set(h, [w EXCEPT !.eval = "pop"])
    /\ UNCHANGED faults

(* dist_worker_forwarder_remove_request; the relay may have popped it. *)
Without(ids, id) ==
    LET k == CHOOSE i \in DOMAIN ids : ids[i] = id
    IN  IF \A i \in DOMAIN ids : ids[i] # id THEN ids
        ELSE [i \in 1 .. Len(ids) - 1 |-> IF i < k THEN ids[i] ELSE ids[i + 1]]

ForwardFails(h) ==
    LET w == worker[h] IN
    /\ w.eval = "send"
    /\ \/ ~link[h + 1].open /\ UNCHANGED faults
       \/ Len(link[h + 1].work) >= WorkRoom /\ Fault
    /\ Set(h, [w EXCEPT !.eval = "lost",
                        !.pending = Without(@, w.job.id)])
    /\ link' = [link EXCEPT ![h + 1] = Shut(@)]

(* The error goes up, then the connection goes down. *)
Lost(h) ==
    LET w == worker[h] IN
    /\ w.eval = "lost"
    /\ \/ Set(h, [w EXCEPT !.eval = "pop"])
       \/ ~link[h].open /\ Set(h, [w EXCEPT !.eval = "fail"])
    /\ link' = [link EXCEPT ![h] = Shut(ResultSent(@, Error(w.job.id)))]
    /\ UNCHANGED faults
-----------------------------------------------------------------------------
(* dist_worker_forwarder_relay_main *)

RelayStart(h) ==
    LET w == worker[h] IN
    /\ w.relay = "start"
    /\ Set(h, [w EXCEPT !.relay = "read"]) /\ LeaveLinks

(* Its buffer could not be allocated: it ends without closing the queue of *)
(* the requests.                                                           *)
RelayNoBuffer(h) ==
    LET w == worker[h] IN
    /\ w.relay = "start" /\ Fault
    /\ Set(h, [w EXCEPT !.relay = "out"])
    /\ link' = [link EXCEPT ![h] = Shut(@)]

Popped(w) == [w EXCEPT !.pending = Tail(@), !.asleep = PendingNotFull(w)]

(* An answer belongs to the request that was forwarded first. *)
RelayTake(h) ==
    LET w == worker[h] IN
    /\ w.relay = "read" /\ link[h + 1].result # <<>>
    /\ LET m == Head(link[h + 1].result)
           taken == [link EXCEPT ![h + 1].result = Tail(@)] IN
          \/ /\ w.pending # <<>> /\ m.id = Head(w.pending)
             /\ Set(h, [Popped(w) EXCEPT !.relay = "write", !.answer = m])
             /\ link' = taken
          \/ /\ w.pending # <<>> /\ m.id # Head(w.pending)
             /\ Set(h, [Popped(w) EXCEPT !.relay = "exit"])
             /\ link' = [taken EXCEPT ![h] = ResultSent(@, Error(Head(w.pending)))]
          \/ /\ w.pending = <<>>
             /\ Set(h, [w EXCEPT !.relay = "exit"])
             /\ link' = taken
    /\ UNCHANGED faults

RelayEnd(h) ==
    LET w == worker[h] IN
    /\ w.relay = "read" /\ ~link[h + 1].open
    /\ IF w.pending = <<>>
       THEN Set(h, [w EXCEPT !.relay = "exit"]) /\ UNCHANGED link
       ELSE /\ Set(h, [Popped(w) EXCEPT !.relay = "exit"])
            /\ link' = [link EXCEPT ![h] = ResultSent(@, Error(Head(w.pending)))]
    /\ UNCHANGED faults

RelayWrite(h) ==
    LET w == worker[h] IN
    /\ w.relay = "write"
    /\ \/ /\ link' = [link EXCEPT ![h] = ResultSent(@, w.answer)]
          /\ Set(h, [w EXCEPT !.relay = "read", !.answer = NoAnswer])
       \/ /\ ~link[h].open
          /\ Set(h, [w EXCEPT !.relay = "exit", !.answer = NoAnswer])
          /\ UNCHANGED link
    /\ UNCHANGED faults

RelayExit(h) ==
    LET w == worker[h] IN
    /\ w.relay = "exit"
    /\ Set(h, [CloseForwarder(w) EXCEPT !.relay = "out"])
    /\ link' = [link EXCEPT ![h] = Shut(@)]
    /\ UNCHANGED faults
-----------------------------------------------------------------------------
ReaderLoop(h) ==
    \/ ReadWork(h) \/ ReadEnd(h) \/ PutJob(h) \/ InlineDone(h)
    \/ JoinEval(h) \/ JoinRelay(h)
EvalLoop(h) ==
    \/ PopJob(h) \/ Evaluate(h) \/ Answer(h) \/ AnswerError(h) \/ EvalFails(h)
    \/ GetForwarder(h) \/ Track(h) \/ ForwardSend(h) \/ ForwardFails(h)
    \/ Lost(h)
RelayLoop(h) ==
    \/ RelayStart(h) \/ RelayNoBuffer(h) \/ RelayTake(h) \/ RelayEnd(h)
    \/ RelayWrite(h) \/ RelayExit(h)
WorkerStep(h) == ReaderLoop(h) \/ EvalLoop(h) \/ RelayLoop(h)
=============================================================================
