---------------------------- MODULE DistPipeline ----------------------------
(***************************************************************************)
(* A long prompt through a route: the coordinator of DistPrefill and the   *)
(* workers of DistWorker on shared connections.                            *)
(***************************************************************************)
EXTENDS DistPrefill

CONSTANTS
    Prefetch, \* depth of each worker's prefetch queue; 0: evaluated inline
    Forward   \* requests a worker forwards before an answer

ASSUME PipelineAssumption ==
    /\ Prefetch \in [Hop -> Nat]
    /\ Forward \in Nat \ {0}

VARIABLE worker

Route == INSTANCE DistWorker

allVars == <<own, worker, link, faults>>

PipelineInit ==
    /\ Init
    /\ Route!WorkerInit
    /\ link = [h \in Hop |-> [open |-> TRUE, work |-> <<>>, result |-> <<>>]]
    /\ faults = 0

ThreadStep ==
    \/ Coordinator /\ UNCHANGED worker
    \/ \E h \in Hop : Route!WorkerStep(h) /\ UNCHANGED own

PipelineNext ==
    \/ ThreadStep
    \/ \E h \in Hop : Cut(h) /\ UNCHANGED <<own, worker>>

PipelineSpec == PipelineInit /\ [][PipelineNext]_allVars

(* As long as some thread can go on, one of them does.  No thread can go   *)
(* on for ever by itself, so this is all the fairness that is needed, and  *)
(* it is less than a scheduler gives.  Nothing goes wrong by necessity: a  *)
(* write that waits for room is only helped by who reads, never by         *)
(* SO_SNDTIMEO.                                                            *)
Fairness == WF_allVars(ThreadStep /\ UNCHANGED faults)

FairPipeline == PipelineSpec /\ Fairness
-----------------------------------------------------------------------------
LinkTypeOK ==
    /\ link \in [Hop -> Link] /\ faults \in 0..MaxFaults
    /\ final \in Content \cup {-1}

PipelineTypeOK == TypeOK /\ LinkTypeOK /\ Route!WorkerTypeOK

(* A prefill that returns success evaluated every chunk once, in order, on *)
(* the coordinator's own hidden states, on every worker of the route, and  *)
(* hands out the last worker's result of the last chunk.                   *)
PrefillFaithful ==
    ret = "ok" =>
        /\ final = Count
        /\ \A h \in Hop : worker[h].kv = Count

(* Nothing but a fault makes a prefill fail: the window, the rings, the    *)
(* two queues of each worker and the matching of answers to requests never *)
(* turn down a prompt by themselves.                                       *)
HealthySucceeds == ret \in {"fail", "remote"} => faults > 0

(* No thread waits for another for ever.  In the end a call that has begun  *)
(* has returned, whatever breaks on the way, and a worker whose connection  *)
(* is gone has taken all its threads down.  A relay that could not allocate *)
(* its buffer is let out: see RelayNoBuffer.                                *)
Down(h) == ~link[h].open
Orphaned(h) == worker[h].relay = "out" /\ ~worker[h].closing
ThreadsEnd ==
    /\ []<>(prod # "reader" => prod = "returned")
    /\ \A h \in Hop :
           []<>(Down(h) => worker[h].reader = "gone" \/ Orphaned(h))
=============================================================================
