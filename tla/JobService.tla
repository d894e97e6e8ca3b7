----------------------------- MODULE JobService -----------------------------
(***************************************************************************)
(* What the request queue of ds4_server.c promises, without threads, locks *)
(* or lists: a job that is submitted while the service is open waits in    *)
(* arrival order, is run by one slot, by itself, and leaves; a job may be  *)
(* started before an older one, but no job waits forever, and a service    *)
(* that was closed runs what it had accepted.                              *)
(***************************************************************************)
EXTENDS Integers, Sequences, SequencesExt

CONSTANTS
    Slots,    \* the slots that run jobs
    Jobs,     \* the jobs
    Idle      \* the job of a slot that runs none, none of Jobs

VARIABLES
    open,     \* whether jobs are accepted
    waiting,  \* the jobs accepted and not started, oldest first
    running   \* the job each slot has

serviceVars == <<open, waiting, running>>

ServiceInit ==
    /\ open = TRUE
    /\ waiting = <<>>
    /\ running = [s \in Slots |-> Idle]

Absent(j) == j \notin ToSet(waiting) /\ \A s \in Slots : running[s] # j

Submit(j) ==
    /\ open /\ Absent(j)
    /\ waiting' = Append(waiting, j)
    /\ UNCHANGED <<open, running>>

Start(i, s) ==
    /\ i \in DOMAIN waiting /\ running[s] = Idle
    /\ running' = [running EXCEPT ![s] = waiting[i]]
    /\ waiting' = RemoveAt(waiting, i)
    /\ UNCHANGED open

Finish(s) ==
    /\ running[s] # Idle
    /\ running' = [running EXCEPT ![s] = Idle]
    /\ UNCHANGED <<open, waiting>>

Close ==
    /\ open
    /\ open' = FALSE
    /\ UNCHANGED <<waiting, running>>

ServiceNext ==
    \/ Close
    \/ \E j \in Jobs : Submit(j)
    \/ \E s \in Slots : Finish(s) \/ \E i \in DOMAIN waiting : Start(i, s)

ServiceSafety == ServiceInit /\ [][ServiceNext]_serviceVars

(* Jobs end, and a job that could be started again and again is started. *)
StartJob(j) ==
    \E s \in Slots : \E i \in DOMAIN waiting : waiting[i] = j /\ Start(i, s)
ServiceSpec ==
    /\ ServiceSafety
    /\ \A s \in Slots : WF_serviceVars(Finish(s))
    /\ \A j \in Jobs : SF_serviceVars(StartJob(j))
=============================================================================
