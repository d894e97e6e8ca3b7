------------------------------ MODULE DistLink ------------------------------
(***************************************************************************)
(* The TCP connections along a route of src/src/runtime/ds4_distributed.c. *)
(* The coordinator holds connection 1 to the first worker; worker h holds  *)
(* connection h to whoever is before it, and connection h + 1 to the next  *)
(* worker.  A frame of work carries one chunk of the prompt and the hidden *)
(* state the sender computed for it; a frame of results goes the other     *)
(* way.  A frame is read and written as a whole here.                      *)
(***************************************************************************)
EXTENDS Integers, Sequences

CONSTANTS
    Hops,      \* workers on the route
    Count,     \* chunks of the prompt; a request per chunk
    WorkRoom,  \* frames of work the buffers of a connection hold
    MaxFaults  \* bound: things that go wrong

ASSUME LinkAssumption ==
    /\ Hops \in Nat \ {0}
    /\ Count \in Nat \ {0}
    /\ WorkRoom \in Nat \ {0}
    /\ MaxFaults \in Nat

VARIABLES
    link,   \* the connections
    faults  \* how many things went wrong so far

Hop == 1..Hops
Chunk == 1..Count
Torn == 0  \* a hidden state that is no chunk's
Content == 0..Count

Work == [id : Chunk, hidden : Content]
Result == [id : Chunk, kind : {"ack", "final", "error"}, of : Content]
Link == [open : BOOLEAN, work : Seq(Work), result : Seq(Result)]

Shut(l) == [l EXCEPT !.open = FALSE]

(* What a connection may be once a frame of work was written whole: a write *)
(* waits for room, and one on a connection the other side left is lost.    *)
WorkSent(l, m) ==
    IF ~l.open THEN {l}
    ELSE IF Len(l.work) < WorkRoom
         THEN {[l EXCEPT !.work = Append(@, m)]}
         ELSE {}

(* Results are small (an ACK has no payload) and always find room. *)
ResultSent(l, m) ==
    IF l.open THEN [l EXCEPT !.result = Append(@, m)] ELSE l

Fault ==
    /\ faults < MaxFaults
    /\ faults' = faults + 1

(* A machine or its network goes. *)
Cut(h) ==
    /\ link[h].open
    /\ Fault
    /\ link' = [link EXCEPT ![h] = Shut(@)]
=============================================================================
