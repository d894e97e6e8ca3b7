--------------------------- MODULE MCDistSession ---------------------------
(* One worker for each of two slices; a prompt, what an evaluation makes of    *)
(* its beginning, which has the same length, and a checkpoint that is on disk. *)
EXTENDS DistSession
CONSTANTS a, b, x, y

MCSlice == [w \in Worker |-> IF w = a THEN 1 ELSE 2]
MCPrompts == {<<x, y>>}
MCStored == {<<x>>}
=============================================================================
