----------------------------- MODULE MCJobQueue -----------------------------
(* Client threads and call ids are interchangeable in safety runs. *)
EXTENDS JobQueue, TLC
Symmetric == Permutations(Client) \cup Permutations(Call)
=============================================================================
