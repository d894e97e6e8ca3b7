---------------------------- MODULE StreamBuild ----------------------------
(***************************************************************************)
(* The streamed build of the model file (build_official_q4_stream.py with  *)
(* the quantizer's --stream-init and --tensor-list).  The shards of one    *)
(* group are downloaded, the tensors made of them are written at their     *)
(* place in the output, the shards are removed, and a checkpoint notes the *)
(* group, so that the same command goes on where a run was interrupted.  A *)
(* run may die between any two of its calls, and the server may answer a   *)
(* Range request with the range or with the whole file.                    *)
(*                                                                         *)
(* The output and a .part file are fsynced and the checkpoint is replaced  *)
(* atomically before the next call, so what a call has done stays done.    *)
(***************************************************************************)
EXTENDS Integers, FiniteSets, FiniteSetsExt

CONSTANTS
    Tensor,       \* the tensors of the output, by index
    Shard,        \* the source files, in the order of their names
    Sources,      \* the files each tensor is made of
    ShardBytes,   \* the bytes of a shard
    Absent        \* no file

-----------------------------------------------------------------------------
(* The plan.                                                               *)

Shares(u, w) == Sources[u] \cap Sources[w] # {}

\* A set of tensors that shares no file with the others.
Closed(x) == \A u \in x, w \in Tensor : Shares(u, w) => w \in x

\* The tensors that are tied to u by a chain of files they share.
Tied(u) == {w \in Tensor : \A x \in SUBSET Tensor :
                              u \in x /\ Closed(x) => w \in x}

Groups == {Tied(u) : u \in Tensor}

\* What a tensor may hold, and the output that is there.
Contents == {"empty", "torn", "wrong", "whole"}
Outputs == [sized : BOOLEAN, data : [Tensor -> Contents]]

ASSUME BuildAssumption ==
    /\ IsFiniteSet(Tensor) /\ Tensor \subseteq Nat
    /\ IsFiniteSet(Shard) /\ Shard \subseteq Nat
    /\ Sources \in [Tensor -> (SUBSET Shard) \ {{}}]
    /\ ShardBytes \in Nat \ {0}
    /\ Absent \notin Nat /\ Absent \notin Outputs
    /\ \A done \in SUBSET Groups : Absent # done

VARIABLES
    step,         \* the next step of the run, or how the last one ended
    group,        \* the first tensor of its group, or where the next may begin
    completed,    \* the groups the run takes to be done
    output,       \* whether it has its size, and what each tensor holds
    state,        \* the checkpoint: the groups it says are done
    partial,      \* the bytes of each shard's .part file
    staged,       \* the bytes of each shard's file
    tampered      \* what was done between two runs: the "output" was taken
                  \* away, or a "reset" that the last run had not asked for

runVars == <<step, group, completed>>
buildVars == <<runVars, output, state, partial, staged, tampered>>

-----------------------------------------------------------------------------
(* Where a run is.                                                         *)

\* Groups come in the order of their first tensors.
Left == {g \in Groups : Min(g) >= group}

\* The group in hand.
Current == Tied(group)

Files(tensors) == UNION {Sources[u] : u \in tensors}

Present == {f \in Shard : staged[f] # Absent \/ partial[f] # Absent}

-----------------------------------------------------------------------------

Idle == {"down", "refused", "complete"}

BuildInit ==
    /\ step = "down" /\ group = 0 /\ completed = {}
    /\ output = Absent /\ state = Absent
    /\ partial = [f \in Shard |-> Absent]
    /\ staged = [f \in Shard |-> Absent]
    /\ tampered = {}

GoTo(s) == step' = s /\ UNCHANGED <<group, completed>>

StartRun ==
    /\ step \in Idle
    /\ group' = 0 /\ completed' = {}
    /\ \/ step' = "read" /\ UNCHANGED tampered
       \/ /\ step' = "reset"
          /\ tampered' = IF step = "refused" THEN tampered
                         ELSE tampered \cup {"reset"}
    /\ UNCHANGED <<output, state, partial, staged>>

\* --reset: the checkpoint goes first, then the output.  Whose output the
\* checkpoint was of does not matter any more; what is staged still does.
RemoveState ==
    /\ step = "reset" /\ GoTo("reset output")
    /\ state' = Absent
    /\ tampered' = IF tampered = {} THEN {} ELSE {"reset"}
    /\ UNCHANGED <<output, partial, staged>>

RemoveOutput ==
    /\ step = "reset output" /\ GoTo("read")
    /\ output' = Absent
    /\ UNCHANGED <<state, partial, staged, tampered>>

Initialized == state # Absent /\ output # Absent

ReadState ==
    /\ step = "read"
    /\ completed' = IF state = Absent THEN {} ELSE state
    /\ step' = CASE Initialized /\ output.sized -> "group"
                 [] output = Absent -> "init"
                 [] OTHER -> "refused"
    /\ UNCHANGED <<group, output, state, partial, staged, tampered>>

-----------------------------------------------------------------------------
(* --stream-init: the header, then the size.                               *)

CreateOutput ==
    /\ step = "init" /\ GoTo("size")
    /\ output' = [sized |-> FALSE, data |-> [u \in Tensor |-> "empty"]]
    /\ UNCHANGED <<state, partial, staged, tampered>>

SizeOutput ==
    /\ step = "size" /\ GoTo("save")
    /\ output' = [output EXCEPT !.sized = TRUE]
    /\ UNCHANGED <<state, partial, staged, tampered>>

\* The new checkpoint is empty; what the run takes to be done is not.
SaveState ==
    /\ step = "save" /\ GoTo("group")
    /\ state' = {}
    /\ UNCHANGED <<output, partial, staged, tampered>>

-----------------------------------------------------------------------------
(* One group after the other.                                              *)

NextGroup ==
    /\ step = "group"
    /\ \/ Left = {} /\ GoTo("finish")
       \/ \E g \in Left :
             /\ \A h \in Left : Min(g) <= Min(h)
             /\ IF g \in completed
                THEN group' = Min(g) + 1 /\ UNCHANGED step
                ELSE group' = Min(g) /\ step' = "fetch"
             /\ UNCHANGED completed
    /\ UNCHANGED <<output, state, partial, staged, tampered>>

Needed == {f \in Files(Current) : staged[f] = Absent}

\* The first file that is not there is asked for from where it was left.
OpenShard ==
    /\ step = "fetch" /\ Needed # {}
    /\ LET f == Min(Needed)
           start == IF partial[f] = Absent THEN 0 ELSE partial[f]
       IN  \/ GoTo("read shard") /\ partial' = [partial EXCEPT ![f] = 0]
           \/ start \in 1 .. ShardBytes - 1 /\ GoTo("read shard")
              /\ UNCHANGED partial
           \/ start = ShardBytes /\ GoTo("publish") /\ UNCHANGED partial
    /\ UNCHANGED <<output, state, staged, tampered>>

\* Mutant: a connection that closes early ends the file.
ReadAllMutant(bytes) == TRUE

\* A download that is shorter than the server said is no shard.
ReadAll(bytes) == bytes = ShardBytes

ReadShard ==
    /\ step = "read shard"
    /\ LET f == Min(Needed)
       IN  \/ /\ partial[f] < ShardBytes
              /\ partial' = [partial EXCEPT ![f] = @ + 1]
              /\ UNCHANGED runVars
           \/ ReadAll(partial[f]) /\ GoTo("publish") /\ UNCHANGED partial
    /\ UNCHANGED <<output, state, staged, tampered>>

PublishShard ==
    /\ step = "publish" /\ GoTo("fetch")
    /\ LET f == Min(Needed)
       IN  /\ staged' = [staged EXCEPT ![f] = partial[f]]
           /\ partial' = [partial EXCEPT ![f] = Absent]
    /\ UNCHANGED <<output, state, tampered>>

\* The quantizer overwrites the group's tensors ...
BeginTensors ==
    /\ step = "fetch" /\ Needed = {} /\ GoTo("quantize")
    /\ output' = [output EXCEPT !.data =
                     [u \in Tensor |-> IF u \in Current THEN "torn"
                                       ELSE @[u]]]
    /\ UNCHANGED <<state, partial, staged, tampered>>

\* ... from all their shards.
EndTensors ==
    /\ step = "quantize" /\ GoTo("clean")
    /\ output' = [output EXCEPT !.data =
           [u \in Tensor |->
               IF u \notin Current THEN @[u]
               ELSE IF \A f \in Sources[u] : staged[f] = ShardBytes
                    THEN "whole" ELSE "wrong"]]
    /\ UNCHANGED <<state, partial, staged, tampered>>

\* Mutant: the shards of the group's first tensor are removed.
ToRemoveMutant == Sources[group] \cap Present

ToRemove == Files(Current) \cap Present

\* Shards are removed one by one, and the group is noted after the last.
RemoveShard ==
    /\ step = "clean"
    /\ IF ToRemove = {}
       THEN GoTo("record") /\ UNCHANGED <<partial, staged>>
       ELSE /\ staged' = [staged EXCEPT ![Min(ToRemove)] = Absent]
            /\ partial' = [partial EXCEPT ![Min(ToRemove)] = Absent]
            /\ UNCHANGED runVars
    /\ UNCHANGED <<output, state, tampered>>

RecordGroup ==
    /\ step = "record"
    /\ completed' = completed \cup {Current}
    /\ state' = completed'
    /\ group' = group + 1 /\ step' = "group"
    /\ UNCHANGED <<output, partial, staged, tampered>>

\* The checkpoint is written once more, with the groups it has.
FinishBuild ==
    /\ step = "finish" /\ GoTo("complete")
    /\ UNCHANGED <<output, state, partial, staged, tampered>>

-----------------------------------------------------------------------------

\* The run dies, or ends because of an error: a short download, a full disk.
Interrupt ==
    /\ step \notin Idle
    /\ step' = "down" /\ group' = 0 /\ completed' = {}
    /\ UNCHANGED <<output, state, partial, staged, tampered>>

\* Somebody takes the output away and leaves the checkpoint.
TakeOutput ==
    /\ step \in Idle /\ output # Absent
    /\ step' = "down" /\ output' = Absent
    /\ tampered' = tampered \cup {"output"}
    /\ UNCHANGED <<group, completed, state, partial, staged>>

BuildNext ==
    \/ StartRun \/ RemoveState \/ RemoveOutput \/ ReadState
    \/ CreateOutput \/ SizeOutput \/ SaveState
    \/ NextGroup \/ OpenShard \/ ReadShard \/ PublishShard
    \/ BeginTensors \/ EndTensors \/ RemoveShard \/ RecordGroup \/ FinishBuild
    \/ Interrupt \/ TakeOutput

BuildSpec == BuildInit /\ [][BuildNext]_buildVars

-----------------------------------------------------------------------------
(* Properties.                                                             *)

(* However often runs are interrupted or begun anew, a group that the      *)
(* checkpoint calls done is whole in the output, made of whole shards, and *)
(* so is all of the output when a run says that the build is complete;     *)
(* except after somebody took the output away and left the checkpoint.     *)
(* (build_official_q4_stream.py 330-357)                                   *)
BuildWhole ==
    "output" \notin tampered =>
        /\ state # Absent => \A u \in UNION state : output.data[u] = "whole"
        /\ step = "complete" => \A u \in Tensor : output.data[u] = "whole"

(* The staging directory never holds shards of two groups, also not after  *)
(* runs that were interrupted: the room it needs is that of one group.     *)
(* (SKILL.md 65-66)                                                        *)
OneGroupStaged ==
    tampered = {} =>
        Present = {} \/ \E g \in Groups : Present \subseteq Files(g)
=============================================================================
