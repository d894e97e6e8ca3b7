----------------------------- MODULE ToolMemory -----------------------------
(***************************************************************************)
(* Tool memory (ds4_server.c): the text the model sampled for its tool     *)
(* calls, under the random id of each call, so that a client that sends an *)
(* id back gets the sampled text and not its own rendering of the JSON.    *)
(* The memory is shared by the slots that sample, the client threads that  *)
(* parse requests, and the writer of checkpoints, each of which holds      *)
(* tool_mu for a moment only.  It is limited, so the least recently used   *)
(* ids go; a checkpoint keeps the ids whose text occurs in it, and a       *)
(* request looks for its ids in every checkpoint before it is rendered.    *)
(*                                                                         *)
(* A block is a sampled text; a checkpoint's text is the set of blocks     *)
(* that occur in it.  The route heat before the ids in a trailer, and      *)
(* whether an id came from RAM or from disk (a statistic), are left out.   *)
(***************************************************************************)
EXTENDS Integers, Sequences, FiniteSets, SequencesExt, FiniteSetsExt

CONSTANTS
    MaxIds,    \* bound on the ids that are drawn
    Block,     \* the texts of tool calls
    Length,    \* the bytes of each block
    Text,      \* the texts of checkpoints
    Starts,    \* the model, max_entries and max_bytes of a process
    MaxCalls,  \* bound on the calls of one message
    Client,    \* the client threads
    NoBlock,   \* no text
    NoTurn,    \* no turn
    NoFile     \* no checkpoint

ASSUME ToolAssumption ==
    /\ MaxIds \in Nat /\ IsFiniteSet(Block) /\ NoBlock \notin Block
    /\ Length \in [Block -> Nat \ {0}]
    /\ Text \subseteq SUBSET Block
    /\ \A s \in Starts : s.ids \in Nat \ {0} /\ s.bytes \in Nat
    /\ MaxCalls \in Nat

\* The ids of tool calls, in the order they are drawn: with 128 random bits
\* none is drawn twice, and which one it is makes no difference.
Id == 1 .. MaxIds

VARIABLES
    toolMem,   \* lru: newest id first; block of each id; refs of each block
    process,   \* the one of Starts that runs
    sampled,   \* the block each id was drawn for, in any process
    turn,      \* a slot's parsed calls that are not remembered yet
    files,     \* the checkpoint of each text: its model, the ids in its
               \* trailer, the size in the trailer's header, and the ids that
               \* the memory held for the text when it was written
    writer,    \* the store that holds kv_mu
    request    \* each client thread's message, the checkpoints it has not
               \* looked at, and the ids it found on its way

toolVars == <<toolMem, process, sampled, turn, files, writer, request>>

-----------------------------------------------------------------------------
(* The list, the blocks and the two counters.                              *)

EntryBytes == 1

EmptyMemory == [lru |-> <<>>, block |-> [i \in Id |-> NoBlock],
                refs |-> [b \in Block |-> 0], bytes |-> 0]

Known(m) == ToSet(m.lru)

Touch(m, i) == [m EXCEPT !.lru = <<i>> \o RemoveFirst(@, i)]

\* Mutant: a block that is no longer used stays counted.
ReleaseMutant(m, b) == [m EXCEPT !.refs[b] = @ - 1]

\* One id less for a block; the last one takes the block with it.
Release(m, b) ==
    [m EXCEPT !.refs[b] = @ - 1,
              !.bytes = IF m.refs[b] = 1 THEN @ - Length[b] ELSE @]

Drop(m, i) ==
    Release([m EXCEPT !.lru = RemoveFirst(@, i), !.block[i] = NoBlock,
                      !.bytes = @ - EntryBytes], m.block[i])

OverLimit(m) == Len(m.lru) > process.ids \/ m.bytes > process.bytes

DropOldest(m) ==
    IF OverLimit(m) /\ m.lru # <<>> THEN Drop(m, Last(m.lru)) ELSE m

\* The oldest id goes, at most as often as there are ids.
Prune(m) == FoldLeft(LAMBDA rest, i : DropOldest(rest), m, m.lru)

\* The id is new, or takes another block than it had.
Insert(m, i, b) ==
    LET rest == IF i \in Known(m) THEN Drop(m, i) ELSE m
        block == IF rest.refs[b] = 0 THEN Length[b] ELSE 0
    IN  [lru |-> <<i>> \o rest.lru,
         block |-> [rest.block EXCEPT ![i] = b],
         refs |-> [rest.refs EXCEPT ![b] = @ + 1],
         bytes |-> rest.bytes + block + EntryBytes]

Put(m, i, b) ==
    IF m.block[i] = b THEN Prune(Touch(m, i)) ELSE Prune(Insert(m, i, b))

PutAll(m, pairs) == FoldLeft(LAMBDA n, p : Put(n, p[1], p[2]), m, pairs)

-----------------------------------------------------------------------------

NoRequest == [at |-> "idle", msg |-> <<>>, left |-> {}, seen |-> {},
              answer |-> NoBlock]
NoStore == [at |-> "idle"]

ToolInit ==
    /\ toolMem = EmptyMemory
    /\ process \in Starts
    /\ sampled = [i \in Id |-> NoBlock]
    /\ turn = NoTurn
    /\ files = [t \in Text |-> NoFile]
    /\ writer = NoStore
    /\ request = [c \in Client |-> NoRequest]

-----------------------------------------------------------------------------
(* A slot samples a turn with tool calls and remembers it.                 *)

\* The ids are drawn, and streamed to the client, before they are remembered.
Sample(b, n) ==
    LET drawn == Cardinality({i \in Id : sampled[i] # NoBlock})
        ids == drawn + 1 .. drawn + n
    IN  /\ turn = NoTurn /\ ids \subseteq Id
        /\ turn' = [block |-> b, ids |-> [k \in 1 .. n |-> drawn + k]]
        /\ sampled' = [i \in Id |-> IF i \in ids THEN b ELSE sampled[i]]
        /\ UNCHANGED <<toolMem, process, files, writer, request>>

RememberTurn ==
    /\ turn # NoTurn
    /\ toolMem' = PutAll(toolMem, [n \in DOMAIN turn.ids |->
                                       <<turn.ids[n], turn.block>>])
    /\ turn' = NoTurn
    /\ UNCHANGED <<process, sampled, files, writer, request>>

-----------------------------------------------------------------------------
(* A checkpoint is stored: its trailer is measured, then written, and      *)
(* tool_mu is free in between.                                             *)

\* The ids whose block occurs in a text.
Mapped(m, t) == {<<i, m.block[i]>> : i \in {j \in Known(m) : m.block[j] \in t}}

MapBytes(pairs) == MapThenSumSet(LAMBDA p : EntryBytes + Length[p[2]], pairs)

UsableFile(t) == files[t] # NoFile /\ files[t].model = process.model

\* The trailer of a checkpoint that this process can use is cut off and made
\* anew; any other file of the text is replaced.
BeginStore(t) ==
    /\ writer.at = "idle"
    /\ files' = [files EXCEPT ![t] =
                    IF UsableFile(t)
                    THEN [@ EXCEPT !.map = {}, !.size = 0, !.owes = {}]
                    ELSE NoFile]
    /\ writer' = [at |-> "measure", text |-> t, inPlace |-> UsableFile(t)]
    /\ UNCHANGED <<toolMem, process, sampled, turn, request>>

MeasureMap ==
    /\ writer.at = "measure"
    /\ writer' = [at |-> "write", text |-> writer.text,
                  inPlace |-> writer.inPlace,
                  size |-> MapBytes(Mapped(toolMem, writer.text))]
    /\ UNCHANGED <<toolMem, process, sampled, turn, files, request>>

\* When the sizes differ a new checkpoint is given up; what was written into
\* an old one stays.
WriteMap ==
    LET t == writer.text
        map == Mapped(toolMem, t)
        agree == MapBytes(map) = writer.size
    IN  /\ writer.at = "write"
        /\ files' = IF agree \/ writer.inPlace
                    THEN [files EXCEPT ![t] =
                            [model |-> process.model,
                             map |-> map, size |-> writer.size,
                             owes |-> {i \in Known(toolMem) :
                                           agree /\ sampled[i] \in t}]]
                    ELSE files
        /\ writer' = NoStore
        /\ UNCHANGED <<toolMem, process, sampled, turn, request>>

\* The store's budget or a failed prefill takes a checkpoint away.
RemoveFile(t) ==
    /\ files[t] # NoFile /\ writer.at = "idle"
    /\ files' = [files EXCEPT ![t] = NoFile]
    /\ UNCHANGED <<toolMem, process, sampled, turn, writer, request>>

\* What a reader takes from a checkpoint.
Readable(f) ==
    IF f.size = 0 \/ Cardinality(f.map) > 4 * process.ids THEN {} ELSE f.map

\* A slot resumes from a checkpoint and learns every id in it, in some order.
LoadFile(t) ==
    /\ writer.at = "idle" /\ UsableFile(t)
    /\ \E pairs \in SetToSeqs(Readable(files[t])) :
          toolMem' = PutAll(toolMem, pairs)
    /\ UNCHANGED <<process, sampled, turn, files, writer, request>>

-----------------------------------------------------------------------------
(* A client thread parses a request with one message that has tool calls.  *)

\* The ids of the calls of one message, in the order they were drawn.  An id
\* that no process has drawn is like one that is forgotten.
Messages ==
    {msg \in UNION {[1 .. n -> Id] : n \in 1 .. MaxCalls} :
        \A j, k \in DOMAIN msg : j < k => msg[j] < msg[k]}

AskReplay(c, msg) ==
    /\ \A i \in ToSet(msg) : sampled[i] # NoBlock
    /\ request[c].at = "idle"
    /\ request' = [request EXCEPT ![c] =
          [at |-> "scan", msg |-> msg, left |-> Text,
           seen |-> ToSet(msg) \cap Known(toolMem), answer |-> NoBlock]]
    /\ UNCHANGED <<toolMem, process, sampled, turn, files, writer>>

\* One checkpoint is read, without kv_mu, and the ids of the request are put.
ScanFile(c, t) ==
    LET r == request[c]
        found == IF UsableFile(t)
                 THEN {p \in Readable(files[t]) : p[1] \in ToSet(r.msg)}
                 ELSE {}
        owed == IF UsableFile(t) THEN files[t].owes \cap ToSet(r.msg) ELSE {}
    IN  /\ r.at = "scan" /\ t \in r.left
        /\ \E pairs \in SetToSeqs(found) : toolMem' = PutAll(toolMem, pairs)
        /\ request' = [request EXCEPT ![c].left = @ \ {t},
                                      ![c].seen = @ \cup owed]
        /\ UNCHANGED <<process, sampled, turn, files, writer>>

LookUp(m, i) == IF i \in Known(m) THEN Touch(m, i) ELSE m

\* Mutant: the text of the first call, whatever the others are.
ReplayMutant(m, msg) == m.block[msg[1]]

\* The text of a message: all its ids are known, and by one block.
Replay(m, msg) ==
    LET blocks == {m.block[i] : i \in ToSet(msg)}
    IN  IF Cardinality(blocks) = 1 THEN m.block[msg[1]] ELSE NoBlock

\* Every id is looked up, and so used, also after one is found missing.
AttachText(c) ==
    LET r == request[c]
    IN  /\ r.at = "scan" /\ r.left = {}
        /\ toolMem' = FoldLeft(LookUp, toolMem, r.msg)
        /\ request' = [request EXCEPT ![c].at = "attached",
                                      ![c].answer = Replay(toolMem, r.msg)]
        /\ UNCHANGED <<process, sampled, turn, files, writer>>

\* The request goes on; what becomes of it does not concern the memory.
RenderPrompt(c) ==
    /\ request[c].at = "attached"
    /\ request' = [request EXCEPT ![c] = NoRequest]
    /\ UNCHANGED <<toolMem, process, sampled, turn, files, writer>>

-----------------------------------------------------------------------------

\* The process ends or dies, and another one starts on the same directory.
Restart(s) ==
    /\ process' = s
    /\ toolMem' = EmptyMemory
    /\ turn' = NoTurn /\ writer' = NoStore
    /\ request' = [c \in Client |-> NoRequest]
    /\ UNCHANGED <<sampled, files>>

ToolNext ==
    \/ \E b \in Block, n \in 1 .. MaxCalls : Sample(b, n)
    \/ RememberTurn \/ MeasureMap \/ WriteMap
    \/ \E t \in Text : BeginStore(t) \/ RemoveFile(t) \/ LoadFile(t)
    \/ \E c \in Client : \/ \E msg \in Messages : AskReplay(c, msg)
                         \/ \E t \in Text : ScanFile(c, t)
                         \/ AttachText(c) \/ RenderPrompt(c)
    \/ \E s \in Starts : Restart(s)

ToolSpec == ToolInit /\ [][ToolNext]_toolVars

-----------------------------------------------------------------------------
(* Properties.                                                             *)

\* Nothing can be pushed out of the memory.
Ample ==
    /\ process.ids >= Cardinality(Id)
    /\ process.bytes >= Cardinality(Id) * EntryBytes
                       + MapThenSumSet(LAMBDA b : Length[b], Block)

(* A request gets the very text the model sampled for its calls, also when *)
(* its ids are of different turns or processes, or of another model's      *)
(* checkpoint, or else no text.  And it does get the text of a turn, if no *)
(* id can be pushed out, when each id was in the memory or in a checkpoint *)
(* it looked at: one that was stored while the memory held the id, by this *)
(* process or one before a crash, and not rewritten without it since.      *)
(* (tool_memory_attach_to_messages, ds4_server.c 8937-8990)                *)
ReplayExact ==
    \A c \in Client :
        LET r == request[c]
        IN  r.at = "attached" =>
              /\ r.answer # NoBlock =>
                     \A i \in ToSet(r.msg) : sampled[i] = r.answer
              /\ (/\ Ample /\ ToSet(r.msg) \subseteq r.seen
                  /\ Cardinality({sampled[i] : i \in ToSet(r.msg)}) = 1)
                     => r.answer # NoBlock

(* The memory's counters, which decide what is pruned, say what it holds:  *)
(* blocks shared by several ids are counted once and go with the last one. *)
(* Both limits hold whenever tool_mu is free.                              *)
(* (tool_memory_put_locked, tool_memory_prune_locked, 8671-8726)           *)
MemoryAccounted ==
    LET used == {toolMem.block[i] : i \in Known(toolMem)}
    IN  /\ IsInjective(toolMem.lru) /\ NoBlock \notin used
        /\ \A i \in Id \ Known(toolMem) : toolMem.block[i] = NoBlock
        /\ \A b \in Block :
               toolMem.refs[b] = Cardinality({i \in Id : toolMem.block[i] = b})
        /\ toolMem.bytes = EntryBytes * Len(toolMem.lru)
                           + MapThenSumSet(LAMBDA b : Length[b], used)
        /\ ~OverLimit(toolMem)
=============================================================================
