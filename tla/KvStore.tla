------------------------------ MODULE KvStore ------------------------------
(***************************************************************************)
(* The directory of KV checkpoints (ds4_kvstore.c): one file for each      *)
(* text, named by the hash of the text, under a budget of bytes.  A        *)
(* checkpoint is written to a temporary file and renamed; the trailer of   *)
(* one that exists is rewritten in place; room is made first, by removing  *)
(* files.  kv_mu lets one operation run at a time, so one program counter  *)
(* follows it, and the process may die between any two of its calls.  A    *)
(* restart may bring another model or another context size.                *)
(*                                                                         *)
(* A text stands for its hash.  Time is in seconds: several operations may *)
(* see the same clock.                                                     *)
(***************************************************************************)
EXTENDS Integers, Sequences, FiniteSets, SequencesExt, FiniteSetsExt

CONSTANTS
    Keys,          \* the texts of checkpoints and of prompts
    Models,        \* model id and quantisation of the routed experts
    Contexts,      \* the context sizes the server may be started with
    Swa,           \* DS4_N_SWA, rows of the raw window
    Hidden,        \* tokens that the text of a checkpoint may leave out
    TrailerSizes,  \* what the tool map and route heat may take in a file
    Budget,        \* budget_bytes
    StrictLru,     \* DS4_KVSTORE_STRICT_LRU
    Faults,        \* calls that may fail: stage, write, unlink, touch
    MaxClock,      \* bound on the clock
    NoKey,         \* no text
    Missing        \* no file

ASSUME StoreAssumption ==
    /\ IsFiniteSet(Keys) /\ NoKey \notin Keys
    /\ \A k \in Keys : k \in Seq(Range(k))
    /\ Hidden \subseteq Nat /\ TrailerSizes \subseteq Nat
    /\ Contexts \subseteq Nat /\ {Swa, Budget, MaxClock} \subseteq Nat
    /\ StrictLru \in BOOLEAN
    /\ Faults \subseteq {"stage", "write", "unlink", "touch"}

VARIABLES
    disk,      \* the file under each text's name
    settings,  \* model and context of the running or the last process
    clock,     \* time(NULL)
    pc,        \* the next step of the operation that holds kv_mu
    key,       \* the text it stores
    new,       \* the file it writes
    entries,   \* kc->entry: the texts whose files it may still remove
    total,     \* the bytes it believes are used
    refused,   \* a removal failed, and no later pass has made room since
    loaded,    \* the texts whose files feed a prefill that is not done
    stored,    \* the text of the last store, if that reported success
    lastUse    \* when each text was last stored or loaded

opVars == <<key, new, entries, total>>
history == <<loaded, stored, lastUse, refused>>
vars == <<disk, settings, clock, opVars, pc, history>>

Settings == [model : Models, ctx : Contexts]

File == [model : Models, ctx : Contexts, tokens : Nat, trailer : Nat,
         created : Nat, used : Nat, whole : BOOLEAN]

ASSUME MissingAssumption == Missing \notin File

-----------------------------------------------------------------------------
(* Sizes, and who may use a file.                                          *)

\* Header, text, payload and trailer.
Size(k, f) == 1 + Len(k) + f.tokens + f.trailer

\* The size with 1% of headroom, rounded up.
Required(bytes) == bytes + (bytes + 99) \div 100

\* The files that kv_cache_refresh lists: a temporary file has another name.
Listed == {k \in Keys : disk[k] # Missing /\ disk[k].whole}

ListedBytes == MapThenSumSet(LAMBDA k : Size(k, disk[k]), Listed)

CheckpointBytes ==
    MapThenSumSet(LAMBDA k : Size(k, disk[k]) - disk[k].trailer, Listed)

\* What ds4_kvstore_find_text_prefix accepts.
Usable(f) == f.model = settings.model /\ f.ctx <= settings.ctx

\* The longest usable text that begins a prompt, or none.
Found(prompt) ==
    LET hits == {k \in Listed : Usable(disk[k]) /\ IsPrefix(k, prompt)}
    IN  IF hits = {} THEN NoKey
        ELSE CHOOSE k \in hits : \A h \in hits : Len(h) <= Len(k)

Window(ctx) == IF Swa > ctx THEN ctx ELSE Swa

\* What ds4_session_load_payload accepts.
Loadable(f) ==
    /\ f.ctx <= settings.ctx /\ f.tokens < settings.ctx
    /\ Window(f.ctx) = Window(settings.ctx)

\* Mutant: a checkpoint of a larger context is taken for one that serves.
CompatibleMutant(f) == f.model = settings.model

\* A file that a store of its text may leave as it is.
Compatible(f) == f.model = settings.model /\ f.ctx <= settings.ctx

-----------------------------------------------------------------------------

Init ==
    /\ disk = [k \in Keys |-> Missing]
    /\ settings \in Settings
    /\ clock = 1
    /\ pc = "idle" /\ key = NoKey /\ new = Missing
    /\ entries = {} /\ total = 0
    /\ loaded = {} /\ stored = NoKey
    /\ lastUse = [k \in Keys |-> 0] /\ refused = FALSE

Tick ==
    /\ clock < MaxClock
    /\ clock' = clock + 1
    /\ UNCHANGED <<disk, settings, opVars, pc, history>>

\* The operation is over, having used the text k at a time, or having failed.
Return(k, time) ==
    /\ pc' = "idle" /\ key' = NoKey /\ new' = Missing
    /\ entries' = {} /\ total' = 0
    /\ stored' = k
    /\ lastUse' = IF k = NoKey THEN lastUse ELSE [lastUse EXCEPT ![k] = time]

-----------------------------------------------------------------------------
(* ds4_kvstore_evict.                                                      *)

\* Mutant: room is made without counting the file to come.
TargetMutant == Budget

Target == Budget - IF new = Missing THEN 0 ELSE Size(key, new)

LruBefore(a, b) ==
    \/ disk[a].used < disk[b].used
    \/ disk[a].used = disk[b].used /\ disk[a].created < disk[b].created

\* The weighted score is a matter of hits, age and density: any entry.
Victims ==
    IF StrictLru THEN {v \in entries : \A e \in entries : ~LruBefore(e, v)}
    ELSE entries


\* What is believed to be used once a file is gone.
TotalWithout(v) == total - Size(v, disk[v])

EvictOne ==
    /\ pc = "evict" /\ total > Target
    /\ \E v \in Victims :
          /\ entries' = entries \ {v}
          /\ \/ /\ disk' = [disk EXCEPT ![v] = Missing]
                /\ total' = TotalWithout(v)
                /\ UNCHANGED refused
             \/ /\ "unlink" \in Faults /\ total' = 0 /\ refused' = TRUE
                /\ UNCHANGED disk
    /\ UNCHANGED <<settings, clock, pc, key, new, loaded, stored, lastUse>>

EvictEnd ==
    /\ pc = "evict"
    /\ total <= Target \/ entries = {}
    /\ pc' = IF key = NoKey THEN "idle" ELSE "create"
    /\ entries' = {} /\ total' = 0
    /\ refused' = (refused /\ entries # Listed)
    /\ UNCHANGED <<disk, settings, clock, key, new, loaded, stored, lastUse>>

-----------------------------------------------------------------------------
(* ds4_kvstore_store_live_prefix_text.                                     *)

\* The text is there already: only its trailer is made anew, if there is one.
StoreExisting(k) ==
    /\ pc = "idle" /\ k \in Listed /\ Compatible(disk[k])
    /\ \E n \in TrailerSizes :
          IF n = 0
          THEN Return(k, clock) /\ UNCHANGED disk
          ELSE /\ disk' = [disk EXCEPT ![k].trailer = 0]
               /\ new' = [disk[k] EXCEPT !.trailer = n]
               /\ pc' = "append" /\ key' = k /\ stored' = NoKey
               /\ UNCHANGED <<entries, total, lastUse>>
    /\ UNCHANGED <<settings, clock, loaded, refused>>

\* The store is a success whether or not the trailer was written.
AppendTrailer ==
    /\ pc = "append"
    /\ \/ disk' = [disk EXCEPT ![key].trailer = new.trailer,
                               ![key].used = clock]
       \/ "write" \in Faults /\ UNCHANGED disk
    /\ Return(key, clock)
    /\ UNCHANGED <<settings, clock, loaded, refused>>

\* A file that this process cannot use is removed at once.
Replaceable(k) == k \in Listed /\ ~Compatible(disk[k])

\* The text is new: its payload is staged and measured, then room is made.
StoreNew(k) ==
    /\ pc = "idle" /\ ~(k \in Listed /\ Compatible(disk[k]))
    /\ \/ disk' = [disk EXCEPT ![k] = IF Replaceable(k) THEN Missing ELSE @]
       \/ "unlink" \in Faults /\ UNCHANGED disk
    /\ \/ "stage" \in Faults /\ Return(NoKey, 0)
       \/ \E hidden \in Hidden, n \in TrailerSizes :
             LET f == [model |-> settings.model, ctx |-> settings.ctx,
                       tokens |-> Len(k) + hidden, trailer |-> n,
                       created |-> 0, used |-> 0, whole |-> FALSE]
             IN  /\ f.tokens <= settings.ctx
                 /\ IF Required(Size(k, f)) > Budget
                    THEN Return(NoKey, 0)
                    ELSE /\ pc' = "evict" /\ key' = k /\ new' = f
                         /\ stored' = NoKey
                         /\ entries' = Listed'
                         /\ total' = ListedBytes'
                         /\ UNCHANGED lastUse
    /\ UNCHANGED <<settings, clock, loaded, refused>>

CreateTmp ==
    /\ pc = "create"
    /\ \/ /\ pc' = "write"
          /\ new' = [new EXCEPT !.created = clock, !.used = clock]
          /\ UNCHANGED <<key, entries, total, stored, lastUse>>
       \/ "write" \in Faults /\ Return(NoKey, 0)
    /\ UNCHANGED <<disk, settings, clock, loaded, refused>>

\* Mutant: the result of the last write is ignored.
WrittenMutant(ok) == TRUE

\* Whether every part of the file was written, flushed and closed.
Written(ok) == ok

WriteTmp ==
    /\ pc = "write"
    /\ \E ok \in {TRUE} \cup IF "write" \in Faults THEN {FALSE} ELSE {} :
          /\ new' = [new EXCEPT !.whole = ok]
          /\ pc' = IF Written(ok) THEN "rename" ELSE "remove"
    /\ UNCHANGED <<disk, settings, clock, key, entries, total, history>>

RenameTmp ==
    /\ pc = "rename"
    /\ \/ disk' = [disk EXCEPT ![key] = new] /\ Return(key, new.created)
       \/ /\ "write" \in Faults /\ pc' = "remove"
          /\ UNCHANGED <<disk, opVars, stored, lastUse>>
    /\ UNCHANGED <<settings, clock, loaded, refused>>

RemoveTmp ==
    /\ pc = "remove"
    /\ Return(NoKey, 0)
    /\ UNCHANGED <<disk, settings, clock, loaded, refused>>

-----------------------------------------------------------------------------
(* ds4_kvstore_try_load_text, and what a failed prefill does to its file.  *)

\* Mutant: the header is written back as it was read.
TouchedMutant(f) == f

\* What touching a file leaves of it.
Touched(f) == [f EXCEPT !.used = clock]

\* A file that cannot be loaded stays, and the slot begins without it.
Load(prompt) ==
    LET k == Found(prompt) IN
    /\ pc = "idle" /\ k # NoKey /\ Loadable(disk[k])
    /\ \/ disk' = [disk EXCEPT ![k] = Touched(@)]
       \/ "touch" \in Faults /\ UNCHANGED disk
    /\ loaded' = loaded \cup {k}
    /\ lastUse' = [lastUse EXCEPT ![k] = clock]
    /\ UNCHANGED <<settings, clock, opVars, pc, stored, refused>>

\* The prefill that began with the file is complete.
PrefillDone(k) ==
    /\ k \in loaded
    /\ loaded' = loaded \ {k}
    /\ UNCHANGED <<disk, settings, clock, opVars, pc, stored, lastUse,
                   refused>>

\* The prefill failed: what is under the name now is removed.
DiscardFailed(k) ==
    /\ pc = "idle" /\ k \in loaded
    /\ loaded' = loaded \ {k}
    /\ \/ disk' = [disk EXCEPT ![k] = Missing]
       \/ "unlink" \in Faults /\ UNCHANGED disk
    /\ stored' = NoKey
    /\ UNCHANGED <<settings, clock, opVars, pc, lastUse, refused>>

-----------------------------------------------------------------------------
(* The process ends, or dies at any point, and another one starts.         *)

\* The file of a store under way stays under its temporary name, which holds
\* the process id: no later process lists, counts or removes it.
Crash ==
    /\ pc # "down"
    /\ pc' = "down" /\ key' = NoKey /\ new' = Missing
    /\ entries' = {} /\ total' = 0 /\ loaded' = {}
    /\ UNCHANGED <<disk, settings, clock, stored, lastUse, refused>>

\* ds4_kvstore_open makes the directory fit the budget.
Open(s) ==
    /\ pc = "down"
    /\ settings' = s
    /\ stored' = IF s # settings \/ ListedBytes > Budget THEN NoKey ELSE stored
    /\ pc' = "evict" /\ entries' = Listed /\ total' = ListedBytes
    /\ UNCHANGED <<disk, clock, key, new, loaded, lastUse, refused>>

-----------------------------------------------------------------------------

Next ==
    \/ Tick \/ EvictOne \/ EvictEnd \/ AppendTrailer
    \/ CreateTmp \/ WriteTmp \/ RenameTmp \/ RemoveTmp \/ Crash
    \/ \E k \in Keys : \/ StoreExisting(k) \/ StoreNew(k) \/ Load(k)
                       \/ PrefillDone(k) \/ DiscardFailed(k)
    \/ \E s \in Settings : Open(s)

Spec == Init /\ [][Next]_vars

-----------------------------------------------------------------------------
(* Properties.                                                             *)

(* Types: a file that is being written belongs to a store under way, and   *)
(* an eviction never believes that more is used than there is.             *)
TypeOK ==
    /\ disk \in [Keys -> File \cup {Missing}]
    /\ clock \in 1 .. MaxClock
    /\ settings \in Settings
    /\ pc \in {"down", "idle", "append", "evict", "create", "write",
               "rename", "remove"}
    /\ key \in Keys \cup {NoKey} /\ new \in File \cup {Missing}
    /\ (key = NoKey) = (new = Missing)
    /\ pc \in {"append", "create", "write", "rename", "remove"} => key # NoKey
    /\ entries \subseteq Keys /\ total \in Nat /\ refused \in BOOLEAN
    /\ total <= ListedBytes
    /\ loaded \subseteq Keys /\ stored \in Keys \cup {NoKey}
    /\ lastUse \in [Keys -> 0 .. MaxClock]

(* Whatever call fails and wherever the process dies, no checkpoint's name *)
(* is ever given to a part of a file: such a file would hide from the      *)
(* listing, and its bytes from the budget, until its text is stored again. *)
PathsAreWhole == \A k \in Keys : disk[k] # Missing => disk[k].whole

(* Headers, texts and payloads of the listed files are within the budget   *)
(* at every moment, before, during and after a store, and through a crash. *)
(* A budget pass gives up when a file cannot be removed, and the store     *)
(* goes on; the next pass that removes what it wants to makes up for that. *)
(* Trailers are not counted: one that is rewritten may grow with no budget *)
(* pass, and a crash in the middle of that takes it away, so that the next *)
(* rewrite makes the directory larger than the pass before had allowed.    *)
BudgetHeld == ~refused => CheckpointBytes <= Budget

(* A store that reported success can be found and loaded: the file that    *)
(* was already there serves this model and this context, and no budget     *)
(* pass removed it, not even that of a restart with the same settings over *)
(* a directory that fits.  The exception is a session that filled its      *)
(* context: its payload is accepted by the store, refused by the loader.   *)
StoredIsServed ==
    (pc = "idle" /\ stored # NoKey) =>
        /\ Found(stored) = stored
        /\ disk[stored].tokens < settings.ctx => Loadable(disk[stored])

(* Under strict LRU a file that is removed for room was not used after one *)
(* that stays, where a load and a store are uses, also those of an earlier *)
(* process.                                                                *)
LruStep ==
    \A v, k \in Keys :
        (pc = "evict" /\ v \in entries \ entries' /\ k \in entries')
            => lastUse[v] <= lastUse[k]
=============================================================================
