----------------------------- MODULE SlotReuse -----------------------------
(***************************************************************************)
(* How one resident slot decides what of its live session a new request    *)
(* may reuse: generate_job of ds4_server.c, with the live bindings that    *)
(* the last response left behind (Responses, Anthropic and thinking), the  *)
(* token and text prefix rules, and the checkpoints on disk.               *)
(*                                                                         *)
(* The jobs of a slot run one after the other on its worker, so the state  *)
(* below has one writer.  Text is a sequence of characters.  "a" and "b"   *)
(* are what a client sees; "t" is text of the session that no transcript   *)
(* shows (reasoning, a tool call that was refused and tried again).  The   *)
(* tokens are "a", "b", "t" and the merge "ab": the tokenizer always       *)
(* merges, a sampled continuation need not, so one text has several        *)
(* spellings.  A prompt that holds tool outputs only is the text "o",      *)
(* which begins no full transcript.                                        *)
(*                                                                         *)
(* A client is honest: the tool-call ids of a turn stand for the           *)
(* conversation up to that turn, and the model names them by its visible   *)
(* text.                                                                   *)
(***************************************************************************)
EXTENDS Integers, Sequences, FiniteSets, SequencesExt

CONSTANTS
    Api,           \* the protocols whose requests arrive
    MaxText,       \* bound: visible characters of a conversation
    CtxSize,       \* ctx_size of the session
    Quantum,       \* tokens one prefill step evaluates
    MinTokens,     \* kv.opt.min_tokens
    ColdMaxTokens, \* kv.opt.cold_max_tokens; 0 stores no cold checkpoint
    ContinuedStep, \* the continued interval; 0 stores none on the way
    MaxEntries,    \* checkpoints the disk budget has room for; 0: no disk
    Faults         \* which of "prefill", "eval" and "load" may fail

ASSUME ReuseAssumption ==
    /\ Api \subseteq {"responses", "anthropic", "chat"}
    /\ {MaxText, CtxSize, Quantum, MinTokens} \subseteq Nat \ {0}
    /\ {ColdMaxTokens, ContinuedStep, MaxEntries} \subseteq Nat
    /\ Faults \subseteq {"prefill", "eval", "load"}

VARIABLES
    session,   \* checkpoint: the tokens of the live session
    valid,     \* checkpoint_valid
    responses, \* responses_live
    anthropic, \* anthropic_live
    thinking,  \* thinking_live
    last,      \* continued_last_store_tokens of the slot
    disk,      \* the checkpoint files: a text key and a payload of tokens
    pc,        \* where generate_job is
    req,       \* the request of the job
    target,    \* prompt_for_sync
    cached,    \* tokens of target taken from the session or the disk
    source,    \* cache_source
    path,      \* disk_cache_path: the key of the loaded file
    cold,      \* cold_store_len
    held,      \* suppressed_continued_last
    failed     \* history: a prefill, a rebuild or an evaluation has failed

slotVars == <<session, valid, responses, anthropic, thinking, last>>
jobVars == <<req, target, cached, source, path, cold, held>>
vars == <<slotVars, disk, pc, jobVars, failed>>

-----------------------------------------------------------------------------
(* Text and tokens.                                                        *)

Token == {"a", "b", "ab", "t"}

Spelling == [a |-> <<"a">>, b |-> <<"b">>, ab |-> <<"a", "b">>, t |-> <<"t">>]

Text(tokens) == FlattenSeq([i \in DOMAIN tokens |-> Spelling[tokens[i]]])

\* The canonical tokens of a text: every "a" that a "b" follows is merged.
Push(tokens, c) ==
    IF c = "b" /\ tokens # <<>> /\ Last(tokens) = "a"
    THEN Append(Front(tokens), "ab")
    ELSE Append(tokens, c)

Tokenize(text) ==
    LET upTo[n \in 0 .. Len(text)] ==
            IF n = 0 THEN <<>> ELSE Push(upTo[n - 1], text[n])
    IN  upTo[Len(text)]

Visible(text) ==
    FlattenSeq([i \in DOMAIN text |->
                   IF text[i] = "t" THEN <<>> ELSE <<text[i]>>])

After(prefix, text) == SubSeq(text, Len(prefix) + 1, Len(text))

\* The longest run of tokens that the session and a prompt share.
Common(prompt) ==
    LET shared == {n \in 0 .. Len(session) :
                      /\ n <= Len(prompt)
                      /\ \A i \in 1 .. n : session[i] = prompt[i]}
    IN  IF valid THEN CHOOSE n \in shared : \A m \in shared : m <= n ELSE 0

-----------------------------------------------------------------------------
(* Requests and bindings.                                                  *)

Conversation == SeqOf({"a", "b"}, MaxText) \ {<<>>}

OutputsOnly == <<"o">>

NoIds == <<>>

\* What a request asks to continue, and how it says so.
Request ==
    [api : Api, text : Conversation, ids : {NoIds}, suffix : {<<>>}]
    \cup
    {r \in [api : Api \ {"chat"}, text : Conversation \cup {OutputsOnly},
            ids : Conversation, suffix : Conversation] :
        Len(r.ids) + Len(r.suffix) <= MaxText}

Honest(r) == r.ids = NoIds \/ r.text \in {OutputsOnly, r.ids \o r.suffix}

\* The conversation that an honest request means.
Wanted(r) == IF r.text = OutputsOnly THEN r.ids \o r.suffix ELSE r.text

\* A prompt that fills the context is refused before it becomes a job.
Admitted(r) == Len(Tokenize(r.text)) < CtxSize

NoRequest == [api |-> "none", text |-> <<>>, ids |-> NoIds, suffix |-> <<>>]

Unbound == [valid |-> FALSE, tokens |-> 0, visible |-> <<>>, ids |-> NoIds]

Bound(visible, ids) ==
    [valid |-> TRUE, tokens |-> Len(session), visible |-> visible, ids |-> ids]

\* Mutant: the length of the live session is not compared.
AtFrontierMutant(binding) == binding.valid

AtFrontier(binding) == binding.valid /\ binding.tokens = Len(session)

VisibleKeyMatches(binding, r) ==
    /\ AtFrontier(binding)
    /\ binding.visible # <<>>
    /\ IsStrictPrefix(binding.visible, r.text)

IdsMatch(binding, r) ==
    AtFrontier(binding) /\ r.ids # NoIds /\ r.ids = binding.ids

-----------------------------------------------------------------------------
(* The order in which generate_job looks for something to reuse.           *)

Sources == << "responses-visible", "responses-tool-output",
              "anthropic-tool-output", "unavailable", "memory-rewind",
              "memory-token", "thinking-visible", "memory-text", "none" >>

\* Mutant: any shorter prompt is rewound to, whatever it shares.
RewindTargetMutant(prompt) ==
    IF Len(prompt) > 1 /\ Len(prompt) < Len(session)
    THEN Len(prompt) - 1
    ELSE -1

RewindTarget(prompt) ==
    IF Len(prompt) > 1 /\ Len(prompt) < Len(session)
                       /\ Common(prompt) = Len(prompt)
    THEN Len(prompt) - 1
    ELSE -1

Applies(r, s) ==
    LET prompt == Tokenize(r.text) IN
    CASE s = "responses-visible" ->
            r.api = "responses" /\ VisibleKeyMatches(responses, r)
      [] s = "responses-tool-output" ->
            r.api = "responses" /\ IdsMatch(responses, r)
      [] s = "anthropic-tool-output" ->
            r.api = "anthropic" /\ IdsMatch(anthropic, r)
      [] s = "unavailable" -> r.text = OutputsOnly
      [] s = "memory-rewind" -> RewindTarget(prompt) >= 0
      [] s = "memory-token" ->
            Len(session) > 0 /\ Common(prompt) = Len(session)
      [] s = "thinking-visible" ->
            r.api # "responses" /\ VisibleKeyMatches(thinking, r)
      [] s = "memory-text" ->
            Len(session) > 0 /\ IsPrefix(Text(session), r.text)
      [] s = "none" -> TRUE

SourceOf(r) == Sources[SelectInSeq(Sources, LAMBDA s : Applies(r, s))]

\* The live tokens, and the canonical tokens of the bytes that follow them.
Extended(suffix) == session \o Tokenize(suffix)

\* Mutant: the tokens after a text prefix are those of the whole prompt.
LiveTargetMutant(r, s) ==
    CASE s = "responses-visible" -> Extended(After(responses.visible, r.text))
      [] s \in {"responses-tool-output", "anthropic-tool-output"} ->
            Extended(r.suffix)
      [] s \in {"memory-rewind", "memory-token"} -> Tokenize(r.text)
      [] s = "thinking-visible" -> Extended(After(thinking.visible, r.text))
      [] s = "memory-text" -> session \o After(session, Tokenize(r.text))

LiveTarget(r, s) ==
    CASE s = "responses-visible" -> Extended(After(responses.visible, r.text))
      [] s \in {"responses-tool-output", "anthropic-tool-output"} ->
            Extended(r.suffix)
      [] s \in {"memory-rewind", "memory-token"} -> Tokenize(r.text)
      [] s = "thinking-visible" -> Extended(After(thinking.visible, r.text))
      [] s = "memory-text" -> Extended(After(Text(session), r.text))

-----------------------------------------------------------------------------
(* Checkpoints on disk.                                                    *)

HasKey(d, key) == \E e \in d : e.key = key

\* What a store may leave: nothing new when the key is there; else the entry,
\* or none if the write fails, and always the room the eviction has made.
Stored(d, key, tokens) ==
    IF MaxEntries = 0 \/ Len(tokens) < MinTokens \/ HasKey(d, key)
    THEN {d}
    ELSE LET roomy == IF Cardinality(d) < MaxEntries
                      THEN {d} ELSE {d \ {victim} : victim \in d}
         IN  {d} \cup roomy
             \cup {k \cup {[key |-> key, tokens |-> tokens]} : k \in roomy}

\* Mutant: a binding names the session whatever its length has become.
CurrentKeyMutant ==
    IF responses.valid /\ responses.visible # <<>>
    THEN responses.visible
    ELSE IF thinking.valid /\ thinking.visible # <<>>
         THEN thinking.visible
         ELSE Text(session)

\* kv_cache_store_current keys a session by the transcript that is bound to
\* its frontier, and by its own text when there is none.
CurrentKey ==
    IF AtFrontier(responses) /\ responses.visible # <<>>
    THEN responses.visible
    ELSE IF AtFrontier(thinking) /\ thinking.visible # <<>>
         THEN thinking.visible
         ELSE Text(session)

\* A session whose evaluation failed cannot be staged.
StoreCurrent(d) ==
    IF valid THEN Stored(d, CurrentKey, session) ELSE {d}

\* The entries whose key is the longest that begins a text.
Found(d, text) ==
    LET hits == {e \in d : IsPrefix(e.key, text)}
    IN  {e \in hits : \A f \in hits : Len(f.key) <= Len(e.key)}

\* A payload that fills the context is refused when it is read back.
Fits(e) == Len(e.tokens) < CtxSize

\* The frontier at which a continued checkpoint is due, if tokens is one.
Due(tokens) ==
    /\ ContinuedStep > 0 /\ tokens >= MinTokens
    /\ tokens % ContinuedStep = 0
    /\ tokens > last

Noted(tokens, ok) == IF ok /\ tokens > last THEN tokens ELSE last

\* kv_cache_maybe_store_continued, once the session is `tokens`.
StoreContinued(tokens) ==
    IF Due(Len(tokens))
    THEN \E d \in Stored(disk, Text(tokens), tokens) :
            /\ disk' = d
            /\ last' = Noted(Len(tokens), HasKey(d, Text(tokens)))
    ELSE UNCHANGED <<disk, last>>

-----------------------------------------------------------------------------
Init ==
    /\ session = <<>> /\ valid = FALSE
    /\ responses = Unbound /\ anthropic = Unbound /\ thinking = Unbound
    /\ last = 0 /\ disk = {} /\ pc = "idle"
    /\ req = NoRequest /\ target = <<>> /\ cached = 0 /\ source = "none"
    /\ path = <<>> /\ cold = 0 /\ held = -1
    /\ failed = FALSE

EndJob ==
    /\ pc' = "idle"
    /\ req' = NoRequest /\ target' = <<>> /\ cached' = 0 /\ source' = "none"
    /\ path' = <<>> /\ cold' = 0 /\ held' = -1

\* A job whose prompt continues the live session, with no look at the disk.
StartLive(r) ==
    LET s == SourceOf(r) IN
    /\ pc = "idle" /\ s \notin {"unavailable", "none"}
    /\ source' = s /\ req' = r /\ target' = LiveTarget(r, s)
    /\ IF s = "memory-rewind"
       THEN LET n == RewindTarget(Tokenize(r.text)) IN
            cached' = n /\ session' = SubSeq(session, 1, n)
       ELSE cached' = Len(session) /\ session' = session
    /\ pc' = "prefill" /\ path' = <<>> /\ cold' = 0 /\ held' = -1
    /\ UNCHANGED <<valid, responses, anthropic, thinking, last, disk>>

\* The lengths a cold checkpoint may be taken at: the anchor before the last
\* user turn, the aligned length, or all of the prompt.
ColdLengths(prompt) ==
    IF /\ MaxEntries > 0 /\ ColdMaxTokens > 0
       /\ Len(prompt) \in MinTokens .. ColdMaxTokens
    THEN MinTokens .. Len(prompt)
    ELSE {0}

\* Nothing is loaded: the prompt is evaluated from its first token, and a
\* cold checkpoint is planned.  A continued one at the same frontier is
\* held back.
StartCold(r) ==
    LET prompt == Tokenize(r.text) IN
    /\ target' = prompt /\ cached' = 0 /\ source' = "none" /\ path' = <<>>
    /\ cold' \in ColdLengths(prompt)
    /\ LET due == /\ ContinuedStep > 0 /\ cold' >= MinTokens
                  /\ cold' % ContinuedStep = 0 IN
       /\ held' = IF due THEN 0 ELSE -1
       /\ last' = IF due THEN cold' ELSE 0
    /\ pc' = IF cold' \in 1 .. Len(prompt) - 1 THEN "cold" ELSE "prefill"

\* The session becomes the payload of the longest key that begins the text.
StartLoaded(r, e) ==
    /\ session' = e.tokens /\ valid' = TRUE
    /\ target' = e.tokens \o Tokenize(After(e.key, r.text))
    /\ cached' = Len(e.tokens) /\ source' = "disk-text" /\ path' = e.key
    /\ cold' = 0 /\ held' = -1 /\ last' = 0
    /\ pc' = "prefill"

\* No part of the live session fits: it is stored for its own conversation,
\* then the disk is searched.
StartMiss(r) ==
    /\ pc = "idle" /\ SourceOf(r) = "none"
    /\ req' = r
    /\ disk' \in StoreCurrent(disk)
    /\ \/ /\ Found(disk', r.text) = {}
          /\ StartCold(r) /\ UNCHANGED <<session, valid>>
       \/ /\ \E e \in Found(disk', r.text) : "load" \in Faults \/ ~Fits(e)
          /\ StartCold(r) /\ session' = <<>> /\ valid' = FALSE
       \/ \E e \in Found(disk', r.text) : Fits(e) /\ StartLoaded(r, e)
    /\ UNCHANGED <<responses, anthropic, thinking>>

-----------------------------------------------------------------------------
(* Prefill: ds4_session_sync to a prompt, a quantum at a time.             *)

Goal == IF pc = "cold" THEN SubSeq(target, 1, cold) ELSE target

InSync == pc \in {"cold", "prefill", "rebuild"}

Kept == IF valid /\ IsPrefix(session, Goal) THEN session ELSE <<>>

Reach == IF Len(Kept) + Quantum < Len(Goal)
         THEN Len(Kept) + Quantum ELSE Len(Goal)

\* One progress step.  A session that is no prefix is rebuilt from zero.
Prefill ==
    /\ InSync /\ ~(valid /\ session = Goal)
    /\ Reach < CtxSize
    /\ session' = SubSeq(Goal, 1, Reach) /\ valid' = TRUE
    /\ IF Reach > cached THEN StoreContinued(SubSeq(Goal, 1, Reach))
       ELSE UNCHANGED <<disk, last>>
    /\ UNCHANGED <<responses, anthropic, thinking, pc, jobVars>>

\* Mutant: a frontier held back for a write that failed stays held back.
StoreColdMutant(next) ==
    \E d \in Stored(disk, Text(session), session) :
        /\ disk' = d
        /\ last' = IF HasKey(d, Text(session)) THEN Noted(cold, TRUE) ELSE last
        /\ held' = -1
        /\ pc' = next

\* The prefix of the prompt is there: it is stored as a cold checkpoint.
StoreCold(next) ==
    \E d \in Stored(disk, Text(session), session) :
        /\ disk' = d
        /\ IF HasKey(d, Text(session))
           THEN last' = Noted(cold, TRUE)
           ELSE last' = IF held >= 0 /\ last = cold THEN held ELSE last
        /\ held' = -1
        /\ pc' = next

ColdDone ==
    /\ pc = "cold" /\ valid /\ session = Goal
    /\ StoreCold("prefill")
    /\ UNCHANGED <<session, valid, responses, anthropic, thinking,
                   req, target, cached, source, path, cold>>

\* The prompt is there: the bindings this request did not continue go.
PrefillDone ==
    /\ pc = "prefill" /\ valid /\ session = target
    /\ responses' = IF source \in {"responses-visible", "responses-tool-output"}
                    THEN responses ELSE Unbound
    /\ anthropic' = IF source = "anthropic-tool-output"
                    THEN anthropic ELSE Unbound
    /\ thinking' = IF source = "thinking-visible" THEN thinking ELSE Unbound
    /\ StoreContinued(session)
    /\ pc' = IF cold = Len(target) THEN "coldEnd" ELSE "decode"
    /\ UNCHANGED <<session, valid, jobVars>>

ColdEnd ==
    /\ pc = "coldEnd"
    /\ StoreCold("decode")
    /\ UNCHANGED <<session, valid, responses, anthropic, thinking,
                   req, target, cached, source, path, cold>>

\* A sync that has nothing to do, or that has not come to its end, may fail.
Unfinished == session # Goal \/ ~valid \/ cached >= Len(Goal)

\* What a sync leaves that fails after the progress it made: the tokens that
\* it has evaluated, or a session whose state can no longer be used.
Broken ==
    \/ /\ "prefill" \in Faults \/ Reach >= CtxSize
       /\ UNCHANGED <<session, valid>>
    \/ "prefill" \in Faults /\ valid' = FALSE /\ session' \in {session, <<>>}

\* The client is gone, the server stops or the executor fails.  A file that
\* was loaded for this prompt is removed and the session is dropped; the
\* bindings are left as they are.
PrefillFailed ==
    /\ pc \in {"cold", "prefill"} /\ Unfinished
    /\ "prefill" \in Faults \/ Reach >= CtxSize
    /\ IF path # <<>>
       THEN /\ disk' = {e \in disk : e.key # path}
            /\ session' = <<>> /\ valid' = FALSE /\ last' = 0
       ELSE /\ Broken
            /\ last' = IF held >= 0 /\ last = cold THEN held ELSE last
            /\ UNCHANGED disk
    /\ EndJob
    /\ UNCHANGED <<responses, anthropic, thinking>>

-----------------------------------------------------------------------------
(* Decode, and what the response leaves behind.                            *)

Response == After(target, session)

Visibly(tokens) == Visible(Text(tokens))

\* Decoding stops before the conversation outgrows MaxText (the bound).
Decode ==
    /\ pc = "decode" /\ valid /\ Len(session) < CtxSize
    /\ \E token \in Token :
          /\ Len(Visibly(session)) + Len(Visible(Spelling[token])) <= MaxText
          /\ session' = Append(session, token)
    /\ StoreContinued(session)
    /\ UNCHANGED <<valid, responses, anthropic, thinking, pc, jobVars>>

\* The evaluation of a token fails: the response ends as an error.
DecodeFailed ==
    /\ pc = "decode" /\ valid /\ "eval" \in Faults
    /\ valid' = FALSE
    /\ UNCHANGED <<session, responses, anthropic, thinking, last, disk, pc,
                   jobVars>>

\* The client has gone: generate_job returns and remembers nothing.
Disconnected ==
    /\ pc = "decode" /\ EndJob
    /\ UNCHANGED <<slotVars, disk>>

\* How a response may end: with tool calls, with a final answer whose
\* reasoning later prompts leave out ("thought") or keep ("stop"), at the
\* token limit, with an error.
Outcomes == IF valid THEN {"tool_calls", "thought", "stop", "length", "error"}
                     ELSE {"tool_calls", "error"}

Answered == {"tool_calls", "thought", "stop"}

\* The conversation after the response, and as the prompt spelled it.
Continued == Wanted(req) \o Visibly(Response)

Transcript == req.text \o Visibly(Response)

Remember(outcome) ==
    LET ids == IF outcome = "tool_calls" THEN Continued ELSE NoIds IN
    /\ responses' = IF req.api # "responses" THEN responses
                    ELSE IF outcome \in Answered
                         THEN Bound(Transcript, ids) ELSE Unbound
    /\ anthropic' = IF req.api # "anthropic" THEN anthropic
                    ELSE IF outcome = "tool_calls"
                         THEN Bound(<<>>, ids) ELSE Unbound
    /\ thinking' = IF outcome = "thought" THEN Bound(Transcript, NoIds)
                   ELSE Unbound

\* The text that replaces the response when the calls are rendered again,
\* and its canonical tokens, if the session is to be rewritten to them.
Rendered(said) == req.text \o said

Rewrites(said) ==
    LET canonical == Tokenize(Rendered(said)) IN
    /\ req.api # "responses"
    /\ Text(session) # Rendered(said)
    /\ Len(canonical) < CtxSize
    /\ Common(canonical) >= Len(Tokenize(req.text))

Finish ==
    /\ pc = "decode"
    /\ \E outcome \in Outcomes :
          /\ Remember(outcome)
          /\ pc' = IF outcome = "error" THEN "end" ELSE "store"
    /\ UNCHANGED <<session, valid, last, disk, jobVars>>

\* The sampled bytes of a tool call are not known by its id: the session is
\* made to hold what the next request will render.  A tail that differs is
\* rebuilt from a checkpoint on disk or from zero.
FinishRewriting ==
    /\ pc = "decode"
    /\ Remember("tool_calls")
    /\ \E said \in {Text(Response), Visibly(Response)} :
          /\ Rewrites(said)
          /\ req' = [req EXCEPT !.text = Rendered(said)]
          /\ LET canonical == Tokenize(Rendered(said)) IN
             \/ /\ Common(canonical) = Len(session)
                /\ target' = canonical /\ cached' = Len(canonical)
                /\ UNCHANGED <<session, valid>>
             \/ /\ Common(canonical) < Len(session)
                /\ \A e \in Found(disk, Rendered(said)) :
                      "load" \in Faults \/ ~Fits(e)
                /\ session' = <<>> /\ valid' = FALSE
                /\ target' = canonical /\ cached' = 0
             \/ /\ Common(canonical) < Len(session)
                /\ \E e \in Found(disk, Rendered(said)) :
                      /\ Fits(e)
                      /\ session' = e.tokens /\ valid' = TRUE
                      /\ target' = e.tokens \o
                                   Tokenize(After(e.key, Rendered(said)))
                      /\ cached' = Len(e.tokens)
    /\ pc' = "rebuild"
    /\ path' = <<>>
    /\ UNCHANGED <<last, disk, source, cold, held>>

RebuildDone ==
    /\ pc = "rebuild" /\ valid /\ session = target
    /\ pc' = "store"
    /\ UNCHANGED <<slotVars, disk, jobVars>>

\* The failed rebuild leaves what it has evaluated, and the job goes on.
RebuildFailed ==
    /\ pc = "rebuild" /\ Unfinished /\ Broken
    /\ pc' = "store"
    /\ UNCHANGED <<responses, anthropic, thinking, last, disk, jobVars>>

\* kv_cache_store_response_end.
StoreResponse ==
    /\ pc = "store"
    /\ \E d \in StoreCurrent(disk) :
          /\ disk' = d
          /\ last' = Noted(Len(session), HasKey(d, CurrentKey))
    /\ EndJob
    /\ UNCHANGED <<session, valid, responses, anthropic, thinking>>

ErrorEnd ==
    /\ pc = "end" /\ EndJob
    /\ UNCHANGED <<slotVars, disk>>

Serve ==
    \/ \E r \in {q \in Request : Honest(q) /\ Admitted(q)} :
          StartLive(r) \/ StartMiss(r)
    \/ Prefill \/ ColdDone \/ PrefillDone \/ ColdEnd
    \/ Decode \/ Disconnected
    \/ Finish \/ FinishRewriting \/ RebuildDone \/ StoreResponse \/ ErrorEnd

Fail == PrefillFailed \/ DecodeFailed \/ RebuildFailed

Next == (Serve /\ UNCHANGED failed) \/ (Fail /\ failed' = TRUE)

Spec == Init /\ [][Next]_vars

-----------------------------------------------------------------------------
\* Every variable has its type; the disk never outgrows its budget.
TypeOK ==
    /\ session \in Seq(Token) /\ Len(session) <= CtxSize
    /\ valid \in BOOLEAN
    /\ \A b \in {responses, anthropic, thinking} :
          b.valid \in BOOLEAN /\ b.tokens \in 0 .. CtxSize
    /\ last \in 0 .. CtxSize /\ cached \in 0 .. CtxSize
    /\ Cardinality(disk) <= MaxEntries
    /\ pc \in {"idle", "cold", "prefill", "coldEnd", "decode", "rebuild",
               "store", "end"}
    /\ source \in Range(Sources) \cup {"disk-text"}

\* The prompt that a job evaluates shows the conversation the client means.
Faithful ==
    InSync => Visibly(target) = Visible(Wanted(req))

\* A checkpoint on disk holds the conversation that its key shows.
\* (kv_cache_store_current, ds4_server.c 9705-9750)
DiskFaithful ==
    \A e \in disk :
        Head(e.key) # "o" => Visibly(e.tokens) = Visible(e.key)

\* Until a prefill, a rebuild or an evaluation fails, the prompt that a job
\* evaluates shows the conversation the client means, whichever rule found
\* the part of it that is reused.  (generate_job, ds4_server.c 11340-11466)
FaithfulUntilFailure == failed \/ Faithful

\* Until then, a checkpoint on disk holds the conversation that its key
\* shows, whatever binding lent the key.
\* (kv_cache_store_current, ds4_server.c 9705-9750)
DiskUntilFailure == failed \/ DiskFaithful

\* Until then, what is reported as read from the cache is not evaluated
\* again.  (cache_read_tokens and the memory plan, ds4_server.c 11482-11494)
CachedIsKept ==
    (pc \in {"cold", "prefill"} /\ ~failed) =>
        /\ valid \/ cached = 0
        /\ cached <= Len(session)
        /\ IsPrefix(SubSeq(target, 1, cached), session)

\* A frontier counts as stored for good only in a step that leaves its
\* checkpoint on disk: one held back for a cold checkpoint that could not be
\* written is due again.  (ds4_server.c 11582-11590, 11611-11620, 11675-11684)
FrontierBacked ==
    [][(held' < 0 /\ last' > 0 /\ (last' > last \/ held >= 0))
          => \E key \in {Text(session), Text(session'), CurrentKey} :
                HasKey(disk', key)]_vars

\* The rules that compare tokens or text are right after any failure: what
\* the job evaluates spells the text of the request, for none of them
\* depends on a binding.  (ds4_server.c 11393-11466)
PlainSources == {"memory-rewind", "memory-token", "memory-text", "none"}

PlainFaithful ==
    (pc \in {"cold", "prefill"} /\ source \in PlainSources)
        => Text(target) = req.text
=============================================================================
