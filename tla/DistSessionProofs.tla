------------------------- MODULE DistSessionProofs -------------------------
(***************************************************************************)
(* A call of a coordinator's session goes by workers that are registered,  *)
(* and what it answers is of the tokens it was asked for.                  *)
(*                                                                         *)
(* The plan outlives the call that built it, and the registry changes      *)
(* without the caller, so the first invariant is about the flag the two    *)
(* share: while the generation of the plan is the registry's, its entries  *)
(* are too.  Between forgetting a route and building the next, the plan is *)
(* empty and its generation may still be right; no call starts from there. *)
(*                                                                         *)
(* The second invariant follows the work of a call: its chunks keep their  *)
(* order from hop to hop, none is taken for another's, and what was given  *)
(* up belongs to no later call.                                            *)
(***************************************************************************)
EXTENDS DistSession, SequenceTheorems, TLAPS

Registered ==
    /\ registry \in [Worker -> [up : BOOLEAN, port : Int]]
    /\ port \in [Worker -> Int]

PlanIsCurrent(p) == \A h \in 1..Slices : p[h].worker \in Worker /\ Current(p[h])

RouteInv ==
    /\ Registered
    /\ pc # "reroute" /\ UpToDate => PlanIsCurrent(plan)

-----------------------------------------------------------------------------
(* A connection that goes leaves the entries of the registry where they are. *)
LEMMA CutKeepsEntries ==
    ASSUME Registered, NEW ws, CutEntries(ws)
    PROVE  /\ registry' \in [Worker -> [up : BOOLEAN, port : Int]]
           /\ \A w \in Worker : registry'[w].port = registry[w].port
  BY DEF Registered, CutEntries

(* What leaves all of it alone. *)
LEMMA RouteUnchanged ==
    ASSUME RouteInv, UNCHANGED <<registry, port, plan, planReady, planFresh>>,
           pc = "reroute" => pc' = "reroute"
    PROVE  RouteInv'
  BY DEF RouteInv, Registered, UpToDate, PlanIsCurrent, Current

(* A plan is made of entries of the registry. *)
LEMMA BuiltFromRegistry ==
    ASSUME Registered, NEW r \in Routes
    PROVE  PlanIsCurrent(PlanOf(r))
  BY DEF Registered, Routes, PlanOf, PlanIsCurrent, Current

(* Registering and removing a worker put the generation ahead of the plan's. *)
LEMMA GenerationMoves ==
    ASSUME RouteInv, NEW w \in Worker, Register(w) \/ RemoveWorker(w)
    PROVE  RouteInv' /\ UNCHANGED pc
<1>1. CASE Register(w)
  <2>1. registry' \in [Worker -> [up : BOOLEAN, port : Int]]
    BY <1>1 DEF RouteInv, Registered, Register
  <2> QED
    BY <1>1, <2>1 DEF RouteInv, Registered, Register, UpToDate, callVars
<1>2. CASE RemoveWorker(w)
  <2>1. registry' \in [Worker -> [up : BOOLEAN, port : Int]]
    BY <1>2 DEF RouteInv, Registered, RemoveWorker, DropEntry, Absent
  <2> QED
    BY <1>2, <2>1 DEF RouteInv, Registered, RemoveWorker, DropEntry, UpToDate,
                      workerVars, callVars
<1> QED BY <1>1, <1>2

(* What happens to workers, to connections and to work leaves the registry's
   entries, the plan and its generation alone. *)
LEMMA ElsewhereKeeps ==
    ASSUME RouteInv,
           \/ Invalidate
           \/ \E p \in Prompts : StartSync(p) \/ StartRewound(p)
           \/ \E t \in Samples : StartEval(t)
           \/ \E w \in Worker : Disconnect(w) \/ LoseConnection(w) \/ Crash(w)
           \/ \E m \in work : Refuse(m) \/ FinishWork(m) \/ ForwardWork(m) \/ LoseWork(m)
           \/ EvalLocal \/ Succeed \/ ShardStep
           \/ StartSave \/ \E stored \in Stored : StartLoad(stored)
    PROVE  /\ RouteInv'
           /\ ~RouteTaken
<1> USE DEF ownerVars, routeVars, workerVars, callVars, RouteTaken
<1>1. CASE Invalidate
  BY <1>1, RouteUnchanged DEF Invalidate
<1>2. ASSUME NEW p \in Prompts, StartSync(p) \/ StartRewound(p)
      PROVE  RouteInv' /\ pc = "idle"
  <2>1. CASE StartSync(p)
    BY <2>1, RouteUnchanged DEF StartSync, Begin, Usable
  <2>2. CASE StartRewound(p)
    BY <2>2, RouteUnchanged DEF StartRewound, Begin, Usable
  <2> QED BY <1>2, <2>1, <2>2
<1>3. ASSUME NEW t \in Samples, StartEval(t)
      PROVE  RouteInv' /\ pc = "idle"
  BY <1>3, RouteUnchanged DEF StartEval, Begin, Usable
<1>4. ASSUME NEW w \in Worker, Disconnect(w)
      PROVE  RouteInv' /\ pc' = pc
  BY <1>4, RouteUnchanged DEF Disconnect
<1>5. ASSUME NEW w \in Worker, LoseConnection(w)
      PROVE  RouteInv' /\ pc' = pc
  <2>1. CutEntries({w}) /\ Registered
    BY <1>5 DEF LoseConnection, RouteInv
  <2> QED
    BY <1>5, <2>1, CutKeepsEntries DEF LoseConnection, RouteInv, Registered,
         UpToDate, PlanIsCurrent, Current
<1>6. ASSUME NEW w \in Worker, Crash(w)
      PROVE  RouteInv' /\ pc' = pc
  <2>1. CutEntries({w}) /\ Registered
    BY <1>6 DEF Crash, RouteInv
  <2>2. port' \in [Worker -> Int]
    BY <1>6, <2>1 DEF Crash, Registered
  <2> QED
    BY <1>6, <2>1, <2>2, CutKeepsEntries DEF Crash, RouteInv, Registered,
         UpToDate, PlanIsCurrent, Current
<1>7. ASSUME NEW m \in work, Refuse(m) \/ FinishWork(m) \/ LoseWork(m)
      PROVE  RouteInv' /\ pc' = pc
  BY <1>7, RouteUnchanged DEF Refuse, FinishWork, LoseWork
<1>8. ASSUME NEW m \in work, ForwardWork(m)
      PROVE  RouteInv' /\ pc' = pc
  <2>1. Registered /\ UNCHANGED <<plan, planReady, planFresh, port, pc>>
    BY <1>8 DEF ForwardWork, RouteInv
  <2>2. CutEntries({m.worker}) \/ UNCHANGED registry
    BY <1>8 DEF ForwardWork
  <2>3. CASE CutEntries({m.worker})
    BY <2>1, <2>3, CutKeepsEntries DEF RouteInv, Registered, UpToDate,
         PlanIsCurrent, Current
  <2>4. CASE UNCHANGED registry
    BY <2>1, <2>4, RouteUnchanged
  <2> QED BY <2>2, <2>3, <2>4
<1>9. CASE EvalLocal \/ Succeed
  <2>1. CASE EvalLocal
    BY <2>1, RouteUnchanged DEF EvalLocal
  <2>2. CASE Succeed
    BY <2>2, RouteUnchanged DEF Succeed, EndCall
  <2> QED BY <1>9, <2>1, <2>2
<1>10. CASE StartSave \/ \E stored \in Stored : StartLoad(stored)
  BY <1>10, RouteUnchanged DEF StartSave, StartLoad, Begin, Usable
<1>11. CASE ShardStep
  <2>1. /\ UNCHANGED <<registry, port, plan, planReady, planFresh>>
        /\ pc = "shard"
    BY <1>11 DEF ShardStep, SaveLocal, SaveShard, SaveFails, LoadLocal, LoadShard,
                 LoadFails, ShardsDone, Remote
  <2> QED BY <2>1, RouteUnchanged DEF RouteTaken
<1> QED
  BY <1>1, <1>2, <1>3, <1>4, <1>5, <1>6, <1>7, <1>8, <1>9, <1>10, <1>11

(* A call that fails leaves the plan as it is, and at most cuts the connection
   of its first hop; forgetting the route only empties the plan on the way to
   another. *)
LEMMA FailureKeeps ==
    ASSUME RouteInv, FailLocal \/ FailRemote \/ ForgetRoute
    PROVE  /\ RouteInv'
           /\ ~RouteTaken
<1> USE DEF ownerVars, routeVars, workerVars, callVars, RouteTaken
<1>1. CASE FailLocal \/ FailRemote
  <2>1. PICK forget \in BOOLEAN : Fail(forget) /\ pc = "run"
    BY <1>1 DEF FailLocal, FailRemote
  <2>2. /\ Registered
        /\ UNCHANGED <<plan, planFresh, port>>
        /\ planReady' = FALSE \/ UNCHANGED planReady
        /\ pc' # "reroute"
    BY <2>1 DEF Fail, EndCall, RouteInv
  <2>3. CutEntries({plan[1].worker}) \/ UNCHANGED registry
    BY <2>1 DEF Fail
  <2>4. /\ registry' \in [Worker -> [up : BOOLEAN, port : Int]]
        /\ \A w \in Worker : registry'[w].port = registry[w].port
    BY <2>2, <2>3, CutKeepsEntries DEF Registered
  <2> QED
    BY <2>1, <2>2, <2>4 DEF RouteInv, Registered, UpToDate, PlanIsCurrent, Current
<1>2. CASE ForgetRoute
  <2>1. registry' \in [Worker -> [up : BOOLEAN, port : Int]]
    BY <1>2 DEF ForgetRoute, RouteInv, Registered, Absent
  <2> QED BY <1>2, <2>1 DEF ForgetRoute, RouteInv, Registered
<1> QED BY <1>1, <1>2

(* A call starts on a plan whose generation is the registry's, or on one that
   it builds from the registry. *)
LEMMA RouteIsEnsured ==
    ASSUME RouteInv, EnsureRoute \/ Reroute
    PROVE  /\ RouteInv'
           /\ RouteTaken => \A h \in 1..Slices : Current(plan'[h])
<1> USE DEF workerVars, RouteTaken
<1>1. UNCHANGED <<registry, port>> /\ Registered /\ pc \in {"route", "reroute"}
  BY DEF EnsureRoute, Reroute, RouteInv
<1>2. CASE UpToDate /\ pc = "route" /\ UNCHANGED <<plan, planReady, planFresh>>
           /\ pc' # "reroute"
  <2>1. PlanIsCurrent(plan)
    BY <1>2 DEF RouteInv
  <2> QED
    BY <1>1, <1>2, <2>1 DEF RouteInv, Registered, UpToDate, PlanIsCurrent, Current
<1>3. CASE \E r \in Routes : plan' = PlanOf(r)
  <2>1. PlanIsCurrent(plan')
    BY <1>1, <1>3, BuiltFromRegistry
  <2> QED
    BY <1>1, <2>1 DEF RouteInv, Registered, UpToDate, PlanIsCurrent, Current
<1>4. CASE planReady' = FALSE /\ pc' = "idle"
  BY <1>1, <1>4 DEF RouteInv, Registered, UpToDate
<1>5. Run => pc' # "reroute"
  BY DEF Run, EndCall
<1> QED
  BY <1>2, <1>3, <1>4, <1>5 DEF EnsureRoute, Reroute, BuildRoute, EndCall

LEMMA RouteStep ==
    ASSUME RouteInv, [Next]_vars
    PROVE  /\ RouteInv'
           /\ RouteTaken =>
                 \A h \in 1..Slices : Current(plan'[h])
<1>1. CASE \E w \in Worker : Register(w) \/ RemoveWorker(w)
  BY <1>1, GenerationMoves DEF RouteTaken
<1>2. CASE FailLocal \/ FailRemote \/ ForgetRoute
  BY <1>2, FailureKeeps
<1>3. CASE EnsureRoute \/ Reroute
  BY <1>3, RouteIsEnsured
<1>4. CASE UNCHANGED vars
  BY <1>4, RouteUnchanged DEF vars, workerVars, routeVars, callVars, RouteTaken
<1>5. CASE \/ Invalidate
           \/ \E p \in Prompts : StartSync(p) \/ StartRewound(p)
           \/ \E t \in Samples : StartEval(t)
           \/ \E w \in Worker : Disconnect(w) \/ LoseConnection(w) \/ Crash(w)
           \/ \E m \in work : Refuse(m) \/ FinishWork(m) \/ ForwardWork(m) \/ LoseWork(m)
           \/ EvalLocal \/ Succeed \/ ShardStep
           \/ StartSave \/ \E stored \in Stored : StartLoad(stored)
  BY <1>5, ElsewhereKeeps
<1> QED
  BY <1>1, <1>2, <1>3, <1>4, <1>5 DEF Next, CallStep, WorkerStep

(* For all workers, slices, prompts, sizes of chunks and numbers of faults: a
   call that goes by an earlier plan, or by one it builds, goes by workers
   that are registered as they were when the plan was built. *)
THEOREM RouteIsCurrent == Spec => RouteCurrent
<1>1. SessionInit => RouteInv
  BY DEF SessionInit, RouteInv, Registered, Absent, UpToDate
<1>2. RouteInv /\ [Next]_vars => RouteInv'
  BY RouteStep
<1>3. RouteInv /\ [Next]_vars
      => [RouteTaken =>
             \A h \in 1..Slices : Current(plan'[h])]_vars
  BY RouteStep
<1> QED BY <1>1, <1>2, <1>3, PTL DEF Spec, RouteCurrent

-----------------------------------------------------------------------------
(* What a call answers.                                                    *)

(* A process of a host, as a route names it, and a hop's piece of work.    *)
Entry == [worker : Worker, port : Int]
WorkRecord ==
    [worker : Worker, hop : 1..Slices, route : Seq(Entry), before : Seq(Token),
     tokens : Seq(Token), reset : BOOLEAN, sound : {TRUE}, current : BOOLEAN]
Kinds == {"sync", "eval", "save", "load"}
CallRecord ==
    [kind : Kinds \cup {"none"}, want : Seq(Token), target : Seq(Token), base : Nat,
     reset : BOOLEAN, again : BOOLEAN, forget : BOOLEAN, next : Nat, done : Nat,
     sound : {TRUE}, failed : {"no", "link", "remote"}]
Session == [tokens : Seq(Token), valid : BOOLEAN, sound : {TRUE}]

Outcomes == {"ok", "failed", "lost"}
OwnerTypes ==
    /\ checkpoint \in Seq(Token) /\ valid \in BOOLEAN /\ logits \in BOOLEAN
    /\ outcome \in Outcomes
    /\ call \in CallRecord
    /\ pc \in {"idle", "route", "run", "shard", "forget", "reroute"}

(* No worker has evaluated a token on the state of another sequence.       *)
KvSound == kv \in [Worker -> Session]

PlanWhole == plan \in Seq(Entry) /\ Len(plan) = Slices
PlanOK == planLive \/ pc = "shard" \/ (planReady /\ pc # "reroute") => PlanWhole

(* Where the caller is, and what it may rely on there.                     *)
AtRoute ==
    pc = "route" =>
        /\ call.kind \in Kinds /\ call.next = 0 /\ call.done = 0 /\ ~call.reset
        /\ call.kind # "save" => call.want # <<>>
        /\ call.kind = "save" => valid
AtRun ==
    pc \in {"run", "forget", "reroute"} =>
        /\ call.kind \in {"sync", "eval"}
        /\ call.want # <<>> /\ call.target # <<>>
        /\ call.kind = "sync" => call.target = call.want
        /\ call.done <= call.next /\ call.next <= Len(call.target)
        /\ ~(call.reset /\ call.next = 0) =>
              valid /\ checkpoint = Prefix(call.target, call.next)
AtShard ==
    pc = "shard" =>
        /\ call.kind \in {"save", "load"}
        /\ call.kind = "save" => valid
        /\ call.kind = "load" /\ call.next # 0 => valid /\ checkpoint = call.want
CallerOK == AtRoute /\ AtRun /\ AtShard

(* The chunks of the call that is under way: parts of its target, none of  *)
(* them answered, each behind the ones before it.                          *)
End(m) == Len(m.before) + Len(m.tokens)
Ahead(m, n) == End(m) <= Len(n.before) /\ n.hop <= m.hop
WorkTypes ==
    \A m \in work : m \in WorkRecord /\ m.hop + Len(m.route) = Slices
Due(m) ==
    /\ pc = "run"
    /\ m.before \o m.tokens = Prefix(call.target, End(m))
    /\ m.tokens # <<>>
    /\ call.done <= Len(m.before) /\ End(m) <= call.next
WorkDue ==
    /\ \A m \in work : m.current => Due(m)
    /\ \A m, n \in work : m.current /\ n.current => m = n \/ Ahead(m, n) \/ Ahead(n, m)

CallInv ==
    OwnerTypes /\ KvSound /\ PlanOK /\ CallerOK /\ WorkTypes /\ WorkDue

-----------------------------------------------------------------------------
(* Sequences.                                                              *)

LEMMA SubSeqTypes ==
    ASSUME NEW s \in Seq(Token), NEW i \in Nat \ {0}, NEW k \in 0..Len(s)
    PROVE  /\ SubSeq(s, i, k) \in Seq(Token)
           /\ Len(SubSeq(s, i, k)) = IF i <= k THEN k - i + 1 ELSE 0
<1>1. \A j \in i..k : s[j] \in Token
  <2>. SUFFICES ASSUME NEW j \in i..k PROVE s[j] \in Token
    OBVIOUS
  <2>1. j \in 1..Len(s)
    OBVIOUS
  <2> QED BY <2>1, ElementOfSeq
<1> QED BY <1>1, SubSeqProperties

(* The beginning of a sequence and what comes next are a longer beginning. *)
LEMMA PrefixGrows ==
    ASSUME NEW s \in Seq(Token), NEW n \in 0..Len(s), NEW k \in n..Len(s)
    PROVE  /\ Prefix(s, n) \in Seq(Token) /\ Len(Prefix(s, n)) = n
           /\ SubSeq(s, n + 1, k) \in Seq(Token) /\ Len(SubSeq(s, n + 1, k)) = k - n
           /\ Prefix(s, n) \o SubSeq(s, n + 1, k) = Prefix(s, k)
<1>1. Prefix(s, n) \in Seq(Token) /\ Len(Prefix(s, n)) = n
  BY SubSeqTypes DEF Prefix
<1>2. SubSeq(s, n + 1, k) \in Seq(Token) /\ Len(SubSeq(s, n + 1, k)) = k - n
  <2>1. n + 1 \in Nat \ {0} /\ k \in 0..Len(s)
    OBVIOUS
  <2> QED BY <2>1, SubSeqTypes
<1>3. Prefix(s, n) \o SubSeq(s, n + 1, k) = Prefix(s, k)
  <2>1. 1 \in 1..Len(s) + 1 /\ n \in 1 - 1..Len(s) /\ k \in n..Len(s)
    OBVIOUS
  <2> QED BY <2>1, ConcatAdjacentSubSeq DEF Prefix
<1> QED BY <1>1, <1>2, <1>3

LEMMA NoTokens ==
    ASSUME NEW s \in Seq(Token)
    PROVE  /\ Len(s) \in Nat /\ Prefix(s, 0) = <<>> /\ Prefix(s, Len(s)) = s
           /\ s # <<>> => Len(s) > 0
           /\ \A t \in Token : Append(s, t) \in Seq(Token) /\ Append(s, t) # <<>>
           /\ <<>> \in Seq(Token) /\ Len(<<>>) = 0
<1>1. Prefix(s, 0) = <<>> /\ Prefix(s, Len(s)) = s
  BY SubSeqEmpty, SubSeqFull DEF Prefix
<1>2. s # <<>> => Len(s) > 0
  BY EmptySeq
<1>3. \A t \in Token : Append(s, t) \in Seq(Token) /\ Append(s, t) # <<>>
  BY AppendProperties
<1> QED BY <1>1, <1>2, <1>3

-----------------------------------------------------------------------------
(* What leaves the caller's part alone.                                    *)
LEMMA CallerKept ==
    ASSUME OwnerTypes, CallerOK, UNCHANGED <<checkpoint, valid, logits, pc, outcome>>,
           \/ call' = call
           \/ \E x \in {"link", "remote"} : call' = [call EXCEPT !.failed = x]
    PROVE  /\ OwnerTypes' /\ CallerOK'
           /\ call'.target = call.target /\ call'.next = call.next /\ call'.done = call.done
<1>1. call' \in CallRecord
  BY DEF OwnerTypes, CallRecord
<1>2. /\ call'.target = call.target /\ call'.next = call.next /\ call'.done = call.done
      /\ call'.kind = call.kind /\ call'.want = call.want /\ call'.reset = call.reset
  BY DEF OwnerTypes, CallRecord
<1>3. OwnerTypes'
  BY <1>1 DEF OwnerTypes
<1>4. CallerOK'
  BY <1>2 DEF CallerOK, AtRoute, AtRun, AtShard, Prefix
<1> QED BY <1>2, <1>3, <1>4

LEMMA WorkKept ==
    ASSUME WorkTypes, WorkDue, work' \subseteq work, pc' = pc,
           call'.target = call.target, call'.next = call.next, call'.done = call.done
    PROVE  WorkTypes' /\ WorkDue'
<1>1. \A m \in work' : m.current => Due(m)'
  BY DEF WorkDue, Due, End, Prefix
<1>2. \A m, n \in work' : m.current /\ n.current => m = n \/ Ahead(m, n) \/ Ahead(n, m)
  BY DEF WorkDue
<1> QED BY <1>1, <1>2 DEF WorkTypes, WorkDue, Ahead, End

(* A step of the workers that loses work at most.                          *)
LEMMA WorkersMove ==
    ASSUME CallInv, UNCHANGED <<checkpoint, valid, logits, pc, outcome>>,
           UNCHANGED <<plan, planReady>>, planLive' => planLive,
           \/ call' = call
           \/ \E x \in {"link", "remote"} : call' = [call EXCEPT !.failed = x],
           work' \subseteq work, KvSound'
    PROVE  CallInv'
<1>1. PlanOK'
  BY DEF CallInv, PlanOK, PlanWhole
<1> QED BY <1>1, CallerKept, WorkKept DEF CallInv

-----------------------------------------------------------------------------
(* The workers.                                                            *)

LEMMA FreshSession == Fresh \in Session
  BY EmptySeq DEF Fresh, Session

LEMMA OpenedSession ==
    ASSUME KvSound, WorkTypes, NEW m \in work
    PROVE  m \in WorkRecord /\ m.worker \in Worker /\ Opened(m) \in Session
<1>1. m \in WorkRecord /\ m.worker \in Worker
  BY DEF WorkTypes, WorkRecord
<1> QED BY <1>1, FreshSession DEF KvSound, Opened

(* The hash check makes an evaluation sound: a session that holds the      *)
(* tokens before a piece of work, and no more, goes on by the work's own.  *)
LEMMA EvaluationIsSound ==
    ASSUME KvSound, WorkTypes, NEW m \in work, Accepts(m)
    PROVE  /\ Sound(m) = TRUE /\ Evaluated(m) \in Session
           /\ m.before \o m.tokens \in Seq(Token)
           /\ Len(m.before) \in Nat /\ Len(m.tokens) \in Nat
           /\ Len(m.before \o m.tokens) = End(m)
<1>1. /\ m.before \in Seq(Token) /\ m.tokens \in Seq(Token) /\ m.sound
      /\ Opened(m).sound /\ Opened(m).tokens = m.before
  BY OpenedSession DEF WorkRecord, Session, Accepts, Fits
<1>2. Sound(m) = TRUE
  BY <1>1 DEF Sound
<1>3. m.before \o m.tokens \in Seq(Token) /\ Len(m.before \o m.tokens) = End(m)
  BY <1>1, ConcatProperties DEF End
<1>4. Evaluated(m) \in Session
  BY <1>2, <1>3 DEF Evaluated, Session
<1> QED BY <1>1, <1>2, <1>3, <1>4

LEMMA ConnectionSteps ==
    ASSUME CallInv,
           NEW w \in Worker,
           Register(w) \/ RemoveWorker(w) \/ LoseConnection(w) \/ Disconnect(w) \/ Crash(w)
    PROVE  CallInv'
<1> USE DEF ownerVars, routeVars, workerVars, callVars
<1>1. KvSound /\ Cleared(w) \in [Worker -> Session] /\ [kv EXCEPT ![w] = Fresh] \in [Worker -> Session]
  BY FreshSession DEF CallInv, KvSound, Cleared
<1>2. CASE Register(w)
  BY <1>1, <1>2, WorkersMove DEF Register, KvSound
<1>3. CASE RemoveWorker(w)
  BY <1>1, <1>3, WorkersMove DEF RemoveWorker, KvSound
<1>4. CASE LoseConnection(w)
  BY <1>1, <1>4, WorkersMove DEF LoseConnection, CutSides, KvSound
<1>5. CASE Disconnect(w)
  BY <1>1, <1>5, WorkersMove DEF Disconnect, KvSound
<1>6. CASE Crash(w)
  <2>1. \/ call' = call
        \/ \E x \in {"link", "remote"} : call' = [call EXCEPT !.failed = x]
    BY <1>6 DEF Crash, Failing
  <2>2. /\ UNCHANGED <<checkpoint, valid, logits, pc, outcome>>
        /\ UNCHANGED <<plan, planReady>>
    BY <1>6 DEF Crash
  <2>3. planLive' => planLive
    BY <1>6 DEF Crash
  <2>4. work' \subseteq work
    BY <1>6 DEF Crash
  <2>5. KvSound'
    BY <1>1, <1>6 DEF Crash, KvSound
  <2> QED BY <2>1, <2>2, <2>3, <2>4, <2>5, WorkersMove
<1> QED BY <1>2, <1>3, <1>4, <1>5, <1>6

LEMMA LosingWork ==
    ASSUME CallInv, NEW m \in work, LoseWork(m)
    PROVE  CallInv'
<1>1. \/ call' = call
      \/ \E x \in {"link", "remote"} : call' = [call EXCEPT !.failed = x]
  BY DEF LoseWork, Failing
<1>2. /\ UNCHANGED <<checkpoint, valid, logits, pc, outcome, plan, planReady, planLive, kv>>
      /\ work' \subseteq work
  BY DEF LoseWork, ownerVars, routeVars, workerVars
<1>3. KvSound'
  BY <1>2 DEF CallInv, KvSound
<1> QED BY <1>1, <1>2, <1>3, WorkersMove

LEMMA RefusingWork ==
    ASSUME CallInv, NEW m \in work, Refuse(m)
    PROVE  CallInv'
<1>1. \/ call' = call
      \/ \E x \in {"link", "remote"} : call' = [call EXCEPT !.failed = x]
  BY DEF Refuse, Answer
<1>2. /\ UNCHANGED <<checkpoint, valid, logits, pc, outcome, plan, planReady, planLive>>
      /\ work' \subseteq work
  BY DEF Refuse, ownerVars, routeVars
<1>3. KvSound'
  <2>1. Opened(m) \in Session /\ [Opened(m) EXCEPT !.valid = FALSE] \in Session
    BY OpenedSession DEF CallInv, Session
  <2>2. kv \in [Worker -> Session]
    BY DEF CallInv, KvSound
  <2>3. \/ kv' = [kv EXCEPT ![m.worker] = Opened(m)]
        \/ kv' = [kv EXCEPT ![m.worker] = [Opened(m) EXCEPT !.valid = FALSE]]
    BY DEF Refuse
  <2> QED BY <2>1, <2>2, <2>3 DEF KvSound
<1> QED BY <1>1, <1>2, <1>3, WorkersMove

LEMMA WorkNumbers ==
    ASSUME WorkTypes, NEW m \in work
    PROVE  /\ m \in WorkRecord /\ m.hop \in 1..Slices /\ m.hop \in Nat
           /\ m.before \in Seq(Token) /\ m.tokens \in Seq(Token)
           /\ Len(m.before) \in Nat /\ Len(m.tokens) \in Nat /\ End(m) \in Nat
<1>1. m \in WorkRecord
  BY DEF WorkTypes
<1>2. m.hop \in 1..Slices /\ m.before \in Seq(Token) /\ m.tokens \in Seq(Token)
  BY <1>1 DEF WorkRecord
<1>3. Len(m.before) \in Nat /\ Len(m.tokens) \in Nat
  BY <1>2
<1>4. m.hop \in Nat
  BY <1>2, SessionAssumption
<1>5. End(m) \in Nat
  <2>1. \A x, y \in Nat : x + y \in Nat
    OBVIOUS
  <2> QED BY <1>3, <2>1 DEF End
<1> QED BY <1>1, <1>2, <1>3, <1>4, <1>5

(* On a hop the chunks keep their order, so the one that is taken is ahead *)
(* of all others, but for those that are on a later hop already.           *)
LEMMA TakenInOrder ==
    ASSUME WorkTypes, WorkDue, NEW m \in work, NEW n \in work, m # n,
           m.current, n.current, FirstOf(m)
    PROVE  Ahead(m, n) \/ (Ahead(n, m) /\ m.hop + 1 <= n.hop)
<1>1. Ahead(m, n) \/ Ahead(n, m)
  BY DEF WorkDue
<1>2. SUFFICES ASSUME Ahead(n, m) PROVE m.hop + 1 <= n.hop
  BY <1>1
<1>3. /\ m.hop \in Nat /\ n.hop \in Nat
      /\ Len(m.before) \in Nat /\ Len(n.before) \in Nat /\ Len(n.tokens) \in Nat
  BY WorkNumbers
<1>4. Len(n.tokens) > 0
  <2>1. n.tokens \in Seq(Token) /\ n.tokens # <<>>
    BY WorkNumbers DEF WorkDue, Due
  <2> QED BY <2>1, EmptySeq
<1>5. Len(n.before) + Len(n.tokens) <= Len(m.before) /\ m.hop <= n.hop
  BY <1>2 DEF Ahead, End
<1>6. n.hop = m.hop => Len(n.before) >= Len(m.before)
  BY DEF FirstOf
<1>7. PICK i \in Nat, k \in Nat, x \in Nat, y \in Nat, z \in Nat :
         m.hop = i /\ n.hop = k /\ Len(m.before) = x /\ Len(n.before) = y /\ Len(n.tokens) = z
  BY <1>3
<1>8. z > 0 /\ y + z <= x /\ i <= k /\ (k = i => y >= x)
  BY <1>4, <1>5, <1>6, <1>7
<1>9. i + 1 <= k
  BY <1>8
<1> QED BY <1>7, <1>9

LEMMA AnswerIsNext ==
    ASSUME WorkTypes, WorkDue, NEW m \in work, NEW n \in work, m # n,
           m.current, n.current, FirstOf(m), m.route = <<>>
    PROVE  End(m) <= Len(n.before)
<1>1. /\ m.hop \in 1..Slices /\ n.hop \in 1..Slices /\ Slices \in Nat
      /\ m.hop + Len(m.route) = Slices
  BY SessionAssumption DEF WorkTypes, WorkRecord
<1>2. m.hop = Slices
  <2>1. Len(m.route) = 0
    BY EmptySeq
  <2> QED BY <1>1, <2>1
<1>3. ~(m.hop + 1 <= n.hop)
  BY <1>1, <1>2
<1> QED BY <1>3, TakenInOrder DEF Ahead

LEMMA FinishingWork ==
    ASSUME CallInv, NEW m \in work, FinishWork(m)
    PROVE  CallInv'
<1> DEFINE answered == m.current /\ call.failed = "no" /\ planLive
           c == [call EXCEPT !.done = Len(m.before) + Len(m.tokens), !.sound = Sound(m)]
<1>1. /\ UNCHANGED <<checkpoint, valid, logits, pc, outcome, plan, planReady, planLive>>
      /\ work' = work \ {m}
      /\ Accepts(m) /\ FirstOf(m) /\ m.route = <<>>
      /\ kv' = [kv EXCEPT ![m.worker] = Evaluated(m)]
      /\ call' = IF answered THEN c ELSE call
  BY DEF FinishWork, ownerVars, routeVars
<1> HIDE DEF answered, c
<1>2. KvSound'
  <2>1. Evaluated(m) \in Session /\ kv \in [Worker -> Session]
    BY <1>1, EvaluationIsSound DEF CallInv, KvSound
  <2> QED BY <1>1, <2>1 DEF KvSound
<1>3. CASE ~answered
  BY <1>1, <1>2, <1>3, WorkersMove
<1>4. CASE answered
  <2>1. m.current /\ Due(m)
    BY <1>4 DEF answered, CallInv, WorkDue
  <2>2. Sound(m) = TRUE /\ End(m) \in Nat
    BY <1>1, EvaluationIsSound, WorkNumbers DEF CallInv
  <2>3. /\ c \in CallRecord /\ c.done = End(m) /\ c.kind = call.kind /\ c.want = call.want
        /\ c.target = call.target /\ c.next = call.next /\ c.reset = call.reset
    BY <2>2 DEF c, CallInv, OwnerTypes, CallRecord, End
  <2>4. call' = c
    BY <1>1, <1>4
  <2>5. OwnerTypes' /\ PlanOK'
    BY <1>1, <2>3, <2>4 DEF CallInv, OwnerTypes, PlanOK, PlanWhole
  <2>6. CallerOK'
    <3>1. pc = "run" /\ End(m) <= call.next
      BY <2>1 DEF Due
    <3>2. AtRun'
      BY <1>1, <2>3, <2>4, <3>1 DEF CallInv, CallerOK, AtRun, Prefix
    <3> QED BY <1>1, <3>1, <3>2 DEF CallerOK, AtRoute, AtShard
  <2>7. WorkTypes'
    BY <1>1 DEF CallInv, WorkTypes
  <2>8. ASSUME NEW n \in work', n.current
        PROVE  Due(n)'
    <3>1. n \in work /\ n # m /\ Due(n)
      BY <1>1, <2>8 DEF CallInv, WorkDue
    <3>2. End(m) <= Len(n.before)
      BY <1>1, <2>1, <2>8, <3>1, AnswerIsNext DEF CallInv
    <3> QED BY <1>1, <2>3, <2>4, <3>1, <3>2 DEF Due, End, Prefix
  <2>9. WorkDue'
    BY <1>1, <2>8 DEF CallInv, WorkDue, Ahead, End
  <2> QED BY <1>2, <2>5, <2>6, <2>7, <2>9 DEF CallInv
<1> QED BY <1>3, <1>4

LEMMA ForwardingWork ==
    ASSUME CallInv, NEW m \in work, ForwardWork(m)
    PROVE  CallInv'
<1>1. /\ UNCHANGED <<checkpoint, valid, logits, pc, outcome, plan, planReady>>
      /\ planLive' => planLive
      /\ Accepts(m) /\ FirstOf(m) /\ m.route # <<>>
      /\ kv' = [kv EXCEPT ![m.worker] = Evaluated(m)]
  BY DEF ForwardWork, ownerVars, CutSides
<1>2. KvSound'
  <2>1. Evaluated(m) \in Session /\ kv \in [Worker -> Session]
    BY <1>1, EvaluationIsSound DEF CallInv, KvSound
  <2> QED BY <1>1, <2>1 DEF KvSound
<1> DEFINE f == [m EXCEPT !.worker = NextHop(m).worker, !.hop = @ + 1,
                          !.route = Tail(@), !.sound = Sound(m)]
<1>3. \/ work' = (work \ {m}) \cup {f} /\ call' = call
      \/ work' = work \ {m} /\ call' = Answer(m, "link")
  BY DEF ForwardWork
<1>4. CASE work' = work \ {m} /\ call' = Answer(m, "link")
  <2>1. \/ call' = call
        \/ \E x \in {"link", "remote"} : call' = [call EXCEPT !.failed = x]
    BY <1>4 DEF Answer
  <2> QED BY <1>1, <1>2, <1>4, <2>1, WorkersMove
<1>5. CASE work' = (work \ {m}) \cup {f} /\ call' = call
  <2>1. m \in WorkRecord /\ Sound(m) = TRUE /\ m.hop + Len(m.route) = Slices
    BY <1>1, EvaluationIsSound DEF CallInv, WorkTypes
  <2>2. /\ m.route[1] \in Entry /\ Tail(m.route) \in Seq(Entry)
        /\ Len(Tail(m.route)) = Len(m.route) - 1 /\ Len(m.route) \in Nat \ {0}
    <3>1. m.route \in Seq(Entry) /\ Len(m.route) \in Nat \ {0}
      BY <1>1, <2>1, EmptySeq DEF WorkRecord
    <3>2. 1 \in 1..Len(m.route)
      BY <3>1
    <3> QED BY <1>1, <3>1, <3>2, ElementOfSeq, HeadTailProperties
  <2>3. m.hop + 1 \in 1..Slices
    BY <2>1, <2>2, SessionAssumption DEF WorkRecord
  <2>4. /\ f \in WorkRecord /\ f.hop + Len(f.route) = Slices
        /\ f.before = m.before /\ f.tokens = m.tokens /\ f.current = m.current
        /\ f.hop = m.hop + 1
    <3>1. NextHop(m).worker \in Worker
      BY <2>2 DEF NextHop, Entry
    <3>2. f \in WorkRecord
      BY <2>1, <2>2, <2>3, <3>1 DEF WorkRecord
    <3>3. /\ f.before = m.before /\ f.tokens = m.tokens /\ f.current = m.current
          /\ f.hop = m.hop + 1 /\ f.route = Tail(m.route)
      BY <2>1 DEF WorkRecord
    <3>4. m.hop \in Nat
      BY <2>1 DEF WorkRecord
    <3> QED BY <2>1, <2>2, <3>2, <3>3, <3>4
  <2> HIDE DEF f
  <2>5. OwnerTypes' /\ CallerOK' /\ PlanOK'
    BY <1>1, <1>5, CallerKept DEF CallInv, PlanOK, PlanWhole
  <2>6. WorkTypes'
    BY <1>5, <2>4 DEF CallInv, WorkTypes
  <2>7. ASSUME NEW n \in work', n.current
        PROVE  Due(n)'
    <3>1. CASE n = f
      BY <1>1, <1>5, <2>4, <2>7, <3>1 DEF CallInv, WorkDue, Due, End, Prefix
    <3>2. CASE n \in work
      BY <1>1, <1>5, <2>7, <3>2 DEF CallInv, WorkDue, Due, End, Prefix
    <3> QED BY <1>5, <3>1, <3>2
  <2>8. ASSUME NEW n \in work, n # m, n.current, m.current
        PROVE  Ahead(f, n) \/ Ahead(n, f)
    <3>1. Ahead(m, n) \/ (Ahead(n, m) /\ m.hop + 1 <= n.hop)
      BY <1>1, <2>8, TakenInOrder DEF CallInv
    <3>2. CASE Ahead(m, n)
      <4>1. End(f) = End(m) /\ n.hop <= m.hop /\ m.hop \in Nat /\ n.hop \in Nat
        BY <2>4, <3>2, WorkNumbers DEF Ahead, End, CallInv
      <4>2. n.hop <= m.hop + 1
        BY <4>1
      <4> QED BY <2>4, <3>2, <4>1, <4>2 DEF Ahead
    <3>3. CASE Ahead(n, m) /\ m.hop + 1 <= n.hop
      BY <2>4, <3>3 DEF Ahead
    <3> QED BY <3>1, <3>2, <3>3
  <2>9. ASSUME NEW n1 \in work', NEW n2 \in work', n1.current, n2.current
        PROVE  n1 = n2 \/ Ahead(n1, n2) \/ Ahead(n2, n1)
    <3>1. CASE n1 = f /\ n2 # f
      BY <1>5, <2>4, <2>8, <2>9, <3>1
    <3>2. CASE n2 = f /\ n1 # f
      BY <1>5, <2>4, <2>8, <2>9, <3>2
    <3>3. CASE n1 # f /\ n2 # f
      BY <1>5, <2>9, <3>3 DEF CallInv, WorkDue
    <3> QED BY <3>1, <3>2, <3>3
  <2>10. WorkDue'
    BY <2>7, <2>9 DEF WorkDue, Ahead, End
  <2> QED BY <1>2, <2>5, <2>6, <2>10 DEF CallInv
<1> QED BY <1>3, <1>4, <1>5

(* What goes on at the workers returns no call.                            *)
LEMMA WorkersAnswerNothing ==
    ASSUME \/ \E w \in Worker : \/ Register(w) \/ RemoveWorker(w) \/ LoseConnection(w)
                                \/ Disconnect(w) \/ Crash(w)
           \/ \E m \in work : Refuse(m) \/ FinishWork(m) \/ ForwardWork(m) \/ LoseWork(m)
    PROVE  pc' = pc
  BY DEF Register, RemoveWorker, LoseConnection, Disconnect, Crash, Refuse, FinishWork,
         ForwardWork, LoseWork, callVars

-----------------------------------------------------------------------------
(* The caller.                                                             *)

LEMMA NothingDue ==
    ASSUME WorkDue, pc # "run"
    PROVE  \A m \in work : ~m.current
  BY DEF WorkDue, Due

LEMMA NothingDueNext == (\A m \in work' : ~m.current) => WorkDue'
  BY DEF WorkDue

LEMMA CallBegins ==
    ASSUME NEW k \in Kinds, NEW s \in Seq(Token), Begin(k, s)
    PROVE  /\ call' \in CallRecord
           /\ call'.kind = k /\ call'.want = s /\ call'.next = 0 /\ call'.done = 0
           /\ ~call'.reset /\ pc' = "route" /\ outcome' = "ok"
<1>1. NoCall \in CallRecord
  BY EmptySeq DEF NoCall, CallRecord
<1> QED BY <1>1 DEF Begin, NoCall, CallRecord, Kinds

LEMMA CallReturns ==
    ASSUME NEW result \in {"ok", "failed"}, EndCall(result)
    PROVE  /\ call' \in CallRecord /\ pc' = "idle" /\ outcome' \in Outcomes
           /\ outcome' = "ok" <=> result = "ok"
<1>1. NoCall \in CallRecord
  BY EmptySeq DEF NoCall, CallRecord
<1> QED BY <1>1 DEF EndCall, Outcomes

(* A step of the caller that begins a call.                                *)
LEMMA Starts ==
    ASSUME CallInv, pc = "idle",
           NEW k \in Kinds, NEW s \in Seq(Token), Begin(k, s),
           k # "save" => s # <<>>,
           checkpoint' \in Seq(Token), valid' = valid, logits' \in BOOLEAN,
           k = "save" => valid,
           UNCHANGED <<plan, planReady, planLive>>, UNCHANGED <<kv, work>>
    PROVE  CallInv' /\ pc' = "route"
<1>1. OwnerTypes'
  BY CallBegins DEF CallInv, OwnerTypes, Outcomes
<1>2. CallerOK'
  BY CallBegins DEF CallerOK, AtRoute, AtRun, AtShard
<1>3. PlanOK'
  BY CallBegins DEF CallInv, PlanOK, PlanWhole
<1>4. KvSound' /\ WorkTypes'
  BY DEF CallInv, KvSound, WorkTypes
<1>5. WorkDue'
  BY NothingDue, NothingDueNext DEF CallInv
<1> QED BY <1>1, <1>2, <1>3, <1>4, <1>5, CallBegins DEF CallInv

LEMMA InputsTyped ==
    ASSUME NEW p \in Prompts \cup Stored
    PROVE  p \in Seq(Token) /\ p # <<>> /\ Len(p) \in Nat /\ Len(p) > 0
<1>1. p \in Seq(Token) /\ Len(p) \in 1..(CtxSize - 1) /\ CtxSize \in Nat
  BY SessionAssumption
<1> QED BY <1>1, EmptySeq

(* A call may begin on whatever a call that failed has left.               *)
LEMMA StartingSteps ==
    ASSUME CallInv,
           \/ \E p \in Prompts : StartSync(p) \/ StartRewound(p)
           \/ \E t \in Samples : StartEval(t)
           \/ \E p \in Stored : StartLoad(p)
           \/ StartSave
    PROVE  CallInv' /\ pc' = "route"
<1> USE DEF ownerVars, routeVars, workerVars
<1>1. Usable => pc = "idle"
  BY DEF Usable
<1>2. checkpoint \in Seq(Token) /\ logits \in BOOLEAN
  BY DEF CallInv, OwnerTypes
<1>3. ASSUME NEW p \in Prompts, StartSync(p)
      PROVE  CallInv' /\ pc' = "route"
  <2>1. p \in Seq(Token) /\ p # <<>> /\ "sync" \in Kinds
    BY InputsTyped DEF Kinds
  <2>2. Usable /\ Begin("sync", p) /\ UNCHANGED <<checkpoint, valid, logits>>
        /\ UNCHANGED <<plan, planReady, planLive>> /\ UNCHANGED <<kv, work>>
    BY <1>3 DEF StartSync
  <2> QED BY <1>1, <1>2, <2>1, <2>2, Starts
<1>4. ASSUME NEW p \in Prompts, StartRewound(p)
      PROVE  CallInv' /\ pc' = "route"
  <2>1. p \in Seq(Token) /\ p # <<>> /\ "sync" \in Kinds /\ Len(p) \in Nat /\ Len(p) > 0
    BY InputsTyped DEF Kinds
  <2>2. Prefix(p, Len(p) - 1) \in Seq(Token) /\ Prefix(p, Len(p) - 1) # p
    <3>1. Len(p) - 1 \in 0..Len(p) /\ Len(p) - 1 # Len(p)
      BY <2>1
    <3>2. Len(p) \in Len(p) - 1..Len(p)
      BY <2>1
    <3> QED BY <2>1, <3>1, <3>2, PrefixGrows
  <2>3. Usable /\ Begin("sync", p) /\ checkpoint' = Prefix(p, Len(p) - 1)
        /\ valid' = valid /\ logits' = FALSE
        /\ UNCHANGED <<plan, planReady, planLive>> /\ UNCHANGED <<kv, work>>
    BY <1>4 DEF StartRewound
  <2> QED BY <1>1, <2>1, <2>2, <2>3, Starts
<1>5. ASSUME NEW t \in Samples, StartEval(t)
      PROVE  CallInv' /\ pc' = "route"
  <2>1. Append(checkpoint, t) \in Seq(Token) /\ Append(checkpoint, t) # <<>>
        /\ "eval" \in Kinds
    BY <1>2, NoTokens, SessionAssumption DEF Kinds
  <2>2. Usable /\ Begin("eval", Append(checkpoint, t))
        /\ UNCHANGED <<checkpoint, valid, logits>>
        /\ UNCHANGED <<plan, planReady, planLive>> /\ UNCHANGED <<kv, work>>
    BY <1>5 DEF StartEval
  <2> QED BY <1>1, <1>2, <2>1, <2>2, Starts
<1>6. ASSUME NEW p \in Stored, StartLoad(p)
      PROVE  CallInv' /\ pc' = "route"
  <2>1. p \in Seq(Token) /\ p # <<>> /\ "load" \in Kinds
    BY InputsTyped DEF Kinds
  <2>2. Usable /\ Begin("load", p) /\ UNCHANGED <<checkpoint, valid, logits>>
        /\ UNCHANGED <<plan, planReady, planLive>> /\ UNCHANGED <<kv, work>>
    BY <1>6 DEF StartLoad
  <2> QED BY <1>1, <1>2, <2>1, <2>2, Starts
<1>7. CASE StartSave
  <2>1. Usable /\ valid /\ Begin("save", checkpoint) /\ UNCHANGED <<checkpoint, valid, logits>>
        /\ UNCHANGED <<plan, planReady, planLive>> /\ UNCHANGED <<kv, work>>
    BY <1>7 DEF StartSave
  <2>2. "save" \in Kinds
    BY DEF Kinds
  <2> QED BY <1>1, <1>2, <2>1, <2>2, Starts
<1> QED BY <1>3, <1>4, <1>5, <1>6, <1>7

LEMMA Discarding ==
    ASSUME CallInv, Invalidate
    PROVE  CallInv' /\ pc' = "idle" /\ pc = "idle"
<1> USE DEF routeVars, workerVars, Invalidate
<1>1. OwnerTypes'
  BY EmptySeq DEF CallInv, OwnerTypes, Outcomes
<1>2. CallerOK'
  BY DEF CallerOK, AtRoute, AtRun, AtShard
<1>3. PlanOK' /\ KvSound' /\ WorkTypes'
  BY DEF CallInv, PlanOK, PlanWhole, KvSound, WorkTypes
<1>4. WorkDue'
  BY NothingDue, NothingDueNext DEF CallInv
<1> QED BY <1>1, <1>2, <1>3, <1>4 DEF CallInv

-----------------------------------------------------------------------------
(* The route, and what a call has to evaluate.                             *)

(* What a call that ends well has left.                                    *)
EndsWell ==
    Answered => /\ valid'
                /\ Evaluates => logits'
                /\ call.kind \in {"sync", "load"} => checkpoint' = call.want
                /\ call.kind = "save" => call.sound

LEMMA RouteIsWhole ==
    ASSUME Registered, NEW r \in Routes
    PROVE  PlanOf(r) \in Seq(Entry) /\ Len(PlanOf(r)) = Slices
<1>1. r \in [1..Slices -> Worker] /\ Slices \in Nat
  BY SessionAssumption DEF Routes
<1>2. \A h \in 1..Slices : [worker |-> r[h], port |-> registry[r[h]].port] \in Entry
  BY <1>1 DEF Registered, Entry
<1>3. PlanOf(r) \in [1..Slices -> Entry]
  BY <1>2 DEF PlanOf
<1> QED BY <1>1, <1>3

LEMMA CallPlanned ==
    ASSUME OwnerTypes, CallerOK, pc = "route", call.kind \in {"sync", "eval"},
           UNCHANGED <<checkpoint, valid, logits>>, pc' = "run", call' = Planned
    PROVE  call' \in CallRecord /\ AtRun'
<1>1. /\ call \in CallRecord /\ checkpoint \in Seq(Token) /\ call.want \in Seq(Token)
      /\ call.want # <<>> /\ call.next = 0 /\ call.done = 0 /\ ~call.reset
      /\ Len(checkpoint) \in Nat /\ Len(call.want) \in Nat
  <2>1. call \in CallRecord /\ checkpoint \in Seq(Token) /\ call.want \in Seq(Token)
    BY DEF OwnerTypes, CallRecord
  <2>2. call.want # <<>> /\ call.next = 0 /\ call.done = 0 /\ ~call.reset
    BY DEF CallerOK, AtRoute
  <2>3. Len(checkpoint) \in Nat /\ Len(call.want) \in Nat
    BY <2>1
  <2> QED BY <2>1, <2>2, <2>3
<1>2. CASE Continues
  <2>1. PICK n \in Nat : n = Len(checkpoint)
    BY <1>1
  <2>2. valid /\ n <= Len(call.want) /\ Prefix(call.want, n) = checkpoint
    BY <1>1, <1>2, <2>1, NoTokens DEF Continues, IsPrefix, Prefix
  <2>3. call' = [call EXCEPT !.target = call.want, !.base = n, !.next = n, !.done = n]
    BY <1>2, <2>1 DEF Planned
  <2>4. /\ call' \in CallRecord /\ call'.target = call.want /\ call'.want = call.want
        /\ call'.next = n /\ call'.done = n /\ call'.kind = call.kind
    BY <1>1, <2>3 DEF CallRecord
  <2> QED BY <1>1, <2>2, <2>4 DEF AtRun
<1>3. CASE ~Continues
  <2>1. call' = [call EXCEPT !.target = call.want, !.reset = TRUE]
    BY <1>3 DEF Planned
  <2>2. /\ call' \in CallRecord /\ call'.target = call.want /\ call'.want = call.want
        /\ call'.next = 0 /\ call'.done = 0 /\ call'.kind = call.kind /\ call'.reset
    BY <1>1, <2>1 DEF CallRecord
  <2> QED BY <1>1, <2>2 DEF AtRun
<1> QED BY <1>2, <1>3

LEMMA RunStarts ==
    ASSUME OwnerTypes, CallerOK, pc = "route", Run, UNCHANGED <<checkpoint, valid, logits>>
    PROVE  OwnerTypes' /\ CallerOK' /\ EndsWell
<1>1. call.kind \in Kinds /\ call.next = 0
  BY DEF CallerOK, AtRoute
<1>2. CASE call.kind = "sync" /\ valid /\ checkpoint = call.want
  <2>1. EndCall("ok")
    BY <1>2 DEF Run
  <2>2. /\ call' \in CallRecord /\ pc' = "idle" /\ outcome' \in Outcomes
    BY <2>1, CallReturns
  <2>3. OwnerTypes'
    BY <2>2 DEF OwnerTypes
  <2>4. CallerOK'
    BY <2>1, <2>2 DEF CallerOK, AtRoute, AtRun, AtShard
  <2>5. ~Evaluates
    BY <1>2 DEF Evaluates
  <2> QED BY <1>2, <2>3, <2>4, <2>5 DEF EndsWell
<1>3. CASE ~(call.kind = "sync" /\ valid /\ checkpoint = call.want)
           /\ call.kind \in {"save", "load"}
  <2>1. pc' = "shard" /\ call' = call /\ outcome' = outcome
    BY <1>3 DEF Run
  <2>2. OwnerTypes'
    BY <2>1 DEF OwnerTypes
  <2>3. CallerOK'
    BY <1>1, <1>3, <2>1 DEF CallerOK, AtRoute, AtRun, AtShard
  <2> QED BY <2>1, <2>2, <2>3 DEF EndsWell, Answered
<1>4. CASE ~(call.kind = "sync" /\ valid /\ checkpoint = call.want)
           /\ call.kind \notin {"save", "load"}
  <2>1. pc' = "run" /\ call' = Planned /\ outcome' = outcome
    BY <1>4 DEF Run
  <2>2. call' \in CallRecord /\ AtRun'
    BY <1>1, <1>4, <2>1, CallPlanned DEF Kinds
  <2>3. OwnerTypes'
    BY <2>1, <2>2 DEF OwnerTypes
  <2>4. CallerOK'
    BY <2>1, <2>2 DEF CallerOK, AtRoute, AtShard
  <2> QED BY <2>1, <2>3, <2>4 DEF EndsWell, Answered
<1> QED BY <1>2, <1>3, <1>4

(* A call for which there is no route fails.                               *)
LEMMA NoRoute ==
    ASSUME OwnerTypes, CallerOK, pc \in {"route", "reroute"}, EndCall("failed"),
           UNCHANGED <<checkpoint, valid, logits>>
    PROVE  OwnerTypes' /\ CallerOK' /\ EndsWell
<1>1. /\ call' \in CallRecord /\ pc' = "idle"
      /\ outcome' \in Outcomes /\ outcome' # "ok"
  BY CallReturns
<1>2. OwnerTypes'
  BY <1>1 DEF OwnerTypes
<1>3. CallerOK'
  BY <1>1 DEF CallerOK, AtRoute, AtRun, AtShard
<1> QED BY <1>1, <1>2, <1>3 DEF EndsWell, Answered

LEMMA Routing ==
    ASSUME CallInv, Registered, EnsureRoute \/ Reroute
    PROVE  CallInv' /\ EndsWell
<1>1. /\ pc \in {"route", "reroute"} /\ UNCHANGED <<checkpoint, valid, logits>>
      /\ UNCHANGED <<kv, work>> /\ OwnerTypes /\ CallerOK
  BY DEF EnsureRoute, Reroute, ownerVars, workerVars, CallInv
<1>2. KvSound' /\ WorkTypes' /\ WorkDue'
  BY <1>1, NothingDue, NothingDueNext DEF CallInv, KvSound, WorkTypes
<1>3. PlanOK'
  <2>1. CASE UNCHANGED <<plan, planReady, planLive>> /\ UpToDate /\ pc = "route"
    BY <2>1 DEF CallInv, PlanOK, PlanWhole, UpToDate
  <2>2. CASE \E r \in Routes : plan' = PlanOf(r)
    BY <2>2, RouteIsWhole DEF PlanOK, PlanWhole
  <2>3. CASE planLive' = FALSE /\ planReady' = FALSE /\ pc' = "idle"
    BY <2>3 DEF PlanOK
  <2> QED BY <2>1, <2>2, <2>3 DEF EnsureRoute, Reroute, BuildRoute, EndCall
<1>4. CASE pc = "route" /\ Run
  BY <1>1, <1>2, <1>3, <1>4, RunStarts DEF CallInv
<1>5. CASE EndCall("failed")
  BY <1>1, <1>2, <1>3, <1>5, NoRoute DEF CallInv
<1>6. CASE pc = "reroute" /\ pc' = "run" /\ UNCHANGED <<call, outcome>>
  <2>1. OwnerTypes'
    BY <1>1, <1>6 DEF OwnerTypes
  <2>2. CallerOK'
    BY <1>1, <1>6 DEF CallerOK, AtRoute, AtRun, AtShard, Prefix
  <2> QED BY <1>2, <1>3, <1>6, <2>1, <2>2 DEF CallInv, EndsWell, Answered
<1> QED BY <1>4, <1>5, <1>6 DEF EnsureRoute, Reroute, BuildRoute

-----------------------------------------------------------------------------
(* Evaluating, and giving up.                                              *)

(* What the caller has of its target before the next chunk, and the chunk. *)
LEMMA ChunkIsNext ==
    ASSUME OwnerTypes, CallerOK, pc = "run", call.next < Len(call.target)
    PROVE  /\ NextChunk \in Seq(Token) /\ NextChunk # <<>> /\ Len(NextChunk) \in Nat
           /\ Len(Prefix(call.target, call.next)) = call.next
           /\ Prefix(call.target, call.next) \in Seq(Token)
           /\ call.next + Len(NextChunk) \in call.next..Len(call.target)
           /\ Prefix(call.target, call.next) \o NextChunk
                 = Prefix(call.target, call.next + Len(NextChunk))
           /\ Local = Prefix(call.target, call.next) /\ call.next \in Nat
<1>1. PICK n \in Nat : n = call.next
  BY DEF OwnerTypes, CallRecord
<1>2. PICK t \in Seq(Token) : t = call.target
  BY DEF OwnerTypes, CallRecord
<1>3. PICK k : k = IF n + ChunkCap < Len(t) THEN n + ChunkCap ELSE Len(t)
  OBVIOUS
<1>4. n < Len(t) /\ Len(t) \in Nat /\ n \in 0..Len(t)
  BY <1>1, <1>2
<1>5. k \in n + 1..Len(t) /\ k \in n..Len(t)
  BY <1>3, <1>4, SessionAssumption
<1>6. NextChunk = SubSeq(t, n + 1, k)
  BY <1>1, <1>2, <1>3 DEF NextChunk
<1>7. /\ NextChunk \in Seq(Token) /\ Len(NextChunk) = k - n
      /\ Prefix(t, n) \o NextChunk = Prefix(t, k)
      /\ Prefix(t, n) \in Seq(Token) /\ Len(Prefix(t, n)) = n
  BY <1>4, <1>5, <1>6, PrefixGrows
<1>8. NextChunk # <<>> /\ n + Len(NextChunk) = k /\ Len(NextChunk) \in Nat
  BY <1>4, <1>5, <1>7, EmptySeq
<1>9. Local = Prefix(t, n)
  <2>1. CASE call.reset /\ call.next = 0
    BY <1>1, <2>1, NoTokens DEF Local
  <2>2. CASE ~(call.reset /\ call.next = 0)
    BY <1>1, <1>2, <2>2 DEF Local, CallerOK, AtRun
  <2> QED BY <2>1, <2>2
<1> QED BY <1>1, <1>2, <1>5, <1>7, <1>8, <1>9

LEMMA WorkSent ==
    ASSUME CallInv, EvalLocal, planLive
    PROVE  /\ NewWork \in WorkRecord /\ NewWork.hop + Len(NewWork.route) = Slices /\ NewWork.hop = 1
           /\ NewWork.before = Prefix(call.target, call.next) /\ NewWork.tokens = NextChunk
           /\ End(NewWork) = call.next + Len(NextChunk)
<1>1. /\ NextChunk \in Seq(Token) /\ Prefix(call.target, call.next) \in Seq(Token)
      /\ Len(Prefix(call.target, call.next)) = call.next
  BY ChunkIsNext DEF EvalLocal, CallInv
<1>2. plan \in Seq(Entry) /\ Len(plan) = Slices /\ Slices \in Nat \ {0}
  BY SessionAssumption DEF CallInv, PlanOK, PlanWhole
<1>3. plan[1] \in Entry /\ Tail(plan) \in Seq(Entry) /\ Len(Tail(plan)) = Slices - 1
  <2>1. plan # <<>> /\ 1 \in 1..Len(plan)
    BY <1>2, EmptySeq
  <2> QED BY <1>2, <2>1, ElementOfSeq, HeadTailProperties
<1>4. plan[1].worker \in Worker /\ 1 \in 1..Slices /\ (call.reset /\ call.next = 0) \in BOOLEAN
  BY <1>2, <1>3 DEF Entry
<1>5. NewWork \in WorkRecord
  BY <1>1, <1>3, <1>4 DEF NewWork, WorkRecord
<1>6. /\ NewWork.hop = 1 /\ NewWork.route = Tail(plan) /\ NewWork.tokens = NextChunk
      /\ NewWork.before = Prefix(call.target, call.next)
  BY DEF NewWork
<1>7. 1 + (Slices - 1) = Slices
  BY <1>2
<1> QED BY <1>1, <1>3, <1>5, <1>6, <1>7 DEF End

LEMMA EvaluatingLocally ==
    ASSUME CallInv, EvalLocal
    PROVE  CallInv' /\ pc' = pc
<1> DEFINE p == Prefix(call.target, call.next)
<1>1. /\ pc = "run" /\ call.next < Len(call.target)
      /\ checkpoint' = Local \o NextChunk /\ valid' = TRUE /\ logits' = FALSE
      /\ call' = [call EXCEPT !.next = @ + Len(NextChunk)]
      /\ work' = IF planLive THEN work \cup {NewWork} ELSE work
      /\ UNCHANGED <<plan, planReady, planLive, kv, pc, outcome>>
  BY DEF EvalLocal, routeVars, workerVars
<1>2. /\ NextChunk \in Seq(Token) /\ NextChunk # <<>> /\ Len(NextChunk) \in Nat
      /\ p \in Seq(Token) /\ Len(p) = call.next
      /\ call.next \in Nat /\ call.next + Len(NextChunk) \in call.next..Len(call.target)
      /\ p \o NextChunk = Prefix(call.target, call.next + Len(NextChunk)) /\ Local = p
  BY <1>1, ChunkIsNext DEF CallInv
<1>3. PICK k \in Nat : k = call.next + Len(NextChunk)
  BY <1>2
<1>4. /\ call' \in CallRecord /\ call'.next = k /\ call'.done = call.done
      /\ call'.target = call.target /\ call'.kind = call.kind /\ call'.want = call.want
      /\ call'.reset = call.reset
  BY <1>1, <1>3 DEF CallInv, OwnerTypes, CallRecord
<1>5. checkpoint' = Prefix(call.target, k) /\ checkpoint' \in Seq(Token)
  <2>1. p \o NextChunk \in Seq(Token)
    BY <1>2, ConcatProperties
  <2> QED BY <1>1, <1>2, <1>3, <2>1
<1>6. OwnerTypes' /\ KvSound' /\ PlanOK'
  BY <1>1, <1>4, <1>5 DEF CallInv, OwnerTypes, KvSound, PlanOK, PlanWhole
<1>7. call.done \in Nat /\ call.done <= call.next /\ call.next <= k /\ k <= Len(call.target)
  BY <1>1, <1>2, <1>3 DEF CallInv, CallerOK, AtRun, OwnerTypes, CallRecord
<1>8. CallerOK'
  <2>1. call'.done <= call'.next /\ call'.next <= Len(call'.target)
    BY <1>2, <1>3, <1>4, <1>7
  <2>2. AtRun'
    BY <1>1, <1>4, <1>5, <2>1 DEF CallInv, CallerOK, AtRun, Prefix
  <2> QED BY <1>1, <2>2 DEF CallerOK, AtRoute, AtShard
<1>9. PICK w : w = NewWork
  OBVIOUS
<1>10. ASSUME planLive
       PROVE  /\ w \in WorkRecord /\ w.hop + Len(w.route) = Slices /\ w.hop = 1
              /\ w.before = p /\ w.tokens = NextChunk /\ End(w) = k
  BY <1>3, <1>9, <1>10, WorkSent
<1>11. work' = IF planLive THEN work \cup {w} ELSE work
  BY <1>1, <1>9
<1>12. WorkTypes'
  BY <1>10, <1>11 DEF CallInv, WorkTypes
<1>13. ASSUME NEW m \in work, m.current
       PROVE  Due(m)' /\ End(m) <= call.next
  <2>1. Due(m) /\ End(m) \in Nat
    BY <1>13, WorkNumbers DEF CallInv, WorkDue
  <2>2. End(m) <= call.next /\ End(m) <= k
    BY <1>2, <1>7, <2>1 DEF Due
  <2> QED BY <1>1, <1>4, <2>1, <2>2 DEF Due, End, Prefix
<1>14. ASSUME planLive
       PROVE  Due(w)'
  <2>1. w.before = p /\ w.tokens = NextChunk /\ Len(w.before) + Len(w.tokens) = k
    BY <1>10, <1>14 DEF End
  <2>2. w.before \o w.tokens = Prefix(call.target, k)
    BY <1>2, <1>3, <2>1
  <2> QED BY <1>1, <1>2, <1>3, <1>4, <1>7, <2>1, <2>2 DEF Due, End, Prefix
<1>15. ASSUME NEW m \in work, m.current, planLive
       PROVE  Ahead(m, w)
  <2>1. m.hop \in 1..Slices
    BY WorkNumbers DEF CallInv
  <2>2. 1 <= m.hop
    BY <2>1
  <2> QED BY <1>2, <1>10, <1>13, <1>15, <2>2 DEF Ahead
<1>16. WorkDue'
  <2>1. \A m \in work' : m.current => Due(m)'
    BY <1>11, <1>13, <1>14
  <2>2. \A m, n \in work' : m.current /\ n.current => m = n \/ Ahead(m, n) \/ Ahead(n, m)
    BY <1>11, <1>15 DEF CallInv, WorkDue
  <2> QED BY <2>1, <2>2 DEF WorkDue, Ahead, End
<1> QED BY <1>1, <1>6, <1>8, <1>12, <1>16 DEF CallInv

(* What a call that was given up leaves at the workers is no part of any   *)
(* later call.                                                             *)
LEMMA LateWork ==
    ASSUME WorkTypes, work' \in Abandoned
    PROVE  WorkTypes' /\ WorkDue'
<1>1. ASSUME NEW n \in work'
      PROVE  n \in WorkRecord /\ n.hop + Len(n.route) = Slices /\ ~n.current
  <2>1. PICK m \in work : n = [m EXCEPT !.current = FALSE]
    BY <1>1 DEF Abandoned
  <2>2. m \in WorkRecord /\ m.hop + Len(m.route) = Slices
    BY DEF WorkTypes
  <2>3. n \in WorkRecord /\ n.hop = m.hop /\ n.route = m.route /\ ~n.current
    BY <2>1, <2>2 DEF WorkRecord
  <2> QED BY <2>2, <2>3
<1> QED BY <1>1, NothingDueNext DEF WorkTypes

(* A call is tried again from token zero.                                  *)
LEMMA TriedAgain ==
    ASSUME OwnerTypes, CallerOK, pc = "run", checkpoint' \in Seq(Token),
           pc' \in {"run", "forget"},
           call' = [NoCall EXCEPT !.kind = call.kind, !.want = call.want,
                                  !.target = Transcript, !.reset = TRUE, !.again = TRUE]
    PROVE  call' \in CallRecord /\ AtRun'
<1>1. /\ call.kind \in {"sync", "eval"} /\ call.want \in Seq(Token) /\ call.want # <<>>
      /\ call.kind = "sync" => call.want = call.target
  BY DEF CallerOK, AtRun, OwnerTypes, CallRecord
<1>2. Transcript \in Seq(Token) /\ Transcript # <<>>
      /\ (call.kind = "sync" => Transcript = call.want)
  <2>1. call.want[Len(call.want)] \in Token
    <3>1. Len(call.want) \in 1..Len(call.want)
      BY <1>1, EmptySeq
    <3> QED BY <1>1, <3>1, ElementOfSeq
  <2>2. Append(checkpoint', call.want[Len(call.want)]) \in Seq(Token)
        /\ Append(checkpoint', call.want[Len(call.want)]) # <<>>
    BY <2>1, AppendProperties
  <2> QED BY <1>1, <2>2 DEF Transcript
<1>3. PICK t \in Seq(Token) : t = Transcript
  BY <1>2
<1>4. NoCall \in CallRecord
  BY EmptySeq DEF NoCall, CallRecord
<1>5. /\ call' \in CallRecord /\ call'.kind = call.kind /\ call'.want = call.want
      /\ call'.target = t /\ call'.reset /\ call'.next = 0 /\ call'.done = 0
  <2>1. call.kind \in Kinds \cup {"none"}
    BY <1>1 DEF Kinds
  <2> QED BY <1>1, <1>3, <1>4, <2>1 DEF CallRecord, NoCall
<1>6. Len(t) \in Nat
  OBVIOUS
<1> QED BY <1>1, <1>2, <1>3, <1>5, <1>6 DEF AtRun

LEMMA CallFails ==
    ASSUME CallInv, pc = "run", NEW forget \in BOOLEAN, Fail(forget),
           checkpoint' \in Seq(Token), valid' \in BOOLEAN, logits' \in BOOLEAN
    PROVE  CallInv' /\ EndsWell
<1>1. WorkTypes' /\ WorkDue'
  BY LateWork DEF CallInv, Fail
<1>2. KvSound'
  BY DEF CallInv, Fail, KvSound
<1>3. plan' = plan /\ (planLive' => planLive) /\ (planReady' => planReady)
  BY DEF Fail, CutSides
<1>4. CASE call.again
  <2>1. EndCall("failed") /\ call.kind # "save"
    BY <1>4 DEF Fail, CallInv, CallerOK, AtRun
  <2>2. /\ call' \in CallRecord /\ pc' = "idle"
        /\ outcome' \in Outcomes /\ outcome' # "ok"
    BY <2>1, CallReturns
  <2>3. OwnerTypes'
    BY <2>2 DEF OwnerTypes
  <2>4. CallerOK' /\ EndsWell
    BY <2>2 DEF CallerOK, AtRoute, AtRun, AtShard, EndsWell, Answered
  <2>5. PlanOK'
    BY <1>3, <2>2 DEF CallInv, PlanOK, PlanWhole
  <2> QED BY <1>1, <1>2, <2>3, <2>4, <2>5 DEF CallInv
<1>5. CASE ~call.again
  <2>1. /\ pc' \in {"run", "forget"} /\ outcome' = outcome
        /\ call' = [NoCall EXCEPT !.kind = call.kind, !.want = call.want,
                                  !.target = Transcript, !.reset = TRUE, !.again = TRUE]
    BY <1>5 DEF Fail
  <2>2. call' \in CallRecord /\ AtRun'
    BY <2>1, TriedAgain DEF CallInv
  <2>3. OwnerTypes'
    BY <2>1, <2>2 DEF CallInv, OwnerTypes
  <2>4. CallerOK' /\ EndsWell
    BY <2>1, <2>2 DEF CallerOK, AtRoute, AtShard, EndsWell, Answered
  <2>5. PlanOK'
    BY <1>3, <2>1 DEF CallInv, PlanOK, PlanWhole
  <2> QED BY <1>1, <1>2, <2>3, <2>4, <2>5 DEF CallInv
<1> QED BY <1>4, <1>5

LEMMA GivingUp ==
    ASSUME CallInv, FailLocal \/ FailRemote
    PROVE  CallInv' /\ EndsWell
<1>1. checkpoint \in Seq(Token) /\ valid \in BOOLEAN /\ logits \in BOOLEAN
  BY DEF CallInv, OwnerTypes
<1>2. CASE FailLocal
  <2>1. Local \in Seq(Token) /\ LocalValid \in BOOLEAN
    BY <1>1, EmptySeq DEF Local, LocalValid
  <2>2. /\ pc = "run" /\ checkpoint' = Local /\ valid' \in {LocalValid, FALSE}
        /\ logits' \in BOOLEAN /\ Fail(TRUE)
    BY <1>2 DEF FailLocal
  <2> QED BY <2>1, <2>2, CallFails
<1>3. CASE FailRemote
  <2>1. PICK forget \in BOOLEAN : Fail(forget) /\ UNCHANGED <<checkpoint, valid, logits>>
    BY <1>3 DEF FailRemote, ownerVars
  <2>2. pc = "run"
    BY <1>3 DEF FailRemote
  <2> QED BY <1>1, <2>1, <2>2, CallFails
<1> QED BY <1>2, <1>3

LEMMA Forgetting ==
    ASSUME CallInv, ForgetRoute
    PROVE  CallInv' /\ EndsWell
<1>1. /\ pc = "forget" /\ pc' = "reroute" /\ planLive' = FALSE
      /\ UNCHANGED <<checkpoint, valid, logits, call, outcome>> /\ UNCHANGED <<kv, work>>
  BY DEF ForgetRoute, ownerVars
<1>2. OwnerTypes'
  BY <1>1 DEF CallInv, OwnerTypes
<1>3. CallerOK'
  BY <1>1 DEF CallInv, CallerOK, AtRoute, AtRun, AtShard, Prefix
<1>4. PlanOK' /\ KvSound' /\ WorkTypes'
  BY <1>1 DEF CallInv, PlanOK, KvSound, WorkTypes
<1>5. WorkDue'
  BY <1>1, NothingDue, NothingDueNext DEF CallInv
<1> QED BY <1>1, <1>2, <1>3, <1>4, <1>5 DEF CallInv, EndsWell, Answered

(* The answer to the last chunk is the last of all: nothing of the call is *)
(* left, and the tokens are those of the target.                           *)
LEMMA Succeeding ==
    ASSUME CallInv, Succeed
    PROVE  CallInv' /\ EndsWell
<1>1. /\ pc = "run" /\ call.done = Len(call.target)
      /\ logits' = (call.sound /\ call.target = checkpoint) /\ EndCall("ok")
      /\ UNCHANGED <<checkpoint, valid>> /\ UNCHANGED <<plan, planReady, planLive>>
      /\ UNCHANGED <<kv, work>>
  BY DEF Succeed, routeVars, workerVars
<1>2. /\ call.kind \in {"sync", "eval"} /\ call.target # <<>>
      /\ call.kind = "sync" => call.target = call.want
      /\ call.done <= call.next /\ call.next <= Len(call.target)
      /\ ~(call.reset /\ call.next = 0) =>
            valid /\ checkpoint = Prefix(call.target, call.next)
  BY <1>1 DEF CallInv, CallerOK, AtRun
<1>3. call.target \in Seq(Token) /\ call.next \in Nat /\ call.sound = TRUE
  BY DEF CallInv, OwnerTypes, CallRecord
<1>4. PICK n \in Nat : n = Len(call.target)
  BY <1>3
<1>5. n > 0
  BY <1>2, <1>3, <1>4, EmptySeq
<1>6. call.next = n
  BY <1>1, <1>2, <1>3, <1>4
<1>7. valid /\ checkpoint = call.target
  <2>1. Prefix(call.target, n) = call.target
    BY <1>3, <1>4, NoTokens
  <2> QED BY <1>2, <1>5, <1>6, <2>1
<1>8. logits' = TRUE
  BY <1>1, <1>3, <1>7
<1>9. call' \in CallRecord /\ pc' = "idle" /\ outcome' \in Outcomes
  BY <1>1, CallReturns
<1>10. OwnerTypes'
  BY <1>1, <1>8, <1>9 DEF CallInv, OwnerTypes
<1>11. CallerOK'
  BY <1>8, <1>9 DEF CallerOK, AtRoute, AtRun, AtShard
<1>12. PlanOK' /\ KvSound' /\ WorkTypes'
  BY <1>1, <1>9 DEF CallInv, PlanOK, PlanWhole, KvSound, WorkTypes
<1>13. ASSUME NEW m \in work, m.current
       PROVE  FALSE
  <2>1. Due(m) /\ m.tokens \in Seq(Token) /\ Len(m.before) \in Nat
    BY <1>13, WorkNumbers DEF CallInv, WorkDue
  <2>2. Len(m.tokens) \in Nat /\ Len(m.tokens) > 0
    BY <2>1, EmptySeq DEF Due
  <2>3. n <= Len(m.before) /\ Len(m.before) + Len(m.tokens) <= n
    BY <1>1, <1>4, <1>6, <2>1 DEF Due, End
  <2>4. PICK x \in Nat, y \in Nat : x = Len(m.before) /\ y = Len(m.tokens)
    BY <2>1, <2>2
  <2>5. y > 0 /\ n <= x /\ x + y <= n
    BY <2>2, <2>3, <2>4
  <2> QED BY <2>5
<1>14. WorkDue'
  BY <1>1, <1>13, NothingDueNext
<1>15. EndsWell
  BY <1>1, <1>2, <1>7, <1>8 DEF EndsWell
<1> QED BY <1>10, <1>11, <1>12, <1>14, <1>15 DEF CallInv

-----------------------------------------------------------------------------
(* The shards of a checkpoint.                                             *)

LEMMA ShardHop ==
    ASSUME CallInv, Remote
    PROVE  ThisHop.worker \in Worker /\ call.next # 0 /\ call.next # Slices + 1
<1>1. call.next \in 1..Slices /\ plan \in Seq(Entry) /\ Len(plan) = Slices /\ Slices \in Nat
  BY SessionAssumption DEF Remote, CallInv, PlanOK, PlanWhole
<1>2. plan[call.next] \in Entry
  BY <1>1, ElementOfSeq
<1> QED BY <1>1, <1>2 DEF ThisHop, Entry

LEMMA LoadedSession ==
    ASSUME OwnerTypes
    PROVE  Loaded \in Session
  BY DEF OwnerTypes, CallRecord, Loaded, Session

(* From one shard to the next.                                             *)
LEMMA NextShardKeeps ==
    ASSUME CallInv, pc = "shard", pc' = "shard", outcome' = outcome,
           call' \in CallRecord, call'.kind = call.kind, call'.want = call.want,
           checkpoint' \in Seq(Token), valid' \in BOOLEAN, logits' \in BOOLEAN,
           call.kind = "save" => valid',
           call.kind = "load" => valid' /\ checkpoint' = call.want,
           plan' = plan, KvSound', work' = work
    PROVE  CallInv' /\ EndsWell
<1>1. OwnerTypes'
  BY DEF CallInv, OwnerTypes
<1>2. CallerOK'
  BY DEF CallInv, CallerOK, AtRoute, AtRun, AtShard
<1>3. PlanOK' /\ WorkTypes'
  BY DEF CallInv, PlanOK, PlanWhole, WorkTypes
<1>4. WorkDue'
  BY NothingDue, NothingDueNext DEF CallInv
<1> QED BY <1>1, <1>2, <1>3, <1>4 DEF CallInv, EndsWell, Answered

(* A save or a load that ends.                                             *)
LEMMA ShardsEnd ==
    ASSUME CallInv, pc = "shard", NEW result \in {"ok", "failed"}, EndCall(result),
           checkpoint' \in Seq(Token), valid' \in BOOLEAN, logits' \in BOOLEAN,
           UNCHANGED <<plan, planReady, planLive>>, KvSound', work' = work
    PROVE  CallInv' /\ (outcome' = "ok" <=> result = "ok")
<1>1. /\ call' \in CallRecord /\ pc' = "idle" /\ outcome' \in Outcomes
      /\ outcome' = "ok" <=> result = "ok"
  BY CallReturns
<1>2. OwnerTypes'
  BY <1>1 DEF OwnerTypes
<1>3. CallerOK'
  BY <1>1 DEF CallerOK, AtRoute, AtRun, AtShard
<1>4. PlanOK' /\ WorkTypes'
  BY <1>1 DEF CallInv, PlanOK, PlanWhole, WorkTypes
<1>5. WorkDue'
  BY NothingDue, NothingDueNext DEF CallInv
<1> QED BY <1>1, <1>2, <1>3, <1>4, <1>5 DEF CallInv

LEMMA Sharding ==
    ASSUME CallInv, ShardStep
    PROVE  CallInv' /\ EndsWell
<1> USE DEF ownerVars, routeVars, workerVars
<1>1. /\ pc = "shard" /\ call.kind \in {"save", "load"}
      /\ call.kind = "save" => valid
      /\ call.kind = "load" /\ call.next # 0 => valid /\ checkpoint = call.want
  BY DEF ShardStep, SaveLocal, SaveShard, SaveFails, LoadLocal, LoadShard, LoadFails,
         ShardsDone, Remote, CallInv, CallerOK, AtShard
<1>2. /\ checkpoint \in Seq(Token) /\ valid \in BOOLEAN /\ logits \in BOOLEAN
      /\ call \in CallRecord /\ call.want \in Seq(Token) /\ call.sound = TRUE
      /\ kv \in [Worker -> Session]
  BY DEF CallInv, OwnerTypes, CallRecord, KvSound
<1>3. NextShard \in CallRecord /\ NextShard.kind = call.kind /\ NextShard.want = call.want
      /\ NextShard.sound = TRUE
  <2>1. PICK n \in Nat : n = call.next + 1
    BY <1>2 DEF CallRecord
  <2>2. NextShard = [call EXCEPT !.next = n]
    BY <2>1 DEF NextShard
  <2> QED BY <1>2, <2>2 DEF CallRecord
<1>4. CASE SaveLocal
  <2>1. UNCHANGED <<checkpoint, valid, logits, plan, kv, work, pc, outcome>>
        /\ call' = NextShard /\ call.kind = "save"
    BY <1>4 DEF SaveLocal
  <2>2. KvSound'
    BY <1>2, <2>1 DEF KvSound
  <2> QED BY <1>1, <1>2, <1>3, <2>1, <2>2, NextShardKeeps
<1>5. CASE SaveShard
  <2>1. UNCHANGED <<checkpoint, valid, logits, plan, kv, work, pc, outcome>>
        /\ call.kind = "save"
    BY <1>5 DEF SaveShard
  <2>2. kv[ThisHop.worker].sound = TRUE /\ kv[ThisHop.worker].tokens = checkpoint
    BY <1>2, <1>5, ShardHop DEF SaveShard, HasShard, Session
  <2>3. call' = [NextShard EXCEPT !.sound =
                   (NextShard.sound /\ kv[ThisHop.worker].sound
                      /\ kv[ThisHop.worker].tokens = checkpoint)]
    BY <1>5 DEF SaveShard
  <2>4. call' = [NextShard EXCEPT !.sound = TRUE]
    BY <1>3, <2>2, <2>3
  <2>5. call' \in CallRecord /\ call'.kind = call.kind /\ call'.want = call.want
    BY <1>3, <2>4 DEF CallRecord
  <2>6. KvSound'
    BY <1>2, <2>1 DEF KvSound
  <2> QED BY <1>1, <1>2, <2>1, <2>5, <2>6, NextShardKeeps
<1>6. CASE SaveFails
  <2>1. /\ UNCHANGED <<checkpoint, valid, logits, kv, work>>
        /\ UNCHANGED <<plan, planReady, planLive>>
        /\ EndCall("failed") /\ call.kind = "save"
    BY <1>6 DEF SaveFails
  <2>2. KvSound'
    BY <1>2, <2>1 DEF KvSound
  <2>3. CallInv' /\ outcome' # "ok"
    BY <1>1, <1>2, <2>1, <2>2, ShardsEnd
  <2> QED BY <2>3 DEF EndsWell, Answered
<1>7. CASE LoadLocal
  <2>1. /\ logits' = FALSE /\ work' = work /\ call.kind = "load"
        /\ UNCHANGED <<plan, planReady, planLive>> /\ kv' = kv
    BY <1>7 DEF LoadLocal
  <2>2. KvSound'
    BY <1>2, <2>1 DEF KvSound
  <2>3. CASE /\ checkpoint' = call.want /\ valid' = TRUE /\ call' = NextShard
             /\ UNCHANGED <<pc, outcome>>
    BY <1>1, <1>2, <1>3, <2>1, <2>2, <2>3, NextShardKeeps
  <2>4. CASE EndCall("failed") /\ valid' = FALSE /\ checkpoint' = checkpoint
    <3>1. CallInv' /\ outcome' # "ok"
      BY <1>1, <1>2, <2>1, <2>2, <2>4, ShardsEnd
    <3> QED BY <3>1 DEF EndsWell, Answered
  <2> QED BY <1>7, <2>3, <2>4 DEF LoadLocal
<1>8. CASE LoadShard
  <2>1. /\ UNCHANGED <<checkpoint, valid, logits, plan, work, pc, outcome>>
        /\ call' = NextShard /\ call.kind = "load" /\ call.next # 0
        /\ kv' = [kv EXCEPT ![ThisHop.worker] = Loaded]
    BY <1>8, ShardHop DEF LoadShard
  <2>2. KvSound'
    BY <1>2, <2>1, LoadedSession DEF KvSound, CallInv
  <2> QED BY <1>1, <1>2, <1>3, <2>1, <2>2, NextShardKeeps
<1>9. CASE LoadFails
  <2>1. /\ UNCHANGED <<checkpoint, valid, logits, work>>
        /\ UNCHANGED <<plan, planReady, planLive>>
        /\ EndCall("failed") /\ call.kind = "load" /\ Remote
        /\ \/ kv' = kv
           \/ \E left \in {kv[ThisHop.worker], Loaded,
                           [kv[ThisHop.worker] EXCEPT !.valid = FALSE]} :
                 kv' = [kv EXCEPT ![ThisHop.worker] = left]
    BY <1>9 DEF LoadFails
  <2>2. kv[ThisHop.worker] \in Session
    BY <1>2, <2>1, ShardHop
  <2>3. /\ Loaded \in Session
        /\ [kv[ThisHop.worker] EXCEPT !.valid = FALSE] \in Session
    BY <2>2, LoadedSession DEF Session, CallInv
  <2>4. KvSound'
    BY <1>2, <2>1, <2>2, <2>3 DEF KvSound
  <2>5. CallInv' /\ outcome' # "ok"
    BY <1>1, <1>2, <2>1, <2>4, ShardsEnd
  <2> QED BY <2>5 DEF EndsWell, Answered
<1>10. CASE ShardsDone
  <2>1. /\ logits' = (logits \/ call.kind = "load") /\ EndCall("ok")
        /\ call.next = Slices + 1 /\ UNCHANGED <<checkpoint, valid>>
        /\ UNCHANGED <<plan, planReady, planLive>> /\ UNCHANGED <<kv, work>>
    BY <1>10 DEF ShardsDone
  <2>2. KvSound'
    BY <1>2, <2>1 DEF KvSound
  <2>3. call.next # 0
    BY <2>1, SessionAssumption
  <2>4. Evaluates => logits'
    BY <1>1, <2>1 DEF Evaluates
  <2>5. CallInv'
    BY <1>1, <1>2, <2>1, <2>2, ShardsEnd
  <2> QED BY <1>1, <1>2, <2>1, <2>3, <2>4, <2>5 DEF EndsWell
<1> QED BY <1>4, <1>5, <1>6, <1>7, <1>8, <1>9, <1>10 DEF ShardStep

-----------------------------------------------------------------------------
LEMMA InitCallInv == SessionInit => CallInv
<1>. SUFFICES ASSUME SessionInit PROVE CallInv
  OBVIOUS
<1>1. NoCall \in CallRecord /\ <<>> \in Seq(Token)
  BY EmptySeq DEF NoCall, CallRecord
<1>2. OwnerTypes
  BY <1>1 DEF SessionInit, OwnerTypes, Outcomes
<1>3. KvSound /\ PlanOK /\ CallerOK
  BY FreshSession DEF SessionInit, KvSound, PlanOK, CallerOK, AtRoute, AtRun, AtShard
<1>4. WorkTypes /\ WorkDue
  BY DEF SessionInit, WorkTypes, WorkDue
<1> QED BY <1>2, <1>3, <1>4 DEF CallInv

LEMMA CallStepKeeps ==
    ASSUME CallInv, RouteInv, [Next]_vars
    PROVE  CallInv' /\ EndsWell
<1>1. CASE UNCHANGED vars
  <2>1. UNCHANGED <<checkpoint, valid, logits, pc, call, outcome>>
        /\ UNCHANGED <<plan, planReady, planLive>> /\ UNCHANGED <<kv, work>>
    BY <1>1 DEF vars, ownerVars, routeVars, workerVars, callVars
  <2>2. KvSound'
    BY <2>1 DEF CallInv, KvSound
  <2> QED BY <2>1, <2>2, WorkersMove DEF EndsWell, Answered
<1>2. CASE \/ \E w \in Worker : \/ Register(w) \/ RemoveWorker(w) \/ LoseConnection(w)
                                \/ Disconnect(w) \/ Crash(w)
           \/ \E m \in work : Refuse(m) \/ FinishWork(m) \/ ForwardWork(m) \/ LoseWork(m)
  <2>1. CallInv'
    BY <1>2, ConnectionSteps, RefusingWork, FinishingWork, ForwardingWork, LosingWork
  <2>2. pc' = pc
    BY <1>2, WorkersAnswerNothing
  <2> QED BY <2>1, <2>2 DEF EndsWell, Answered
<1>3. CASE \/ \E p \in Prompts : StartSync(p) \/ StartRewound(p)
           \/ \E t \in Samples : StartEval(t)
           \/ \E p \in Stored : StartLoad(p)
           \/ StartSave
  BY <1>3, StartingSteps DEF EndsWell, Answered
<1>4. CASE Invalidate
  BY <1>4, Discarding DEF EndsWell, Answered
<1>5. CASE EnsureRoute \/ Reroute
  BY <1>5, Routing DEF RouteInv
<1>6. CASE EvalLocal
  BY <1>6, EvaluatingLocally DEF EndsWell, Answered
<1>7. CASE FailLocal \/ FailRemote \/ ForgetRoute \/ Succeed \/ ShardStep
  BY <1>7, GivingUp, Forgetting, Succeeding, Sharding
<1> QED
  BY <1>1, <1>2, <1>3, <1>4, <1>5, <1>6, <1>7 DEF Next, CallStep, WorkerStep

(* For all workers, slices, prompts, sizes of chunks, numbers of failures   *)
(* and of pieces of work that outlive their call, and whether the caller    *)
(* keeps a session after a call that failed or not: a call that ends well   *)
(* leaves the tokens it was asked for, one that evaluates leaves logits of  *)
(* a KV state that is theirs on every worker, and one that saves has saved  *)
(* such a state.                                                            *)
THEOREM EvaluationIsFaithful == Spec => EvaluationFaithful
<1>1. SessionInit => CallInv /\ RouteInv
  <2>1. SessionInit => RouteInv
    BY DEF SessionInit, RouteInv, Registered, Absent, UpToDate
  <2> QED BY <2>1, InitCallInv
<1>2. CallInv /\ RouteInv /\ [Next]_vars => (CallInv /\ RouteInv)'
  BY CallStepKeeps, RouteStep
<1>3. CallInv /\ RouteInv /\ [Next]_vars
      => [Answered =>
           /\ valid'
           /\ Evaluates => logits'
           /\ call.kind \in {"sync", "load"} => checkpoint' = call.want
           /\ call.kind = "save" => call.sound]_vars
  BY CallStepKeeps DEF EndsWell
<1> QED BY <1>1, <1>2, <1>3, PTL DEF Spec, EvaluationFaithful
=============================================================================
