--------------------------- MODULE StorageProofs ---------------------------
(***************************************************************************)
(* What outlives a process.  For every set of texts, models, contexts and  *)
(* faults, and for any number of crashes: no checkpoint's name has a part  *)
(* of a file, what was stored is served, the least recently used file is   *)
(* removed first and the budget is held.  For every plan of tensors and    *)
(* files, every size of a file and any number of interrupted runs: what    *)
(* the checkpoint of a build calls done is whole, a complete build is      *)
(* whole, and never more than one group is staged.  For every number of    *)
(* ids, every length of a text, every two limits and any number of         *)
(* clients: the tool memory's counters say what it holds, and a reply's    *)
(* text is the one the model sampled.                                      *)
(***************************************************************************)
EXTENDS KvStore, StreamBuild, ToolMemory, TLAPS, FiniteSetTheorems,
        SequenceTheorems, WellFoundedInduction

-----------------------------------------------------------------------------
(* Sums over finite sets, by induction on the number of elements.          *)

(* A set of numbers has a least one.                                       *)
LEMMA LeastNumber ==
    ASSUME NEW T \in SUBSET Nat, T # {}
    PROVE  \E x \in T : \A y \in T : x <= y
<1> DEFINE R == OpToRel(<, Nat)
<1>1. IsWellFoundedOn(R, Nat)
  BY NatLessThanWellFounded
<1>2. \A x, y \in Nat : y < x => <<y, x>> \in R
  BY DEF OpToRel
<1> HIDE DEF R
<1>3. PICK x \in T : \A y \in T : ~(<<y, x>> \in R)
  BY <1>1, WFMin
<1>4. \A y \in T : ~(y < x)
  BY <1>2, <1>3
<1> QED
  BY <1>4

(* Of the subsets of a finite set that have a property one is smallest.    *)
LEMMA SmallestSubset ==
    ASSUME NEW S, IsFiniteSet(S), NEW T \in SUBSET SUBSET S, T # {}
    PROVE  \E s \in T : \A t \in SUBSET S :
              Cardinality(t) < Cardinality(s) => t \notin T
<1> DEFINE N == {Cardinality(s) : s \in T}
<1>1. N \in SUBSET Nat /\ N # {}
  BY FS_Subset, FS_CardinalityType
<1>2. PICK n \in N : \A m \in N : n <= m
  <2> HIDE DEF N
  <2> QED
    BY <1>1, LeastNumber
<1>3. PICK s \in T : n = Cardinality(s)
  OBVIOUS
<1>4. \A t \in T : Cardinality(t) \in Nat /\ n <= Cardinality(t)
  BY <1>1, <1>2
<1> QED
  BY <1>3, <1>4

\* The element that MapThenSumSet takes first.
First(s) == CHOOSE x \in s : TRUE

\* h has the sum of g over each subset of S, as MapThenSumSet takes it.
Sums(h, g, S) ==
    h = [s \in SUBSET S |->
            IF s = {} THEN 0 ELSE g[First(s)] + h[s \ {First(s)}]]

(* The element taken first, and what is left, of a set that has one.       *)
LEMMA FirstTaken ==
    ASSUME NEW S, IsFiniteSet(S), NEW s \in SUBSET S, s # {}
    PROVE  /\ First(s) \in s /\ s \ {First(s)} \in SUBSET S
           /\ Cardinality(s \ {First(s)}) = Cardinality(s) - 1
           /\ Cardinality(s) \in Nat \ {0}
<1> DEFINE c == First(s)
<1>1. c \in s /\ IsFiniteSet(s)
  BY FS_Subset DEF First
<1> HIDE DEF c
<1>2. Cardinality(s \ {c}) = Cardinality(s) - 1 /\ IsFiniteSet(s \ {c})
  BY <1>1, FS_RemoveElement
<1>3. Cardinality(s) \in Nat /\ Cardinality(s \ {c}) \in Nat
  BY <1>1, <1>2, FS_CardinalityType
<1>4. Cardinality(s) # 0
  BY <1>2, <1>3
<1> QED
  BY <1>1, <1>2, <1>3, <1>4 DEF c

(* There are such sums: those of the subsets up to a size give those of    *)
(* the next one.                                                           *)
LEMMA SumsExist ==
    ASSUME NEW S, IsFiniteSet(S), NEW g \in [S -> Nat]
    PROVE  \E h : Sums(h, g, S)
<1> DEFINE Body(h, s) ==
              IF s = {} THEN 0
              ELSE g[First(s)] + h[s \ {First(s)}]
           UpTo(h, n) == \A s \in SUBSET S :
                            Cardinality(s) <= n => h[s] = Body(h, s)
           Bad == {n \in Nat : ~ \E h \in [SUBSET S -> Nat] : UpTo(h, n)}
<1>1. Bad = {}
  <2> SUFFICES ASSUME Bad # {} PROVE FALSE
    OBVIOUS
  <2>1. PICK n \in Bad : \A m \in Bad : n <= m
    <3> HIDE DEF Bad
    <3>1. Bad \in SUBSET Nat
      BY DEF Bad
    <3> QED
      BY <3>1, LeastNumber
  <2>2. n \in Nat
    OBVIOUS
  <2>3. PICK h \in [SUBSET S -> Nat] : n = 0 \/ UpTo(h, n - 1)
    <3>1. CASE n = 0
      <4> [s \in SUBSET S |-> 0] \in [SUBSET S -> Nat]
        OBVIOUS
      <4> QED
        BY <3>1
    <3>2. CASE n # 0
      <4>1. n - 1 \in Nat /\ n - 1 < n
        BY <2>2, <3>2
      <4>2. n - 1 \notin Bad
        <5> HIDE DEF Bad
        <5>1. \A m \in Bad : n <= m
          BY <2>1
        <5> QED
          BY <2>2, <4>1, <5>1
      <4> QED
        BY <4>1, <4>2
    <3> QED
      BY <3>1, <3>2
  <2> DEFINE k == [s \in SUBSET S |-> Body(h, s)]
  <2>4. ASSUME NEW s \in SUBSET S
        PROVE  /\ k[s] \in Nat
               /\ Cardinality(s) <= n => k[s] = Body(k, s)
    <3>1. CASE s = {}
      BY <3>1
    <3>2. CASE s # {}
      <4> DEFINE c == First(s)
      <4>1. /\ c \in S /\ s \ {c} \in SUBSET S
            /\ Cardinality(s \ {c}) = Cardinality(s) - 1
            /\ Cardinality(s) \in Nat \ {0}
        BY <3>2, FirstTaken
      <4> HIDE DEF c
      <4>2. g[c] \in Nat /\ h[s \ {c}] \in Nat
        BY <4>1
      <4>3. k[s] = g[c] + h[s \ {c}]
        BY <3>2 DEF c
      <4>4. Body(k, s) = g[c] + k[s \ {c}]
        BY <3>2 DEF c
      <4>5. Cardinality(s) <= n => k[s \ {c}] = h[s \ {c}]
        <5> SUFFICES ASSUME Cardinality(s) <= n
                     PROVE  k[s \ {c}] = h[s \ {c}]
          OBVIOUS
        <5>1. n # 0 /\ Cardinality(s \ {c}) <= n - 1
          BY <2>2, <4>1
        <5>2. h[s \ {c}] = Body(h, s \ {c})
          BY <2>3, <4>1, <5>1
        <5> QED
          BY <4>1, <5>2
      <4> HIDE DEF k, Body
      <4> QED
        BY <4>2, <4>3, <4>4, <4>5
    <3> QED
      BY <3>1, <3>2
  <2>5. k \in [SUBSET S -> Nat] /\ UpTo(k, n)
    <3> HIDE DEF Body
    <3>1. \A s \in SUBSET S : k[s] \in Nat
      BY <2>4
    <3>2. k \in [SUBSET S -> Nat]
      BY <3>1
    <3> HIDE DEF k
    <3> QED
      BY <2>4, <3>2
  <2> HIDE DEF k, UpTo
  <2> QED
    BY <2>5
<1>2. Cardinality(S) \in Nat
  BY FS_CardinalityType
<1>3. PICK h \in [SUBSET S -> Nat] : UpTo(h, Cardinality(S))
  <2> HIDE DEF UpTo
  <2> QED
    BY <1>1, <1>2
<1>4. \A s \in SUBSET S : h[s] = Body(h, s)
  <2>1. \A s \in SUBSET S : Cardinality(s) <= Cardinality(S)
    BY FS_Subset
  <2> HIDE DEF Body
  <2> QED
    BY <1>3, <2>1
<1>5. h = [s \in SUBSET S |-> Body(h, s)]
  <2> HIDE DEF Body
  <2> QED
    BY <1>4
<1> QED
  BY <1>5 DEF Sums

(* What one step of a sum is.                                              *)
LEMMA SumsStep ==
    ASSUME NEW S, IsFiniteSet(S), NEW g, NEW h, Sums(h, g, S),
           NEW s \in SUBSET S
    PROVE  h[s] = IF s = {} THEN 0 ELSE g[First(s)] + h[s \ {First(s)}]
BY DEF Sums

(* Sums depend on the numbers alone.                                       *)
LEMMA SumsAgree ==
    ASSUME NEW S1, IsFiniteSet(S1), NEW g1, NEW h1, Sums(h1, g1, S1),
           NEW S2, IsFiniteSet(S2), NEW g2, NEW h2, Sums(h2, g2, S2),
           NEW T, T \subseteq S1, T \subseteq S2,
           \A x \in T : g1[x] = g2[x]
    PROVE  h1[T] = h2[T]
<1> DEFINE Bad == {s \in SUBSET T : h1[s] # h2[s]}
<1> SUFFICES ASSUME Bad # {} PROVE FALSE
  OBVIOUS
<1>1. IsFiniteSet(T)
  BY FS_Subset
<1>2. PICK s \in Bad : \A t \in SUBSET T :
          Cardinality(t) < Cardinality(s) => t \notin Bad
  <2> HIDE DEF Bad
  <2>1. Bad \in SUBSET SUBSET T
    BY DEF Bad
  <2> QED
    BY <1>1, <2>1, SmallestSubset
<1> DEFINE c == First(s)
<1>3. /\ h1[s] = IF s = {} THEN 0 ELSE g1[c] + h1[s \ {c}]
      /\ h2[s] = IF s = {} THEN 0 ELSE g2[c] + h2[s \ {c}]
  <2>1. s \in SUBSET S1 /\ s \in SUBSET S2
    OBVIOUS
  <2> QED
    BY <2>1, SumsStep
<1>4. s # {}
  BY <1>3
<1>5. /\ c \in T /\ s \ {c} \in SUBSET T
      /\ Cardinality(s \ {c}) < Cardinality(s)
  <2>1. s \in SUBSET T
    OBVIOUS
  <2> HIDE DEF Bad
  <2>2. /\ c \in s /\ s \ {c} \in SUBSET T
        /\ Cardinality(s \ {c}) = Cardinality(s) - 1
        /\ Cardinality(s) \in Nat \ {0}
    BY <1>1, <1>4, <2>1, FirstTaken
  <2> QED
    BY <2>1, <2>2
<1>6. h1[s \ {c}] = h2[s \ {c}]
  BY <1>2, <1>5
<1> HIDE DEF c
<1> QED
  BY <1>3, <1>4, <1>5, <1>6

(* Any element may be taken first, and a sum of numbers is one.            *)
LEMMA SumsTake ==
    ASSUME NEW S, IsFiniteSet(S), NEW g \in [S -> Nat], NEW h, Sums(h, g, S)
    PROVE  \A s \in SUBSET S :
              h[s] \in Nat /\ \A x \in s : h[s] = g[x] + h[s \ {x}]
<1> DEFINE Good(s) == h[s] \in Nat /\ \A x \in s : h[s] = g[x] + h[s \ {x}]
           Bad == {s \in SUBSET S : ~Good(s)}
<1> SUFFICES ASSUME Bad # {} PROVE FALSE
  OBVIOUS
<1>1. PICK s \in Bad : \A t \in SUBSET S :
          Cardinality(t) < Cardinality(s) => Good(t)
  <2>1. Bad \in SUBSET SUBSET S
    OBVIOUS
  <2>2. PICK s \in Bad : \A t \in SUBSET S :
          Cardinality(t) < Cardinality(s) => t \notin Bad
    <3> HIDE DEF Bad
    <3> QED
      BY <2>1, SmallestSubset
  <2> QED
    BY <2>2
<1> DEFINE c == First(s)
<1>2. s \in SUBSET S /\ ~Good(s)
  OBVIOUS
<1>3. h[s] = IF s = {} THEN 0 ELSE g[c] + h[s \ {c}]
  <2>1. s \in SUBSET S
    BY <1>2
  <2> HIDE DEF Bad, Good
  <2> QED
    BY <2>1, SumsStep
<1>4. s # {}
  BY <1>2, <1>3
<1>5. /\ c \in s /\ s \ {c} \in SUBSET S /\ s \in SUBSET S
      /\ Cardinality(s \ {c}) < Cardinality(s)
      /\ Cardinality(s) \in Nat \ {0}
  <2>1. Cardinality(s) \in Nat
    BY <1>2, FS_Subset, FS_CardinalityType
  <2> QED
    BY <1>2, <1>4, <2>1, FirstTaken
<1> HIDE DEF c
<1>6. h[s \ {c}] \in Nat /\ g[c] \in Nat
  BY <1>1, <1>5
<1>7. h[s] \in Nat
  BY <1>3, <1>4, <1>6
<1>8. ASSUME NEW x \in s PROVE h[s] = g[x] + h[s \ {x}]
  <2>1. CASE x = c
    BY <1>3, <1>4, <2>1
  <2>2. CASE x # c
    <3>1. /\ s \ {x} \in SUBSET S /\ c \in s \ {x} /\ x \in s \ {c}
          /\ (s \ {x}) \ {c} = (s \ {c}) \ {x}
      BY <1>5, <2>2
    <3>2. Cardinality(s \ {x}) < Cardinality(s)
      <4>1. IsFiniteSet(s)
        BY <1>5, FS_Subset
      <4> QED
        BY <1>5, <4>1, FS_RemoveElement
    <3>3. h[s \ {x}] = g[c] + h[(s \ {x}) \ {c}]
      BY <1>1, <3>1, <3>2
    <3>4. h[s \ {c}] = g[x] + h[(s \ {c}) \ {x}]
      BY <1>1, <1>5, <3>1
    <3>5. g[x] \in Nat /\ h[(s \ {c}) \ {x}] \in Nat
      <4>1. (s \ {c}) \ {x} \in SUBSET S /\ IsFiniteSet(s \ {c})
        BY <1>5, FS_Subset
      <4>2. Cardinality((s \ {c}) \ {x}) = Cardinality(s \ {c}) - 1
        BY <3>1, <4>1, FS_RemoveElement
      <4>3. Cardinality(s \ {c}) \in Nat
        BY <4>1, FS_CardinalityType
      <4>4. Cardinality((s \ {c}) \ {x}) < Cardinality(s)
        BY <1>5, <4>2, <4>3
      <4> QED
        BY <1>1, <1>5, <4>1, <4>4
    <3> QED
      BY <1>3, <1>4, <1>6, <3>1, <3>3, <3>4, <3>5
  <2> QED
    BY <2>1, <2>2
<1> QED
  BY <1>2, <1>7, <1>8

(* A sum of numbers is one.                                                *)
LEMMA SumsType ==
    ASSUME NEW S, IsFiniteSet(S), NEW g \in [S -> Nat], NEW h, Sums(h, g, S)
    PROVE  \A s \in SUBSET S : h[s] \in Nat
BY SumsTake, SMT

(* Any element of the whole set may be taken first.                        *)
LEMMA SumsTakeAll ==
    ASSUME NEW S, IsFiniteSet(S), NEW g \in [S -> Nat], NEW h, Sums(h, g, S),
           NEW x \in S, NEW T, T = S \ {x}
    PROVE  h[S] = g[x] + h[T]
<1>1. h[S] = g[x] + h[S \ {x}]
  <2>1. \A s \in SUBSET S :
           h[s] \in Nat /\ \A y \in s : h[s] = g[y] + h[s \ {y}]
    BY SumsTake, SMT
  <2>2. S \in SUBSET S
    OBVIOUS
  <2>3. h[S] \in Nat /\ \A y \in S : h[S] = g[y] + h[S \ {y}]
    BY <2>1, <2>2, Zenon
  <2> QED
    BY <2>3
<1> QED
  BY <1>1

(* Of two sums over a set the one with the smaller numbers is smaller.     *)
LEMMA SumsCompare ==
    ASSUME NEW S, IsFiniteSet(S), NEW g \in [S -> Nat], NEW h, Sums(h, g, S),
           NEW k \in [S -> Nat], NEW i, Sums(i, k, S),
           \A x \in S : g[x] <= k[x]
    PROVE  h[S] <= i[S]
<1> DEFINE Bad == {s \in SUBSET S : ~(h[s] <= i[s])}
<1> SUFFICES ASSUME Bad # {} PROVE FALSE
  OBVIOUS
<1>1. PICK s \in Bad : \A t \in SUBSET S :
          Cardinality(t) < Cardinality(s) => t \notin Bad
  <2> HIDE DEF Bad
  <2>1. Bad \in SUBSET SUBSET S
    BY DEF Bad
  <2> QED
    BY <2>1, SmallestSubset
<1>2. s \in SUBSET S /\ ~(h[s] <= i[s])
  OBVIOUS
<1> DEFINE c == First(s)
<1>3. /\ h[s] = IF s = {} THEN 0 ELSE g[c] + h[s \ {c}]
      /\ i[s] = IF s = {} THEN 0 ELSE k[c] + i[s \ {c}]
  <2> HIDE DEF Bad
  <2>1. s \in SUBSET S
    BY <1>2
  <2>2. h[s] = IF s = {} THEN 0 ELSE g[First(s)] + h[s \ {First(s)}]
    BY <2>1, SumsStep
  <2>3. i[s] = IF s = {} THEN 0 ELSE k[First(s)] + i[s \ {First(s)}]
    BY <2>1 DEF Sums
  <2> QED
    BY <2>2, <2>3
<1>4. s # {}
  BY <1>2, <1>3
<1>5. /\ c \in s /\ s \ {c} \in SUBSET S
      /\ Cardinality(s \ {c}) = Cardinality(s) - 1
      /\ Cardinality(s) \in Nat \ {0}
  <2> HIDE DEF Bad
  <2> QED
    BY <1>2, <1>4, FirstTaken
<1>6. h[s \ {c}] <= i[s \ {c}]
  BY <1>1, <1>5
<1>7. h[s \ {c}] \in Nat /\ i[s \ {c}] \in Nat
  <2>1. \A t \in SUBSET S : h[t] \in Nat
    BY SumsType
  <2>2. \A t \in SUBSET S : i[t] \in Nat
    BY SumsType
  <2> QED
    BY <1>5, <2>1, <2>2
<1>8. c \in S /\ g[c] \in Nat /\ k[c] \in Nat /\ g[c] <= k[c]
  BY <1>2, <1>5
<1> HIDE DEF c, Bad
<1> QED
  BY <1>2, <1>3, <1>4, <1>6, <1>7, <1>8

\* The sum of g over S.
Sum(g, S) == LET h == CHOOSE h : Sums(h, g, S) IN h[S]

(* What a sum is made of.                                                  *)
LEMMA SumFacts ==
    ASSUME NEW S, IsFiniteSet(S), NEW g \in [S -> Nat]
    PROVE  /\ Sum(g, S) \in Nat
           /\ S = {} => Sum(g, S) = 0
<1> DEFINE h == CHOOSE h : Sums(h, g, S)
<1>1. Sums(h, g, S)
  BY SumsExist
<1>2. Sum(g, S) = h[S]
  BY DEF Sum
<1> HIDE DEF h
<1>3. h[S] \in Nat
  BY <1>1, SumsTake
<1>4. S = {} => h[S] = 0
  <2>1. S \in SUBSET S
    OBVIOUS
  <2> QED
    BY <1>1, <2>1, SumsStep
<1> QED
  BY <1>2, <1>3, <1>4

(* A sum over a set is an element's number and the sum over the others.    *)
LEMMA SumTake ==
    ASSUME NEW S, IsFiniteSet(S), NEW g \in [S -> Nat], NEW x \in S,
           NEW T, T = S \ {x}, NEW k \in [T -> Nat], \A y \in T : k[y] = g[y]
    PROVE  Sum(g, S) = g[x] + Sum(k, T)
<1> DEFINE h == CHOOSE h : Sums(h, g, S)
           i == CHOOSE i : Sums(i, k, T)
<1>1. IsFiniteSet(T)
  BY FS_Subset
<1>2. Sums(h, g, S) /\ Sums(i, k, T)
  BY <1>1, SumsExist
<1>3. Sum(g, S) = h[S] /\ Sum(k, T) = i[T]
  BY DEF Sum
<1> HIDE DEF h, i
<1>4. h[S] = g[x] + h[T]
  <2>1. Sums(h, g, S)
    BY <1>2
  <2> QED
    BY <2>1, SumsTakeAll
<1>5. h[T] = i[T]
  BY <1>1, <1>2, SumsAgree
<1> QED
  BY <1>3, <1>4, <1>5

-----------------------------------------------------------------------------
(* A checkpoint's name has a whole file or none.                           *)

\* The part of the types that the argument needs.
DiskTypes ==
    /\ disk \in [Keys -> File \cup {Missing}]
    /\ new \in File \cup {Missing}
    /\ key \in Keys \cup {NoKey}
    /\ clock \in Nat
    /\ settings \in Settings
    /\ pc = "append" => key \in Keys /\ disk[key] \in File /\ new \in File
    /\ pc \in {"create", "write", "rename"} => key \in Keys /\ new \in File

\* What is renamed was written to its end.
RenamesWhole == pc = "rename" => new.whole

WholeInv == DiskTypes /\ PathsAreWhole /\ RenamesWhole

\* An eviction that makes room for a file knows the file; an operation that
\* has ended leaves none behind.
EvictsFor ==
    /\ pc = "evict" /\ key # NoKey => key \in Keys /\ new \in File
    /\ pc \in {"idle", "down"} => key = NoKey

Inv == WholeInv /\ EvictsFor

USE StoreAssumption, MissingAssumption DEF StoreAssumption, MissingAssumption

(* The empty directory of the first start has no file at all.              *)
LEMMA InvInit == Init => Inv
BY DEF Init, Inv, WholeInv, DiskTypes, PathsAreWhole, RenamesWhole, EvictsFor

(* Changing a field other than `whole` of a file leaves it a file, as      *)
(* whole as it was.                                                        *)
LEMMA FieldChange ==
    ASSUME NEW f \in File, NEW n \in Nat
    PROVE  /\ [f EXCEPT !.trailer = n] \in File
           /\ [f EXCEPT !.trailer = n].whole = f.whole
           /\ [f EXCEPT !.used = n] \in File
           /\ [f EXCEPT !.used = n].whole = f.whole
           /\ [f EXCEPT !.created = n] \in File
BY DEF File

(* A lookup that finds a text finds one of a listed file.                  *)
LEMMA FoundListed ==
    ASSUME NEW k, Found(k) # NoKey
    PROVE  Found(k) \in Listed
BY DEF Found

(* Every action preserves the invariant.                                   *)
LEMMA InvNext == Inv /\ [Next]_vars => Inv'
<1> SUFFICES ASSUME Inv, [Next]_vars PROVE Inv'
  OBVIOUS
<1> USE DEF Inv, WholeInv, DiskTypes, PathsAreWhole, RenamesWhole, EvictsFor
<1>1. CASE Tick
  BY <1>1 DEF Tick, opVars, history
<1>2. CASE EvictOne
  BY <1>2 DEF EvictOne
<1>3. CASE EvictEnd
  BY <1>3 DEF EvictEnd
<1>4. CASE AppendTrailer
  <2> DEFINE f == [disk[key] EXCEPT !.trailer = new.trailer]
             g == [f EXCEPT !.used = clock]
  <2>1. key \in Keys /\ disk[key] \in File /\ disk[key].whole
    BY <1>4 DEF AppendTrailer
  <2>2. new.trailer \in Nat
    BY <1>4 DEF AppendTrailer, File
  <2>3. f \in File /\ f.whole
    BY <2>1, <2>2, FieldChange
  <2>4. g \in File /\ g.whole
    BY <2>3, FieldChange
  <2>5. disk' = disk \/ disk' = [disk EXCEPT ![key] = g]
    BY <1>4 DEF AppendTrailer
  <2> HIDE DEF f, g
  <2> QED
    BY <1>4, <2>1, <2>4, <2>5 DEF AppendTrailer, Return
<1>5. CASE CreateTmp
  <2>1. ASSUME new' = [new EXCEPT !.created = clock, !.used = clock],
               new \in File
        PROVE  new' \in File
    BY <2>1 DEF File
  <2> QED
    BY <1>5, <2>1 DEF CreateTmp, Return
<1>6. CASE WriteTmp
  BY <1>6 DEF WriteTmp, history, Written, File
<1>7. CASE RenameTmp
  BY <1>7 DEF RenameTmp, Return, opVars, history
<1>8. CASE RemoveTmp
  BY <1>8 DEF RemoveTmp, Return
<1>9. CASE Crash
  BY <1>9 DEF Crash
<1>10. ASSUME NEW k \in Keys, StoreExisting(k) PROVE Inv'
  <2>1. disk[k] \in File /\ disk[k].whole
    BY <1>10 DEF StoreExisting, Listed
  <2>2. CASE Return(k, clock) /\ UNCHANGED disk
    BY <1>10, <2>2 DEF StoreExisting, Return
  <2>3. ASSUME NEW n \in TrailerSizes,
               disk' = [disk EXCEPT ![k].trailer = 0],
               new' = [disk[k] EXCEPT !.trailer = n],
               pc' = "append", key' = k
        PROVE  Inv'
    <3> DEFINE f == [disk[k] EXCEPT !.trailer = 0]
    <3>1. f \in File /\ f.whole /\ new' \in File
      BY <2>1, <2>3, FieldChange
    <3>2. disk' = [disk EXCEPT ![k] = f]
      BY <2>3
    <3> HIDE DEF f
    <3> QED
      BY <1>10, <2>3, <3>1, <3>2 DEF StoreExisting
  <2> QED
    BY <1>10, <2>2, <2>3 DEF StoreExisting
<1>11. ASSUME NEW k \in Keys, StoreNew(k) PROVE Inv'
  <2>1. /\ disk' \in [Keys -> File \cup {Missing}]
        /\ PathsAreWhole'
        /\ UNCHANGED <<clock, settings>>
    BY <1>11 DEF StoreNew
  <2>2. CASE Return(NoKey, 0)
    BY <2>1, <2>2 DEF Return
  <2>3. ASSUME NEW hidden \in Hidden, NEW n \in TrailerSizes,
               pc' = "evict", key' = k,
               new' = [model |-> settings.model, ctx |-> settings.ctx,
                       tokens |-> Len(k) + hidden, trailer |-> n,
                       created |-> 0, used |-> 0, whole |-> FALSE]
        PROVE  Inv'
    <3>1. Len(k) + hidden \in Nat
      <4>1. Len(k) \in Nat /\ hidden \in Nat
        OBVIOUS
      <4> QED
        BY <4>1
    <3>2. settings.model \in Models /\ settings.ctx \in Contexts
      BY DEF Settings
    <3>3. n \in Nat
      OBVIOUS
    <3> HIDE DEF StoreAssumption, Inv
    <3>4. new' \in File
      BY <2>3, <3>1, <3>2, <3>3 DEF File
    <3> QED
      BY <2>1, <2>3, <3>4 DEF Inv
  <2> QED
    BY <1>11, <2>2, <2>3 DEF StoreNew
<1>12. ASSUME NEW k \in Keys, Load(k) PROVE Inv'
  <2> DEFINE q == Found(k)
  <2>1. pc = "idle" /\ UNCHANGED <<clock, settings, opVars, pc>>
    BY <1>12 DEF Load
  <2>2. CASE UNCHANGED disk
    BY <2>1, <2>2 DEF opVars, history
  <2>3. CASE disk' = [disk EXCEPT ![q] = Touched(@)]
    <3>1. CASE q \in Keys /\ disk[q] # Missing
      <4>1. Touched(disk[q]) \in File /\ Touched(disk[q]).whole
        BY <3>1, FieldChange DEF Touched
      <4> QED
        BY <2>1, <2>3, <3>1, <4>1 DEF opVars, history
    <3>2. q \in Listed
      BY <1>12, FoundListed DEF Load
    <3> QED
      BY <3>1, <3>2 DEF Listed
  <2> QED
    BY <1>12, <2>2, <2>3 DEF Load
<1>13. ASSUME NEW k \in Keys, PrefillDone(k) PROVE Inv'
  BY <1>13 DEF PrefillDone, opVars, history
<1>14. ASSUME NEW k \in Keys, DiscardFailed(k) PROVE Inv'
  BY <1>14 DEF DiscardFailed, opVars, history
<1>15. ASSUME NEW s \in Settings, Open(s) PROVE Inv'
  BY <1>15 DEF Open
<1>16. CASE UNCHANGED vars
  BY <1>16 DEF vars, opVars, history
<1> QED
  BY <1>1, <1>2, <1>3, <1>4, <1>5, <1>6, <1>7, <1>8, <1>9, <1>10, <1>11,
     <1>12, <1>13, <1>14, <1>15, <1>16 DEF Next

(* Whatever call fails and wherever the process dies, a checkpoint's name  *)
(* has a whole file or none.                                               *)
THEOREM CheckpointsWhole == Spec => []PathsAreWhole
<1>1. Inv => PathsAreWhole
  BY DEF Inv, WholeInv
<1> QED
  BY <1>1, InvInit, InvNext, PTL DEF Spec
-----------------------------------------------------------------------------
(* A store that reported success is served.                                *)

\* A context smaller than the raw window makes payloads of its own size.
ContextsCoverWindow == \A c \in Contexts : Swa <= c

\* The file that was stored stays usable; while another one is made there is
\* no success to report, and the file is for this model and context.
ServedInv ==
    /\ stored \in Keys \cup {NoKey}
    /\ key = NoKey => new = Missing
    /\ stored # NoKey => disk[stored] \in File /\ Compatible(disk[stored])
    /\ pc = "append" => Compatible(disk[key])
    /\ pc \in {"create", "write", "rename"} \/ (pc = "evict" /\ key # NoKey) =>
          stored = NoKey /\ Compatible(new)
    /\ pc = "evict" /\ stored # NoKey => ~(total > Budget)

(* Nothing but the model and the context of a file decide who may use it.  *)
LEMMA CompatibleChange ==
    ASSUME NEW f \in File, NEW n
    PROVE  /\ Compatible([f EXCEPT !.trailer = n]) <=> Compatible(f)
           /\ Compatible([f EXCEPT !.used = n]) <=> Compatible(f)
           /\ Compatible([f EXCEPT !.created = n]) <=> Compatible(f)
           /\ Compatible([f EXCEPT !.whole = n]) <=> Compatible(f)
BY DEF File, Compatible

(* Nothing has been stored when the first process starts.                  *)
LEMMA ServedInit == Init => ServedInv
BY DEF Init, ServedInv

(* Every action preserves what is said of the stored file.                 *)
LEMMA ServedNext == Inv /\ ServedInv /\ [Next]_vars => ServedInv'
<1> SUFFICES ASSUME Inv, ServedInv, [Next]_vars PROVE ServedInv'
  OBVIOUS
<1> USE DEF ServedInv
<1>a. Inv'
  BY InvNext
<1>b. /\ disk \in [Keys -> File \cup {Missing}]
      /\ new \in File \cup {Missing} /\ key \in Keys \cup {NoKey}
      /\ settings \in Settings /\ Missing \notin File /\ NoKey \notin Keys
      /\ pc = "append" => key \in Keys /\ disk[key] \in File /\ new \in File
      /\ pc \in {"create", "write", "rename"} => key \in Keys /\ new \in File
      /\ pc = "evict" /\ key # NoKey => key \in Keys /\ new \in File
      /\ pc \in {"idle", "down"} => key = NoKey
  BY DEF Inv, WholeInv, DiskTypes, EvictsFor
<1>c. ASSUME UNCHANGED settings
      PROVE  \A f : Compatible(f)' <=> Compatible(f')
  BY <1>c DEF Compatible
<1> USE <1>b
<1>1. CASE Tick
  BY <1>1 DEF Tick, opVars, history, Compatible
<1>2. CASE EvictOne
  <2>1. stored = NoKey
    <3>1. CASE key = NoKey
      <4>1. Target = Budget
        <5>1. Target = Budget - 0 /\ Budget \in Nat
          BY <3>1 DEF Target
        <5> QED
          BY <5>1
      <4> QED
        BY <1>2, <3>1, <4>1 DEF EvictOne
    <3>2. CASE key # NoKey
      BY <1>2, <3>2 DEF EvictOne
    <3> QED
      BY <3>1, <3>2
  <2> QED
    BY <1>2, <2>1 DEF EvictOne, Compatible
<1>3. CASE EvictEnd
  BY <1>3 DEF EvictEnd, Compatible
<1>4. CASE AppendTrailer
  <2> DEFINE f == [disk[key] EXCEPT !.trailer = new.trailer]
             g == [f EXCEPT !.used = clock]
  <2>1. /\ key \in Keys /\ disk[key] \in File
        /\ new.trailer \in Nat /\ clock \in Nat
    BY <1>4 DEF AppendTrailer, File, Inv, WholeInv, DiskTypes
  <2>2. f \in File /\ g \in File
    BY <2>1, FieldChange
  <2>3. Compatible(g)
    <3>1. Compatible(f)
      BY <1>4, <2>1, CompatibleChange DEF AppendTrailer
    <3> HIDE DEF f
    <3> QED
      BY <2>2, <3>1, CompatibleChange
  <2>4. disk' = disk \/ disk' = [disk EXCEPT ![key] = g]
    BY <1>4 DEF AppendTrailer
  <2>5. /\ stored' = key /\ pc' = "idle" /\ key' = NoKey /\ new' = Missing
        /\ UNCHANGED settings
    BY <1>4 DEF AppendTrailer, Return
  <2>6. disk'[key] \in File /\ Compatible(disk'[key])
    <3> HIDE DEF f, g
    <3> QED
      BY <1>4, <2>1, <2>2, <2>3, <2>4 DEF AppendTrailer
  <2> QED
    BY <2>1, <2>5, <2>6 DEF Compatible
<1>5. CASE CreateTmp
  <2>1. ASSUME new' = [new EXCEPT !.created = clock, !.used = clock],
               new \in File, UNCHANGED settings, Compatible(new)
        PROVE  Compatible(new)'
    BY <2>1 DEF File, Compatible
  <2>2. CASE Return(NoKey, 0)
    BY <1>5, <2>2 DEF CreateTmp, Return, Compatible
  <2>3. CASE new' = [new EXCEPT !.created = clock, !.used = clock]
             /\ pc' = "write" /\ UNCHANGED <<key, entries, total, stored>>
    BY <1>5, <2>1, <2>3 DEF CreateTmp, Compatible
  <2> QED
    BY <1>5, <2>2, <2>3 DEF CreateTmp
<1>6. CASE WriteTmp
  <2>1. Compatible(new)'
    BY <1>6 DEF WriteTmp, history, File, Compatible
  <2> QED
    BY <1>6, <2>1 DEF WriteTmp, history, Compatible
<1>7. CASE RenameTmp
  BY <1>7 DEF RenameTmp, Return, opVars, history, Compatible
<1>8. CASE RemoveTmp
  BY <1>8 DEF RemoveTmp, Return, Compatible
<1>9. CASE Crash
  BY <1>9 DEF Crash, Compatible
<1>10. ASSUME NEW k \in Keys, StoreExisting(k) PROVE ServedInv'
  <2>1. disk[k] \in File /\ Compatible(disk[k]) /\ UNCHANGED settings
    BY <1>10 DEF StoreExisting, Listed
  <2>2. CASE Return(k, clock) /\ UNCHANGED disk
    BY <2>1, <2>2 DEF Return, Compatible
  <2>3. ASSUME NEW n \in TrailerSizes,
               disk' = [disk EXCEPT ![k].trailer = 0],
               pc' = "append", key' = k, stored' = NoKey
        PROVE  ServedInv'
    <3> DEFINE f == [disk[k] EXCEPT !.trailer = 0]
    <3>1. Compatible(f) /\ disk' = [disk EXCEPT ![k] = f]
      BY <2>1, <2>3, CompatibleChange
    <3> HIDE DEF f
    <3>2. Compatible(disk'[k])
      BY <3>1
    <3> QED
      BY <2>1, <2>3, <3>2 DEF Compatible
  <2> QED
    BY <1>10, <2>2, <2>3 DEF StoreExisting
<1>11. ASSUME NEW k \in Keys, StoreNew(k) PROVE ServedInv'
  <2>1. UNCHANGED settings
    BY <1>11 DEF StoreNew
  <2>2. CASE Return(NoKey, 0)
    BY <2>1, <2>2 DEF Return
  <2>3. ASSUME NEW hidden \in Hidden, NEW n \in TrailerSizes,
               pc' = "evict", key' = k, stored' = NoKey,
               new' = [model |-> settings.model, ctx |-> settings.ctx,
                       tokens |-> Len(k) + hidden, trailer |-> n,
                       created |-> 0, used |-> 0, whole |-> FALSE]
        PROVE  ServedInv'
    <3>1. new'.model = settings.model /\ new'.ctx = settings.ctx
      BY <2>3
    <3>2. settings.ctx \in Nat
      BY DEF Settings
    <3>3. Compatible(new)'
      BY <2>1, <3>1, <3>2 DEF Compatible
    <3> QED
      BY <2>3, <3>3
  <2> QED
    BY <1>11, <2>2, <2>3 DEF StoreNew
<1>12. ASSUME NEW k \in Keys, Load(k) PROVE ServedInv'
  <2> DEFINE q == Found(k)
  <2>1. /\ pc = "idle" /\ pc' = "idle"
        /\ UNCHANGED <<settings, key, new, total, stored>>
    BY <1>12 DEF Load, opVars, history
  <2>2. CASE UNCHANGED disk
    BY <2>1, <2>2 DEF Compatible
  <2>3. CASE disk' = [disk EXCEPT ![q] = Touched(@)]
    <3>1. q \in Keys /\ disk[q] \in File
      BY <1>12, FoundListed DEF Load, Listed
    <3>2. /\ Touched(disk[q]) \in File
          /\ Compatible(Touched(disk[q])) <=> Compatible(disk[q])
      <4>1. clock \in Nat
        BY DEF Inv, WholeInv, DiskTypes
      <4> QED
        BY <3>1, <4>1, FieldChange, CompatibleChange DEF Touched
    <3>3. stored # NoKey => disk'[stored] \in File /\ Compatible(disk'[stored])
      <4> HIDE DEF q
      <4> QED
        BY <2>3, <3>1, <3>2
    <3> QED
      BY <2>1, <3>3 DEF Compatible
  <2> QED
    BY <1>12, <2>2, <2>3 DEF Load
<1>13. ASSUME NEW k \in Keys, PrefillDone(k) PROVE ServedInv'
  BY <1>13 DEF PrefillDone, opVars, history, Compatible
<1>14. ASSUME NEW k \in Keys, DiscardFailed(k) PROVE ServedInv'
  BY <1>14 DEF DiscardFailed, opVars, history, Compatible
<1>15. ASSUME NEW s \in Settings, Open(s) PROVE ServedInv'
  <2>1. /\ stored' \in {stored, NoKey}
        /\ stored' # NoKey => s = settings /\ ~(ListedBytes > Budget)
        /\ pc' = "evict" /\ total' = ListedBytes /\ settings' = s
        /\ UNCHANGED <<disk, key, new>> /\ key = NoKey
    BY <1>15 DEF Open
  <2> QED
    BY <2>1 DEF Compatible
<1>16. CASE UNCHANGED vars
  BY <1>16 DEF vars, opVars, history, Compatible
<1> QED
  BY <1>1, <1>2, <1>3, <1>4, <1>5, <1>6, <1>7, <1>8, <1>9, <1>10, <1>11,
     <1>12, <1>13, <1>14, <1>15, <1>16 DEF Next

(* A text begins itself, and one that is as long is the same.              *)
LEMMA LongestPrefix ==
    ASSUME NEW k \in Keys
    PROVE  /\ IsPrefix(k, k)
           /\ \A h \in Keys : IsPrefix(h, k) =>
                 Len(h) <= Len(k) /\ (Len(k) <= Len(h) => h = k)
<1>1. \A h \in Keys : h \in Seq(Range(h)) /\ Len(h) \in Nat
  OBVIOUS
<1>2. \A h \in Keys : SubSeq(h, 1, Len(h)) = h
  BY <1>1
<1>3. IsPrefix(k, k)
  BY <1>1 DEF IsPrefix
<1>4. ASSUME NEW h \in Keys, IsPrefix(h, k)
      PROVE  Len(h) <= Len(k) /\ (Len(k) <= Len(h) => h = k)
  <2>1. /\ Len(h) <= Len(k) /\ SubSeq(h, 1, Len(h)) = SubSeq(k, 1, Len(h))
        /\ Len(h) \in Nat /\ Len(k) \in Nat
    BY <1>1, <1>4 DEF IsPrefix
  <2>2. ASSUME Len(k) <= Len(h) PROVE h = k
    <3>1. Len(h) = Len(k)
      BY <2>1, <2>2
    <3> QED
      BY <1>2, <2>1, <3>1
  <2> QED
    BY <2>1, <2>2
<1> QED
  BY <1>3, <1>4

(* Of a listed and usable text the lookup finds the text itself.           *)
LEMMA FoundItself ==
    ASSUME NEW k \in Keys, k \in Listed, Usable(disk[k])
    PROVE  Found(k) = k
<1> DEFINE hits == {h \in Listed : Usable(disk[h]) /\ IsPrefix(h, k)}
           found == CHOOSE h \in hits : \A g \in hits : Len(g) <= Len(h)
<1>1. k \in hits /\ hits \subseteq Keys
  BY LongestPrefix DEF Listed
<1>2. \A g \in hits : Len(g) <= Len(k)
  BY <1>1, LongestPrefix
<1>3. found \in hits /\ \A g \in hits : Len(g) <= Len(found)
  BY <1>1, <1>2
<1>4. Found(k) = found
  BY <1>1 DEF Found
<1> HIDE DEF found
<1>5. found = k
  BY <1>1, <1>3, LongestPrefix
<1> QED
  BY <1>4, <1>5

(* A text that is reported as stored is found, its file can be loaded if   *)
(* the session had room for another token, and that stays so through every *)
(* fault and crash, until a failed prefill removes a file, another store   *)
(* begins or a restart changes the settings or finds the directory full.   *)
THEOREM StoresAreServed ==
    ContextsCoverWindow /\ Spec => []StoredIsServed
<1> SUFFICES ASSUME ContextsCoverWindow PROVE Spec => []StoredIsServed
  OBVIOUS
<1>1. ASSUME Inv, ServedInv PROVE StoredIsServed
  <2> SUFFICES ASSUME stored # NoKey
               PROVE  /\ Found(stored) = stored
                      /\ disk[stored].tokens < settings.ctx =>
                            Loadable(disk[stored])
    BY DEF StoredIsServed
  <2>1. /\ stored \in Keys /\ disk[stored] \in File
        /\ Compatible(disk[stored])
    BY <1>1 DEF ServedInv
  <2>2. stored \in Listed /\ Usable(disk[stored])
    BY <1>1, <2>1 DEF Listed, Inv, WholeInv, PathsAreWhole, Usable, Compatible
  <2>3. Found(stored) = stored
    BY <2>1, <2>2, FoundItself
  <2>4. disk[stored].ctx \in Contexts /\ settings.ctx \in Contexts
    BY <1>1, <2>1 DEF File, Settings, Inv, WholeInv, DiskTypes
  <2>5. /\ Window(disk[stored].ctx) = Swa
        /\ Window(settings.ctx) = Swa
    <3>1. \A c \in Contexts : c \in Nat /\ Swa \in Nat /\ Swa <= c
      BY <1>1 DEF ContextsCoverWindow
    <3>2. \A c \in Contexts : Window(c) = Swa
      BY <3>1 DEF Window
    <3> QED
      BY <2>4, <3>2
  <2> QED
    BY <2>1, <2>3, <2>5 DEF Loadable, Compatible
<1> QED
  BY <1>1, InvInit, InvNext, ServedInit, ServedNext, PTL DEF Spec

-----------------------------------------------------------------------------
(* Under strict LRU, room is made by what was not used for longest.        *)

\* Every use is written down: trailers are there to be rewritten, and the
\* writes that record the time do not fail.
UsesAreRecorded ==
    /\ StrictLru /\ 0 \notin TrailerSizes
    /\ "write" \notin Faults /\ "touch" \notin Faults

\* A file knows when it was used, and those that may go are files.
UseInv ==
    /\ lastUse \in [Keys -> Nat]
    /\ \A k \in Keys : disk[k] # Missing => disk[k].used = lastUse[k]
    /\ pc \in {"write", "rename"} => new.used = new.created
    /\ pc = "evict" => \A k \in entries : k \in Keys /\ disk[k] # Missing

(* The first directory is empty.                                           *)
LEMMA UseInit == Init => UseInv
BY DEF Init, UseInv

(* Every action keeps the times of the files those of their uses.          *)
LEMMA UseNext ==
    ASSUME UsesAreRecorded
    PROVE  Inv /\ UseInv /\ [Next]_vars => UseInv'
<1> SUFFICES ASSUME Inv, UseInv, [Next]_vars PROVE UseInv'
  OBVIOUS
<1> USE DEF UseInv
<1>b. /\ disk \in [Keys -> File \cup {Missing}] /\ clock \in Nat
      /\ new \in File \cup {Missing} /\ key \in Keys \cup {NoKey}
      /\ Missing \notin File /\ NoKey \notin Keys
      /\ pc = "append" => key \in Keys /\ disk[key] \in File /\ new \in File
      /\ pc \in {"create", "write", "rename"} => key \in Keys /\ new \in File
  BY DEF Inv, WholeInv, DiskTypes
<1> USE <1>b
<1>1. CASE Tick
  BY <1>1 DEF Tick, opVars, history
<1>2. CASE EvictOne
  BY <1>2 DEF EvictOne
<1>3. CASE EvictEnd
  BY <1>3 DEF EvictEnd
<1>4. CASE AppendTrailer
  <2> DEFINE f == [disk[key] EXCEPT !.trailer = new.trailer]
             g == [f EXCEPT !.used = clock]
  <2>1. key \in Keys /\ disk[key] \in File /\ new.trailer \in Nat
    BY <1>4 DEF AppendTrailer, File
  <2>2. f \in File
    BY <2>1, FieldChange
  <2>3. g.used = clock
    <3> HIDE DEF f
    <3> QED
      BY <2>2 DEF File
  <2>4. disk' = [disk EXCEPT ![key] = g]
    BY <1>4 DEF AppendTrailer, UsesAreRecorded
  <2> HIDE DEF f, g
  <2>5. /\ lastUse' = [lastUse EXCEPT ![key] = clock] /\ pc' = "idle"
    BY <1>4, <2>1 DEF AppendTrailer, Return
  <2> QED
    BY <2>1, <2>3, <2>4, <2>5
<1>5. CASE CreateTmp
  <2>1. ASSUME new' = [new EXCEPT !.created = clock, !.used = clock],
               new \in File
        PROVE  new'.used = new'.created
    BY <2>1 DEF File
  <2> QED
    BY <1>5, <2>1 DEF CreateTmp, Return
<1>6. CASE WriteTmp
  BY <1>6 DEF WriteTmp, history, File
<1>7. CASE RenameTmp
  <2>1. /\ disk' = [disk EXCEPT ![key] = new] /\ key \in Keys
        /\ lastUse' = [lastUse EXCEPT ![key] = new.created]
        /\ pc' = "idle"
    BY <1>7 DEF RenameTmp, Return, UsesAreRecorded
  <2>2. new.created \in Nat /\ new.used = new.created
    BY <1>7 DEF RenameTmp, File
  <2> QED
    BY <2>1, <2>2
<1>8. CASE RemoveTmp
  BY <1>8 DEF RemoveTmp, Return
<1>9. CASE Crash
  BY <1>9 DEF Crash
<1>10. ASSUME NEW k \in Keys, StoreExisting(k) PROVE UseInv'
  <2>1. disk[k] \in File
    BY <1>10 DEF StoreExisting, Listed
  <2> DEFINE f == [disk[k] EXCEPT !.trailer = 0]
  <2>2. /\ disk' = [disk EXCEPT ![k] = f] /\ UNCHANGED lastUse
        /\ pc' = "append"
    BY <1>10 DEF StoreExisting, UsesAreRecorded
  <2>3. f.used = disk[k].used
    BY <2>1 DEF File
  <2> HIDE DEF f
  <2> QED
    BY <2>1, <2>2, <2>3
<1>11. ASSUME NEW k \in Keys, StoreNew(k) PROVE UseInv'
  <2>1. \A h \in Keys : disk'[h] \in {disk[h], Missing}
    BY <1>11 DEF StoreNew
  <2>2. UNCHANGED lastUse
    BY <1>11 DEF StoreNew, Return
  <2>3. pc' \in {"idle", "evict"} /\ (pc' = "evict" => entries' = Listed')
    BY <1>11 DEF StoreNew, Return
  <2>4. \A h \in Listed' : h \in Keys /\ disk'[h] # Missing
    BY DEF Listed
  <2> QED
    BY <2>1, <2>2, <2>3, <2>4
<1>12. ASSUME NEW k \in Keys, Load(k) PROVE UseInv'
  <2> DEFINE q == Found(k)
  <2>1. q \in Keys /\ disk[q] \in File
    BY <1>12, FoundListed DEF Load, Listed
  <2>2. /\ disk' = [disk EXCEPT ![q] = Touched(@)]
        /\ lastUse' = [lastUse EXCEPT ![q] = clock]
        /\ pc = "idle" /\ pc' = "idle"
    BY <1>12 DEF Load, UsesAreRecorded
  <2>3. Touched(disk[q]).used = clock
    BY <2>1 DEF Touched, File
  <2> HIDE DEF q
  <2> QED
    BY <2>1, <2>2, <2>3
<1>13. ASSUME NEW k \in Keys, PrefillDone(k) PROVE UseInv'
  BY <1>13 DEF PrefillDone, opVars, history
<1>14. ASSUME NEW k \in Keys, DiscardFailed(k) PROVE UseInv'
  BY <1>14 DEF DiscardFailed, opVars, history
<1>15. ASSUME NEW s \in Settings, Open(s) PROVE UseInv'
  BY <1>15 DEF Open, Listed
<1>16. CASE UNCHANGED vars
  BY <1>16 DEF vars, opVars, history
<1> QED
  BY <1>1, <1>2, <1>3, <1>4, <1>5, <1>6, <1>7, <1>8, <1>9, <1>10, <1>11,
     <1>12, <1>13, <1>14, <1>15, <1>16 DEF Next

(* Of the files an eviction has before it, one that was used last after    *)
(* another does not go before it: whatever crashes, restarts and failing   *)
(* removals lie between, as long as every use could be written down.       *)
THEOREM LeastRecentGoesFirst ==
    UsesAreRecorded /\ Spec => [][LruStep]_vars
<1> SUFFICES ASSUME UsesAreRecorded PROVE Spec => [][LruStep]_vars
  OBVIOUS
<1>1. ASSUME Inv, UseInv, [Next]_vars PROVE [LruStep]_vars
  <2> SUFFICES ASSUME NEW v \in Keys, NEW k \in Keys, pc = "evict",
                      v \in entries \ entries', k \in entries', Next
               PROVE  lastUse[v] <= lastUse[k]
    BY <1>1 DEF LruStep, vars, opVars, history
  <2>1. EvictOne
    BY DEF Next, Tick, EvictEnd, AppendTrailer, CreateTmp, WriteTmp,
           RenameTmp, RemoveTmp, Crash, StoreExisting, StoreNew, Load,
           PrefillDone, DiscardFailed, Open, opVars, history
  <2>2. v \in Victims /\ k \in entries
    BY <2>1 DEF EvictOne
  <2>3. /\ disk[v] \in File /\ disk[k] \in File
        /\ disk[v].used = lastUse[v] /\ disk[k].used = lastUse[k]
    BY <1>1, <2>2 DEF UseInv, Inv, WholeInv, DiskTypes
  <2>4. ~LruBefore(k, v)
    BY <1>1, <2>2 DEF Victims, UsesAreRecorded
  <2> QED
    BY <2>3, <2>4 DEF LruBefore, File
<1>2. Inv /\ UseInv /\ [Next]_vars => UseInv'
  BY UseNext
<1> QED
  BY <1>1, <1>2, InvInit, InvNext, UseInit, PTL DEF Spec
-----------------------------------------------------------------------------
(* The budget.                                                             *)

\* The listed files of a directory d, what their headers, texts and payloads
\* take, and what they take in all.
Holds(d) == {k \in Keys : d[k] # Missing /\ d[k].whole}

PayloadOf(d, k) == Size(k, d[k]) - d[k].trailer

Payload(d) == Sum([k \in Holds(d) |-> PayloadOf(d, k)], Holds(d))
Space(d) == Sum([k \in Holds(d) |-> Size(k, d[k])], Holds(d))

Directories == [Keys -> File \cup {Missing}]

(* The sizes of a file are numbers, whose difference is the trailer.       *)
LEMMA SizeType ==
    ASSUME NEW k \in Keys, NEW f \in File
    PROVE  /\ Size(k, f) \in Nat /\ Size(k, f) - f.trailer \in Nat
           /\ f.trailer \in Nat
           /\ Size(k, f) - f.trailer = 1 + Len(k) + f.tokens
<1>1. Len(k) \in Nat
  BY DEF StoreAssumption
<1>2. f.tokens \in Nat /\ f.trailer \in Nat
  BY DEF File
<1> HIDE DEF StoreAssumption
<1> QED
  BY <1>1, <1>2 DEF Size

(* What a directory lists is finite, and its sizes are numbers.            *)
LEMMA HoldsFiles ==
    ASSUME NEW d \in Directories
    PROVE  /\ Holds(d) \subseteq Keys /\ IsFiniteSet(Holds(d))
           /\ \A k \in Holds(d) : d[k] \in File
           /\ [k \in Holds(d) |-> Size(k, d[k])] \in [Holds(d) -> Nat]
           /\ [k \in Holds(d) |-> PayloadOf(d, k)] \in [Holds(d) -> Nat]
<1>1. Holds(d) \subseteq Keys /\ \A k \in Holds(d) : d[k] \in File
  BY DEF Holds, Directories
<1>2. IsFiniteSet(Holds(d))
  BY <1>1, FS_Subset
<1>3. \A k \in Holds(d) : Size(k, d[k]) \in Nat /\ PayloadOf(d, k) \in Nat
  BY <1>1, SizeType DEF PayloadOf
<1> QED
  BY <1>1, <1>2, <1>3

\* The sums of the model, of any directory.
ListedSum(d) == MapThenSumSet(LAMBDA k : Size(k, d[k]), Holds(d))
CheckpointSum(d) ==
    MapThenSumSet(LAMBDA k : Size(k, d[k]) - d[k].trailer, Holds(d))

(* The model's sum of the sizes is the sum of a function.                  *)
LEMMA ListedSumIsSpace ==
    ASSUME NEW d \in Directories
    PROVE  ListedSum(d) = Space(d)
<1> DEFINE S == Holds(d)
           g == [k \in S |-> Size(k, d[k])]
           P(i) == i = [s \in SUBSET S |->
                          IF s = {} THEN 0
                          ELSE Size(CHOOSE x \in s : TRUE,
                                    d[CHOOSE x \in s : TRUE])
                               + i[s \ {CHOOSE x \in s : TRUE}]]
           j == CHOOSE i : P(i)
           h == CHOOSE i : Sums(i, g, S)
<1>1. ListedSum(d) = j[S]
  BY DEF ListedSum, MapThenSumSet, MapThenFoldSet
<1>2. IsFiniteSet(S) /\ g \in [S -> Nat]
  BY HoldsFiles
<1>3. ASSUME NEW i PROVE P(i) <=> Sums(i, g, S)
  <2>1. \A s \in SUBSET S : s # {} => First(s) \in S
    BY DEF First
  <2>2. \A s \in SUBSET S : s # {} =>
           g[First(s)] = Size(First(s), d[First(s)])
    BY <2>1
  <2> QED
    BY <2>2 DEF Sums, First
<1>4. Sums(h, g, S)
  BY <1>2, SumsExist
<1>5. P(j)
  <2>1. P(h)
    BY <1>3, <1>4
  <2> HIDE DEF P, h
  <2> QED
    BY <2>1
<1>6. Sums(j, g, S)
  BY <1>3, <1>5
<1>7. Space(d) = h[S]
  BY DEF Space, Sum
<1> HIDE DEF j, h, g, S
<1>8. j[S] = h[S]
  BY <1>2, <1>4, <1>6, SumsAgree
<1> QED
  BY <1>1, <1>7, <1>8

(* The model's sum without the trailers is the sum of a function.          *)
LEMMA CheckpointSumIsPayload ==
    ASSUME NEW d \in Directories
    PROVE  CheckpointSum(d) = Payload(d)
<1> DEFINE S == Holds(d)
           g == [k \in S |-> PayloadOf(d, k)]
           P(i) == i = [s \in SUBSET S |->
                          IF s = {} THEN 0
                          ELSE (Size(CHOOSE x \in s : TRUE,
                                     d[CHOOSE x \in s : TRUE])
                                  - d[CHOOSE x \in s : TRUE].trailer)
                               + i[s \ {CHOOSE x \in s : TRUE}]]
           j == CHOOSE i : P(i)
           h == CHOOSE i : Sums(i, g, S)
<1>1. CheckpointSum(d) = j[S]
  BY DEF CheckpointSum, MapThenSumSet, MapThenFoldSet
<1>2. IsFiniteSet(S) /\ g \in [S -> Nat]
  BY HoldsFiles
<1>3. ASSUME NEW i PROVE P(i) <=> Sums(i, g, S)
  <2>1. \A s \in SUBSET S : s # {} => First(s) \in S
    BY DEF First
  <2>2. \A s \in SUBSET S : s # {} =>
           g[First(s)] = Size(First(s), d[First(s)]) - d[First(s)].trailer
    BY <2>1 DEF PayloadOf
  <2> HIDE DEF g, S
  <2>3. [s \in SUBSET S |->
            IF s = {} THEN 0 ELSE g[First(s)] + i[s \ {First(s)}]]
        = [s \in SUBSET S |->
            IF s = {} THEN 0
            ELSE (Size(First(s), d[First(s)]) - d[First(s)].trailer)
                   + i[s \ {First(s)}]]
    BY <2>2
  <2> QED
    BY <2>3 DEF Sums, First
<1>4. Sums(h, g, S)
  BY <1>2, SumsExist
<1>5. P(j)
  <2>1. P(h)
    BY <1>3, <1>4
  <2> HIDE DEF P, h
  <2> QED
    BY <2>1
<1>6. Sums(j, g, S)
  BY <1>3, <1>5
<1>7. Payload(d) = h[S]
  BY DEF Payload, Sum
<1> HIDE DEF j, h, g, S
<1>8. j[S] = h[S]
  BY <1>2, <1>4, <1>6, SumsAgree
<1> QED
  BY <1>1, <1>7, <1>8

(* A directory's sums are numbers, nothing takes no space, and trailers    *)
(* only add.                                                               *)
LEMMA SumTypes ==
    ASSUME NEW d \in Directories
    PROVE  /\ Payload(d) \in Nat /\ Space(d) \in Nat
           /\ Payload(d) <= Space(d)
           /\ Holds(d) = {} => Payload(d) = 0
<1> DEFINE S == Holds(d)
           g == [k \in S |-> PayloadOf(d, k)]
           k == [k \in S |-> Size(k, d[k])]
           h == CHOOSE i : Sums(i, g, S)
           i == CHOOSE i : Sums(i, k, S)
<1>1. IsFiniteSet(S) /\ g \in [S -> Nat] /\ k \in [S -> Nat]
  BY HoldsFiles
<1>2. \A x \in S : g[x] <= k[x]
  <2>1. ASSUME NEW x \in S PROVE g[x] <= k[x]
    <3>1. x \in Keys /\ d[x] \in File
      BY HoldsFiles
    <3>2. /\ Size(x, d[x]) \in Nat /\ d[x].trailer \in Nat
          /\ g[x] = Size(x, d[x]) - d[x].trailer /\ k[x] = Size(x, d[x])
      BY <3>1, SizeType DEF PayloadOf
    <3> HIDE DEF g, k
    <3> QED
      BY <3>2
  <2> QED
    BY <2>1
<1>3. Payload(d) = Sum(g, S) /\ Space(d) = Sum(k, S)
  BY DEF Payload, Space
<1>4. Payload(d) = h[S] /\ Space(d) = i[S]
  BY DEF Payload, Space, Sum
<1> HIDE DEF g, k, S
<1>5. Sums(h, g, S) /\ Sums(i, k, S)
  BY <1>1, SumsExist
<1> HIDE DEF h, i
<1>6. h[S] <= i[S]
  BY <1>1, <1>2, <1>5, SumsCompare
<1>7. /\ Sum(g, S) \in Nat /\ (S = {} => Sum(g, S) = 0)
      /\ Sum(k, S) \in Nat
  BY <1>1, SumFacts
<1> QED
  BY <1>3, <1>4, <1>6, <1>7 DEF S

(* Without one of its listed files a directory takes that much less.       *)
LEMMA WithoutListed ==
    ASSUME NEW d \in Directories, NEW v \in Holds(d)
    PROVE  LET e == [d EXCEPT ![v] = Missing]
           IN  /\ e \in Directories /\ Holds(e) = Holds(d) \ {v}
               /\ Space(e) = Space(d) - Size(v, d[v])
               /\ Payload(e) = Payload(d) - PayloadOf(d, v)
<1> DEFINE e == [d EXCEPT ![v] = Missing]
           S == Holds(d)
           T == Holds(e)
           g == [k \in S |-> PayloadOf(d, k)]
           p == [k \in T |-> PayloadOf(e, k)]
           z == [k \in S |-> Size(k, d[k])]
           q == [k \in T |-> Size(k, e[k])]
<1>1. e \in Directories
  BY DEF Directories
<1>2. T = S \ {v} /\ v \in S
  BY DEF Holds, Directories
<1>3. /\ IsFiniteSet(S) /\ g \in [S -> Nat] /\ z \in [S -> Nat]
      /\ p \in [T -> Nat] /\ q \in [T -> Nat]
  BY <1>1, HoldsFiles
<1>4. \A y \in T : e[y] = d[y]
  BY <1>2 DEF Holds, Directories
<1>5. (\A y \in T : p[y] = g[y]) /\ (\A y \in T : q[y] = z[y])
  <2> HIDE DEF e, S, T
  <2> QED
    BY <1>2, <1>4 DEF PayloadOf
<1>6. g[v] = PayloadOf(d, v) /\ z[v] = Size(v, d[v])
  BY <1>2
<1>7. /\ Payload(d) = Sum(g, S) /\ Payload(e) = Sum(p, T)
      /\ Space(d) = Sum(z, S) /\ Space(e) = Sum(q, T)
  BY DEF Payload, Space
<1>8. g[v] \in Nat /\ z[v] \in Nat
  BY <1>2, <1>3
<1>9. IsFiniteSet(T)
  BY <1>1, HoldsFiles
<1> HIDE DEF g, p, z, q, T, S, e
<1>10. Sum(g, S) = g[v] + Sum(p, T)
  BY <1>2, <1>3, <1>5, SumTake
<1>11. Sum(z, S) = z[v] + Sum(q, T)
  BY <1>2, <1>3, <1>5, SumTake
<1>12. Sum(p, T) \in Nat /\ Sum(q, T) \in Nat
  BY <1>3, <1>9, SumFacts
<1>13. /\ Space(e) = Space(d) - Size(v, d[v])
       /\ Payload(e) = Payload(d) - PayloadOf(d, v)
  BY <1>6, <1>7, <1>8, <1>10, <1>11, <1>12
<1>14. Holds(e) = Holds(d) \ {v}
  BY <1>2 DEF S, T
<1> QED
  BY <1>1, <1>13, <1>14 DEF e

(* Directories that list the same texts with the same tokens have payloads *)
(* of the same size.                                                       *)
LEMMA SamePayload ==
    ASSUME NEW d \in Directories, NEW e \in Directories,
           Holds(e) = Holds(d),
           \A k \in Holds(d) : PayloadOf(e, k) = PayloadOf(d, k)
    PROVE  Payload(e) = Payload(d)
<1> [k \in Holds(e) |-> PayloadOf(e, k)] = [k \in Holds(d) |-> PayloadOf(d, k)]
  OBVIOUS
<1> QED
  BY DEF Payload
(* Removing a file makes no directory larger.                              *)
LEMMA RemovedFile ==
    ASSUME NEW d \in Directories, NEW v \in Keys
    PROVE  LET e == [d EXCEPT ![v] = Missing]
           IN  e \in Directories /\ Payload(e) <= Payload(d)
<1> DEFINE e == [d EXCEPT ![v] = Missing]
<1>1. e \in Directories
  BY DEF Directories
<1>2. Payload(d) \in Nat /\ Payload(e) \in Nat
  BY <1>1, SumTypes
<1>3. CASE v \in Holds(d)
  <2>1. Payload(e) = Payload(d) - PayloadOf(d, v)
    BY <1>3, WithoutListed
  <2>2. PayloadOf(d, v) \in Nat
    BY <1>3, HoldsFiles, SizeType DEF PayloadOf
  <2> HIDE DEF e
  <2> QED
    BY <1>1, <1>2, <2>1, <2>2 DEF e
<1>4. CASE v \notin Holds(d)
  <2>1. Holds(e) = Holds(d) /\ \A k \in Holds(d) : e[k] = d[k]
    BY <1>4 DEF Holds, Directories
  <2>2. \A k \in Holds(d) : PayloadOf(e, k) = PayloadOf(d, k)
    BY <2>1 DEF PayloadOf
  <2>3. Payload(e) = Payload(d)
    <3> HIDE DEF e
    <3> QED
      BY <1>1, <2>1, <2>2, SamePayload
  <2> HIDE DEF e
  <2> QED
    BY <1>1, <1>2, <2>3 DEF e
<1> QED
  BY <1>3, <1>4

(* A file that is rewritten with the same tokens takes the same payload.   *)
LEMMA RewrittenFile ==
    ASSUME NEW d \in Directories, NEW v \in Keys, d[v] \in File,
           NEW f \in File, f.tokens = d[v].tokens, f.whole = d[v].whole
    PROVE  LET e == [d EXCEPT ![v] = f]
           IN  e \in Directories /\ Payload(e) = Payload(d)
<1> DEFINE e == [d EXCEPT ![v] = f]
<1>1. e \in Directories
  BY DEF Directories
<1>2. e[v] = f /\ \A k \in Keys : k # v => e[k] = d[k]
  BY DEF Directories
<1> HIDE DEF e
<1>3. f # Missing /\ d[v] # Missing
  BY MissingAssumption
<1>4. Holds(e) = Holds(d)
  BY <1>2, <1>3 DEF Holds
<1>5. ASSUME NEW k \in Holds(d) PROVE PayloadOf(e, k) = PayloadOf(d, k)
  <2>1. k \in Keys
    BY DEF Holds
  <2>2. CASE k = v
    BY <1>2, <2>2, SizeType DEF PayloadOf
  <2>3. CASE k # v
    BY <1>2, <2>1, <2>3 DEF PayloadOf
  <2> QED
    BY <2>2, <2>3
<1>6. Payload(e) = Payload(d)
  BY <1>1, <1>4, <1>5, SamePayload
<1> QED
  BY <1>1, <1>6 DEF e

(* A new file adds its own payload at most.                                *)
LEMMA AddedFile ==
    ASSUME NEW d \in Directories, NEW v \in Keys, NEW f \in File, f.whole
    PROVE  LET e == [d EXCEPT ![v] = f]
           IN  /\ e \in Directories
               /\ Payload(e) <= Payload(d) + (Size(v, f) - f.trailer)
<1> DEFINE e == [d EXCEPT ![v] = f]
           b == [d EXCEPT ![v] = Missing]
<1>1. e \in Directories
  BY DEF Directories
<1>2. b = [e EXCEPT ![v] = Missing]
  BY DEF Directories
<1>3. e[v] = f /\ v \in Holds(e)
  BY DEF Directories, Holds
<1>4. Payload(b) = Payload(e) - PayloadOf(e, v)
  <2> HIDE DEF e, b
  <2> QED
    BY <1>1, <1>2, <1>3, WithoutListed
<1>5. b \in Directories /\ Payload(b) <= Payload(d)
  BY RemovedFile
<1>6. PayloadOf(e, v) = Size(v, f) - f.trailer
  BY <1>3 DEF PayloadOf
<1> HIDE DEF e, b
<1>7. /\ Payload(b) \in Nat /\ Payload(e) \in Nat /\ Payload(d) \in Nat
      /\ Size(v, f) - f.trailer \in Nat
  BY <1>1, <1>5, SumTypes, SizeType
<1>8. Payload(e) <= Payload(d) + (Size(v, f) - f.trailer)
  <2> DEFINE x == Size(v, f) - f.trailer
  <2>1. Payload(b) = Payload(e) - x /\ x \in Nat
    BY <1>4, <1>6, <1>7
  <2> HIDE DEF x
  <2>2. Payload(e) <= Payload(d) + x
    BY <1>5, <1>7, <2>1
  <2> QED
    BY <2>2 DEF x
<1> QED
  BY <1>1, <1>8 DEF e

(* What the model counts are these sums.                                   *)
LEMMA CountedBytes ==
    disk \in Directories =>
        ListedBytes = Space(disk) /\ CheckpointBytes = Payload(disk)
<1> SUFFICES ASSUME disk \in Directories
             PROVE  ListedBytes = Space(disk) /\ CheckpointBytes = Payload(disk)
  OBVIOUS
<1>1. ListedBytes = ListedSum(disk)
  BY DEF ListedBytes, ListedSum, Listed, Holds
<1>2. CheckpointBytes = CheckpointSum(disk)
  BY DEF CheckpointBytes, CheckpointSum, Listed, Holds
<1> QED
  BY <1>1, <1>2, ListedSumIsSpace, CheckpointSumIsPayload

(* The same after a step.                                                  *)
LEMMA CountedBytesNext ==
    disk' \in Directories => ListedBytes' = Space(disk')
<1> SUFFICES ASSUME disk' \in Directories
             PROVE  ListedBytes' = Space(disk')
  OBVIOUS
<1>1. ListedBytes' = ListedSum(disk')
  BY DEF ListedBytes, ListedSum, Listed, Holds, MapThenSumSet,
         MapThenFoldSet, Size
<1> QED
  BY <1>1, ListedSumIsSpace
\* A pass that has removed what it wanted knows what is left, and a pass that
\* could not has said so.  The file to come has its room before it exists.
BudgetInv ==
    /\ refused \in BOOLEAN
    /\ ~refused => Payload(disk) <= Budget
    /\ pc = "evict" =>
          /\ entries \subseteq Holds(disk)
          /\ entries = Holds(disk) => total = Space(disk)
          /\ entries # Holds(disk) => refused
          /\ key # NoKey => Size(key, new) <= Budget
    /\ pc \in {"create", "write", "rename"} /\ ~refused =>
          Payload(disk) + (Size(key, new) - new.trailer) <= Budget

(* The empty directory takes nothing.                                      *)
LEMMA BudgetInit == Init => BudgetInv
<1> SUFFICES ASSUME Init PROVE BudgetInv
  OBVIOUS
<1>1. disk \in Directories /\ Holds(disk) = {}
  BY DEF Init, Directories, Holds
<1>2. Payload(disk) = 0 /\ 0 <= Budget
  BY <1>1, SumTypes
<1>3. Payload(disk) <= Budget
  BY <1>2
<1> QED
  BY <1>3 DEF Init, BudgetInv

(* An action that leaves files, passes and stores under way alone.         *)
LEMMA BudgetKept ==
    ASSUME BudgetInv, UNCHANGED <<disk, refused>>,
           pc' \notin {"evict", "create", "write", "rename"}
           \/ UNCHANGED <<pc, key, new, entries, total>>
    PROVE  BudgetInv'
BY DEF BudgetInv, Size

(* An operation that is over may have made the payloads smaller.           *)
LEMMA BudgetAfter ==
    ASSUME BudgetInv, UNCHANGED refused, disk \in Directories,
           disk' \in Directories, Payload(disk') <= Payload(disk),
           pc' \in {"idle", "append", "down"}
    PROVE  BudgetInv'
<1>1. Payload(disk) \in Nat /\ Payload(disk') \in Nat /\ Budget \in Nat
  BY SumTypes
<1> QED
  BY <1>1 DEF BudgetInv

(* A budget pass keeps its count, and leaves room for the file to come.    *)
LEMMA BudgetPass ==
    ASSUME Inv, ServedInv, BudgetInv, EvictOne \/ EvictEnd
    PROVE  BudgetInv'
<1> USE DEF BudgetInv
<1>1. /\ pc = "evict" /\ disk \in Directories /\ UNCHANGED <<key, new>>
      /\ entries \subseteq Holds(disk)
      /\ key = NoKey => new = Missing
      /\ key # NoKey => key \in Keys /\ new \in File /\ new # Missing
  BY DEF EvictOne, EvictEnd, Inv, WholeInv, DiskTypes, EvictsFor, ServedInv,
         Directories
<1>2. Payload(disk) \in Nat /\ Space(disk) \in Nat /\ Budget \in Nat
  BY <1>1, SumTypes
<1>3. key # NoKey => /\ Size(key, new) \in Nat /\ new.trailer \in Nat
                     /\ Size(key, new) - new.trailer \in Nat
  BY <1>1, SizeType
<1>4. CASE EvictOne
  <2>1. PICK v \in Victims :
           /\ entries' = entries \ {v}
           /\ \/ /\ disk' = [disk EXCEPT ![v] = Missing]
                 /\ total' = TotalWithout(v)
                 /\ UNCHANGED refused
              \/ total' = 0 /\ refused' = TRUE /\ UNCHANGED disk
    BY <1>4 DEF EvictOne
  <2>2. v \in entries /\ v \in Holds(disk) /\ pc' = "evict"
    BY <1>1, <1>4, <2>1 DEF Victims, EvictOne
  <2>3. key # NoKey => (Size(key, new) <= Budget)'
    BY <1>1 DEF Size
  <2>4. CASE /\ disk' = [disk EXCEPT ![v] = Missing]
             /\ total' = TotalWithout(v) /\ UNCHANGED refused
    <3>1. /\ Holds(disk') = Holds(disk) \ {v}
          /\ Space(disk') = Space(disk) - Size(v, disk[v])
          /\ disk' \in Directories
      BY <1>1, <2>2, <2>4, WithoutListed
    <3>2. Payload(disk') <= Payload(disk) /\ Payload(disk') \in Nat
      BY <1>1, <2>2, <2>4, <3>1, RemovedFile, SumTypes DEF Holds
    <3>3. /\ entries' \subseteq Holds(disk')
          /\ entries' = Holds(disk') <=> entries = Holds(disk)
      BY <1>1, <2>1, <2>2, <3>1
    <3>4. entries = Holds(disk) => total' = Space(disk')
      BY <1>1, <2>4, <3>1 DEF TotalWithout
    <3>5. ~refused' => Payload(disk') <= Budget
      BY <1>2, <2>4, <3>2
    <3> QED
      BY <1>1, <2>2, <2>3, <2>4, <3>3, <3>4, <3>5
  <2>5. CASE total' = 0 /\ refused' = TRUE /\ UNCHANGED disk
    BY <1>1, <2>1, <2>2, <2>3, <2>5
  <2> QED
    BY <2>1, <2>4, <2>5
<1>5. CASE EvictEnd
  <2>1. /\ total <= Target \/ entries = {}
        /\ pc' = IF key = NoKey THEN "idle" ELSE "create"
        /\ refused' = (refused /\ entries # Holds(disk))
        /\ UNCHANGED disk
    BY <1>5 DEF EvictEnd, Listed, Holds
  <2>2. SUFFICES ASSUME ~refused'
                 PROVE  /\ Payload(disk) <= Budget
                        /\ key # NoKey =>
                             Payload(disk) + (Size(key, new) - new.trailer)
                                <= Budget
    BY <1>1, <2>1 DEF Size
  <2>3. entries = Holds(disk)
    BY <1>1, <2>1, <2>2
  <2>4. total = Space(disk) /\ Payload(disk) <= Space(disk)
    BY <1>1, <2>3, SumTypes
  <2>5. entries = {} => Payload(disk) = 0
    BY <1>1, <2>3, SumTypes
  <2>6. CASE key = NoKey
    <3>1. Target = Budget
      <4>1. Target = Budget - 0
        BY <1>1, <2>6 DEF Target
      <4> QED
        BY <1>2, <4>1
    <3> QED
      BY <1>2, <2>1, <2>4, <2>5, <2>6, <3>1
  <2>7. CASE key # NoKey
    <3>1. Target = Budget - Size(key, new) /\ Size(key, new) <= Budget
      BY <1>1, <2>7 DEF Target
    <3> QED
      BY <1>2, <1>3, <2>1, <2>4, <2>5, <2>7, <3>1
  <2> QED
    BY <2>6, <2>7
<1> QED
  BY <1>4, <1>5

(* Every action keeps the budget.                                          *)
LEMMA BudgetNext == Inv /\ ServedInv /\ BudgetInv /\ [Next]_vars => BudgetInv'
<1> SUFFICES ASSUME Inv, ServedInv, BudgetInv, [Next]_vars PROVE BudgetInv'
  OBVIOUS
<1>a. disk \in Directories /\ Payload(disk) \in Nat /\ Budget \in Nat
  BY SumTypes DEF Inv, WholeInv, DiskTypes, Directories
<1>b. /\ pc = "append" => key \in Keys /\ disk[key] \in File /\ new \in File
      /\ pc \in {"create", "write", "rename"} => key \in Keys /\ new \in File
      /\ pc = "rename" => new.whole
      /\ clock \in Nat /\ settings \in Settings
  BY DEF Inv, WholeInv, DiskTypes, RenamesWhole
<1>1. CASE Tick
  BY <1>1, BudgetKept DEF Tick, opVars, history
<1>2. CASE EvictOne \/ EvictEnd
  BY <1>2, BudgetPass
<1>4. CASE AppendTrailer
  <2> DEFINE f == [disk[key] EXCEPT !.trailer = new.trailer]
             g == [f EXCEPT !.used = clock]
  <2>1. key \in Keys /\ disk[key] \in File /\ new.trailer \in Nat
    BY <1>4, <1>b DEF AppendTrailer, File
  <2>2. f \in File /\ f.tokens = disk[key].tokens /\ f.whole = disk[key].whole
    BY <2>1, FieldChange DEF File
  <2>3. g \in File /\ g.tokens = f.tokens /\ g.whole = f.whole
    <3> HIDE DEF f
    <3> QED
      BY <1>b, <2>2, FieldChange DEF File
  <2>4. disk' = disk \/ disk' = [disk EXCEPT ![key] = g]
    BY <1>4 DEF AppendTrailer
  <2> HIDE DEF f, g
  <2>5. disk' \in Directories /\ Payload(disk') = Payload(disk)
    BY <1>a, <2>1, <2>2, <2>3, <2>4, RewrittenFile
  <2>6. UNCHANGED refused /\ pc' = "idle"
    BY <1>4 DEF AppendTrailer, Return
  <2> QED
    BY <1>a, <2>5, <2>6, BudgetAfter
<1>5. CASE CreateTmp
  <2>1. UNCHANGED <<disk, refused>>
    BY <1>5 DEF CreateTmp
  <2>2. CASE pc' = "idle"
    BY <2>1, <2>2, BudgetKept
  <2>3. CASE /\ pc = "create" /\ pc' = "write" /\ UNCHANGED key
             /\ new' = [new EXCEPT !.created = clock, !.used = clock]
    <3>1. new'.tokens = new.tokens /\ new'.trailer = new.trailer
      BY <1>b, <2>3 DEF File
    <3> QED
      BY <2>1, <2>3, <3>1 DEF BudgetInv, Size
  <2> QED
    BY <1>5, <2>2, <2>3 DEF CreateTmp, Return
<1>6. CASE WriteTmp
  <2>1. /\ UNCHANGED <<disk, refused, key>> /\ pc = "write"
        /\ pc' \in {"rename", "remove"}
        /\ \E ok \in BOOLEAN : new' = [new EXCEPT !.whole = ok]
    BY <1>6 DEF WriteTmp, history
  <2>2. new'.tokens = new.tokens /\ new'.trailer = new.trailer
    BY <1>b, <2>1 DEF File
  <2> QED
    BY <2>1, <2>2 DEF BudgetInv, Size
<1>7. CASE RenameTmp
  <2>1. CASE UNCHANGED disk /\ pc' = "remove"
    BY <1>7, <2>1, BudgetKept DEF RenameTmp
  <2>2. CASE disk' = [disk EXCEPT ![key] = new] /\ pc' = "idle"
    <3>1. pc = "rename" /\ UNCHANGED refused
      BY <1>7 DEF RenameTmp
    <3> DEFINE x == Size(key, new) - new.trailer
    <3>2. /\ Payload(disk') <= Payload(disk) + x
          /\ disk' \in Directories /\ x \in Nat
      BY <1>a, <1>b, <2>2, <3>1, AddedFile, SizeType
    <3>3. Payload(disk') \in Nat
      BY <3>2, SumTypes
    <3>4. ~refused => Payload(disk) + x <= Budget
      BY <3>1 DEF BudgetInv
    <3> HIDE DEF x
    <3>5. ~refused => Payload(disk') <= Budget
      BY <1>a, <3>2, <3>3, <3>4
    <3> QED
      BY <2>2, <3>1, <3>5 DEF BudgetInv
  <2> QED
    BY <1>7, <2>1, <2>2 DEF RenameTmp, Return
<1>8. CASE RemoveTmp
  BY <1>8, BudgetKept DEF RemoveTmp, Return
<1>9. CASE Crash
  BY <1>9, BudgetKept DEF Crash
<1>10. ASSUME NEW k \in Keys, StoreExisting(k) PROVE BudgetInv'
  <2>1. disk[k] \in File
    BY <1>10, <1>a DEF StoreExisting, Listed, Directories
  <2> DEFINE f == [disk[k] EXCEPT !.trailer = 0]
  <2>2. f \in File /\ f.tokens = disk[k].tokens /\ f.whole = disk[k].whole
    BY <2>1, FieldChange DEF File
  <2>3. \/ UNCHANGED disk /\ pc' = "idle"
        \/ disk' = [disk EXCEPT ![k] = f] /\ pc' = "append"
    BY <1>10 DEF StoreExisting, Return
  <2> HIDE DEF f
  <2>4. disk' \in Directories /\ Payload(disk') = Payload(disk)
    BY <1>a, <2>1, <2>2, <2>3, RewrittenFile
  <2> QED
    BY <1>10, <1>a, <2>3, <2>4, BudgetAfter DEF StoreExisting
<1>11. ASSUME NEW k \in Keys, StoreNew(k) PROVE BudgetInv'
  <2>1. /\ UNCHANGED refused
        /\ disk' = disk \/ disk' = [disk EXCEPT ![k] = Missing]
    BY <1>11, <1>a DEF StoreNew, Directories
  <2> DEFINE e == [disk EXCEPT ![k] = Missing]
  <2>a. e \in Directories /\ Payload(e) <= Payload(disk)
    BY <1>a, RemovedFile
  <2> HIDE DEF e
  <2>b. disk' = disk \/ disk' = e
    BY <2>1 DEF e
  <2>c. disk' \in Directories
    BY <1>a, <2>a, <2>b
  <2>2. /\ disk' \in Directories /\ Payload(disk') <= Payload(disk)
        /\ Payload(disk') \in Nat
    BY <1>a, <2>a, <2>b, <2>c, SumTypes
  <2>3. CASE pc' = "idle"
    BY <1>a, <2>1, <2>2, <2>3, BudgetAfter
  <2>4. ASSUME NEW hidden \in Hidden, NEW n \in TrailerSizes, NEW f,
               f = [model |-> settings.model, ctx |-> settings.ctx,
                    tokens |-> Len(k) + hidden, trailer |-> n,
                    created |-> 0, used |-> 0, whole |-> FALSE],
               ~(Required(Size(k, f)) > Budget),
               pc' = "evict", key' = k, new' = f,
               entries' = Listed', total' = ListedBytes'
        PROVE  BudgetInv'
    <3>1. /\ f.tokens = Len(k) + hidden /\ f.trailer = n
          /\ Len(k) \in Nat /\ hidden \in Nat /\ n \in Nat
      BY <2>4
    <3>2. Size(k, f) \in Nat
      <4> HIDE DEF StoreAssumption
      <4> QED
        BY <3>1 DEF Size
    <3> DEFINE x == Size(k, f)
    <3>3. x <= Budget
      <4>1. x + (x + 99) \div 100 <= Budget /\ x \in Nat
        BY <1>a, <2>4, <3>2 DEF Required
      <4> HIDE DEF x
      <4> QED
        BY <1>a, <4>1
    <3>4. (Size(key, new) <= Budget)'
      BY <2>4, <3>3 DEF Size
    <3>5. entries' = Holds(disk') /\ total' = Space(disk')
      BY <2>2, <2>4, CountedBytesNext DEF Listed, Holds
    <3>6. ~refused' => Payload(disk') <= Budget
      BY <1>a, <2>1, <2>2 DEF BudgetInv
    <3>7. refused' \in BOOLEAN
      BY <2>1 DEF BudgetInv
    <3> QED
      BY <2>4, <3>4, <3>5, <3>6, <3>7 DEF BudgetInv
  <2> QED
    BY <1>11, <2>3, <2>4 DEF StoreNew, Return
<1>12. ASSUME NEW k \in Keys, Load(k) PROVE BudgetInv'
  <2> DEFINE q == Found(k)
  <2>1. q \in Keys /\ disk[q] \in File
    BY <1>12, <1>a, FoundListed DEF Load, Listed, Directories
  <2>2. /\ Touched(disk[q]) \in File
        /\ Touched(disk[q]).tokens = disk[q].tokens
        /\ Touched(disk[q]).whole = disk[q].whole
    BY <1>b, <2>1, FieldChange DEF Touched, File
  <2>3. /\ disk' = disk \/ disk' = [disk EXCEPT ![q] = Touched(disk[q])]
        /\ pc' = "idle" /\ UNCHANGED refused
    BY <1>12 DEF Load
  <2> HIDE DEF q
  <2>4. disk' \in Directories /\ Payload(disk') = Payload(disk)
    BY <1>a, <2>1, <2>2, <2>3, RewrittenFile
  <2> QED
    BY <1>a, <2>3, <2>4, BudgetAfter
<1>13. ASSUME NEW k \in Keys, PrefillDone(k) PROVE BudgetInv'
  BY <1>13, BudgetKept DEF PrefillDone, opVars
<1>14. ASSUME NEW k \in Keys, DiscardFailed(k) PROVE BudgetInv'
  <2>1. /\ disk' = disk \/ disk' = [disk EXCEPT ![k] = Missing]
        /\ pc' = "idle" /\ UNCHANGED refused
    BY <1>14 DEF DiscardFailed
  <2>2. disk' \in Directories /\ Payload(disk') <= Payload(disk)
    BY <1>a, <2>1, RemovedFile
  <2> QED
    BY <1>a, <2>1, <2>2, BudgetAfter
<1>15. ASSUME NEW s \in Settings, Open(s) PROVE BudgetInv'
  <2>1. /\ pc' = "evict" /\ UNCHANGED <<disk, refused, key, new>>
        /\ entries' = Holds(disk) /\ total' = Space(disk) /\ key = NoKey
    BY <1>15, <1>a, CountedBytes
       DEF Open, Listed, Holds, Inv, EvictsFor
  <2> QED
    BY <2>1 DEF BudgetInv
<1>16. CASE UNCHANGED vars
  BY <1>16, BudgetKept DEF vars, opVars, history
<1> QED
  BY <1>1, <1>2, <1>4, <1>5, <1>6, <1>7, <1>8, <1>9, <1>10, <1>11, <1>12,
     <1>13, <1>14, <1>15, <1>16 DEF Next

(* Headers, texts and payloads of the listed files are within the budget   *)
(* at every moment, through stores and crashes, unless a file could not be *)
(* removed and no pass has made room since.                                *)
THEOREM BudgetIsHeld == Spec => []BudgetHeld
<1>1. Inv /\ BudgetInv => BudgetHeld
  BY CountedBytes
     DEF BudgetInv, BudgetHeld, Inv, WholeInv, DiskTypes, Directories
<1> QED
  BY <1>1, InvInit, InvNext, ServedInit, ServedNext, BudgetInit, BudgetNext,
     PTL DEF Spec

-----------------------------------------------------------------------------
(* Groups.                                                                 *)

(* A set of numbers has a least one.                                       *)
LEMMA LeastMember ==
    ASSUME NEW T \in SUBSET Nat, T # {}
    PROVE  Min(T) \in T /\ \A y \in T : Min(T) <= y
<1> DEFINE R == OpToRel(<, Nat)
<1>1. IsWellFoundedOn(R, Nat)
  BY NatLessThanWellFounded
<1>2. \A x, y \in Nat : y < x => <<y, x>> \in R
  BY DEF OpToRel
<1> HIDE DEF R
<1>3. PICK x \in T : \A y \in T : ~(<<y, x>> \in R)
  BY <1>1, WFMin
<1>4. \A y \in T : ~(y < x)
  BY <1>2, <1>3
<1>5. \A y \in T : x <= y
  BY <1>4
<1> QED
  BY <1>5 DEF Min

(* A tensor is tied to itself, and what it is tied to shares no file with  *)
(* the rest.                                                               *)
LEMMA TiedClosed ==
    ASSUME NEW u \in Tensor
    PROVE  u \in Tied(u) /\ Tied(u) \in SUBSET Tensor /\ Closed(Tied(u))
<1>1. u \in Tied(u) /\ Tied(u) \in SUBSET Tensor
  BY DEF Tied
<1>2. ASSUME NEW w \in Tied(u), NEW v \in Tensor, Shares(w, v)
      PROVE  v \in Tied(u)
  <2>1. ASSUME NEW x \in SUBSET Tensor, u \in x, Closed(x)
        PROVE  v \in x
    <3>1. w \in x
      BY <2>1 DEF Tied
    <3> QED
      BY <1>2, <2>1, <3>1 DEF Closed
  <2> QED
    BY <2>1 DEF Tied
<1> QED
  BY <1>1, <1>2 DEF Closed

(* What is tied to a tensor is tied to all that the tensor is tied to.     *)
LEMMA TiedWithin ==
    ASSUME NEW u \in Tensor, NEW w \in Tied(u)
    PROVE  Tied(w) \subseteq Tied(u)
<1>1. w \in Tied(u) /\ Tied(u) \in SUBSET Tensor /\ Closed(Tied(u))
  BY TiedClosed
<1> DEFINE t == Tied(u)
<1> HIDE DEF t
<1>2. \A v \in Tied(w) : v \in t
  BY <1>1 DEF Tied, t
<1> QED
  BY <1>2 DEF t

LEMMA TiedSame ==
    ASSUME NEW u \in Tensor, NEW w \in Tied(u)
    PROVE  Tied(w) = Tied(u)
<1>1. w \in Tensor
  BY TiedClosed
<1>2. w \in Tied(w) /\ Closed(Tied(w)) /\ Tied(w) \in SUBSET Tensor
  BY <1>1, TiedClosed
<1>3. u \in Tied(w)
  <2> SUFFICES ASSUME u \notin Tied(w) PROVE FALSE
    OBVIOUS
  <2> DEFINE y == Tensor \ Tied(w)
  <2>1. Closed(y)
    BY <1>2 DEF Closed, Shares
  <2>2. u \in y /\ y \in SUBSET Tensor
    OBVIOUS
  <2>3. w \notin y
    BY <1>2
  <2> HIDE DEF y
  <2> QED
    BY <2>1, <2>2, <2>3 DEF Tied
<1> QED
  BY <1>1, <1>3, TiedWithin

(* Two groups that have a tensor in common are one.                        *)
LEMMA GroupsApart ==
    ASSUME NEW g \in Groups, NEW h \in Groups, NEW u, u \in g, u \in h
    PROVE  g = h
<1>1. PICK a \in Tensor : g = Tied(a)
  BY DEF Groups
<1>2. PICK b \in Tensor : h = Tied(b)
  BY DEF Groups
<1> QED
  BY <1>1, <1>2, TiedSame

(* A group has a first tensor, and is what that one is tied to.            *)
LEMMA FirstOfGroup ==
    ASSUME NEW g \in Groups
    PROVE  /\ g \in SUBSET Tensor /\ Min(g) \in g /\ Min(g) \in Nat
           /\ Min(g) \in Tensor /\ Tied(Min(g)) = g
<1>1. PICK a \in Tensor : g = Tied(a)
  BY DEF Groups
<1>2. g \in SUBSET Tensor /\ g # {} /\ Tensor \subseteq Nat
  BY BuildAssumption, <1>1, TiedClosed
<1>3. Min(g) \in g
  BY <1>2, LeastMember
<1> QED
  BY <1>1, <1>2, <1>3, TiedSame

(* Groups that begin with the same tensor are one.                         *)
LEMMA FirstTells ==
    ASSUME NEW g \in Groups, NEW h \in Groups, Min(g) = Min(h)
    PROVE  g = h
BY FirstOfGroup, GroupsApart

(* Every tensor is in a group.                                             *)
LEMMA GroupsCover == UNION Groups = Tensor
<1>1. \A u \in Tensor : u \in Tied(u) /\ Tied(u) \in SUBSET Tensor
  BY TiedClosed
<1> QED
  BY <1>1 DEF Groups

-----------------------------------------------------------------------------
(* The invariant.                                                          *)

Bytes == (0 .. ShardBytes) \cup {Absent}

\* Where a run is before, in and around the groups.
Beginning == {"reset", "reset output", "read", "init", "size", "save"}
InGroup == {"fetch", "read shard", "publish", "quantize", "clean", "record"}
Working == InGroup \cup {"group", "finish"}

BuildTypes ==
    /\ step \in Idle \cup Beginning \cup Working
    /\ group \in Nat /\ completed \subseteq Groups
    /\ output \in Outputs \cup {Absent}
    /\ state = Absent \/ state \subseteq Groups
    /\ partial \in [Shard -> Bytes] /\ staged \in [Shard -> Bytes]
    /\ tampered \subseteq {"output", "reset"}

\* A staged shard is a whole one, and a file is published when it is.
ShardsInv ==
    /\ \A f \in Shard : staged[f] \in {ShardBytes, Absent}
    /\ step \in {"read shard", "publish"} =>
          Needed # {} /\ partial[Min(Needed)] \in 0 .. ShardBytes
    /\ step = "publish" => partial[Min(Needed)] = ShardBytes
    /\ step = "quantize" => Needed = {}

\* The groups before the one in hand are done.
OrderInv ==
    /\ step \in Beginning => group = 0
    /\ step \in Working =>
          \A g \in Groups : Min(g) < group => g \in completed
    /\ step \in InGroup =>
          group \in Tensor /\ group = Min(Current) /\ Current \notin completed
    /\ step \in {"finish", "complete"} => Groups \subseteq completed

\* What the checkpoint calls done is whole in an output that has its size,
\* and a run has in mind what the checkpoint says.
OutputInv ==
    /\ step \in Working \cup {"size", "save", "complete"} => output # Absent
    /\ step = "save" => output.sized
    /\ step = "reset output" => state = Absent
    /\ step \in {"clean", "record"} =>
          \A u \in Current : output.data[u] = "whole"
    /\ "output" \notin tampered =>
          /\ state # Absent =>
                /\ output # Absent /\ output.sized
                /\ \A u \in UNION state : output.data[u] = "whole"
          /\ step \in {"init", "size", "save"} =>
                state = Absent /\ completed = {}
          /\ step \in Working \cup {"complete"} =>
                state # Absent /\ completed = state

\* The group that comes next after those that are done.
NextIs(g) ==
    g \in Groups \ state /\ \A h \in Groups \ state : Min(g) <= Min(h)

\* Shards are there for the next group only, and before the first for none.
StagedInv ==
    tampered = {} =>
        /\ state = Absent \/ step \in {"refused", "reset", "reset output"} =>
              Present = {}
        /\ state # Absent /\ Present # {} =>
              \E g \in Groups : NextIs(g) /\ Present \subseteq Files(g)
        /\ step = "record" => Present = {}

BuildInv == BuildTypes /\ ShardsInv /\ OrderInv /\ OutputInv /\ StagedInv
-----------------------------------------------------------------------------
(* What the steps of a group work on.                                      *)

LEMMA GroupInHand ==
    ASSUME BuildInv, step \in InGroup
    PROVE  /\ group \in Tensor /\ group \in Nat
           /\ Current \in Groups /\ Current \in SUBSET Tensor
           /\ group \in Current /\ group = Min(Current)
           /\ Current \notin completed
           /\ \A f \in Files(Current) : f \in Shard
<1>1. group \in Tensor /\ group = Min(Current) /\ Current \notin completed
  BY DEF BuildInv, OrderInv
<1>2. Current \in Groups
  BY <1>1 DEF Groups, Current
<1>3. Current \in SUBSET Tensor /\ group \in Current
  BY <1>1, TiedClosed DEF Current
<1>4. \A f \in Files(Current) : f \in Shard
  BY BuildAssumption, <1>3 DEF Files
<1> QED
  BY BuildAssumption, <1>1, <1>2, <1>3, <1>4

(* The next file to download and the next to remove.                       *)
LEMMA FileInHand ==
    ASSUME BuildInv, step \in InGroup
    PROVE  /\ Needed # {} =>
                 /\ Min(Needed) \in Shard /\ Min(Needed) \in Files(Current)
                 /\ staged[Min(Needed)] = Absent
           /\ ToRemove # {} =>
                 Min(ToRemove) \in Shard /\ Min(ToRemove) \in Files(Current)
<1>1. /\ Needed \in SUBSET Nat /\ ToRemove \in SUBSET Nat
      /\ \A f \in Needed : f \in Shard
      /\ \A f \in ToRemove : f \in Shard
  BY BuildAssumption, GroupInHand DEF Needed, ToRemove, Present
<1>2. Needed # {} => Min(Needed) \in Needed
  BY <1>1, LeastMember
<1>3. ToRemove # {} => Min(ToRemove) \in ToRemove
  BY <1>1, LeastMember
<1> QED
  BY <1>1, <1>2, <1>3 DEF Needed, ToRemove

(* A byte counter is not the mark of a missing file, and so on.            *)
LEMMA AbsentApart ==
    /\ ShardBytes \in Nat /\ ShardBytes # 0 /\ ShardBytes # Absent
    /\ \A n \in Nat : n # Absent
    /\ \A o \in Outputs : o # Absent
    /\ \A done \in SUBSET Groups : done # Absent
BY BuildAssumption

-----------------------------------------------------------------------------
(* The invariant holds at first, and every step keeps each of its parts.   *)

LEMMA BuildInvInit == ASSUME BuildInit PROVE BuildInv
<1>1. BuildTypes
  BY DEF BuildInit, BuildTypes, Idle, Bytes
<1>2. ShardsInv
  BY DEF BuildInit, ShardsInv
<1>3. OrderInv
  BY DEF BuildInit, OrderInv, Beginning, Working, InGroup
<1>4. OutputInv
  BY DEF BuildInit, OutputInv, Working, InGroup
<1>5. StagedInv
  BY DEF BuildInit, StagedInv, Present
<1> QED
  BY <1>1, <1>2, <1>3, <1>4, <1>5 DEF BuildInv

LEMMA TypesNext ==
    ASSUME BuildInv, [BuildNext]_buildVars
    PROVE  BuildTypes'
<1> USE DEF GoTo, runVars
<1>a. BuildTypes
  BY DEF BuildInv
<1>b. /\ "read" \in Beginning /\ "reset" \in Beginning
      /\ "reset output" \in Beginning /\ "init" \in Beginning
      /\ "size" \in Beginning /\ "save" \in Beginning
      /\ "down" \in Idle /\ "refused" \in Idle /\ "complete" \in Idle
      /\ "group" \in Working /\ "finish" \in Working
      /\ "fetch" \in InGroup /\ "read shard" \in InGroup
      /\ "publish" \in InGroup /\ "quantize" \in InGroup
      /\ "clean" \in InGroup /\ "record" \in InGroup
      /\ InGroup \subseteq Working
  BY DEF Beginning, Idle, Working, InGroup
<1>1. CASE StartRun
  BY <1>1, <1>a, <1>b DEF StartRun, BuildTypes
<1>2. CASE RemoveState
  BY <1>2, <1>a, <1>b DEF RemoveState, BuildTypes
<1>3. CASE RemoveOutput
  BY <1>3, <1>a, <1>b DEF RemoveOutput, BuildTypes
<1>4. CASE ReadState
  <2>1. step' \in {"group", "init", "refused"} /\ completed' \subseteq Groups
    BY <1>4, <1>a DEF ReadState, BuildTypes
  <2> QED
    BY <1>4, <2>1, <1>a, <1>b DEF ReadState, BuildTypes
<1>5. CASE CreateOutput
  <2>1. output' \in Outputs
    BY <1>5 DEF CreateOutput, Outputs, Contents
  <2> QED
    BY <1>5, <2>1, <1>a, <1>b DEF CreateOutput, BuildTypes
<1>6. CASE SizeOutput
  <2>1. output \in Outputs
    BY <1>6, <1>a DEF SizeOutput, BuildTypes, BuildInv, OutputInv
  <2>2. output' \in Outputs
    BY <1>6, <2>1 DEF SizeOutput, Outputs
  <2> QED
    BY <1>6, <2>2, <1>a, <1>b DEF SizeOutput, BuildTypes
<1>7. CASE SaveState
  BY <1>7, <1>a, <1>b DEF SaveState, BuildTypes
<1>8. CASE NextGroup
  <2>1. /\ step' \in {"group", "finish", "fetch"}
        /\ completed' = completed /\ group' \in Nat
    BY <1>8, <1>a, FirstOfGroup DEF NextGroup, BuildTypes, Left
  <2> QED
    BY <1>8, <2>1, <1>a, <1>b DEF NextGroup, BuildTypes
<1>9. CASE OpenShard
  <2>1. PICK f : \/ partial' = [partial EXCEPT ![f] = 0]
                 \/ partial' = partial
    BY <1>9 DEF OpenShard
  <2>2. 0 \in Bytes
    BY AbsentApart DEF Bytes
  <2>3. partial' \in [Shard -> Bytes]
    BY <2>1, <2>2, <1>a DEF BuildTypes
  <2>4. step' \in {"read shard", "publish"} /\ UNCHANGED <<group, completed>>
    BY <1>9 DEF OpenShard
  <2> QED
    BY <1>9, <2>3, <2>4, <1>a, <1>b DEF OpenShard, BuildTypes
<1>10. CASE ReadShard
  <2>1. PICK f : f = Min(Needed)
    OBVIOUS
  <2>2. partial[f] \in 0 .. ShardBytes
    BY <1>10, <2>1 DEF ReadShard, BuildInv, ShardsInv
  <2>3. \/ /\ partial[f] < ShardBytes
           /\ partial' = [partial EXCEPT ![f] = partial[f] + 1]
        \/ partial' = partial
    BY <1>10, <2>1 DEF ReadShard
  <2>4. partial[f] < ShardBytes => partial[f] + 1 \in Bytes
    BY <2>2, AbsentApart DEF Bytes
  <2>5. partial' \in [Shard -> Bytes]
    BY <2>3, <2>4, <1>a DEF BuildTypes
  <2>6. /\ step' \in {"read shard", "publish"}
        /\ UNCHANGED <<group, completed>>
    BY <1>10 DEF ReadShard
  <2> QED
    BY <1>10, <2>5, <2>6, <1>a, <1>b DEF ReadShard, BuildTypes
<1>11. CASE PublishShard
  <2>1. Min(Needed) \in Shard
    BY <1>11, <1>b, FileInHand DEF PublishShard, BuildInv, ShardsInv
  <2>2. partial' \in [Shard -> Bytes] /\ staged' \in [Shard -> Bytes]
    BY <1>11, <2>1, <1>a DEF PublishShard, BuildTypes, Bytes
  <2> QED
    BY <1>11, <2>2, <1>a, <1>b DEF PublishShard, BuildTypes
<1>12. CASE BeginTensors
  <2>1. output \in Outputs
    BY <1>12, <1>a, <1>b DEF BeginTensors, BuildTypes, BuildInv, OutputInv
  <2>2. output' \in Outputs
    BY <1>12, <2>1 DEF BeginTensors, Outputs, Contents
  <2> QED
    BY <1>12, <2>2, <1>a, <1>b DEF BeginTensors, BuildTypes
<1>13. CASE EndTensors
  <2>1. output \in Outputs
    BY <1>13, <1>a, <1>b DEF EndTensors, BuildTypes, BuildInv, OutputInv
  <2>2. output' \in Outputs
    BY <1>13, <2>1 DEF EndTensors, Outputs, Contents
  <2> QED
    BY <1>13, <2>2, <1>a, <1>b DEF EndTensors, BuildTypes
<1>14. CASE RemoveShard
  <2>1. ToRemove # {} => Min(ToRemove) \in Shard
    BY <1>14, <1>b, FileInHand DEF RemoveShard
  <2>2. partial' \in [Shard -> Bytes] /\ staged' \in [Shard -> Bytes]
    BY <1>14, <2>1, <1>a DEF RemoveShard, BuildTypes, Bytes
  <2> QED
    BY <1>14, <2>2, <1>a, <1>b DEF RemoveShard, BuildTypes
<1>15. CASE RecordGroup
  <2>1. Current \in Groups
    BY <1>15, <1>b, GroupInHand DEF RecordGroup
  <2>2. completed' \subseteq Groups /\ state' = completed' /\ group' \in Nat
    BY <1>15, <2>1, <1>a DEF RecordGroup, BuildTypes
  <2> QED
    BY <1>15, <2>2, <1>a, <1>b DEF RecordGroup, BuildTypes
<1>16. CASE FinishBuild
  BY <1>16, <1>a, <1>b DEF FinishBuild, BuildTypes
<1>17. CASE Interrupt
  BY <1>17, <1>a, <1>b DEF Interrupt, BuildTypes
<1>18. CASE TakeOutput
  BY <1>18, <1>a, <1>b DEF TakeOutput, BuildTypes
<1>19. CASE UNCHANGED buildVars
  BY <1>19, <1>a DEF buildVars, BuildTypes
<1> QED
  BY <1>1, <1>2, <1>3, <1>4, <1>5, <1>6, <1>7, <1>8, <1>9, <1>10, <1>11,
     <1>12, <1>13, <1>14, <1>15, <1>16, <1>17, <1>18, <1>19 DEF BuildNext

(* Away from the downloads, shards that stay as they are stay whole.       *)
LEMMA ShardsKept ==
    ASSUME ShardsInv, UNCHANGED staged,
           step' \notin {"read shard", "publish", "quantize"}
    PROVE  ShardsInv'
BY DEF ShardsInv

LEMMA ShardsNext ==
    ASSUME BuildInv, [BuildNext]_buildVars
    PROVE  ShardsInv'
<1> USE DEF GoTo, runVars
<1>a. BuildTypes /\ ShardsInv
  BY DEF BuildInv
<1>b. {"fetch", "read shard", "publish", "clean"} \subseteq InGroup
  BY DEF InGroup
<1>1. CASE StartRun
  BY <1>1, <1>a, ShardsKept DEF StartRun
<1>2. CASE RemoveState
  BY <1>2, <1>a, ShardsKept DEF RemoveState
<1>3. CASE RemoveOutput
  BY <1>3, <1>a, ShardsKept DEF RemoveOutput
<1>4. CASE ReadState
  <2>1. step' \in {"group", "init", "refused"}
    BY <1>4 DEF ReadState
  <2> QED
    BY <1>4, <2>1, <1>a, ShardsKept DEF ReadState
<1>5. CASE CreateOutput
  BY <1>5, <1>a, ShardsKept DEF CreateOutput
<1>6. CASE SizeOutput
  BY <1>6, <1>a, ShardsKept DEF SizeOutput
<1>7. CASE SaveState
  BY <1>7, <1>a, ShardsKept DEF SaveState
<1>8. CASE NextGroup
  <2>1. step' \in {"group", "finish", "fetch"}
    BY <1>8 DEF NextGroup
  <2> QED
    BY <1>8, <2>1, <1>a, ShardsKept DEF NextGroup
<1>9. CASE OpenShard
  <2>1. PICK f : f = Min(Needed)
    OBVIOUS
  <2>2. /\ f \in Shard /\ Needed # {} /\ Needed' = Needed
        /\ partial[f] \in Bytes
    BY <1>9, <2>1, <1>a, <1>b, FileInHand
       DEF OpenShard, Needed, Current, BuildTypes
  <2>3. \/ step' = "read shard" /\ partial' = [partial EXCEPT ![f] = 0]
        \/ /\ step' = "read shard" /\ partial' = partial
           /\ partial[f] # Absent
        \/ /\ step' = "publish" /\ partial' = partial
           /\ partial[f] = ShardBytes
    <3> DEFINE start == IF partial[f] = Absent THEN 0 ELSE partial[f]
    <3>1. \/ step' = "read shard" /\ partial' = [partial EXCEPT ![f] = 0]
          \/ /\ start \in 1 .. ShardBytes - 1
             /\ step' = "read shard" /\ partial' = partial
          \/ /\ start = ShardBytes
             /\ step' = "publish" /\ partial' = partial
      BY <1>9, <2>1 DEF OpenShard
    <3>2. start # 0 => start = partial[f] /\ partial[f] # Absent
      OBVIOUS
    <3>3. start \in 1 .. ShardBytes - 1 \/ start = ShardBytes => start # 0
      BY AbsentApart
    <3> HIDE DEF start
    <3> QED
      BY <3>1, <3>2, <3>3
  <2>4. partial'[f] \in 0 .. ShardBytes
    <3>1. 0 \in 0 .. ShardBytes /\ ShardBytes \in 0 .. ShardBytes
      BY AbsentApart
    <3>2. DOMAIN partial = Shard
      BY <1>a DEF BuildTypes
    <3> QED
      BY <2>2, <2>3, <3>1, <3>2 DEF Bytes
  <2>5. UNCHANGED staged /\ f = Min(Needed)'
    BY <1>9, <2>1, <2>2 DEF OpenShard
  <2> QED
    BY <2>2, <2>3, <2>4, <2>5, <1>a DEF ShardsInv
<1>10. CASE ReadShard
  <2>1. PICK f : f = Min(Needed)
    OBVIOUS
  <2>2. /\ f \in Shard /\ Needed # {} /\ Needed' = Needed
        /\ partial[f] \in 0 .. ShardBytes
    BY <1>10, <2>1, <1>a, <1>b, FileInHand
       DEF ReadShard, ShardsInv, Needed, Current
  <2>3. \/ /\ step' = "read shard" /\ partial[f] < ShardBytes
           /\ partial' = [partial EXCEPT ![f] = partial[f] + 1]
        \/ step' = "publish" /\ partial' = partial /\ partial[f] = ShardBytes
    BY <1>10, <2>1 DEF ReadShard, ReadAll
  <2>4. partial'[f] \in 0 .. ShardBytes
    <3>1. DOMAIN partial = Shard /\ ShardBytes \in Nat
      BY <1>a, AbsentApart DEF BuildTypes
    <3>2. partial[f] < ShardBytes => partial[f] + 1 \in 0 .. ShardBytes
      BY <2>2, <3>1
    <3> QED
      BY <2>2, <2>3, <3>1, <3>2
  <2>5. UNCHANGED staged /\ f = Min(Needed)'
    BY <1>10, <2>1, <2>2 DEF ReadShard
  <2> QED
    BY <2>2, <2>3, <2>4, <2>5, <1>a DEF ShardsInv
<1>11. CASE PublishShard
  BY <1>11, <1>a DEF PublishShard, ShardsInv, BuildTypes
<1>12. CASE BeginTensors
  BY <1>12, <1>a DEF BeginTensors, ShardsInv, Needed, Current
<1>13. CASE EndTensors
  BY <1>13, <1>a, ShardsKept DEF EndTensors
<1>14. CASE RemoveShard
  BY <1>14, <1>a DEF RemoveShard, ShardsInv, BuildTypes
<1>15. CASE RecordGroup
  BY <1>15, <1>a, ShardsKept DEF RecordGroup
<1>16. CASE FinishBuild
  BY <1>16, <1>a, ShardsKept DEF FinishBuild
<1>17. CASE Interrupt
  BY <1>17, <1>a, ShardsKept DEF Interrupt
<1>18. CASE TakeOutput
  BY <1>18, <1>a, ShardsKept DEF TakeOutput
<1>19. CASE UNCHANGED buildVars
  BY <1>19, <1>a DEF buildVars, ShardsInv, Needed, Current
<1> QED
  BY <1>1, <1>2, <1>3, <1>4, <1>5, <1>6, <1>7, <1>8, <1>9, <1>10, <1>11,
     <1>12, <1>13, <1>14, <1>15, <1>16, <1>17, <1>18, <1>19 DEF BuildNext

(* The groups in front of the one in hand, or of the next, are done.       *)
LEMMA OrderNext ==
    ASSUME BuildInv, [BuildNext]_buildVars
    PROVE  OrderInv'
<1> USE DEF GoTo, runVars, Beginning, InGroup, Working, Idle
<1>a. BuildTypes /\ OrderInv
  BY DEF BuildInv
<1>1. CASE StartRun
  BY <1>1 DEF StartRun, OrderInv
<1>2. CASE RemoveState
  BY <1>2, <1>a DEF RemoveState, OrderInv
<1>3. CASE RemoveOutput
  BY <1>3, <1>a DEF RemoveOutput, OrderInv
<1>4. CASE ReadState
  <2>1. step' \in {"group", "init", "refused"} /\ group' = 0
    BY <1>4, <1>a DEF ReadState, OrderInv
  <2>2. \A g \in Groups : ~(Min(g) < 0)
    BY FirstOfGroup
  <2> QED
    BY <2>1, <2>2 DEF OrderInv
<1>5. CASE CreateOutput
  BY <1>5, <1>a DEF CreateOutput, OrderInv
<1>6. CASE SizeOutput
  BY <1>6, <1>a DEF SizeOutput, OrderInv
<1>7. CASE SaveState
  <2>1. step' = "group" /\ group' = 0
    BY <1>7, <1>a DEF SaveState, OrderInv
  <2>2. \A g \in Groups : ~(Min(g) < 0)
    BY FirstOfGroup
  <2> QED
    BY <2>1, <2>2 DEF OrderInv
<1>8. CASE NextGroup
  <2>a. /\ \A h \in Groups : Min(h) < group => h \in completed
        /\ completed' = completed /\ group \in Nat
    BY <1>8, <1>a DEF NextGroup, OrderInv, BuildTypes
  <2>b. \A h \in Groups : Min(h) \in Nat
    BY FirstOfGroup
  <2>1. CASE Left = {} /\ GoTo("finish")
    <3>1. \A h \in Groups : Min(h) < group
      BY <2>1, <2>a, <2>b DEF Left
    <3> QED
      BY <2>1, <2>a, <3>1 DEF OrderInv
  <2>2. CASE ~(Left = {} /\ GoTo("finish"))
    <3>1. PICK g \in Left :
             /\ \A h \in Left : Min(g) <= Min(h)
             /\ IF g \in completed
                THEN group' = Min(g) + 1 /\ UNCHANGED step
                ELSE group' = Min(g) /\ step' = "fetch"
      BY <1>8, <2>2 DEF NextGroup
    <3>2. /\ g \in Groups /\ Min(g) \in Nat /\ Min(g) \in Tensor
          /\ Tied(Min(g)) = g
      BY <3>1, FirstOfGroup DEF Left
    <3>3. \A h \in Groups : Min(h) < Min(g) => h \in completed
      BY <3>1, <3>2, <2>a, <2>b DEF Left
    <3>4. CASE g \in completed
      <4>1. step' = "group" /\ group' = Min(g) + 1
        BY <3>1, <3>4, <1>8 DEF NextGroup
      <4>2. \A h \in Groups : Min(h) < Min(g) + 1 =>
               Min(h) < Min(g) \/ Min(h) = Min(g)
        BY <3>2, <2>b
      <4>3. \A h \in Groups : Min(h) = Min(g) => h = g
        BY <3>2, FirstTells
      <4>4. \A h \in Groups : Min(h) < group' => h \in completed'
        BY <4>1, <4>2, <4>3, <3>3, <3>4, <2>a
      <4> QED
        BY <4>1, <4>4 DEF OrderInv
    <3>5. CASE g \notin completed
      <4>1. step' = "fetch" /\ group' = Min(g)
        BY <3>1, <3>5
      <4>2. Current' = g
        BY <4>1, <3>2 DEF Current
      <4> QED
        BY <4>1, <4>2, <3>2, <3>3, <3>5, <2>a DEF OrderInv
    <3> QED
      BY <3>4, <3>5
  <2> QED
    BY <2>1, <2>2
<1>a1. ASSUME UNCHANGED <<group, completed>>, step \in InGroup, step' \in InGroup
       PROVE  OrderInv'
  <2>1. Current' = Current
    BY <1>a1 DEF Current
  <2>2. /\ \A g \in Groups : Min(g) < group => g \in completed
        /\ group \in Tensor /\ group = Min(Current) /\ Current \notin completed
    BY <1>a1, <1>a DEF OrderInv
  <2> QED
    BY <1>a1, <2>1, <2>2 DEF OrderInv
<1>9. CASE OpenShard
  BY <1>9, <1>a1 DEF OpenShard
<1>10. CASE ReadShard
  BY <1>10, <1>a1 DEF ReadShard
<1>11. CASE PublishShard
  BY <1>11, <1>a1 DEF PublishShard
<1>12. CASE BeginTensors
  BY <1>12, <1>a1 DEF BeginTensors
<1>13. CASE EndTensors
  BY <1>13, <1>a1 DEF EndTensors
<1>14. CASE RemoveShard
  BY <1>14, <1>a1 DEF RemoveShard
<1>15. CASE RecordGroup
  <2>1. /\ group \in Nat /\ Current \in Groups /\ group = Min(Current)
        /\ \A h \in Groups : Min(h) < group => h \in completed
    BY <1>15, <1>a, GroupInHand DEF RecordGroup, OrderInv
  <2>2. \A h \in Groups : Min(h) \in Nat /\ (Min(h) = group => h = Current)
    BY <2>1, FirstOfGroup, FirstTells
  <2>3. /\ step' = "group" /\ group' = group + 1
        /\ completed' = completed \cup {Current}
    BY <1>15 DEF RecordGroup
  <2>4. \A h \in Groups :
           Min(h) < group + 1 => Min(h) < group \/ Min(h) = group
    BY <2>1, <2>2
  <2>5. \A h \in Groups : Min(h) < group' => h \in completed'
    BY <2>1, <2>2, <2>3, <2>4
  <2> QED
    BY <2>3, <2>5 DEF OrderInv
<1>16. CASE FinishBuild
  BY <1>16, <1>a DEF FinishBuild, OrderInv
<1>17. CASE Interrupt
  BY <1>17 DEF Interrupt, OrderInv
<1>18. CASE TakeOutput
  BY <1>18 DEF TakeOutput, OrderInv
<1>19. CASE UNCHANGED buildVars
  <2>1. Current' = Current /\ UNCHANGED <<step, group, completed>>
    BY <1>19 DEF buildVars, Current
  <2> QED
    BY <2>1, <1>a DEF OrderInv
<1> QED
  BY <1>1, <1>2, <1>3, <1>4, <1>5, <1>6, <1>7, <1>8, <1>9, <1>10, <1>11,
     <1>12, <1>13, <1>14, <1>15, <1>16, <1>17, <1>18, <1>19 DEF BuildNext

(* What the checkpoint calls done is whole.                                *)

(* Away from the output, the checkpoint and the groups nothing changes.    *)
LEMMA OutputKept ==
    ASSUME OutputInv, UNCHANGED <<output, state, completed, tampered, group>>,
           \/ step \in InGroup /\ step' \in InGroup \ {"clean", "record"}
           \/ step = "clean" /\ step' \in {"clean", "record"}
           \/ step = "group" /\ step' = "finish"
           \/ step = "finish" /\ step' = "complete"
    PROVE  OutputInv'
<1> USE DEF InGroup, Working
<1>1. Current' = Current
  BY DEF Current
<1> QED
  BY <1>1 DEF OutputInv

LEMMA OutputNext ==
    ASSUME BuildInv, [BuildNext]_buildVars
    PROVE  OutputInv'
<1> USE DEF GoTo, runVars, InGroup, Working
<1>a. BuildTypes /\ OutputInv
  BY DEF BuildInv
<1>1. CASE StartRun
  <2>1. /\ step' \in {"read", "reset"} /\ UNCHANGED <<output, state>>
        /\ "output" \in tampered => "output" \in tampered'
    BY <1>1 DEF StartRun
  <2> QED
    BY <2>1, <1>a DEF OutputInv
<1>2. CASE RemoveState
  BY <1>2 DEF RemoveState, OutputInv
<1>3. CASE RemoveOutput
  BY <1>3, <1>a DEF RemoveOutput, OutputInv
<1>4. CASE ReadState
  <2>1. /\ UNCHANGED <<output, state, tampered>>
        /\ completed' = IF state = Absent THEN {} ELSE state
        /\ \/ /\ step' = "group" /\ state # Absent /\ output # Absent
           \/ /\ step' = "init" /\ output = Absent
           \/ step' = "refused"
    BY <1>4 DEF ReadState, Initialized
  <2> QED
    BY <2>1, <1>a DEF OutputInv
<1>5. CASE CreateOutput
  <2>1. output' \in Outputs
    BY <1>5 DEF CreateOutput, Outputs, Contents
  <2> QED
    BY <1>5, <2>1, <1>a, AbsentApart DEF CreateOutput, OutputInv
<1>6. CASE SizeOutput
  <2>1. output \in Outputs
    BY <1>6, <1>a DEF SizeOutput, BuildTypes, OutputInv
  <2>2. output' \in Outputs /\ output'.sized
    BY <1>6, <2>1 DEF SizeOutput, Outputs
  <2> QED
    BY <1>6, <2>2, <1>a, AbsentApart DEF SizeOutput, OutputInv
<1>7. CASE SaveState
  <2>1. state' = {} /\ state' # Absent
    BY <1>7, AbsentApart DEF SaveState
  <2> QED
    BY <1>7, <2>1, <1>a DEF SaveState, OutputInv
<1>8. CASE NextGroup
  <2>1. /\ step = "group" /\ step' \in {"group", "fetch", "finish"}
        /\ UNCHANGED <<completed, output, state, tampered>>
    BY <1>8 DEF NextGroup
  <2> QED
    BY <2>1, <1>a DEF OutputInv
<1>9. CASE OpenShard
  BY <1>9, <1>a, OutputKept DEF OpenShard
<1>10. CASE ReadShard
  BY <1>10, <1>a, OutputKept DEF ReadShard
<1>11. CASE PublishShard
  BY <1>11, <1>a, OutputKept DEF PublishShard
<1>b. ASSUME step \in {"fetch", "quantize"}, step' \in {"quantize", "clean"},
             UNCHANGED <<group, completed, state, tampered>>,
             output' \in Outputs, output'.sized = output.sized,
             \A u \in Tensor \ Current : output'.data[u] = output.data[u],
             step' = "clean" =>
                \A u \in Current : output'.data[u] = "whole"
      PROVE  OutputInv'
  <2>1. Current' = Current /\ output' # Absent
    BY <1>b, AbsentApart DEF Current
  <2>2. /\ Current \in Groups /\ Current \notin completed
        /\ Current \in SUBSET Tensor
    BY <1>b, GroupInHand
  <2>3. ASSUME "output" \notin tampered
        PROVE  /\ state # Absent /\ completed = state /\ output.sized
               /\ state \in SUBSET Groups
               /\ \A u \in UNION state : output.data[u] = "whole"
    BY <1>a, <1>b, <2>3 DEF OutputInv, BuildTypes
  <2>4. ASSUME "output" \notin tampered, NEW u \in UNION state
        PROVE  output'.data[u] = "whole"
    <3>1. PICK g \in state : u \in g
      OBVIOUS
    <3>2. g \in Groups /\ g # Current
      BY <2>2, <2>3, <2>4
    <3>3. u \in Tensor \ Current
      BY <3>1, <3>2, <2>2, GroupsApart, GroupsCover
    <3> QED
      BY <3>3, <2>3, <2>4, <1>b
  <2> QED
    BY <1>b, <2>1, <2>3, <2>4 DEF OutputInv
<1>12. CASE BeginTensors
  <2>1. output \in Outputs
    BY <1>12, <1>a DEF BeginTensors, BuildTypes, OutputInv
  <2>2. /\ output' \in Outputs /\ output'.sized = output.sized
        /\ \A u \in Tensor \ Current : output'.data[u] = output.data[u]
    BY <1>12, <2>1 DEF BeginTensors, Outputs, Contents
  <2> QED
    BY <1>12, <2>2, <1>b DEF BeginTensors
<1>13. CASE EndTensors
  <2>1. output \in Outputs
    BY <1>13, <1>a DEF EndTensors, BuildTypes, OutputInv
  <2>2. \A u \in Current : u \in Tensor
    BY <1>13, GroupInHand DEF EndTensors
  <2>3. \A u \in Current : \A f \in Sources[u] : staged[f] = ShardBytes
    <3> SUFFICES ASSUME NEW u \in Current, NEW f \in Sources[u]
                 PROVE  staged[f] = ShardBytes
      OBVIOUS
    <3>1. f \in Files(Current)
      BY DEF Files
    <3>2. f \in Shard /\ f \notin Needed
      BY <1>13, <3>1, GroupInHand DEF EndTensors, BuildInv, ShardsInv
    <3> QED
      BY <3>1, <3>2 DEF Needed, BuildInv, ShardsInv
  <2>4. /\ output' \in Outputs /\ output'.sized = output.sized
        /\ \A u \in Tensor \ Current : output'.data[u] = output.data[u]
        /\ \A u \in Current : output'.data[u] = "whole"
    <3> DEFINE d == [u \in Tensor |->
                       IF u \notin Current THEN output.data[u]
                       ELSE IF \A f \in Sources[u] : staged[f] = ShardBytes
                            THEN "whole" ELSE "wrong"]
    <3>1. output' = [output EXCEPT !.data = d]
      BY <1>13, <2>1 DEF EndTensors, Outputs
    <3>2. d \in [Tensor -> Contents]
      BY <2>1 DEF Outputs, Contents
    <3>3. \A u \in Tensor \ Current : d[u] = output.data[u]
      OBVIOUS
    <3>4. \A u \in Current : d[u] = "whole"
      BY <2>2, <2>3
    <3> HIDE DEF d
    <3>5. /\ output' \in Outputs /\ output'.sized = output.sized
          /\ output'.data = d
      BY <3>1, <3>2, <2>1 DEF Outputs
    <3> QED
      BY <3>3, <3>4, <3>5
  <2> QED
    BY <1>13, <2>4, <1>b DEF EndTensors
<1>14. CASE RemoveShard
  BY <1>14, <1>a, OutputKept DEF RemoveShard
<1>15. CASE RecordGroup
  <2>1. /\ Current \in Groups
        /\ \A u \in Current : output.data[u] = "whole"
        /\ output # Absent /\ completed \in SUBSET Groups
    BY <1>15, <1>a, GroupInHand DEF RecordGroup, OutputInv, BuildTypes
  <2>2. /\ completed' = completed \cup {Current} /\ state' = completed'
        /\ step' = "group" /\ UNCHANGED <<output, tampered>>
    BY <1>15 DEF RecordGroup
  <2>3. state' # Absent
    BY <2>1, <2>2, AbsentApart
  <2>4. "output" \notin tampered =>
           output.sized /\ \A u \in UNION completed : output.data[u] = "whole"
    BY <1>15, <1>a DEF RecordGroup, OutputInv
  <2> QED
    BY <2>1, <2>2, <2>3, <2>4 DEF OutputInv
<1>16. CASE FinishBuild
  BY <1>16, <1>a, OutputKept DEF FinishBuild
<1>17. CASE Interrupt
  BY <1>17, <1>a DEF Interrupt, OutputInv
<1>18. CASE TakeOutput
  BY <1>18, <1>a DEF TakeOutput, OutputInv
<1>19. CASE UNCHANGED buildVars
  <2>1. Current' = Current
    BY <1>19 DEF buildVars, Current
  <2> QED
    BY <1>19, <2>1, <1>a DEF buildVars, OutputInv
<1> QED
  BY <1>1, <1>2, <1>3, <1>4, <1>5, <1>6, <1>7, <1>8, <1>9, <1>10, <1>11,
     <1>12, <1>13, <1>14, <1>15, <1>16, <1>17, <1>18, <1>19 DEF BuildNext

(* Shards are staged for the next group only.                              *)

(* Of the groups that are not done there is one first.                     *)
LEMMA NextIsOne ==
    ASSUME NEW g, NextIs(g), NEW h, NextIs(h)
    PROVE  g = h
<1>1. /\ g \in Groups /\ h \in Groups
      /\ Min(g) <= Min(h) /\ Min(h) <= Min(g)
  BY DEF NextIs
<1>2. Min(g) \in Nat /\ Min(h) \in Nat
  BY <1>1, FirstOfGroup
<1>3. Min(g) = Min(h)
  BY <1>1, <1>2
<1> QED
  BY <1>1, <1>3, FirstTells

(* The group in hand is that one, and what is there is of it.              *)
LEMMA StagedForCurrent ==
    ASSUME BuildInv, step \in InGroup, tampered = {}
    PROVE  /\ state # Absent /\ NextIs(Current)
           /\ Present \subseteq Files(Current)
<1>1. state # Absent /\ completed = state
  BY DEF BuildInv, OutputInv, Working
<1>2. /\ Current \in Groups \ state /\ group = Min(Current) /\ group \in Nat
      /\ \A h \in Groups : Min(h) < group => h \in state
  BY <1>1, GroupInHand DEF BuildInv, OrderInv, Working
<1>3. \A h \in Groups : Min(h) \in Nat
  BY FirstOfGroup
<1>4. \A h \in Groups \ state : Min(Current) <= Min(h)
  BY <1>2, <1>3
<1>5. NextIs(Current)
  BY <1>2, <1>4 DEF NextIs
<1>6. Present # {} => \E g \in Groups : NextIs(g) /\ Present \subseteq Files(g)
  BY <1>1 DEF BuildInv, StagedInv
<1> QED
  BY <1>1, <1>5, <1>6, NextIsOne

(* Steps that leave the files and the checkpoint alone.                    *)
LEMMA StagedKept ==
    ASSUME StagedInv, UNCHANGED <<state, partial, staged>>,
           tampered' = {} => tampered = {},
           tampered' = {} /\ step' \in {"refused", "reset", "reset output"} =>
              Present = {},
           step' # "record"
    PROVE  StagedInv'
<1>1. Present' = Present
  BY DEF Present
<1>2. \A g : NextIs(g)' <=> NextIs(g)
  BY DEF NextIs
<1> QED
  BY <1>1, <1>2 DEF StagedInv

(* Steps of a group on its files.                                          *)
LEMMA StagedInGroup ==
    ASSUME BuildInv, UNCHANGED <<state, tampered>>,
           step \in InGroup, step' \in InGroup \ {"record"},
           tampered = {} => Present' \subseteq Files(Current)
    PROVE  StagedInv'
<1>1. \A g : NextIs(g)' <=> NextIs(g)
  BY DEF NextIs
<1>2. tampered = {} =>
         /\ state # Absent /\ NextIs(Current) /\ Current \in Groups
         /\ Present' \subseteq Files(Current)
  BY StagedForCurrent DEF NextIs
<1>3. tampered = {} =>
         \E g \in Groups : NextIs(g)' /\ Present' \subseteq Files(g)
  BY <1>1, <1>2
<1> QED
  BY <1>2, <1>3 DEF StagedInv, InGroup

LEMMA StagedNext ==
    ASSUME BuildInv, [BuildNext]_buildVars
    PROVE  StagedInv'
<1> USE DEF GoTo, runVars
<1>a. BuildTypes /\ OutputInv /\ StagedInv
  BY DEF BuildInv
<1>b. {"fetch", "read shard", "publish", "quantize", "clean", "record"}
         \subseteq InGroup
  BY DEF InGroup
<1>1. CASE StartRun
  <2>1. /\ UNCHANGED <<state, partial, staged>>
        /\ \/ step' = "read" /\ tampered' = tampered
           \/ step' = "reset" /\ step = "refused" /\ tampered' = tampered
           \/ step' = "reset" /\ tampered' # {}
    BY <1>1 DEF StartRun
  <2>2. tampered' = {} => tampered = {}
    BY <1>1 DEF StartRun
  <2>3. tampered = {} /\ step = "refused" => Present = {}
    BY <1>a DEF StagedInv
  <2> QED
    BY <2>1, <2>2, <2>3, <1>a, StagedKept
<1>2. CASE RemoveState
  <2>1. Present' = Present
    BY <1>2 DEF RemoveState, Present
  <2>2. tampered' = {} => tampered = {}
    BY <1>2 DEF RemoveState
  <2>3. step = "reset" /\ step' = "reset output" /\ state' = Absent
    BY <1>2 DEF RemoveState
  <2> QED
    BY <2>1, <2>2, <2>3, <1>a DEF StagedInv
<1>3. CASE RemoveOutput
  BY <1>3, <1>a, StagedKept DEF RemoveOutput
<1>4. CASE ReadState
  <2>1. /\ UNCHANGED <<state, partial, staged, tampered>>
        /\ step' \in {"group", "init", "refused"}
        /\ step' = "refused" => \/ state = Absent
                                \/ output = Absent \/ ~output.sized
    BY <1>4 DEF ReadState, Initialized
  <2>2. tampered = {} /\ step' = "refused" => state = Absent
    BY <2>1, <1>a DEF OutputInv
  <2>3. tampered = {} /\ state = Absent => Present = {}
    BY <1>a DEF StagedInv
  <2> QED
    BY <2>1, <2>2, <2>3, <1>a, StagedKept
<1>5. CASE CreateOutput
  BY <1>5, <1>a, StagedKept DEF CreateOutput
<1>6. CASE SizeOutput
  BY <1>6, <1>a, StagedKept DEF SizeOutput
<1>7. CASE SaveState
  <2>1. Present' = Present
    BY <1>7 DEF SaveState, Present
  <2>2. tampered = {} => Present = {}
    BY <1>7, <1>a DEF SaveState, OutputInv, StagedInv
  <2> QED
    BY <1>7, <2>1, <2>2, AbsentApart DEF SaveState, StagedInv
<1>8. CASE NextGroup
  <2>1. /\ UNCHANGED <<state, partial, staged, tampered>>
        /\ step' \in {"group", "fetch", "finish"}
    BY <1>8 DEF NextGroup
  <2> QED
    BY <2>1, <1>a, StagedKept
<1>9. CASE OpenShard
  <2>1. PICK f : f = Min(Needed)
    OBVIOUS
  <2>2. f \in Files(Current)
    BY <1>9, <1>b, <2>1, FileInHand DEF OpenShard
  <2>3. /\ UNCHANGED <<state, tampered, staged>>
        /\ step = "fetch" /\ step' \in {"read shard", "publish"}
        /\ \A d \in Shard : d # f => partial'[d] = partial[d]
    BY <1>9, <2>1, <1>a DEF OpenShard, BuildTypes
  <2>4. Present' \subseteq Present \cup {f}
    BY <2>3 DEF Present
  <2> QED
    BY <2>2, <2>3, <2>4, <1>b, StagedForCurrent, StagedInGroup
<1>10. CASE ReadShard
  <2>1. PICK f : f = Min(Needed)
    OBVIOUS
  <2>2. f \in Files(Current)
    BY <1>10, <1>b, <2>1, FileInHand
       DEF ReadShard, BuildInv, ShardsInv
  <2>3. /\ UNCHANGED <<state, tampered, staged>>
        /\ step = "read shard" /\ step' \in {"read shard", "publish"}
        /\ \A d \in Shard : d # f => partial'[d] = partial[d]
    BY <1>10, <2>1, <1>a DEF ReadShard, BuildTypes
  <2>4. Present' \subseteq Present \cup {f}
    BY <2>3 DEF Present
  <2> QED
    BY <2>2, <2>3, <2>4, <1>b, StagedForCurrent, StagedInGroup
<1>11. CASE PublishShard
  <2>1. PICK f : f = Min(Needed)
    OBVIOUS
  <2>2. f \in Files(Current)
    BY <1>11, <1>b, <2>1, FileInHand
       DEF PublishShard, BuildInv, ShardsInv
  <2>3. /\ UNCHANGED <<state, tampered>>
        /\ step = "publish" /\ step' = "fetch"
        /\ \A d \in Shard : d # f => /\ partial'[d] = partial[d]
                                     /\ staged'[d] = staged[d]
    BY <1>11, <2>1, <1>a DEF PublishShard, BuildTypes
  <2>4. Present' \subseteq Present \cup {f}
    BY <2>3 DEF Present
  <2> QED
    BY <2>2, <2>3, <2>4, <1>b, StagedForCurrent, StagedInGroup
<1>12. CASE BeginTensors
  BY <1>12, <1>a, StagedKept DEF BeginTensors
<1>13. CASE EndTensors
  BY <1>13, <1>a, StagedKept DEF EndTensors
<1>14. CASE RemoveShard
  <2>1. PICK f : f = Min(ToRemove)
    OBVIOUS
  <2>2. CASE ToRemove = {}
    <3>1. /\ UNCHANGED <<state, partial, staged, tampered>>
          /\ step = "clean" /\ step' = "record"
      BY <1>14, <2>2 DEF RemoveShard
    <3>2. tampered = {} =>
             state # Absent /\ Present \subseteq Files(Current)
      BY <3>1, <1>b, StagedForCurrent
    <3>3. tampered = {} => Present = {}
      BY <2>2, <3>2 DEF ToRemove
    <3>4. Present' = Present
      BY <3>1 DEF Present
    <3> QED
      BY <3>1, <3>2, <3>3, <3>4 DEF StagedInv
  <2>3. CASE ToRemove # {}
    <3>1. /\ UNCHANGED <<state, tampered>>
          /\ step = "clean" /\ step' = "clean"
          /\ \A d \in Shard : d # f => /\ partial'[d] = partial[d]
                                       /\ staged'[d] = staged[d]
          /\ f \in Files(Current)
      BY <1>14, <2>1, <2>3, <1>a, <1>b, FileInHand
         DEF RemoveShard, BuildTypes
    <3>2. Present' \subseteq Present \cup {f}
      BY <3>1 DEF Present
    <3> QED
      BY <3>1, <3>2, <1>b, StagedForCurrent, StagedInGroup
  <2> QED
    BY <2>2, <2>3
<1>15. CASE RecordGroup
  <2>1. Present' = Present
    BY <1>15 DEF RecordGroup, Present
  <2>2. tampered = {} => Present = {}
    BY <1>15, <1>a DEF RecordGroup, StagedInv
  <2> QED
    BY <1>15, <2>1, <2>2 DEF RecordGroup, StagedInv
<1>16. CASE FinishBuild
  BY <1>16, <1>a, StagedKept DEF FinishBuild
<1>17. CASE Interrupt
  BY <1>17, <1>a, StagedKept DEF Interrupt
<1>18. CASE TakeOutput
  BY <1>18 DEF TakeOutput, StagedInv
<1>19. CASE UNCHANGED buildVars
  <2>1. Present' = Present /\ UNCHANGED <<step, state, tampered>>
    BY <1>19 DEF buildVars, Present
  <2>2. \A g : NextIs(g)' <=> NextIs(g)
    BY <2>1 DEF NextIs
  <2> QED
    BY <2>1, <2>2, <1>a DEF StagedInv
<1> QED
  BY <1>1, <1>2, <1>3, <1>4, <1>5, <1>6, <1>7, <1>8, <1>9, <1>10, <1>11,
     <1>12, <1>13, <1>14, <1>15, <1>16, <1>17, <1>18, <1>19 DEF BuildNext

-----------------------------------------------------------------------------
(* The theorems.                                                           *)

LEMMA BuildInvNext ==
    ASSUME BuildInv, [BuildNext]_buildVars
    PROVE  BuildInv'
BY TypesNext, ShardsNext, OrderNext, OutputNext, StagedNext DEF BuildInv

(* However often a build is interrupted or begun anew, what its checkpoint *)
(* calls done is whole and made of whole shards, and so is all of the      *)
(* output of a build that is complete, unless somebody took the output     *)
(* away and left the checkpoint.                                           *)
THEOREM BuildIsWhole == BuildSpec => []BuildWhole
<1>1. ASSUME BuildInv PROVE BuildWhole
  <2> SUFFICES ASSUME "output" \notin tampered, step = "complete"
               PROVE  \A u \in Tensor : output.data[u] = "whole"
    BY <1>1 DEF BuildWhole, BuildInv, OutputInv
  <2>1. /\ Groups \subseteq state
        /\ \A u \in UNION state : output.data[u] = "whole"
    BY <1>1 DEF BuildInv, OrderInv, OutputInv
  <2> QED
    BY <2>1, GroupsCover
<1> QED
  BY <1>1, BuildInvInit, BuildInvNext, PTL DEF BuildSpec

(* The files that are staged, in part or whole, are of one group at every  *)
(* moment, also after interrupted runs, unless somebody reset a build or   *)
(* took its output away.                                                   *)
THEOREM OneGroupIsStaged == BuildSpec => []OneGroupStaged
<1>1. BuildInv => OneGroupStaged
  BY DEF BuildInv, StagedInv, OneGroupStaged
<1> QED
  BY <1>1, BuildInvInit, BuildInvNext, PTL DEF BuildSpec

-----------------------------------------------------------------------------
(* Folds over finite sets of numbers, one place after the other.           *)

(* What is so of 0, and of the next of each number it is so of, is so of   *)
(* all up to a bound.                                                      *)
LEMMA UpTo ==
    ASSUME NEW n \in Nat, NEW T \in SUBSET (0 .. n), 0 \in T,
           \A i \in 0 .. n - 1 : i \in T => i + 1 \in T
    PROVE  T = 0 .. n
<1> DEFINE Rest == (0 .. n) \ T
<1> SUFFICES ASSUME Rest # {} PROVE FALSE
  OBVIOUS
<1>1. PICK k \in Rest : \A m \in Rest : k <= m
  <2> Rest \in SUBSET Nat
    OBVIOUS
  <2> HIDE DEF Rest
  <2> QED
    BY LeastNumber
<1>2. k \in Nat /\ k # 0 /\ k <= n /\ k \notin T
  OBVIOUS
<1>3. k - 1 \in 0 .. n - 1 /\ (k - 1) + 1 = k
  BY <1>2
<1>4. k - 1 \notin T
  BY <1>2, <1>3
<1> QED
  BY <1>1, <1>2, <1>3, <1>4

(* The first n numbers.                                                    *)
LEMMA FirstNumbers ==
    ASSUME NEW n \in Nat
    PROVE  IsFiniteSet(1 .. n) /\ Cardinality(1 .. n) = n
<1>1. 1 \in Int /\ n \in Int
  OBVIOUS
<1>2. /\ IsFiniteSet(1 .. n)
      /\ Cardinality(1 .. n) = IF 1 > n THEN 0 ELSE n - 1 + 1
  BY <1>1, FS_Interval
<1>3. (IF 1 > n THEN 0 ELSE n - 1 + 1) = n
  OBVIOUS
<1> QED
  BY <1>2, <1>3

(* A set of numbers up to n that has a member has a last one, and less     *)
(* without it.                                                             *)
LEMMA LastTaken ==
    ASSUME NEW n \in Nat, NEW s \in SUBSET (1 .. n), s # {}
    PROVE  /\ Max(s) \in s /\ Max(s) \in 1 .. n
           /\ \A i \in s : i <= Max(s)
           /\ s \ {Max(s)} \in SUBSET (1 .. n)
           /\ Cardinality(s \ {Max(s)}) = Cardinality(s) - 1
           /\ Cardinality(s) \in Nat \ {0}
<1> DEFINE Turned == {n - i : i \in s}
<1>1. PICK j \in Turned : \A i \in Turned : j <= i
  <2>1. \A i \in s : i \in 1 .. n /\ n - i \in Nat
    OBVIOUS
  <2>2. Turned \in SUBSET Nat /\ Turned # {}
    BY <2>1
  <2> HIDE DEF Turned
  <2> QED
    BY <2>2, LeastNumber
<1>2. PICK l \in s : j = n - l
  OBVIOUS
<1>3. \A i \in s : l >= i
  <2> SUFFICES ASSUME NEW i \in s PROVE l >= i
    OBVIOUS
  <2>1. j <= n - i
    BY <1>1
  <2>2. l \in Nat /\ i \in Nat
    OBVIOUS
  <2> HIDE DEF Turned
  <2> QED
    BY <1>2, <2>1, <2>2
<1> DEFINE c == Max(s)
<1>4. c \in s /\ \A i \in s : c >= i
  BY <1>3 DEF Max
<1>5. IsFiniteSet(s)
  <2>1. IsFiniteSet(1 .. n)
    BY FirstNumbers
  <2> QED
    BY <2>1, FS_Subset
<1> HIDE DEF c
<1>6. Cardinality(s \ {c}) = Cardinality(s) - 1 /\ IsFiniteSet(s \ {c})
  BY <1>4, <1>5, FS_RemoveElement
<1>7. Cardinality(s) \in Nat /\ Cardinality(s \ {c}) \in Nat
  BY <1>5, <1>6, FS_CardinalityType
<1>8. Cardinality(s) # 0
  BY <1>6, <1>7
<1>9. c \in 1 .. n /\ s \ {c} \in SUBSET (1 .. n) /\ \A i \in s : i <= c
  BY <1>4
<1> QED
  BY <1>4, <1>6, <1>7, <1>8, <1>9 DEF c

\* h has what FoldLeft makes of x with the elements of each set of places,
\* when g[<<y, i>>] is what it makes of y with the element at i.
Folds(h, x, g, n) ==
    h = [s \in SUBSET (1 .. n) |->
            IF s = {} THEN x ELSE g[<<h[s \ {Max(s)}], Max(s)>>]]

(* There is such a fold: those of the sets up to a size give those of the  *)
(* next one.                                                               *)
LEMMA FoldsExist ==
    ASSUME NEW X, NEW x \in X, NEW n \in Nat, NEW g \in [X \X (1 .. n) -> X]
    PROVE  \E h \in [SUBSET (1 .. n) -> X] : Folds(h, x, g, n)
<1> DEFINE All == SUBSET (1 .. n)
           Body(h, s) ==
              IF s = {} THEN x ELSE g[<<h[s \ {Max(s)}], Max(s)>>]
           Good(h, k) == \A s \in All :
                            Cardinality(s) <= k => h[s] = Body(h, s)
           T == {k \in 0 .. n : \E h \in [All -> X] : Good(h, k)}
<1>1. ASSUME NEW h \in [All -> X], NEW s \in All
      PROVE  Body(h, s) \in X
  <2>1. CASE s = {}
    BY <2>1
  <2>2. CASE s # {}
    <3>1. Max(s) \in 1 .. n /\ s \ {Max(s)} \in All
      BY <2>2, LastTaken
    <3>2. h[s \ {Max(s)}] \in X
      BY <3>1
    <3> QED
      BY <2>2, <3>1, <3>2
  <2> QED
    BY <2>1, <2>2
<1>2. \A s \in All : Cardinality(s) \in 0 .. n
  <2> SUFFICES ASSUME NEW s \in All PROVE Cardinality(s) \in 0 .. n
    OBVIOUS
  <2>1. IsFiniteSet(1 .. n) /\ Cardinality(1 .. n) = n
    BY FirstNumbers
  <2>2. IsFiniteSet(s) /\ Cardinality(s) <= Cardinality(1 .. n)
    <3> DEFINE S == 1 .. n
    <3>1. s \in SUBSET S /\ IsFiniteSet(S)
      BY <2>1
    <3> HIDE DEF S
    <3>2. IsFiniteSet(s) /\ Cardinality(s) <= Cardinality(S)
      BY <3>1, FS_Subset
    <3> QED
      BY <3>2 DEF S
  <2> QED
    BY <2>1, <2>2, FS_CardinalityType
<1>3. 0 \in T
  <2> DEFINE h == [s \in All |-> x]
  <2>1. h \in [All -> X]
    OBVIOUS
  <2>2. ASSUME NEW s \in All, Cardinality(s) <= 0 PROVE h[s] = Body(h, s)
    <3>1. s # {} => Cardinality(s) \in Nat \ {0}
      BY LastTaken
    <3>2. s = {}
      BY <2>2, <3>1
    <3> QED
      BY <3>2
  <2> HIDE DEF Body, h, All
  <2>3. Good(h, 0)
    BY <2>2
  <2> HIDE DEF Good
  <2> QED
    BY <2>1, <2>3
<1>4. ASSUME NEW k \in 0 .. n - 1, k \in T PROVE k + 1 \in T
  <2>1. PICK h \in [All -> X] : Good(h, k)
    BY <1>4
  <2> DEFINE j == [s \in All |-> Body(h, s)]
  <2>2. j \in [All -> X]
    <3> HIDE DEF Body, All
    <3> QED
      BY <1>1
  <2>3. ASSUME NEW s \in All, Cardinality(s) <= k + 1
        PROVE  j[s] = Body(j, s)
    <3>1. CASE s = {}
      BY <3>1
    <3>2. CASE s # {}
      <4> DEFINE c == Max(s)
      <4>1. /\ s \ {c} \in All
            /\ Cardinality(s \ {c}) = Cardinality(s) - 1
            /\ Cardinality(s) \in Nat \ {0}
        BY <3>2, LastTaken
      <4> HIDE DEF c
      <4>2. Cardinality(s \ {c}) <= k
        BY <2>3, <4>1
      <4>3. h[s \ {c}] = Body(h, s \ {c})
        BY <2>1, <4>1, <4>2
      <4>4. j[s \ {c}] = h[s \ {c}]
        BY <4>1, <4>3
      <4>5. j[s] = g[<<h[s \ {c}], c>>] /\ Body(j, s) = g[<<j[s \ {c}], c>>]
        BY <3>2 DEF c
      <4> QED
        BY <4>4, <4>5
    <3> QED
      BY <3>1, <3>2
  <2>4. k + 1 \in 0 .. n
    OBVIOUS
  <2> HIDE DEF Body, j, All
  <2>5. Good(j, k + 1)
    BY <2>3
  <2> HIDE DEF Good
  <2> QED
    BY <2>2, <2>4, <2>5
<1>5. n \in T
  <2> T \in SUBSET (0 .. n) /\ n \in 0 .. n
    OBVIOUS
  <2> HIDE DEF T
  <2> QED
    BY <1>3, <1>4, UpTo
<1>6. PICK h \in [All -> X] : Good(h, n)
  BY <1>5
<1>7. \A s \in All : h[s] = Body(h, s)
  <2> HIDE DEF Body, All
  <2> QED
    BY <1>2, <1>6
<1>8. h = [s \in All |-> Body(h, s)]
  <2> HIDE DEF Body
  <2> QED
    BY <1>7
<1> QED
  BY <1>8 DEF Folds

(* The sets of the first places, by which a fold goes.                     *)
LEMMA FirstPlaces ==
    ASSUME NEW n \in Nat
    PROVE  /\ 1 .. 0 = {}
           /\ \A i \in 1 .. n : /\ 1 .. i \in SUBSET (1 .. n) /\ 1 .. i # {}
                                /\ Max(1 .. i) = i
                                /\ (1 .. i) \ {Max(1 .. i)} = 1 .. (i - 1)
<1>1. 1 .. 0 = {}
  OBVIOUS
<1>2. ASSUME NEW i \in 1 .. n
      PROVE  /\ 1 .. i \in SUBSET (1 .. n) /\ 1 .. i # {}
             /\ Max(1 .. i) = i
             /\ (1 .. i) \ {Max(1 .. i)} = 1 .. (i - 1)
  <2>1. 1 .. i \in SUBSET (1 .. n) /\ i \in 1 .. i
    OBVIOUS
  <2>2. Max(1 .. i) \in 1 .. i /\ i <= Max(1 .. i)
    BY <2>1, LastTaken
  <2>3. Max(1 .. i) = i
    BY <2>2
  <2>4. (1 .. i) \ {i} = 1 .. (i - 1)
    OBVIOUS
  <2> QED
    BY <2>1, <2>3, <2>4
<1> QED
  BY <1>1, <1>2

-----------------------------------------------------------------------------
(* Sequences without repetition: an element taken out, one put in front.   *)
LEMMA TakenOut ==
    ASSUME NEW S, NEW s \in Seq(S), IsInjective(s), NEW e \in ToSet(s)
    PROVE  /\ RemoveFirst(s, e) \in Seq(S) /\ IsInjective(RemoveFirst(s, e))
           /\ ToSet(RemoveFirst(s, e)) = ToSet(s) \ {e}
           /\ Len(RemoveFirst(s, e)) = Len(s) - 1
<1> DEFINE n == Len(s)
           P == {i \in 1 .. n : s[i] = e}
           p == Min(P)
           r == SubSeq(s, 1, p - 1) \o SubSeq(s, p + 1, n)
<1>1. n \in Nat /\ DOMAIN s = 1 .. n /\ \A i \in 1 .. n : s[i] \in S
  BY LenProperties
<1>2. P # {}
  BY <1>1 DEF ToSet
<1>3. p \in 1 .. n /\ s[p] = e
  <2>1. PICK l \in P : \A i \in P : l <= i
    <3>1. P \in SUBSET Nat
      OBVIOUS
    <3> HIDE DEF P
    <3> QED
      BY <1>2, <3>1, LeastNumber
  <2>2. p \in P
    <3> HIDE DEF P
    <3> QED
      BY <2>1 DEF Min
  <2> QED
    BY <2>2
<1>4. \A i \in 1 .. n : s[i] = e => i = p
  BY <1>1, <1>3 DEF IsInjective
<1>5. RemoveFirst(s, e) = r
  <2>1. \E i \in 1 .. Len(s) : s[i] = e
    BY <1>2
  <2>2. SelectInSeq(s, LAMBDA v : v = e) = p
    BY <1>2 DEF SelectInSeq
  <2> QED
    BY <2>1, <2>2 DEF RemoveFirst, RemoveAt
<1> HIDE DEF p
<1> DEFINE a == SubSeq(s, 1, p - 1)
           b == SubSeq(s, p + 1, n)
<1>6. /\ a \in Seq(S) /\ Len(a) = p - 1
      /\ \A i \in 1 .. p - 1 : a[i] = s[i]
  <2>1. \A i \in 1 .. p - 1 : s[i] \in S
    BY <1>1, <1>3
  <2>2. /\ a \in Seq(S)
        /\ Len(a) = IF 1 <= p - 1 THEN (p - 1) - 1 + 1 ELSE 0
        /\ \A i \in 1 .. (p - 1) - 1 + 1 : a[i] = s[1 + i - 1]
    BY <1>1, <1>3, <2>1, SubSeqProperties
  <2> HIDE DEF a
  <2> QED
    BY <1>1, <1>3, <2>2
<1>7. /\ b \in Seq(S) /\ Len(b) = n - p
      /\ \A i \in 1 .. n - p : b[i] = s[p + i]
  <2>1. \A i \in p + 1 .. n : s[i] \in S
    BY <1>1, <1>3
  <2>2. /\ b \in Seq(S)
        /\ Len(b) = IF p + 1 <= n THEN n - (p + 1) + 1 ELSE 0
        /\ \A i \in 1 .. n - (p + 1) + 1 : b[i] = s[(p + 1) + i - 1]
    BY <1>1, <1>3, <2>1, SubSeqProperties
  <2> HIDE DEF b
  <2>3. n \in Nat /\ p \in 1 .. n
    BY <1>1, <1>3
  <2> HIDE DEF n
  <2>4. Len(b) = n - p
    BY <2>2, <2>3
  <2>5. n - (p + 1) + 1 = n - p /\ \A i \in 1 .. n - p : (p + 1) + i - 1 = p + i
    BY <2>3
  <2> QED
    BY <2>2, <2>4, <2>5
<1>8. r = a \o b
  OBVIOUS
<1> HIDE DEF a, b, r
<1>9. /\ r \in Seq(S) /\ Len(r) = n - 1
      /\ \A i \in 1 .. n - 1 : r[i] = IF i < p THEN s[i] ELSE s[i + 1]
  <2>1. /\ r \in Seq(S) /\ Len(r) = Len(a) + Len(b)
        /\ \A i \in 1 .. Len(a) + Len(b) :
              r[i] = IF i <= Len(a) THEN a[i] ELSE b[i - Len(a)]
    BY <1>6, <1>7, <1>8, ConcatProperties
  <2>2. Len(a) + Len(b) = n - 1
    BY <1>1, <1>3, <1>6, <1>7
  <2>3. ASSUME NEW i \in 1 .. n - 1
        PROVE  r[i] = IF i < p THEN s[i] ELSE s[i + 1]
    <3>1. CASE i < p
      <4>1. i \in 1 .. p - 1 /\ i <= Len(a)
        BY <1>1, <1>3, <1>6, <3>1
      <4> QED
        BY <1>6, <2>1, <2>2, <3>1, <4>1
    <3>2. CASE ~(i < p)
      <4>1. /\ i - Len(a) \in 1 .. n - p /\ ~(i <= Len(a))
            /\ p + (i - Len(a)) = i + 1
        BY <1>1, <1>3, <1>6, <3>2
      <4>2. r[i] = b[i - Len(a)]
        BY <2>1, <2>2, <4>1
      <4>3. b[i - Len(a)] = s[p + (i - Len(a))]
        BY <1>7, <4>1
      <4> QED
        BY <3>2, <4>1, <4>2, <4>3
    <3> QED
      BY <3>1, <3>2
  <2> QED
    BY <2>1, <2>2, <2>3
<1> DEFINE q(i) == IF i < p THEN i ELSE i + 1
<1>10. DOMAIN r = 1 .. n - 1
  BY <1>9, LenProperties
<1>11. \A i \in 1 .. n - 1 : /\ q(i) \in 1 .. n /\ q(i) # p /\ r[i] = s[q(i)]
  BY <1>1, <1>3, <1>9
<1>12. IsInjective(r)
  <2> SUFFICES ASSUME NEW i \in 1 .. n - 1, NEW j \in 1 .. n - 1, r[i] = r[j]
               PROVE  i = j
    BY <1>10 DEF IsInjective
  <2>1. q(i) = q(j)
    BY <1>1, <1>11 DEF IsInjective
  <2> QED
    BY <1>1, <1>3, <2>1
<1>13. ToSet(r) = ToSet(s) \ {e}
  <2>1. ASSUME NEW x \in ToSet(r) PROVE x \in ToSet(s) /\ x # e
    <3>1. PICK i \in 1 .. n - 1 : x = r[i]
      BY <1>10 DEF ToSet
    <3>2. q(i) \in 1 .. n /\ q(i) # p /\ x = s[q(i)]
      BY <1>11, <3>1
    <3> HIDE DEF q
    <3> QED
      BY <1>1, <1>4, <3>2 DEF ToSet
  <2>2. ASSUME NEW x \in ToSet(s), x # e PROVE x \in ToSet(r)
    <3>1. PICK j \in 1 .. n : x = s[j]
      BY <1>1 DEF ToSet
    <3>2. j # p
      BY <1>3, <2>2, <3>1
    <3>3. PICK i \in 1 .. n - 1 : q(i) = j
      <4>1. CASE j < p
        <5>1. j \in 1 .. n - 1 /\ q(j) = j
          BY <1>1, <1>3, <4>1
        <5> QED
          BY <5>1
      <4>2. CASE p < j
        <5>1. j - 1 \in 1 .. n - 1 /\ q(j - 1) = j
          BY <1>1, <1>3, <4>2
        <5> QED
          BY <5>1
      <4> QED
        BY <1>1, <1>3, <3>2, <4>1, <4>2
    <3>4. r[i] = x
      BY <1>11, <3>1, <3>3
    <3> QED
      BY <1>10, <3>4 DEF ToSet
  <2> QED
    BY <2>1, <2>2
<1> QED
  BY <1>5, <1>9, <1>12, <1>13

(* An element that is not there is taken out in vain.                      *)
LEMMA NotThere ==
    ASSUME NEW S, NEW s \in Seq(S), NEW e, e \notin ToSet(s)
    PROVE  RemoveFirst(s, e) = s
<1>1. ~ \E i \in 1 .. Len(s) : s[i] = e
  BY LenProperties DEF ToSet
<1> QED
  BY <1>1 DEF RemoveFirst

(* An element that is not there is put in front of the others.             *)
LEMMA PutInFront ==
    ASSUME NEW S, NEW s \in Seq(S), IsInjective(s), NEW e \in S, e \notin ToSet(s)
    PROVE  /\ <<e>> \o s \in Seq(S) /\ IsInjective(<<e>> \o s)
           /\ ToSet(<<e>> \o s) = ToSet(s) \cup {e}
           /\ Len(<<e>> \o s) = Len(s) + 1
<1> DEFINE r == <<e>> \o s
<1>1. Len(s) \in Nat /\ DOMAIN s = 1 .. Len(s)
  BY LenProperties
<1>2. /\ <<e>> \in Seq(S) /\ Len(<<e>>) = 1 /\ <<e>>[1] = e
  OBVIOUS
<1>3. /\ r \in Seq(S) /\ Len(r) = Len(s) + 1
      /\ \A i \in 1 .. Len(s) + 1 : r[i] = IF i = 1 THEN e ELSE s[i - 1]
  <2>1. /\ r \in Seq(S) /\ Len(r) = 1 + Len(s)
        /\ \A i \in 1 .. 1 + Len(s) :
              r[i] = IF i <= 1 THEN <<e>>[i] ELSE s[i - 1]
    BY <1>2, ConcatProperties
  <2> HIDE DEF r
  <2>2. \A i \in 1 .. Len(s) + 1 : i \in 1 .. 1 + Len(s) /\ (i <= 1 <=> i = 1)
    BY <1>1
  <2> QED
    BY <1>1, <1>2, <2>1, <2>2
<1>4. DOMAIN r = 1 .. Len(s) + 1
  BY <1>3, LenProperties
<1> HIDE DEF r
<1>5. \A j \in 1 .. Len(s) : j + 1 \in DOMAIN r /\ r[j + 1] = s[j]
  BY <1>1, <1>3, <1>4
<1>6. \A i \in DOMAIN r : i = 1 \/ (i - 1 \in 1 .. Len(s) /\ r[i] = s[i - 1])
  BY <1>1, <1>3, <1>4
<1>7. r[1] = e /\ 1 \in DOMAIN r
  BY <1>1, <1>3, <1>4
<1>8. ToSet(r) = ToSet(s) \cup {e}
  <2>1. ASSUME NEW x \in ToSet(r) PROVE x \in ToSet(s) \cup {e}
    BY <1>1, <1>6, <1>7 DEF ToSet
  <2>2. ASSUME NEW x \in ToSet(s) PROVE x \in ToSet(r)
    BY <1>1, <1>5 DEF ToSet
  <2>3. e \in ToSet(r)
    BY <1>7 DEF ToSet
  <2> QED
    BY <2>1, <2>2, <2>3
<1>9. IsInjective(r)
  <2> SUFFICES ASSUME NEW i \in DOMAIN r, NEW j \in DOMAIN r, r[i] = r[j]
               PROVE  i = j
    BY DEF IsInjective
  <2>1. \A k \in 1 .. Len(s) : s[k] # e
    BY <1>1 DEF ToSet
  <2>2. CASE i = 1 \/ j = 1
    BY <1>6, <1>7, <2>1, <2>2
  <2>3. CASE i # 1 /\ j # 1
    <3>1. /\ i - 1 \in 1 .. Len(s) /\ j - 1 \in 1 .. Len(s)
          /\ s[i - 1] = s[j - 1]
      BY <1>6, <2>3
    <3>2. i - 1 = j - 1
      BY <1>1, <3>1 DEF IsInjective
    <3>3. i \in Nat /\ j \in Nat
      BY <1>1, <1>4
    <3> QED
      BY <3>2, <3>3
  <2> QED
    BY <2>2, <2>3
<1> QED
  BY <1>3, <1>8, <1>9 DEF r

(* As many elements as places, and the last of them.                       *)
LEMMA WithoutRepetition ==
    ASSUME NEW S, NEW s \in Seq(S), IsInjective(s)
    PROVE  /\ IsFiniteSet(ToSet(s)) /\ Cardinality(ToSet(s)) = Len(s)
           /\ ToSet(s) \subseteq S /\ Len(s) \in Nat
           /\ s # <<>> => Last(s) \in ToSet(s)
<1>1. Len(s) \in Nat /\ s \in [1 .. Len(s) -> S]
  BY LenProperties
<1>2. s \in Bijection(1 .. Len(s), ToSet(s))
  <2>1. s \in [1 .. Len(s) -> ToSet(s)]
    BY <1>1 DEF ToSet
  <2>2. \A t \in ToSet(s) : \E i \in 1 .. Len(s) : s[i] = t
    BY <1>1 DEF ToSet
  <2> QED
    BY <2>1, <2>2 DEF Bijection, Injection, Surjection
<1>3. ExistsBijection(1 .. Len(s), ToSet(s))
  BY <1>2 DEF ExistsBijection
<1>4. IsFiniteSet(1 .. Len(s)) /\ Cardinality(1 .. Len(s)) = Len(s)
  BY <1>1, FirstNumbers
<1>5. IsFiniteSet(ToSet(s)) /\ Cardinality(ToSet(s)) = Len(s)
  BY <1>3, <1>4, FS_Bijection
<1>6. ToSet(s) \subseteq S
  BY <1>1 DEF ToSet
<1>7. s # <<>> => Last(s) \in ToSet(s)
  <2> SUFFICES ASSUME s # <<>> PROVE Last(s) \in ToSet(s)
    OBVIOUS
  <2>1. Len(s) # 0
    BY EmptySeq
  <2>2. Len(s) \in DOMAIN s
    BY <1>1, <2>1
  <2> QED
    BY <2>2 DEF Last, ToSet
<1> QED
  BY <1>1, <1>5, <1>6, <1>7

-----------------------------------------------------------------------------
(* The bytes of blocks and of the ids in a trailer.                        *)

LengthSum(S) == Sum([b \in S |-> Length[b]], S)
BlockBytes(S) == MapThenSumSet(LAMBDA b : Length[b], S)

(* Sets of blocks are finite, and their lengths are numbers.               *)
LEMMA BlockSets ==
    ASSUME NEW S \in SUBSET Block
    PROVE  /\ IsFiniteSet(S) /\ [b \in S |-> Length[b]] \in [S -> Nat]
           /\ \A b \in S : Length[b] \in Nat \ {0}
           /\ LengthSum(S) \in Nat /\ LengthSum({}) = 0
<1>1. \A b \in S : Length[b] \in Nat \ {0}
  BY ToolAssumption
<1>2. IsFiniteSet(S)
  BY ToolAssumption, FS_Subset
<1>3. [b \in S |-> Length[b]] \in [S -> Nat]
  BY <1>1
<1>4. LengthSum(S) \in Nat
  BY <1>2, <1>3, SumFacts DEF LengthSum
<1>5. LengthSum({}) = 0
  <2>1. [b \in {} |-> Length[b]] \in [{} -> Nat]
    OBVIOUS
  <2> QED
    BY <2>1, FS_EmptySet, SumFacts DEF LengthSum
<1> QED
  BY <1>1, <1>2, <1>3, <1>4, <1>5

(* The model's sum of the lengths of blocks is the sum of a function.      *)
LEMMA BlockBytesAreSum ==
    ASSUME NEW S \in SUBSET Block
    PROVE  BlockBytes(S) = LengthSum(S)
<1> DEFINE g == [b \in S |-> Length[b]]
           P(i) == i = [s \in SUBSET S |->
                          IF s = {} THEN 0
                          ELSE Length[CHOOSE x \in s : TRUE]
                               + i[s \ {CHOOSE x \in s : TRUE}]]
           j == CHOOSE i : P(i)
           h == CHOOSE i : Sums(i, g, S)
<1>1. BlockBytes(S) = j[S]
  BY DEF BlockBytes, MapThenSumSet, MapThenFoldSet
<1>2. IsFiniteSet(S) /\ g \in [S -> Nat]
  BY BlockSets
<1>3. ASSUME NEW i PROVE P(i) <=> Sums(i, g, S)
  <2>1. \A s \in SUBSET S : s # {} => First(s) \in S
    BY DEF First
  <2>2. \A s \in SUBSET S : s # {} => g[First(s)] = Length[First(s)]
    BY <2>1
  <2> QED
    BY <2>2 DEF Sums, First
<1>4. Sums(h, g, S)
  BY <1>2, SumsExist
<1>5. P(j)
  <2>1. P(h)
    BY <1>3, <1>4
  <2> HIDE DEF P, h
  <2> QED
    BY <2>1
<1>6. Sums(j, g, S)
  BY <1>3, <1>5
<1>7. LengthSum(S) = h[S]
  BY DEF LengthSum, Sum
<1> HIDE DEF j, h, g
<1>8. j[S] = h[S]
  BY <1>2, <1>4, <1>6, SumsAgree
<1> QED
  BY <1>1, <1>7, <1>8

(* One block more.                                                         *)
LEMMA OneBlockMore ==
    ASSUME NEW S \in SUBSET Block, NEW b \in S, NEW T, T = S \ {b}
    PROVE  LengthSum(S) = Length[b] + LengthSum(T)
<1> DEFINE g == [c \in S |-> Length[c]]
           k == [c \in T |-> Length[c]]
<1>1. T \in SUBSET Block
  OBVIOUS
<1>2. IsFiniteSet(S) /\ g \in [S -> Nat] /\ k \in [T -> Nat]
  BY <1>1, BlockSets
<1>3. (\A c \in T : k[c] = g[c]) /\ g[b] = Length[b]
  OBVIOUS
<1>4. LengthSum(S) = Sum(g, S) /\ LengthSum(T) = Sum(k, T)
  BY DEF LengthSum
<1> HIDE DEF g, k
<1>5. Sum(g, S) = g[b] + Sum(k, T)
  BY <1>2, <1>3, SumTake
<1> QED
  BY <1>3, <1>4, <1>5

(* More blocks are no shorter.                                             *)
LEMMA MoreBlocks ==
    ASSUME NEW T \in SUBSET Block, NEW S \in SUBSET T
    PROVE  LengthSum(S) <= LengthSum(T)
<1> DEFINE Bad == {s \in SUBSET T : ~(LengthSum(S) <= LengthSum(S \cup s))}
<1>0. S \cup T = T /\ T \in SUBSET T
  OBVIOUS
<1> SUFFICES ASSUME Bad # {} PROVE FALSE
  BY <1>0
<1>1. PICK s \in Bad : \A t \in SUBSET T :
          Cardinality(t) < Cardinality(s) => t \notin Bad
  <2>1. Bad \in SUBSET SUBSET T
    OBVIOUS
  <2> HIDE DEF Bad
  <2>2. IsFiniteSet(T)
    BY BlockSets
  <2> QED
    BY <2>1, <2>2, SmallestSubset
<1>2. s \in SUBSET T /\ ~(LengthSum(S) <= LengthSum(S \cup s))
  OBVIOUS
<1>3. S \in SUBSET Block /\ LengthSum(S) \in Nat
  BY BlockSets
<1>4. s # {}
  <2> SUFFICES ASSUME s = {} PROVE FALSE
    OBVIOUS
  <2>1. S \cup s = S
    OBVIOUS
  <2> QED
    BY <1>2, <1>3, <2>1
<1>5. PICK b : b \in s
  BY <1>4
<1>6. s \ {b} \in SUBSET T /\ Cardinality(s \ {b}) < Cardinality(s)
  <2>1. IsFiniteSet(s)
    BY <1>2, BlockSets
  <2>2. Cardinality(s \ {b}) = Cardinality(s) - 1 /\ Cardinality(s) \in Nat
    BY <1>5, <2>1, FS_RemoveElement, FS_CardinalityType
  <2> QED
    BY <1>2, <2>2
<1>7. LengthSum(S) <= LengthSum(S \cup (s \ {b}))
  BY <1>1, <1>6
<1> DEFINE U == S \cup s
<1>8. CASE b \in S
  <2>1. S \cup (s \ {b}) = S \cup s
    BY <1>5, <1>8
  <2> QED
    BY <1>2, <1>7, <2>1
<1>9. CASE b \notin S
  <2>1. U \in SUBSET Block /\ b \in U /\ S \cup (s \ {b}) = U \ {b}
    BY <1>2, <1>5, <1>9
  <2> HIDE DEF U
  <2>2. LengthSum(U) = Length[b] + LengthSum(U \ {b})
    BY <2>1, OneBlockMore
  <2>3. LengthSum(U) \in Nat /\ LengthSum(U \ {b}) \in Nat /\ Length[b] \in Nat
    BY <2>1, BlockSets
  <2>4. ~(LengthSum(S) <= LengthSum(U)) /\ LengthSum(S) <= LengthSum(U \ {b})
    BY <1>2, <1>7, <2>1 DEF U
  <2> QED
    BY <1>3, <2>2, <2>3, <2>4
<1> QED
  BY <1>8, <1>9

(* A trailer with an id in it has bytes.                                   *)
LEMMA MapBytesFacts ==
    ASSUME NEW S \in SUBSET (Id \X Block)
    PROVE  /\ MapBytes(S) \in Nat
           /\ S # {} => MapBytes(S) # 0
<1> DEFINE g == [p \in S |-> EntryBytes + Length[p[2]]]
           P(i) == i = [s \in SUBSET S |->
                          IF s = {} THEN 0
                          ELSE (EntryBytes + Length[(CHOOSE x \in s : TRUE)[2]])
                               + i[s \ {CHOOSE x \in s : TRUE}]]
           j == CHOOSE i : P(i)
           h == CHOOSE i : Sums(i, g, S)
<1>1. MapBytes(S) = j[S]
  BY DEF MapBytes, MapThenSumSet, MapThenFoldSet
<1>2. IsFiniteSet(S)
  <2>1. IsFiniteSet(Id)
    BY ToolAssumption, FirstNumbers DEF Id
  <2>2. IsFiniteSet(Id \X Block)
    BY <2>1, ToolAssumption, FS_Product
  <2> QED
    BY <2>2, FS_Subset
<1>3. ASSUME NEW p \in S PROVE g[p] \in Nat \ {0}
  <2>1. Length[p[2]] \in Nat
    BY ToolAssumption
  <2> QED
    BY <2>1 DEF EntryBytes
<1>4. g \in [S -> Nat]
  <2>1. \A p \in S : EntryBytes + Length[p[2]] \in Nat
    BY <1>3
  <2> QED
    BY <2>1
<1>5. ASSUME NEW i PROVE P(i) <=> Sums(i, g, S)
  <2>1. \A s \in SUBSET S : s # {} => First(s) \in S
    BY DEF First
  <2>2. \A s \in SUBSET S : s # {} =>
           g[First(s)] = EntryBytes + Length[First(s)[2]]
    BY <2>1
  <2> QED
    BY <2>2 DEF Sums, First
<1>6. Sums(h, g, S)
  BY <1>2, <1>4, SumsExist
<1>7. P(j)
  <2>1. P(h)
    BY <1>5, <1>6
  <2> HIDE DEF P, h
  <2> QED
    BY <2>1
<1>8. Sums(j, g, S)
  BY <1>5, <1>7
<1>9. Sum(g, S) = h[S]
  BY DEF Sum
<1> HIDE DEF j, h
<1>10. j[S] = h[S]
  BY <1>2, <1>4, <1>6, <1>8, SumsAgree
<1>11. Sum(g, S) \in Nat
  BY <1>2, <1>4, SumFacts
<1>12. ASSUME S # {} PROVE Sum(g, S) # 0
  <2>1. PICK p \in S : TRUE
    BY <1>12
  <2> DEFINE T == S \ {p}
             k == [x \in T |-> g[x]]
  <2>2. IsFiniteSet(T) /\ k \in [T -> Nat]
    BY <1>2, <1>4, FS_Subset
  <2>3. Sum(g, S) = g[p] + Sum(k, T)
    <3>1. \A x \in T : k[x] = g[x]
      OBVIOUS
    <3>2. T = S \ {p}
      OBVIOUS
    <3> HIDE DEF k, T, g
    <3> QED
      BY <1>2, <1>4, <2>2, <3>1, <3>2, SumTake
  <2>4. Sum(k, T) \in Nat
    BY <2>2, SumFacts
  <2> HIDE DEF k, g, T
  <2>5. g[p] \in Nat \ {0}
    BY <1>3
  <2> QED
    BY <2>3, <2>4, <2>5
<1> QED
  BY <1>1, <1>9, <1>10, <1>11, <1>12

-----------------------------------------------------------------------------
(* What the list, the blocks and the counters of a tool memory say of each *)
(* other, and that the operations keep it so.                              *)

\* The values of the memory's fields.
Memory == [lru : Seq(Id), block : [Id -> Block \cup {NoBlock}],
           refs : [Block -> Nat], bytes : Nat]

\* The ids of a block, and the blocks of any id.
IdsOf(blocks, b) == {i \in Id : blocks[i] = b}
Used(blocks) == {b \in Block : IdsOf(blocks, b) # {}}

\* The parts of a memory that fit together.
Fits(lru, blocks, refs, bytes) ==
    /\ IsInjective(lru)
    /\ \A i \in Id : i \in ToSet(lru) <=> blocks[i] # NoBlock
    /\ \A b \in Block : refs[b] = Cardinality(IdsOf(blocks, b))
    /\ bytes = Len(lru) + LengthSum(Used(blocks))

\* The memories whose counters say what they hold.
Sound == {m \in Memory : Fits(m.lru, m.block, m.refs, m.bytes)}

(* There are finitely many ids.                                            *)
LEMMA IdsFinite == IsFiniteSet(Id) /\ Cardinality(Id) = MaxIds
<1>1. MaxIds \in Nat /\ Id = 1 .. MaxIds
  BY ToolAssumption DEF Id
<1> QED
  BY <1>1, FirstNumbers

(* The blocks of the ids are blocks, and finitely many.                    *)
LEMMA UsedIsSet ==
    ASSUME NEW blocks
    PROVE  /\ Used(blocks) \in SUBSET Block /\ LengthSum(Used(blocks)) \in Nat
           /\ \A b : /\ IsFiniteSet(IdsOf(blocks, b))
                     /\ Cardinality(IdsOf(blocks, b)) \in Nat
                     /\ Cardinality(IdsOf(blocks, b)) = 0
                          <=> IdsOf(blocks, b) = {}
<1>1. Used(blocks) \in SUBSET Block
  BY DEF Used
<1>2. LengthSum(Used(blocks)) \in Nat
  BY <1>1, BlockSets
<1>3. ASSUME NEW b
      PROVE  /\ IsFiniteSet(IdsOf(blocks, b))
             /\ Cardinality(IdsOf(blocks, b)) \in Nat
             /\ Cardinality(IdsOf(blocks, b)) = 0 <=> IdsOf(blocks, b) = {}
  <2>1. IdsOf(blocks, b) \in SUBSET Id
    BY DEF IdsOf
  <2>2. IsFiniteSet(IdsOf(blocks, b))
    BY <2>1, IdsFinite, FS_Subset
  <2> QED
    BY <2>2, FS_CardinalityType, FS_EmptySet
<1> QED
  BY <1>1, <1>2, <1>3

(* An id gives its block away.                                             *)
LEMMA BlockLost ==
    ASSUME NEW blocks \in [Id -> Block \cup {NoBlock}],
           NEW after \in [Id -> Block \cup {NoBlock}],
           NEW i \in Id, NEW b \in Block,
           blocks[i] = b, after[i] = NoBlock,
           \A j \in Id \ {i} : after[j] = blocks[j]
    PROVE  /\ \A c \in Block :
                 IdsOf(after, c) = IF c = b THEN IdsOf(blocks, b) \ {i}
                                            ELSE IdsOf(blocks, c)
           /\ Cardinality(IdsOf(after, b)) = Cardinality(IdsOf(blocks, b)) - 1
           /\ LengthSum(Used(blocks)) =
                 LengthSum(Used(after))
                   + IF Cardinality(IdsOf(blocks, b)) = 1 THEN Length[b] ELSE 0
<1>1. NoBlock \notin Block
  BY ToolAssumption
<1>2. \A c \in Block : IdsOf(after, c) = IF c = b THEN IdsOf(blocks, b) \ {i}
                                                  ELSE IdsOf(blocks, c)
  BY <1>1 DEF IdsOf
<1>3. i \in IdsOf(blocks, b)
  BY DEF IdsOf
<1>4. /\ Cardinality(IdsOf(after, b)) = Cardinality(IdsOf(blocks, b)) - 1
      /\ Cardinality(IdsOf(after, b)) \in Nat
      /\ Cardinality(IdsOf(blocks, b)) \in Nat
      /\ Cardinality(IdsOf(after, b)) = 0 <=> IdsOf(after, b) = {}
  <2>1. IdsOf(after, b) = IdsOf(blocks, b) \ {i}
    BY <1>2
  <2>2. IsFiniteSet(IdsOf(blocks, b))
    BY UsedIsSet
  <2>3. Cardinality(IdsOf(after, b)) = Cardinality(IdsOf(blocks, b)) - 1
    BY <1>3, <2>1, <2>2, FS_RemoveElement
  <2> QED
    BY <2>3, UsedIsSet
<1>5. CASE Cardinality(IdsOf(blocks, b)) = 1
  <2>1. IdsOf(after, b) = {}
    BY <1>4, <1>5
  <2>2. b \in Used(blocks) /\ Used(after) = Used(blocks) \ {b}
    BY <1>2, <1>3, <2>1 DEF Used
  <2>3. LengthSum(Used(blocks)) = Length[b] + LengthSum(Used(after))
    BY <2>2, UsedIsSet, OneBlockMore
  <2>4. Length[b] \in Nat /\ LengthSum(Used(after)) \in Nat
    BY ToolAssumption, UsedIsSet
  <2> QED
    BY <1>2, <1>4, <1>5, <2>3, <2>4
<1>6. CASE Cardinality(IdsOf(blocks, b)) # 1
  <2>1. IdsOf(after, b) # {}
    BY <1>4, <1>6
  <2>2. Used(after) = Used(blocks)
    BY <1>2, <1>3, <2>1 DEF Used
  <2> QED
    BY <1>2, <1>4, <1>6, <2>2, UsedIsSet
<1> QED
  BY <1>5, <1>6

(* An id without a block gets one.                                         *)
LEMMA BlockGained ==
    ASSUME NEW blocks \in [Id -> Block \cup {NoBlock}],
           NEW after \in [Id -> Block \cup {NoBlock}],
           NEW i \in Id, NEW b \in Block,
           blocks[i] = NoBlock, after[i] = b,
           \A j \in Id \ {i} : after[j] = blocks[j]
    PROVE  /\ \A c \in Block \ {b} : IdsOf(after, c) = IdsOf(blocks, c)
           /\ Cardinality(IdsOf(after, b)) = Cardinality(IdsOf(blocks, b)) + 1
           /\ LengthSum(Used(after)) =
                 LengthSum(Used(blocks))
                   + IF Cardinality(IdsOf(blocks, b)) = 0 THEN Length[b] ELSE 0
<1>4. /\ \A c \in Block :
            IdsOf(blocks, c) = IF c = b THEN IdsOf(after, b) \ {i}
                                        ELSE IdsOf(after, c)
      /\ Cardinality(IdsOf(blocks, b)) = Cardinality(IdsOf(after, b)) - 1
      /\ LengthSum(Used(after)) =
            LengthSum(Used(blocks))
              + IF Cardinality(IdsOf(after, b)) = 1 THEN Length[b] ELSE 0
  <2>1. \A j \in Id \ {i} : blocks[j] = after[j]
    OBVIOUS
  <2> QED
    BY <2>1, BlockLost
<1>5. Cardinality(IdsOf(blocks, b)) \in Nat /\ Cardinality(IdsOf(after, b)) \in Nat
  BY UsedIsSet
<1> QED
  BY <1>4, <1>5

(* Fields of a sound memory.                                               *)
LEMMA SoundFields ==
    ASSUME NEW m \in Sound
    PROVE  /\ m.lru \in Seq(Id) /\ m.block \in [Id -> Block \cup {NoBlock}]
           /\ m.refs \in [Block -> Nat] /\ m.bytes \in Nat /\ m \in Memory
           /\ Fits(m.lru, m.block, m.refs, m.bytes)
           /\ Known(m) = ToSet(m.lru) /\ Known(m) \subseteq Id
           /\ IsInjective(m.lru)
           /\ \A i \in Known(m) : m.block[i] \in Block
           /\ \A i \in Id : i \in Known(m) <=> m.block[i] # NoBlock
<1>1. /\ m.lru \in Seq(Id) /\ m.block \in [Id -> Block \cup {NoBlock}]
      /\ m.refs \in [Block -> Nat] /\ m.bytes \in Nat /\ m \in Memory
      /\ Fits(m.lru, m.block, m.refs, m.bytes)
  BY DEF Sound, Memory
<1>2. Known(m) = ToSet(m.lru)
  BY DEF Known
<1>3. IsInjective(m.lru) /\ \A i \in Id : i \in Known(m) <=> m.block[i] # NoBlock
  BY <1>1, <1>2 DEF Fits
<1>4. Known(m) \subseteq Id
  BY <1>1, <1>2, <1>3, WithoutRepetition
<1>5. \A i \in Known(m) : m.block[i] \in Block
  BY <1>1, <1>3, <1>4
<1> QED
  BY <1>1, <1>2, <1>3, <1>4, <1>5

(* A memory that is given by its fields.                                   *)
LEMMA SoundMade ==
    ASSUME NEW l \in Seq(Id), NEW k \in [Id -> Block \cup {NoBlock}],
           NEW r \in [Block -> Nat], NEW n \in Nat, Fits(l, k, r, n)
    PROVE  [lru |-> l, block |-> k, refs |-> r, bytes |-> n] \in Sound
BY DEF Sound, Memory

(* The empty memory.                                                       *)
LEMMA EmptySound == EmptyMemory \in Sound /\ Known(EmptyMemory) = {}
<1> DEFINE l == <<>>
           k == [i \in Id |-> NoBlock]
           r == [b \in Block |-> 0]
<1>1. /\ l \in Seq(Id) /\ k \in [Id -> Block \cup {NoBlock}]
      /\ r \in [Block -> Nat] /\ 0 \in Nat
  OBVIOUS
<1>2. ToSet(l) = {} /\ IsInjective(l) /\ Len(l) = 0
  BY DEF ToSet, IsInjective
<1>3. NoBlock \notin Block
  BY ToolAssumption
<1>4. \A b \in Block : IdsOf(k, b) = {}
  BY <1>3 DEF IdsOf
<1>5. Used(k) = {}
  BY <1>4 DEF Used
<1>6. \A b \in Block : r[b] = Cardinality(IdsOf(k, b))
  BY <1>4, FS_EmptySet
<1>7. LengthSum({}) = 0
  <2> {} \in SUBSET Block
    OBVIOUS
  <2> QED
    BY BlockSets
<1>8. \A i \in Id : k[i] = NoBlock
  OBVIOUS
<1>9. EmptyMemory = [lru |-> l, block |-> k, refs |-> r, bytes |-> 0]
  BY DEF EmptyMemory
<1>10. EmptyMemory.lru = l
  BY <1>9
<1> HIDE DEF l, k, r
<1>11. Fits(l, k, r, 0)
  BY <1>2, <1>5, <1>6, <1>7, <1>8 DEF Fits
<1>12. EmptyMemory \in Sound
  BY <1>1, <1>9, <1>11, SoundMade
<1> QED
  BY <1>2, <1>10, <1>12 DEF Known

(* An id is dropped.                                                       *)
LEMMA DropSound ==
    ASSUME NEW m \in Sound, NEW i \in Known(m)
    PROVE  /\ Drop(m, i) \in Sound /\ Known(Drop(m, i)) = Known(m) \ {i}
           /\ Drop(m, i).block = [m.block EXCEPT ![i] = NoBlock]
           /\ Len(Drop(m, i).lru) = Len(m.lru) - 1
<1> DEFINE b == m.block[i]
           l == RemoveFirst(m.lru, i)
           k == [m.block EXCEPT ![i] = NoBlock]
           r == [m.refs EXCEPT ![b] = @ - 1]
           n == IF m.refs[b] = 1 THEN m.bytes - EntryBytes - Length[b]
                ELSE m.bytes - EntryBytes
<1>1. /\ m.lru \in Seq(Id) /\ m.block \in [Id -> Block \cup {NoBlock}]
      /\ m.refs \in [Block -> Nat] /\ m.bytes \in Nat
      /\ Fits(m.lru, m.block, m.refs, m.bytes)
      /\ Known(m) = ToSet(m.lru) /\ IsInjective(m.lru)
      /\ i \in Id /\ b \in Block
  BY SoundFields
<1>2. Drop(m, i) = [lru |-> l, block |-> k, refs |-> r, bytes |-> n]
  <2>1. m \in Memory
    BY SoundFields
  <2>2. m = [lru |-> m.lru, block |-> m.block, refs |-> m.refs,
             bytes |-> m.bytes]
    BY <2>1 DEF Memory
  \* The fields one after the other.
  <2> DEFINE m1 == [m EXCEPT !.lru = l]
             m2 == [m1 EXCEPT !.block[i] = NoBlock]
             m3 == [m2 EXCEPT !.bytes = m.bytes - EntryBytes]
             m4 == [m3 EXCEPT !.refs[b] = m.refs[b] - 1]
             m5 == [m4 EXCEPT !.bytes = n]
  <2>3. Drop(m, i) = Release(m3, b)
    BY DEF Drop
  <2>4. m1 = [lru |-> l, block |-> m.block, refs |-> m.refs,
              bytes |-> m.bytes]
    BY <2>2
  <2> HIDE DEF m1
  <2>5. m2 = [lru |-> l, block |-> k, refs |-> m.refs, bytes |-> m.bytes]
    BY <2>4
  <2> HIDE DEF m2
  <2>6. m3 = [lru |-> l, block |-> k, refs |-> m.refs,
              bytes |-> m.bytes - EntryBytes]
    BY <2>5
  <2> HIDE DEF m3
  <2>7. /\ m3.refs = m.refs /\ m3.bytes = m.bytes - EntryBytes
        /\ n = IF m3.refs[b] = 1 THEN m3.bytes - Length[b] ELSE m3.bytes
    BY <2>6
  <2>8. Release(m3, b) = m5
    <3>1. m4 = [m3 EXCEPT !.refs[b] = m3.refs[b] - 1]
      BY <2>7
    <3> HIDE DEF n, b, m4
    <3> QED
      BY <2>7, <3>1 DEF Release
  <2>9. m4 = [lru |-> l, block |-> k, refs |-> r,
              bytes |-> m.bytes - EntryBytes]
    BY <2>6
  <2> HIDE DEF m4
  <2>10. m5 = [lru |-> l, block |-> k, refs |-> r, bytes |-> n]
    <3> HIDE DEF l, k, r, n
    <3> QED
      BY <2>9
  <2> QED
    BY <2>3, <2>8, <2>10
<1>3. /\ l \in Seq(Id) /\ IsInjective(l)
      /\ ToSet(l) = ToSet(m.lru) \ {i} /\ Len(l) = Len(m.lru) - 1
  BY <1>1, TakenOut
<1>4. /\ \A c \in Block :
            IdsOf(k, c) = IF c = b THEN IdsOf(m.block, b) \ {i}
                                   ELSE IdsOf(m.block, c)
      /\ Cardinality(IdsOf(k, b)) = Cardinality(IdsOf(m.block, b)) - 1
      /\ LengthSum(Used(m.block)) =
            LengthSum(Used(k))
              + IF Cardinality(IdsOf(m.block, b)) = 1 THEN Length[b] ELSE 0
  <2>1. /\ m.block[i] = b /\ k[i] = NoBlock
        /\ k \in [Id -> Block \cup {NoBlock}]
        /\ \A j \in Id \ {i} : k[j] = m.block[j]
    BY <1>1
  <2> HIDE DEF k, b
  <2> QED
    BY <1>1, <2>1, BlockLost
<1>5. /\ m.refs[b] = Cardinality(IdsOf(m.block, b))
      /\ m.bytes = Len(m.lru) + LengthSum(Used(m.block))
      /\ \A j \in Id : j \in ToSet(m.lru) <=> m.block[j] # NoBlock
      /\ \A c \in Block : m.refs[c] = Cardinality(IdsOf(m.block, c))
  BY <1>1 DEF Fits
<1>6. k \in [Id -> Block \cup {NoBlock}]
  BY <1>1
<1>7. r \in [Block -> Nat] /\ \A c \in Block : r[c] = Cardinality(IdsOf(k, c))
  <2>1. \A c \in Block : r[c] = IF c = b THEN m.refs[b] - 1 ELSE m.refs[c]
    BY <1>1
  <2>2. \A c \in Block : Cardinality(IdsOf(k, c)) \in Nat
    BY UsedIsSet
  <2>3. \A c \in Block : r[c] = Cardinality(IdsOf(k, c))
    <3> HIDE DEF k, r, b
    <3> QED
      BY <1>4, <1>5, <2>1
  <2> QED
    BY <1>1, <2>2, <2>3
<1>8. n = Len(l) + LengthSum(Used(k)) /\ n \in Nat
  <2>1. /\ LengthSum(Used(k)) \in Nat /\ LengthSum(Used(m.block)) \in Nat
        /\ Length[b] \in Nat /\ Len(l) \in Nat /\ Len(m.lru) \in Nat
    <3>1. Len(l) \in Nat /\ Len(m.lru) \in Nat
      BY <1>1, <1>3, LenProperties
    <3> QED
      BY <1>1, <3>1, UsedIsSet, ToolAssumption
  <2> HIDE DEF l, k, b
  <2>0. m.bytes = Len(m.lru) + LengthSum(Used(m.block)) /\ m.bytes \in Nat
    BY <1>1, <1>5
  <2>2. CASE m.refs[b] = 1
    <3>1. n = m.bytes - 1 - Length[b]
      BY <2>2 DEF EntryBytes
    <3>2. LengthSum(Used(m.block)) = LengthSum(Used(k)) + Length[b]
      BY <1>4, <1>5, <2>2
    <3> DEFINE u == LengthSum(Used(m.block))
               v == LengthSum(Used(k))
               w == Length[b]
               p == Len(m.lru)
               q == Len(l)
               x == m.bytes
    <3>3. /\ u \in Nat /\ v \in Nat /\ w \in Nat /\ p \in Nat /\ q \in Nat
          /\ x \in Nat /\ n = x - 1 - w /\ u = v + w /\ x = p + u
          /\ q = p - 1
      BY <1>3, <2>0, <2>1, <3>1, <3>2
    <3> HIDE DEF n, u, v, w, p, q, x
    <3>4. n = q + v /\ n \in Nat
      BY <3>3
    <3> QED
      BY <3>4 DEF v, q
  <2>3. CASE m.refs[b] # 1
    <3>1. n = m.bytes - 1
      BY <2>3 DEF EntryBytes
    <3>2. LengthSum(Used(m.block)) = LengthSum(Used(k))
      BY <1>4, <1>5, <2>1, <2>3
    <3> HIDE DEF n
    <3> QED
      BY <1>3, <1>5, <2>1, <3>1, <3>2
  <2> QED
    BY <2>2, <2>3
<1>9. \A j \in Id : j \in ToSet(l) <=> k[j] # NoBlock
  <2>1. \A j \in Id : k[j] = IF j = i THEN NoBlock ELSE m.block[j]
    BY <1>1
  <2> HIDE DEF k, l
  <2> QED
    BY <1>3, <1>5, <2>1
<1> HIDE DEF l, k, r, n
<1>10. Fits(l, k, r, n)
  BY <1>3, <1>7, <1>8, <1>9 DEF Fits
<1>11. Drop(m, i) \in Sound
  BY <1>2, <1>3, <1>6, <1>7, <1>8, <1>10, SoundMade
<1>12. Drop(m, i).lru = l /\ Drop(m, i).block = k
  BY <1>2
<1> QED
  BY <1>1, <1>3, <1>11, <1>12 DEF Known, k

(* An id that is known is used.                                            *)
LEMMA TouchSound ==
    ASSUME NEW m \in Sound, NEW i \in Known(m)
    PROVE  /\ Touch(m, i) \in Sound /\ Known(Touch(m, i)) = Known(m)
           /\ Touch(m, i).block = m.block
           /\ OverLimit(Touch(m, i)) <=> OverLimit(m)
<1> DEFINE l == RemoveFirst(m.lru, i)
           f == <<i>> \o l
<1>1. /\ m.lru \in Seq(Id) /\ m.block \in [Id -> Block \cup {NoBlock}]
      /\ m.refs \in [Block -> Nat] /\ m.bytes \in Nat
      /\ Fits(m.lru, m.block, m.refs, m.bytes)
      /\ Known(m) = ToSet(m.lru) /\ IsInjective(m.lru) /\ i \in Id
  BY SoundFields
<1>2. /\ l \in Seq(Id) /\ IsInjective(l)
      /\ ToSet(l) = ToSet(m.lru) \ {i} /\ Len(l) = Len(m.lru) - 1
  BY <1>1, TakenOut
<1>3. /\ f \in Seq(Id) /\ IsInjective(f)
      /\ ToSet(f) = ToSet(l) \cup {i} /\ Len(f) = Len(l) + 1
  <2>1. i \notin ToSet(l)
    BY <1>2
  <2> HIDE DEF l
  <2> QED
    BY <1>1, <1>2, <2>1, PutInFront
<1>4. Touch(m, i) = [lru |-> f, block |-> m.block, refs |-> m.refs,
                     bytes |-> m.bytes]
  <2>1. m = [lru |-> m.lru, block |-> m.block, refs |-> m.refs,
             bytes |-> m.bytes]
    BY SoundFields DEF Memory
  <2>2. Touch(m, i) = [m EXCEPT !.lru = f]
    BY <2>1 DEF Touch
  <2> HIDE DEF f
  <2> QED
    BY <2>1, <2>2
<1>5. ToSet(f) = ToSet(m.lru) /\ Len(f) = Len(m.lru)
  <2>1. Len(m.lru) \in Nat
    BY <1>1, LenProperties
  <2> HIDE DEF l, f
  <2> QED
    BY <1>1, <1>2, <1>3, <2>1
<1> HIDE DEF l, f
<1>6. Fits(f, m.block, m.refs, m.bytes)
  BY <1>1, <1>3, <1>5 DEF Fits
<1>7. Touch(m, i) \in Sound
  BY <1>1, <1>3, <1>4, <1>6, SoundMade
<1>8. /\ Touch(m, i).lru = f /\ Touch(m, i).block = m.block
      /\ Touch(m, i).bytes = m.bytes
  BY <1>4
<1> QED
  BY <1>1, <1>5, <1>7, <1>8 DEF Known, OverLimit

(* An id is put in.                                                        *)
LEMMA InsertSound ==
    ASSUME NEW m \in Sound, NEW i \in Id, NEW b \in Block
    PROVE  /\ Insert(m, i, b) \in Sound
           /\ Known(Insert(m, i, b)) = Known(m) \cup {i}
           /\ Insert(m, i, b).block = [m.block EXCEPT ![i] = b]
<1> DEFINE rest == IF i \in Known(m) THEN Drop(m, i) ELSE m
           more == IF rest.refs[b] = 0 THEN Length[b] ELSE 0
           l == <<i>> \o rest.lru
           k == [rest.block EXCEPT ![i] = b]
           r == [rest.refs EXCEPT ![b] = @ + 1]
           n == rest.bytes + more + EntryBytes
<1>1. /\ rest \in Sound /\ Known(rest) = Known(m) \ {i}
      /\ rest.block = [m.block EXCEPT ![i] = NoBlock]
  <2>1. CASE i \in Known(m)
    BY <2>1, DropSound
  <2>2. CASE i \notin Known(m)
    <3>1. m.block \in [Id -> Block \cup {NoBlock}] /\ m.block[i] = NoBlock
      BY <2>2, SoundFields
    <3>2. m.block = [m.block EXCEPT ![i] = NoBlock]
      BY <3>1
    <3> QED
      BY <2>2, <3>2
  <2> QED
    BY <2>1, <2>2
<1>2. Insert(m, i, b) = [lru |-> l, block |-> k, refs |-> r, bytes |-> n]
  BY DEF Insert
<1>3. m.block \in [Id -> Block \cup {NoBlock}]
  BY SoundFields
<1> HIDE DEF rest
<1>4. /\ rest.lru \in Seq(Id) /\ rest.block \in [Id -> Block \cup {NoBlock}]
      /\ rest.refs \in [Block -> Nat] /\ rest.bytes \in Nat
      /\ Fits(rest.lru, rest.block, rest.refs, rest.bytes)
      /\ Known(rest) = ToSet(rest.lru) /\ IsInjective(rest.lru)
  BY <1>1, SoundFields
<1>5. /\ l \in Seq(Id) /\ IsInjective(l)
      /\ ToSet(l) = ToSet(rest.lru) \cup {i} /\ Len(l) = Len(rest.lru) + 1
  BY <1>1, <1>4, PutInFront
<1>6. /\ rest.refs[b] = Cardinality(IdsOf(rest.block, b))
      /\ rest.bytes = Len(rest.lru) + LengthSum(Used(rest.block))
      /\ \A j \in Id : j \in ToSet(rest.lru) <=> rest.block[j] # NoBlock
      /\ \A c \in Block : rest.refs[c] = Cardinality(IdsOf(rest.block, c))
  BY <1>4 DEF Fits
<1>7. rest.block[i] = NoBlock
  BY <1>1, <1>3
<1>8. k \in [Id -> Block \cup {NoBlock}]
  BY <1>4
<1>9. /\ \A c \in Block \ {b} : IdsOf(k, c) = IdsOf(rest.block, c)
      /\ Cardinality(IdsOf(k, b)) = Cardinality(IdsOf(rest.block, b)) + 1
      /\ LengthSum(Used(k)) =
            LengthSum(Used(rest.block))
              + IF Cardinality(IdsOf(rest.block, b)) = 0 THEN Length[b] ELSE 0
  <2>1. k[i] = b
    BY <1>4
  <2>2. \A j \in Id \ {i} : k[j] = rest.block[j]
    BY <1>4
  <2> HIDE DEF k
  <2> QED
    BY <1>4, <1>7, <1>8, <2>1, <2>2, BlockGained
<1>10. r \in [Block -> Nat] /\ \A c \in Block : r[c] = Cardinality(IdsOf(k, c))
  <2>1. \A c \in Block : r[c] = IF c = b THEN rest.refs[b] + 1 ELSE rest.refs[c]
    BY <1>4
  <2>2. r \in [Block -> Nat]
    BY <1>4
  <2> HIDE DEF k, r
  <2> QED
    BY <1>6, <1>9, <2>1, <2>2
<1>11. n = Len(l) + LengthSum(Used(k)) /\ n \in Nat
  <2>1. /\ LengthSum(Used(k)) \in Nat /\ LengthSum(Used(rest.block)) \in Nat
        /\ Length[b] \in Nat /\ Len(rest.lru) \in Nat
    BY <1>4, UsedIsSet, ToolAssumption, LenProperties
  <2>2. /\ more = IF rest.refs[b] = 0 THEN Length[b] ELSE 0
        /\ n = rest.bytes + more + 1
    BY DEF EntryBytes
  <2> HIDE DEF l, k, more, n
  <2>3. LengthSum(Used(k)) = LengthSum(Used(rest.block)) + more
    BY <1>6, <1>9, <2>2
  <2>4. more \in Nat
    BY <2>1, <2>2
  <2>5. rest.bytes = Len(rest.lru) + LengthSum(Used(rest.block))
    BY <1>6
  <2> DEFINE u == LengthSum(Used(rest.block))
             v == LengthSum(Used(k))
             p == Len(rest.lru)
             q == Len(l)
             x == rest.bytes
  <2>6. /\ u \in Nat /\ v \in Nat /\ p \in Nat /\ x \in Nat /\ more \in Nat
        /\ n = x + more + 1 /\ v = u + more /\ x = p + u /\ q = p + 1
    BY <1>4, <1>5, <2>1, <2>2, <2>3, <2>4, <2>5
  <2> HIDE DEF u, v, p, q, x
  <2>7. n = q + v /\ n \in Nat
    BY <2>6
  <2> QED
    BY <2>7 DEF v, q
<1>12. \A j \in Id : j \in ToSet(l) <=> k[j] # NoBlock
  <2>1. \A j \in Id : k[j] = IF j = i THEN b ELSE rest.block[j]
    BY <1>4
  <2>2. b # NoBlock
    BY ToolAssumption
  <2> HIDE DEF k, l
  <2> QED
    BY <1>5, <1>6, <2>1, <2>2
<1>13. k = [m.block EXCEPT ![i] = b]
  BY <1>1, <1>3
<1> HIDE DEF l, k, r, n
<1>14. Fits(l, k, r, n)
  BY <1>5, <1>10, <1>11, <1>12 DEF Fits
<1>15. Insert(m, i, b) \in Sound
  BY <1>2, <1>5, <1>8, <1>10, <1>11, <1>14, SoundMade
<1>16. Insert(m, i, b).lru = l /\ Insert(m, i, b).block = k
  BY <1>2
<1>17. Known(Insert(m, i, b)) = Known(m) \cup {i}
  BY <1>1, <1>4, <1>5, <1>16 DEF Known
<1> QED
  BY <1>13, <1>15, <1>16, <1>17

-----------------------------------------------------------------------------
(* What is left of a memory when the oldest ids go.                        *)

\* What is left of m: fewer ids, with the same blocks.
Kept(m) == {r \in Sound : /\ Known(r) \subseteq Known(m)
                          /\ \A i \in Known(r) : r.block[i] = m.block[i]}

(* The oldest id goes, if there are too many.                              *)
LEMMA DropOldestKeeps ==
    ASSUME NEW m \in Sound, NEW r \in Kept(m)
    PROVE  /\ DropOldest(r) \in Kept(m)
           /\ ~OverLimit(r) => DropOldest(r) = r
           /\ OverLimit(r) /\ r.lru # <<>> =>
                 Len(DropOldest(r).lru) = Len(r.lru) - 1
<1>1. r \in Sound /\ Known(r) \subseteq Known(m)
      /\ \A i \in Known(r) : r.block[i] = m.block[i]
  BY DEF Kept
<1>2. CASE OverLimit(r) /\ r.lru # <<>>
  <2> DEFINE d == Drop(r, Last(r.lru))
  <2>1. Last(r.lru) \in Known(r)
    BY <1>1, <1>2, SoundFields, WithoutRepetition
  <2>2. /\ d \in Sound /\ Known(d) = Known(r) \ {Last(r.lru)}
        /\ d.block = [r.block EXCEPT ![Last(r.lru)] = NoBlock]
        /\ Len(d.lru) = Len(r.lru) - 1
    BY <1>1, <2>1, DropSound
  <2>3. r.block \in [Id -> Block \cup {NoBlock}] /\ Known(r) \subseteq Id
    BY <1>1, SoundFields
  <2> HIDE DEF d
  <2>4. \A i \in Known(d) : d.block[i] = r.block[i]
    BY <2>2, <2>3
  <2>5. d \in Kept(m)
    BY <1>1, <2>2, <2>4 DEF Kept
  <2>6. DropOldest(r) = d
    BY <1>2 DEF DropOldest, d
  <2> QED
    BY <1>2, <2>2, <2>5, <2>6
<1>3. CASE ~(OverLimit(r) /\ r.lru # <<>>)
  <2>1. DropOldest(r) = r
    BY <1>3 DEF DropOldest
  <2> QED
    BY <1>3, <2>1
<1> QED
  BY <1>2, <1>3

(* Pruning takes one step for each id.                                     *)
LEMMA PruneSteps ==
    ASSUME NEW m \in Sound, NEW n \in Nat, n = Len(m.lru)
    PROVE  \E k : /\ k[0] = m /\ Prune(m) = k[n]
                  /\ \A i \in 1 .. n : k[i] = DropOldest(k[i - 1])
<1> DEFINE X == Kept(m)
           D == DOMAIN m.lru
           g == [p \in X \X (1 .. n) |-> DropOldest(p[1])]
           P(h) == h = [s \in SUBSET D |->
                          IF s = {} THEN m ELSE DropOldest(h[s \ {Max(s)}])]
           j == CHOOSE h : P(h)
<1>1. Prune(m) = j[D]
  BY DEF Prune, FoldLeft, MapThenFoldSet
<1>2. D = 1 .. n
  BY SoundFields, LenProperties
<1>3. m \in X
  BY DEF Kept
<1>4. \A r \in X : DropOldest(r) \in X
  BY DropOldestKeeps
<1>5. g \in [X \X (1 .. n) -> X]
  BY <1>4
<1>6. PICK h \in [SUBSET (1 .. n) -> X] : Folds(h, m, g, n)
  <2> HIDE DEF X, g
  <2> QED
    BY <1>3, <1>5, FoldsExist
<1>7. P(h)
  <2>1. ASSUME NEW s \in SUBSET (1 .. n), s # {}
        PROVE  g[<<h[s \ {Max(s)}], Max(s)>>] = DropOldest(h[s \ {Max(s)}])
    <3>1. Max(s) \in 1 .. n /\ s \ {Max(s)} \in SUBSET (1 .. n)
      BY <2>1, LastTaken
    <3>2. h[s \ {Max(s)}] \in X
      BY <3>1
    <3> HIDE DEF X
    <3> QED
      BY <3>1, <3>2
  <2> HIDE DEF g, X, D
  <2>2. h = [s \in SUBSET (1 .. n) |->
               IF s = {} THEN m ELSE g[<<h[s \ {Max(s)}], Max(s)>>]]
    BY <1>6 DEF Folds
  <2>3. h = [s \in SUBSET (1 .. n) |->
               IF s = {} THEN m ELSE DropOldest(h[s \ {Max(s)}])]
    BY <2>1, <2>2
  <2> QED
    BY <1>2, <2>3
<1>8. P(j)
  <2> HIDE DEF P
  <2> QED
    BY <1>7
<1> DEFINE k == [i \in 0 .. n |-> j[1 .. i]]
<1> HIDE DEF j, g, X, D
<1>9. j[1 .. 0] = m
  <2>1. 1 .. 0 = {} /\ {} \in SUBSET D
    OBVIOUS
  <2> QED
    BY <1>8, <2>1
<1>10. \A i \in 1 .. n : j[1 .. i] = DropOldest(j[1 .. (i - 1)])
  <2> SUFFICES ASSUME NEW i \in 1 .. n
               PROVE  j[1 .. i] = DropOldest(j[1 .. (i - 1)])
    OBVIOUS
  <2> DEFINE s == 1 .. i
  <2>1. /\ s \in SUBSET D /\ s # {} /\ Max(s) = i
        /\ s \ {Max(s)} = 1 .. (i - 1)
    BY <1>2, FirstPlaces
  <2> HIDE DEF s
  <2>2. j[s] = DropOldest(j[s \ {Max(s)}])
    BY <1>8, <2>1
  <2> QED
    BY <2>1, <2>2 DEF s
<1>11. /\ k[0] = m /\ Prune(m) = k[n]
       /\ \A i \in 1 .. n : k[i] = DropOldest(k[i - 1])
  <2>1. k[0] = m
    BY <1>9
  <2>2. Prune(m) = k[n]
    BY <1>1, <1>2
  <2>3. \A i \in 1 .. n : k[i] = j[1 .. i] /\ k[i - 1] = j[1 .. (i - 1)]
    OBVIOUS
  <2> HIDE DEF k
  <2> QED
    BY <1>10, <2>1, <2>2, <2>3
<1> HIDE DEF k
<1> QED
  BY <1>11

(* A pruned memory is sound, has room, and keeps what it has.              *)
LEMMA PruneFacts ==
    ASSUME process \in Starts, NEW m \in Sound
    PROVE  /\ Prune(m) \in Kept(m) /\ ~OverLimit(Prune(m))
           /\ ~OverLimit(m) => Prune(m) = m
<1> DEFINE n == Len(m.lru)
<1>1. n \in Nat
  BY SoundFields, LenProperties
<1> HIDE DEF n
<1>2. PICK k : /\ k[0] = m /\ Prune(m) = k[n]
               /\ \A i \in 1 .. n : k[i] = DropOldest(k[i - 1])
  BY <1>1, PruneSteps DEF n
<1> DEFINE Good(i) == /\ k[i] \in Kept(m)
                      /\ ~OverLimit(k[i]) \/ Len(k[i].lru) = n - i
                      /\ ~OverLimit(m) => k[i] = m
           T == {i \in 0 .. n : Good(i)}
<1>3. 0 \in T
  <2>1. m \in Kept(m)
    BY DEF Kept
  <2>2. Len(k[0].lru) = n - 0
    BY <1>1, <1>2 DEF n
  <2> QED
    BY <1>1, <1>2, <2>1, <2>2
<1>4. ASSUME NEW i \in 0 .. n - 1, i \in T PROVE i + 1 \in T
  <2> DEFINE r == k[i]
  <2>1. i \in Nat /\ i + 1 \in 0 .. n /\ i + 1 \in 1 .. n /\ (i + 1) - 1 = i
    BY <1>1
  <2>2. k[i + 1] = DropOldest(r)
    BY <1>2, <2>1
  <2>3. Good(i)
    BY <1>4
  <2>4. /\ DropOldest(r) \in Kept(m)
        /\ ~OverLimit(r) => DropOldest(r) = r
        /\ OverLimit(r) /\ r.lru # <<>> =>
              Len(DropOldest(r).lru) = Len(r.lru) - 1
    BY <2>3, DropOldestKeeps
  <2>5. r.lru = <<>> => Len(r.lru) = 0
    BY EmptySeq
  <2> HIDE DEF r
  <2>6. ~OverLimit(k[i + 1]) \/ Len(k[i + 1].lru) = n - (i + 1)
    <3>1. CASE ~OverLimit(r)
      BY <2>2, <2>4, <3>1
    <3>2. CASE OverLimit(r)
      <4>1. Len(r.lru) = n - i
        BY <2>3, <3>2 DEF r
      <4>2. Len(DropOldest(r).lru) = Len(r.lru) - 1
        BY <1>1, <2>1, <2>4, <2>5, <3>2, <4>1
      <4> QED
        BY <1>1, <2>1, <2>2, <4>1, <4>2
    <3> QED
      BY <3>1, <3>2
  <2>7. ~OverLimit(m) => k[i + 1] = m
    BY <2>2, <2>3, <2>4 DEF r
  <2> QED
    BY <2>1, <2>2, <2>4, <2>6, <2>7
<1>5. n \in T
  <2>1. T \in SUBSET (0 .. n) /\ n \in 0 .. n
    BY <1>1
  <2> HIDE DEF T
  <2> QED
    BY <1>1, <1>3, <1>4, <2>1, UpTo
<1>6. Good(n)
  BY <1>5
<1> DEFINE r == k[n]
<1>7. r \in Kept(m) /\ (~OverLimit(r) \/ Len(r.lru) = 0)
  BY <1>1, <1>6
<1>8. Prune(m) = r /\ (~OverLimit(m) => Prune(m) = m)
  BY <1>2, <1>6
<1> HIDE DEF r
<1>9. ASSUME Len(r.lru) = 0 PROVE ~OverLimit(r)
  <2>1. /\ r \in Sound /\ r.lru \in Seq(Id) /\ r.bytes \in Nat
        /\ Fits(r.lru, r.block, r.refs, r.bytes)
        /\ \A i \in Id : i \in Known(r) <=> r.block[i] # NoBlock
    BY <1>7, SoundFields DEF Kept
  <2>2. r.lru = <<>>
    BY <1>9, <2>1, EmptySeq
  <2>3. Known(r) = {}
    BY <2>2 DEF Known, ToSet
  <2>4. NoBlock \notin Block
    BY ToolAssumption
  <2>5. Used(r.block) = {}
    BY <2>1, <2>3, <2>4 DEF Used, IdsOf
  <2>6. LengthSum({}) = 0
    <3> {} \in SUBSET Block
      OBVIOUS
    <3> QED
      BY BlockSets
  <2>7. r.bytes = 0
    BY <1>9, <2>1, <2>5, <2>6 DEF Fits
  <2>8. process.ids \in Nat /\ process.bytes \in Nat
    BY ToolAssumption
  <2> QED
    BY <1>9, <2>7, <2>8 DEF OverLimit
<1> QED
  BY <1>7, <1>8, <1>9

-----------------------------------------------------------------------------
(* What is put in.                                                         *)

\* No sound memory is over the limits.
Roomy == \A m \in Sound : ~OverLimit(m)

(* An id is put: it is known by its block, unless it was pushed out.       *)
LEMMA PutFacts ==
    ASSUME process \in Starts, NEW m \in Sound, ~OverLimit(m),
           NEW i \in Id, NEW b \in Block
    PROVE  /\ Put(m, i, b) \in Sound /\ ~OverLimit(Put(m, i, b))
           /\ \A j \in Known(Put(m, i, b)) :
                 /\ j \in Known(m) \cup {i}
                 /\ Put(m, i, b).block[j] = IF j = i THEN b ELSE m.block[j]
           /\ Roomy => Known(Put(m, i, b)) = Known(m) \cup {i}
<1>1. m.block \in [Id -> Block \cup {NoBlock}] /\ Known(m) \subseteq Id
  BY SoundFields
<1>2. CASE m.block[i] = b
  <2> DEFINE t == Touch(m, i)
  <2>1. i \in Known(m)
    BY <1>2, SoundFields, ToolAssumption
  <2>2. t \in Sound /\ Known(t) = Known(m) /\ t.block = m.block
    BY <2>1, TouchSound
  <2>3. Put(m, i, b) = Prune(t)
    BY <1>2 DEF Put
  <2> HIDE DEF t
  <2>4. /\ Prune(t) \in Kept(t) /\ ~OverLimit(Prune(t))
        /\ ~OverLimit(t) => Prune(t) = t
    BY <2>2, PruneFacts
  <2>5. /\ Prune(t) \in Sound /\ Known(Prune(t)) \subseteq Known(m)
        /\ \A j \in Known(Prune(t)) : Prune(t).block[j] = m.block[j]
    BY <2>2, <2>4 DEF Kept
  <2>6. Roomy => Known(Prune(t)) = Known(m) \cup {i}
    BY <2>1, <2>2, <2>4 DEF Roomy
  <2> QED
    BY <1>2, <2>3, <2>4, <2>5, <2>6
<1>3. CASE m.block[i] # b
  <2> DEFINE t == Insert(m, i, b)
  <2>1. /\ t \in Sound /\ Known(t) = Known(m) \cup {i}
        /\ t.block = [m.block EXCEPT ![i] = b]
    BY InsertSound
  <2>2. Put(m, i, b) = Prune(t)
    BY <1>3 DEF Put
  <2> HIDE DEF t
  <2>3. \A j \in Known(t) : t.block[j] = IF j = i THEN b ELSE m.block[j]
    BY <1>1, <2>1
  <2>4. /\ Prune(t) \in Kept(t) /\ ~OverLimit(Prune(t))
        /\ ~OverLimit(t) => Prune(t) = t
    BY <2>1, PruneFacts
  <2>5. /\ Prune(t) \in Sound /\ Known(Prune(t)) \subseteq Known(t)
        /\ \A j \in Known(Prune(t)) : Prune(t).block[j] = t.block[j]
    BY <2>4 DEF Kept
  <2>6. Roomy => Known(Prune(t)) = Known(m) \cup {i}
    BY <2>1, <2>4 DEF Roomy
  <2> QED
    BY <2>1, <2>2, <2>3, <2>4, <2>5, <2>6
<1> QED
  BY <1>2, <1>3

\* A memory within its limits that gives the ids it knows the blocks of w.
Faithful(w) ==
    {m \in Sound : ~OverLimit(m) /\ \A i \in Known(m) : m.block[i] = w[i]}

\* Pairs of an id and its block by w.
Pairs(w, n) ==
    {f \in [1 .. n -> Id \X Block] : \A k \in 1 .. n : w[f[k][1]] = f[k][2]}

(* Putting one of them.                                                    *)
LEMMA PutFaithful ==
    ASSUME process \in Starts, NEW w, NEW m \in Faithful(w),
           NEW i \in Id, NEW b \in Block, w[i] = b
    PROVE  /\ Put(m, i, b) \in Faithful(w)
           /\ Roomy => Known(Put(m, i, b)) = Known(m) \cup {i}
<1> DEFINE r == Put(m, i, b)
<1>1. m \in Sound /\ ~OverLimit(m) /\ \A j \in Known(m) : m.block[j] = w[j]
  BY DEF Faithful
<1>2. /\ r \in Sound /\ ~OverLimit(r)
      /\ \A j \in Known(r) : /\ j \in Known(m) \cup {i}
                             /\ r.block[j] = IF j = i THEN b ELSE m.block[j]
      /\ Roomy => Known(r) = Known(m) \cup {i}
  BY <1>1, PutFacts
<1> HIDE DEF r
<1>3. \A j \in Known(r) : r.block[j] = w[j]
  BY <1>1, <1>2
<1>4. r \in Faithful(w)
  BY <1>2, <1>3 DEF Faithful
<1> QED
  BY <1>2, <1>4 DEF r

(* Putting several takes one step for each.                                *)
LEMMA PutAllSteps ==
    ASSUME process \in Starts, NEW w, NEW m \in Faithful(w), NEW n \in Nat,
           NEW pairs \in Pairs(w, n)
    PROVE  \E k : /\ k[0] = m /\ PutAll(m, pairs) = k[n]
                  /\ \A i \in 1 .. n :
                        k[i] = Put(k[i - 1], pairs[i][1], pairs[i][2])
<1> DEFINE X == Faithful(w)
           D == DOMAIN pairs
           g == [p \in X \X (1 .. n) |->
                    Put(p[1], pairs[p[2]][1], pairs[p[2]][2])]
           P(h) == h = [s \in SUBSET D |->
                          IF s = {} THEN m
                          ELSE Put(h[s \ {Max(s)}], pairs[Max(s)][1],
                                   pairs[Max(s)][2])]
           j == CHOOSE h : P(h)
<1>1. PutAll(m, pairs) = j[D]
  BY DEF PutAll, FoldLeft, MapThenFoldSet
<1>2. D = 1 .. n
  BY DEF Pairs
<1>3. \A i \in 1 .. n : /\ pairs[i][1] \in Id /\ pairs[i][2] \in Block
                        /\ w[pairs[i][1]] = pairs[i][2]
  BY DEF Pairs
<1>4. \A r \in X, i \in 1 .. n : Put(r, pairs[i][1], pairs[i][2]) \in X
  BY <1>3, PutFaithful
<1>5. g \in [X \X (1 .. n) -> X]
  <2>1. \A p \in X \X (1 .. n) :
           Put(p[1], pairs[p[2]][1], pairs[p[2]][2]) \in X
    BY <1>4
  <2> HIDE DEF X
  <2> QED
    BY <2>1
<1>6. PICK h \in [SUBSET (1 .. n) -> X] : Folds(h, m, g, n)
  <2> HIDE DEF X, g
  <2>1. m \in X
    BY DEF X
  <2> QED
    BY <1>5, <2>1, FoldsExist
<1>7. P(h)
  <2> HIDE DEF X, D
  <2>1. ASSUME NEW s \in SUBSET (1 .. n), s # {}
        PROVE  g[<<h[s \ {Max(s)}], Max(s)>>]
                 = Put(h[s \ {Max(s)}], pairs[Max(s)][1], pairs[Max(s)][2])
    <3>1. Max(s) \in 1 .. n /\ s \ {Max(s)} \in SUBSET (1 .. n)
      BY <2>1, LastTaken
    <3>2. h[s \ {Max(s)}] \in X
      BY <3>1
    <3> QED
      BY <3>1, <3>2
  <2> HIDE DEF g
  <2>2. h = [s \in SUBSET (1 .. n) |->
               IF s = {} THEN m ELSE g[<<h[s \ {Max(s)}], Max(s)>>]]
    BY <1>6 DEF Folds
  <2>3. h = [s \in SUBSET (1 .. n) |->
               IF s = {} THEN m
               ELSE Put(h[s \ {Max(s)}], pairs[Max(s)][1], pairs[Max(s)][2])]
    BY <2>1, <2>2
  <2> QED
    BY <1>2, <2>3
<1>8. P(j)
  <2> HIDE DEF P
  <2> QED
    BY <1>7
<1> DEFINE k == [i \in 0 .. n |-> j[1 .. i]]
<1> HIDE DEF j, g, X, D
<1>9. j[1 .. 0] = m
  <2>1. 1 .. 0 = {} /\ {} \in SUBSET D
    OBVIOUS
  <2> QED
    BY <1>8, <2>1
<1>10. \A i \in 1 .. n :
          j[1 .. i] = Put(j[1 .. (i - 1)], pairs[i][1], pairs[i][2])
  <2> SUFFICES ASSUME NEW i \in 1 .. n
               PROVE  j[1 .. i] = Put(j[1 .. (i - 1)], pairs[i][1], pairs[i][2])
    OBVIOUS
  <2> DEFINE s == 1 .. i
  <2>1. /\ s \in SUBSET D /\ s # {} /\ Max(s) = i
        /\ s \ {Max(s)} = 1 .. (i - 1)
    BY <1>2, FirstPlaces
  <2> HIDE DEF s
  <2>2. j[s] = Put(j[s \ {Max(s)}], pairs[Max(s)][1], pairs[Max(s)][2])
    BY <1>8, <2>1
  <2> QED
    BY <2>1, <2>2 DEF s
<1>11. /\ k[0] = m /\ PutAll(m, pairs) = k[n]
       /\ \A i \in 1 .. n : k[i] = Put(k[i - 1], pairs[i][1], pairs[i][2])
  <2>1. k[0] = m
    BY <1>9
  <2>2. PutAll(m, pairs) = k[n]
    BY <1>1, <1>2
  <2>3. \A i \in 1 .. n : k[i] = j[1 .. i] /\ k[i - 1] = j[1 .. (i - 1)]
    OBVIOUS
  <2> HIDE DEF k
  <2> QED
    BY <1>10, <2>1, <2>2, <2>3
<1> HIDE DEF k
<1> QED
  BY <1>11

(* What several leave: the memory is as faithful as it was, and when       *)
(* nothing can be pushed out it knows all of them.                         *)
LEMMA PutAllFacts ==
    ASSUME process \in Starts, NEW w, NEW m \in Faithful(w), NEW n \in Nat,
           NEW pairs \in Pairs(w, n)
    PROVE  /\ PutAll(m, pairs) \in Faithful(w)
           /\ Roomy => Known(PutAll(m, pairs)) =
                          Known(m) \cup {pairs[i][1] : i \in 1 .. n}
<1>1. PICK k : /\ k[0] = m /\ PutAll(m, pairs) = k[n]
               /\ \A i \in 1 .. n :
                     k[i] = Put(k[i - 1], pairs[i][1], pairs[i][2])
  BY PutAllSteps
<1>2. \A i \in 1 .. n : /\ pairs[i][1] \in Id /\ pairs[i][2] \in Block
                        /\ w[pairs[i][1]] = pairs[i][2]
  BY DEF Pairs
<1> DEFINE Ids(i) == {pairs[l][1] : l \in 1 .. i}
           Good(i) == /\ k[i] \in Faithful(w)
                      /\ Roomy => Known(k[i]) = Known(m) \cup Ids(i)
           T == {i \in 0 .. n : Good(i)}
<1>3. 0 \in T
  <2>1. Ids(0) = {}
    OBVIOUS
  <2> HIDE DEF Ids
  <2> QED
    BY <1>1, <2>1
<1>4. ASSUME NEW i \in 0 .. n - 1, i \in T PROVE i + 1 \in T
  <2> DEFINE r == k[i]
             x == pairs[i + 1][1]
             b == pairs[i + 1][2]
  <2>1. i + 1 \in 0 .. n /\ i + 1 \in 1 .. n /\ (i + 1) - 1 = i
    OBVIOUS
  <2>2. k[i + 1] = Put(r, x, b)
    BY <1>1, <2>1
  <2>3. Good(i)
    BY <1>4
  <2>4. x \in Id /\ b \in Block /\ w[x] = b
    BY <1>2, <2>1
  <2>5. Ids(i + 1) = Ids(i) \cup {x}
    <3>1. \A l \in 1 .. i + 1 : l \in 1 .. i \/ l = i + 1
      OBVIOUS
    <3>2. \A l \in 1 .. i : l \in 1 .. i + 1
      OBVIOUS
    <3>3. i + 1 \in 1 .. i + 1
      OBVIOUS
    <3> QED
      BY <3>1, <3>2, <3>3
  <2> HIDE DEF x, b, Ids
  <2>6. r \in Faithful(w)
    BY <2>3
  <2> HIDE DEF r
  <2>7. /\ Put(r, x, b) \in Faithful(w)
        /\ Roomy => Known(Put(r, x, b)) = Known(r) \cup {x}
    BY <2>4, <2>6, PutFaithful
  <2>8. Roomy => Known(k[i + 1]) = Known(m) \cup Ids(i + 1)
    BY <2>2, <2>3, <2>5, <2>7 DEF r
  <2> QED
    BY <2>1, <2>2, <2>7, <2>8
<1>5. n \in T
  <2>1. T \in SUBSET (0 .. n) /\ n \in 0 .. n
    OBVIOUS
  <2> HIDE DEF T
  <2> QED
    BY <1>3, <1>4, <2>1, UpTo
<1> QED
  BY <1>1, <1>5

-----------------------------------------------------------------------------
(* What is looked up.                                                      *)

(* Looking up ids moves them to the front of the list and does no more.    *)
LEMMA LookUpAll ==
    ASSUME NEW w, NEW m \in Faithful(w), NEW msg \in Seq(Id)
    PROVE  /\ FoldLeft(LookUp, m, msg) \in Faithful(w)
           /\ Known(FoldLeft(LookUp, m, msg)) = Known(m)
<1> DEFINE X == {r \in Faithful(w) : Known(r) = Known(m)}
           n == Len(msg)
           D == DOMAIN msg
           g == [p \in X \X (1 .. n) |-> LookUp(p[1], msg[p[2]])]
           P(h) == h = [s \in SUBSET D |->
                          IF s = {} THEN m
                          ELSE LookUp(h[s \ {Max(s)}], msg[Max(s)])]
           j == CHOOSE h : P(h)
<1>1. FoldLeft(LookUp, m, msg) = j[D]
  BY DEF FoldLeft, MapThenFoldSet
<1>2. n \in Nat /\ D = 1 .. n
  BY LenProperties
<1>3. m \in X
  OBVIOUS
<1>4. ASSUME NEW r \in X, NEW i PROVE LookUp(r, i) \in X
  <2>1. /\ r \in Sound /\ ~OverLimit(r) /\ Known(r) = Known(m)
        /\ \A x \in Known(r) : r.block[x] = w[x]
    BY DEF Faithful
  <2>2. CASE i \in Known(r)
    <3>1. /\ Touch(r, i) \in Sound /\ Known(Touch(r, i)) = Known(r)
          /\ Touch(r, i).block = r.block
          /\ OverLimit(Touch(r, i)) <=> OverLimit(r)
      BY <2>1, <2>2, TouchSound
    <3>2. LookUp(r, i) = Touch(r, i)
      BY <2>2 DEF LookUp
    <3> QED
      BY <2>1, <3>1, <3>2 DEF Faithful
  <2>3. CASE i \notin Known(r)
    BY <2>3 DEF LookUp
  <2> QED
    BY <2>2, <2>3
<1> HIDE DEF n
<1>5. g \in [X \X (1 .. n) -> X]
  BY <1>4
<1>6. PICK h \in [SUBSET (1 .. n) -> X] : Folds(h, m, g, n)
  <2> HIDE DEF X, g
  <2> QED
    BY <1>2, <1>3, <1>5, FoldsExist
<1>7. P(h)
  <2> HIDE DEF X, D
  <2>1. ASSUME NEW s \in SUBSET (1 .. n), s # {}
        PROVE  g[<<h[s \ {Max(s)}], Max(s)>>]
                 = LookUp(h[s \ {Max(s)}], msg[Max(s)])
    <3>1. Max(s) \in 1 .. n /\ s \ {Max(s)} \in SUBSET (1 .. n)
      BY <1>2, <2>1, LastTaken
    <3>2. h[s \ {Max(s)}] \in X
      BY <3>1
    <3> QED
      BY <3>1, <3>2
  <2> HIDE DEF g
  <2>2. h = [s \in SUBSET (1 .. n) |->
               IF s = {} THEN m ELSE g[<<h[s \ {Max(s)}], Max(s)>>]]
    BY <1>6 DEF Folds
  <2>3. h = [s \in SUBSET (1 .. n) |->
               IF s = {} THEN m ELSE LookUp(h[s \ {Max(s)}], msg[Max(s)])]
    BY <2>1, <2>2
  <2> QED
    BY <1>2, <2>3
<1>8. P(j)
  <2> HIDE DEF P
  <2> QED
    BY <1>7
<1> HIDE DEF j, g, X, D
<1> DEFINE T == {i \in 0 .. n : j[1 .. i] \in X}
<1>9. 0 \in T
  <2>1. 1 .. 0 = {} /\ {} \in SUBSET D
    OBVIOUS
  <2>2. j[1 .. 0] = m
    BY <1>8, <2>1
  <2> QED
    BY <1>2, <1>3, <2>2
<1>10. ASSUME NEW i \in 0 .. n - 1, i \in T PROVE i + 1 \in T
  <2>1. i + 1 \in 0 .. n /\ i + 1 \in 1 .. n /\ (i + 1) - 1 = i
    BY <1>2
  <2> DEFINE s == 1 .. i + 1
  <2>2. /\ s \in SUBSET D /\ s # {} /\ s \ {Max(s)} = 1 .. i
    BY <1>2, <2>1, FirstPlaces
  <2> HIDE DEF s
  <2>3. j[s] = LookUp(j[s \ {Max(s)}], msg[Max(s)])
    BY <1>8, <2>2
  <2>4. j[s] \in X
    <3>1. j[1 .. i] \in X
      BY <1>10
    <3>2. \A x : LookUp(j[1 .. i], x) \in X
      BY <1>4, <3>1
    <3> QED
      BY <2>2, <2>3, <3>2
  <2> QED
    BY <2>1, <2>4 DEF s
<1>11. n \in T
  <2>1. T \in SUBSET (0 .. n) /\ n \in 0 .. n
    BY <1>2
  <2> HIDE DEF T
  <2> QED
    BY <1>2, <1>9, <1>10, <2>1, UpTo
<1>12. j[1 .. n] \in X
  BY <1>11
<1> QED
  BY <1>1, <1>2, <1>12 DEF X

-----------------------------------------------------------------------------
(* When nothing can be pushed out.                                         *)

(* A process with room for every id and block is never over its limits.    *)
LEMMA AmpleIsRoomy == process \in Starts /\ Ample => Roomy
<1> SUFFICES ASSUME process \in Starts, Ample, NEW m \in Sound
             PROVE  ~OverLimit(m)
  BY DEF Roomy
<1> DEFINE c == Cardinality(Id)
           u == LengthSum(Used(m.block))
           v == LengthSum(Block)
           p == Len(m.lru)
           x == m.bytes
           ids == process.ids
           bytes == process.bytes
<1>1. ids \in Nat /\ bytes \in Nat
  BY ToolAssumption
<1>2. /\ m.lru \in Seq(Id) /\ x \in Nat /\ IsInjective(m.lru)
      /\ Fits(m.lru, m.block, m.refs, m.bytes)
  BY SoundFields
<1>3. x = p + u
  BY <1>2 DEF Fits
<1>4. p \in Nat /\ p <= c /\ c \in Nat
  <2>1. /\ Cardinality(ToSet(m.lru)) = p /\ p \in Nat
        /\ ToSet(m.lru) \in SUBSET Id
    BY <1>2, WithoutRepetition
  <2>2. IsFiniteSet(Id) /\ c \in Nat
    BY IdsFinite, FS_CardinalityType
  <2>3. Cardinality(ToSet(m.lru)) <= c
    BY <2>1, <2>2, FS_Subset
  <2> QED
    BY <2>1, <2>2, <2>3
<1>5. u \in Nat /\ v \in Nat /\ u <= v
  <2>1. Used(m.block) \in SUBSET Block /\ Block \in SUBSET Block
    BY UsedIsSet
  <2> QED
    BY <2>1, BlockSets, MoreBlocks
<1>6. ids >= c /\ bytes >= c * 1 + v
  <2>1. MapThenSumSet(LAMBDA b : Length[b], Block) = v
    <3>1. BlockBytes(Block) = v
      BY BlockBytesAreSum
    <3> QED
      BY <3>1 DEF BlockBytes
  <2> HIDE DEF v
  <2> QED
    BY <2>1 DEF Ample, EntryBytes
<1>7. OverLimit(m) <=> p > ids \/ x > bytes
  BY DEF OverLimit
<1> HIDE DEF c, u, v, p, x, ids, bytes
<1> QED
  BY <1>1, <1>2, <1>3, <1>4, <1>5, <1>6, <1>7

(* Every element of a set is one of the places of a sequence of the set.   *)
LEMMA SequenceOfSet ==
    ASSUME NEW S, IsFiniteSet(S), NEW f \in SetToSeqs(S)
    PROVE  /\ Cardinality(S) \in Nat /\ f \in [1 .. Cardinality(S) -> S]
           /\ \A x \in S : \E i \in 1 .. Cardinality(S) : f[i] = x
<1> DEFINE n == Cardinality(S)
           D == 1 .. n
<1>1. n \in Nat
  BY FS_CardinalityType
<1>2. f \in [D -> S] /\ \A i, j \in D : i # j => f[i] # f[j]
  BY DEF SetToSeqs
<1>3. IsFiniteSet(D) /\ Cardinality(D) = n
  BY <1>1, FirstNumbers
<1>4. f \in Injection(D, S)
  BY <1>2 DEF Injection, IsInjective
<1> HIDE DEF D
<1>5. f \in Surjection(D, S)
  BY <1>3, <1>4, FS_Injection
<1>6. \A x \in S : \E i \in D : f[i] = x
  BY <1>5 DEF Surjection
<1> QED
  BY <1>1, <1>2, <1>6 DEF D

(* The pairs of a set, in any order, are put.                              *)
LEMMA PutSet ==
    ASSUME process \in Starts, NEW w, NEW m \in Faithful(w),
           NEW S \in SUBSET (Id \X Block), \A p \in S : w[p[1]] = p[2],
           NEW pairs \in SetToSeqs(S)
    PROVE  /\ PutAll(m, pairs) \in Faithful(w)
           /\ Roomy => /\ Known(m) \subseteq Known(PutAll(m, pairs))
                       /\ \A p \in S : p[1] \in Known(PutAll(m, pairs))
<1> DEFINE n == Cardinality(S)
<1>1. IsFiniteSet(S)
  <2>1. IsFiniteSet(Id \X Block)
    BY IdsFinite, ToolAssumption, FS_Product
  <2> QED
    BY <2>1, FS_Subset
<1>2. /\ n \in Nat /\ pairs \in [1 .. n -> S]
      /\ \A p \in S : \E i \in 1 .. n : pairs[i] = p
  BY <1>1, SequenceOfSet
<1> HIDE DEF n
<1>3. pairs \in Pairs(w, n)
  BY <1>2 DEF Pairs
<1>4. /\ PutAll(m, pairs) \in Faithful(w)
      /\ Roomy => Known(PutAll(m, pairs)) =
                     Known(m) \cup {pairs[i][1] : i \in 1 .. n}
  BY <1>2, <1>3, PutAllFacts
<1>5. \A p \in S : p[1] \in {pairs[i][1] : i \in 1 .. n}
  BY <1>2
<1> QED
  BY <1>4, <1>5

-----------------------------------------------------------------------------
(* The invariant.                                                          *)

\* The checkpoints of texts and the requests of clients.
Trailer == [model : {s.model : s \in Starts}, map : SUBSET (Id \X Block),
            size : Nat, owes : SUBSET Id]
Asked == [at : {"idle", "scan", "attached"}, msg : Seq(Id),
          left : SUBSET Text, seen : SUBSET Id, answer : Block \cup {NoBlock}]

\* The types of the variables.
ToolTypes ==
    /\ process \in Starts
    /\ sampled \in [Id -> Block \cup {NoBlock}]
    /\ files \in [Text -> Trailer \cup {NoFile}]
    /\ writer.at \in {"idle", "measure", "write"}
    /\ writer.at # "idle" => writer.text \in Text
    /\ writer.at = "write" => writer.size \in Nat
    /\ request \in [Client -> Asked]

\* The ids that are drawn are the first ones.
DrawnInOrder ==
    \E d \in 0 .. MaxIds : \A i \in Id : sampled[i] # NoBlock <=> i <= d

\* A turn that is not remembered yet is of ids that were drawn for its block.
TurnTold ==
    turn # NoTurn =>
        /\ turn.block \in Block
        /\ \E n \in Nat : turn.ids \in [1 .. n -> Id]
        /\ \A k \in DOMAIN turn.ids : sampled[turn.ids[k]] = turn.block

\* A trailer has the block each id was drawn for, and each id it owes.
FilesTold ==
    \A t \in Text : files[t] # NoFile =>
        /\ \A p \in files[t].map : sampled[p[1]] = p[2]
        /\ \A i \in files[t].owes :
              sampled[i] \in Block /\ <<i, sampled[i]>> \in files[t].map
        /\ files[t].owes # {} => files[t].size # 0

\* A request's ids were drawn; while it looks for them and none is pushed
\* out, the memory has those it has seen.
RequestsTold ==
    \A c \in Client : request[c].at # "idle" =>
        /\ request[c].msg # <<>>
        /\ \A i \in ToSet(request[c].msg) : sampled[i] # NoBlock
        /\ request[c].at = "scan" /\ Ample =>
               request[c].seen \subseteq Known(toolMem)

\* Each part refers to the ids that were drawn and to their blocks, so a memory
\* that is faithful stays so whatever it is given, and replies are exact.
ToolInv ==
    /\ ToolTypes /\ DrawnInOrder /\ TurnTold /\ FilesTold /\ RequestsTold
    /\ toolMem \in Faithful(sampled) /\ ReplayExact

(* It holds when the first process starts.                                 *)
LEMMA ToolInvInit == ToolInit => ToolInv
<1> SUFFICES ASSUME ToolInit PROVE ToolInv
  OBVIOUS
<1>1. ToolTypes
  BY DEF ToolInit, ToolTypes, NoStore, NoRequest, Asked
<1>2. DrawnInOrder
  <2>1. 0 \in 0 .. MaxIds
    BY ToolAssumption
  <2>2. \A i \in Id : sampled[i] = NoBlock /\ ~(i <= 0)
    BY DEF ToolInit, Id
  <2> QED
    BY <2>1, <2>2 DEF DrawnInOrder
<1>3. TurnTold /\ FilesTold
  BY DEF ToolInit, TurnTold, FilesTold
<1>4. RequestsTold /\ ReplayExact
  BY DEF ToolInit, RequestsTold, ReplayExact, NoRequest
<1>5. toolMem \in Faithful(sampled)
  <2>1. EmptyMemory \in Sound /\ Known(EmptyMemory) = {}
    BY EmptySound
  <2>2. ~OverLimit(EmptyMemory)
    <3>1. process.ids \in Nat /\ process.bytes \in Nat
      BY ToolAssumption DEF ToolInit
    <3>2. Len(EmptyMemory.lru) = 0 /\ EmptyMemory.bytes = 0
      BY DEF EmptyMemory
    <3> QED
      BY <3>1, <3>2 DEF OverLimit
  <2> QED
    BY <2>1, <2>2 DEF ToolInit, Faithful
<1> QED
  BY <1>1, <1>2, <1>3, <1>4, <1>5 DEF ToolInv

-----------------------------------------------------------------------------
(* What a step leaves alone.                                               *)

\* An id that was drawn keeps its block.
Grows == \A i \in Id : sampled[i] # NoBlock => sampled'[i] = sampled[i]

(* Steps that leave a part of the state alone keep what is said of it.     *)
LEMMA MemoryStays ==
    ASSUME process' = process, Grows, toolMem' \in Faithful(sampled)
    PROVE  (toolMem \in Faithful(sampled))'
<1> DEFINE m == toolMem'
<1>1. m \in Sound /\ ~OverLimit(m) /\ \A i \in Known(m) : m.block[i] = sampled[i]
  BY DEF Faithful
<1>2. ~(Len(m.lru) > process'.ids \/ m.bytes > process'.bytes)
  BY <1>1 DEF OverLimit
<1>3. \A i \in Known(m) : m.block[i] = sampled'[i]
  <2>1. \A i \in Known(m) : i \in Id /\ m.block[i] # NoBlock
    BY <1>1, SoundFields
  <2> HIDE DEF m
  <2> QED
    BY <1>1, <2>1 DEF Grows
<1> QED
  BY <1>1, <1>2, <1>3 DEF Faithful, OverLimit

(* A turn that is not remembered yet stays told.                           *)
LEMMA TurnStays == TurnTold /\ turn' = turn /\ Grows => TurnTold'
<1> SUFFICES ASSUME TurnTold, turn' = turn, Grows, turn # NoTurn
             PROVE  /\ turn.block \in Block
                    /\ \E n \in Nat : turn.ids \in [1 .. n -> Id]
                    /\ \A k \in DOMAIN turn.ids :
                          sampled'[turn.ids[k]] = turn.block
  BY DEF TurnTold
<1>1. /\ turn.block \in Block
      /\ \E n \in Nat : turn.ids \in [1 .. n -> Id]
      /\ \A k \in DOMAIN turn.ids : sampled[turn.ids[k]] = turn.block
  BY DEF TurnTold
<1>2. ASSUME NEW k \in DOMAIN turn.ids
      PROVE  sampled'[turn.ids[k]] = turn.block
  <2>1. turn.ids[k] \in Id /\ sampled[turn.ids[k]] = turn.block
    BY <1>1
  <2>2. turn.block # NoBlock
    BY <1>1, ToolAssumption
  <2> QED
    BY <2>1, <2>2 DEF Grows
<1> QED
  BY <1>1, <1>2

\* What is said of one trailer.
Told(f, w) ==
    /\ \A p \in f.map : w[p[1]] = p[2]
    /\ \A i \in f.owes : w[i] \in Block /\ <<i, w[i]>> \in f.map
    /\ f.owes # {} => f.size # 0

(* The checkpoints, one by one.                                            *)
LEMMA FilesToldEach ==
    FilesTold <=> \A t \in Text : files[t] # NoFile => Told(files[t], sampled)
BY DEF FilesTold, Told

(* A draw of other ids leaves the trailers told.                           *)
LEMMA FilesStay ==
    ToolTypes /\ FilesTold /\ files' = files /\ Grows => FilesTold'
<1> SUFFICES ASSUME ToolTypes, FilesTold, files' = files, Grows,
                    NEW t \in Text, files[t] # NoFile
             PROVE  Told(files[t], sampled')
  BY DEF FilesTold, Told
<1> DEFINE f == files[t]
<1>1. f.map \subseteq Id \X Block /\ f.owes \subseteq Id
  <2>1. f \in Trailer
    BY DEF ToolTypes
  <2> QED
    BY <2>1 DEF Trailer
<1>2. Told(f, sampled)
  BY FilesToldEach
<1> HIDE DEF f
<1>3. NoBlock \notin Block
  BY ToolAssumption
<1>4. ASSUME NEW p \in f.map PROVE sampled'[p[1]] = p[2]
  <2>1. p[1] \in Id /\ p[2] \in Block /\ sampled[p[1]] = p[2]
    BY <1>1, <1>2 DEF Told
  <2> QED
    BY <1>3, <2>1 DEF Grows
<1>5. ASSUME NEW i \in f.owes
      PROVE  sampled'[i] \in Block /\ <<i, sampled'[i]>> \in f.map
  <2>1. i \in Id /\ sampled[i] \in Block /\ <<i, sampled[i]>> \in f.map
    BY <1>1, <1>2 DEF Told
  <2>2. sampled'[i] = sampled[i]
    BY <1>3, <2>1 DEF Grows
  <2> QED
    BY <2>1, <2>2
<1> QED
  BY <1>2, <1>4, <1>5 DEF Told, f

\* What is said of one request: of a memory, and of what was sampled.
Asks(r, w, m) ==
    r.at # "idle" =>
        /\ r.msg # <<>> /\ \A i \in ToSet(r.msg) : w[i] # NoBlock
        /\ r.at = "scan" /\ Ample => r.seen \subseteq Known(m)

Answers(r, w) ==
    r.at = "attached" =>
        /\ r.answer # NoBlock => \A i \in ToSet(r.msg) : w[i] = r.answer
        /\ (/\ Ample /\ ToSet(r.msg) \subseteq r.seen
            /\ Cardinality({w[i] : i \in ToSet(r.msg)}) = 1)
               => r.answer # NoBlock

(* The requests, one by one; and after a step.                             *)
LEMMA RequestsEach ==
    RequestsTold /\ ReplayExact <=>
        \A c \in Client : /\ Asks(request[c], sampled, toolMem)
                          /\ Answers(request[c], sampled)
BY DEF RequestsTold, ReplayExact, Asks, Answers

LEMMA RequestsEachNext ==
    ASSUME process' = process
    PROVE  (RequestsTold /\ ReplayExact)' <=>
              \A c \in Client : /\ Asks(request'[c], sampled', toolMem')
                                /\ Answers(request'[c], sampled')
<1>1. Ample' <=> Ample
  BY DEF Ample, MapThenSumSet, MapThenFoldSet
<1> QED
  BY <1>1 DEF RequestsTold, ReplayExact, Asks, Answers

(* The message of a request is of ids.                                     *)
LEMMA MessageIds ==
    ASSUME ToolTypes, NEW c \in Client
    PROVE  /\ request[c] \in Asked /\ request[c].msg \in Seq(Id)
           /\ ToSet(request[c].msg) \subseteq Id
           /\ request[c].msg # <<>> =>
                 request[c].msg[1] \in ToSet(request[c].msg)
<1> DEFINE s == request[c].msg
<1>1. request[c] \in Asked /\ s \in Seq(Id)
  BY DEF ToolTypes, Asked
<1> HIDE DEF s
<1>2. DOMAIN s = 1 .. Len(s) /\ \A i \in 1 .. Len(s) : s[i] \in Id
  BY <1>1, LenProperties
<1>3. ToSet(s) \subseteq Id
  BY <1>2 DEF ToSet
<1>4. s # <<>> => s[1] \in ToSet(s)
  <2> SUFFICES ASSUME s # <<>> PROVE s[1] \in ToSet(s)
    OBVIOUS
  <2>1. Len(s) \in Nat \ {0}
    BY <1>1, EmptySeq
  <2>2. 1 \in DOMAIN s
    BY <1>2, <2>1
  <2> QED
    BY <2>2 DEF ToSet
<1> QED
  BY <1>1, <1>3, <1>4 DEF s

(* A request that nothing is done to, while ids are drawn and put.         *)
LEMMA RequestStays ==
    ASSUME ToolTypes, RequestsTold, ReplayExact, Grows, NEW c \in Client,
           NEW m, Ample => Known(toolMem) \subseteq Known(m)
    PROVE  Asks(request[c], sampled', m) /\ Answers(request[c], sampled')
<1> DEFINE r == request[c]
<1>1. Asks(r, sampled, toolMem) /\ Answers(r, sampled)
  BY RequestsEach
<1>2. ToSet(r.msg) \subseteq Id
  BY MessageIds
<1> HIDE DEF r
<1>3. CASE r.at = "idle"
  BY <1>3 DEF Asks, Answers, r
<1>4. CASE r.at # "idle"
  <2>1. \A i \in ToSet(r.msg) : sampled[i] # NoBlock
    BY <1>1, <1>4 DEF Asks
  <2>2. \A i \in ToSet(r.msg) : sampled'[i] = sampled[i]
    BY <1>2, <2>1 DEF Grows
  <2>3. Asks(r, sampled', m)
    BY <1>1, <2>1, <2>2 DEF Asks
  <2>4. {sampled'[i] : i \in ToSet(r.msg)} = {sampled[i] : i \in ToSet(r.msg)}
    BY <2>2
  <2>5. Answers(r, sampled')
    BY <1>1, <2>2, <2>4 DEF Answers
  <2> QED
    BY <2>3, <2>5 DEF r
<1> QED
  BY <1>3, <1>4 DEF r

(* And all of the requests.                                                *)
LEMMA RequestsStay ==
    ASSUME ToolTypes, RequestsTold, ReplayExact, Grows,
           process' = process, request' = request,
           Ample => Known(toolMem) \subseteq Known(toolMem')
    PROVE  (RequestsTold /\ ReplayExact)'
<1>1. \A c \in Client : Asks(request[c], sampled', toolMem')
                        /\ Answers(request[c], sampled')
  BY RequestStays
<1> QED
  BY <1>1, RequestsEachNext

-----------------------------------------------------------------------------
(* The step of each action.                                                *)

(* A step that draws no id.                                                *)
LEMMA NoneDrawn ==
    DrawnInOrder /\ sampled' = sampled => DrawnInOrder' /\ Grows
BY DEF DrawnInOrder, Grows

(* What is common to the steps that leave the requests alone.              *)
LEMMA OthersStay ==
    ASSUME ToolInv, sampled' = sampled, process' = process, request' = request,
           toolMem' \in Faithful(sampled),
           Ample => Known(toolMem) \subseteq Known(toolMem')
    PROVE  /\ DrawnInOrder' /\ (toolMem \in Faithful(sampled))'
           /\ RequestsTold' /\ ReplayExact'
           /\ turn' = turn => TurnTold'
           /\ files' = files => FilesTold'
<1>1. DrawnInOrder' /\ Grows
  BY NoneDrawn DEF ToolInv
<1>2. (RequestsTold /\ ReplayExact)'
  BY <1>1, RequestsStay DEF ToolInv
<1> QED
  BY <1>1, <1>2, MemoryStays, TurnStays, FilesStay DEF ToolInv

(* A slot parses the calls of a turn and draws their ids.                  *)
LEMMA SampleStep ==
    ASSUME ToolInv, NEW b \in Block, NEW n \in 1 .. MaxCalls, Sample(b, n)
    PROVE  ToolInv'
<1> DEFINE drawn == Cardinality({i \in Id : sampled[i] # NoBlock})
<1>0. /\ MaxIds \in Nat /\ NoBlock \notin Block /\ n \in Nat /\ n >= 1
      /\ Id = 1 .. MaxIds
  BY ToolAssumption DEF Id
<1>1. PICK d \in 0 .. MaxIds : \A i \in Id : sampled[i] # NoBlock <=> i <= d
  BY DEF ToolInv, DrawnInOrder
<1>2. drawn = d
  <2>1. {i \in Id : sampled[i] # NoBlock} = 1 .. d
    BY <1>0, <1>1
  <2>2. Cardinality(1 .. d) = d
    BY <1>0, FirstNumbers
  <2> QED
    BY <2>1, <2>2
<1> DEFINE ids == drawn + 1 .. drawn + n
<1>3. /\ ids \subseteq Id
      /\ turn' = [block |-> b, ids |-> [k \in 1 .. n |-> drawn + k]]
      /\ sampled' = [i \in Id |-> IF i \in ids THEN b ELSE sampled[i]]
      /\ UNCHANGED <<toolMem, process, files, writer, request>>
  BY DEF Sample
<1> HIDE DEF drawn
<1>4. /\ \A i \in Id : sampled'[i] = IF i \in d + 1 .. d + n THEN b ELSE sampled[i]
      /\ d + 1 .. d + n \subseteq Id /\ d \in Nat /\ d + n \in 0 .. MaxIds
  <2>1. d \in Nat /\ d + 1 .. d + n \subseteq Id
    <3>1. ids = d + 1 .. d + n
      BY <1>2
    <3>2. d \in Nat
      BY <1>0
    <3> QED
      BY <1>3, <3>1, <3>2
  <2>2. d + n \in d + 1 .. d + n
    BY <1>0, <2>1
  <2>3. d + n \in 0 .. MaxIds
    BY <1>0, <2>1, <2>2
  <2> QED
    BY <1>2, <1>3, <2>1, <2>3
<1>5. ToolTypes'
  <2>1. sampled' \in [Id -> Block \cup {NoBlock}]
    <3>1. \A i \in Id : sampled[i] \in Block \cup {NoBlock}
      BY DEF ToolInv, ToolTypes
    <3> QED
      BY <1>3, <3>1
  <2> QED
    BY <1>3, <2>1 DEF ToolInv, ToolTypes
<1>6. DrawnInOrder'
  <2>1. \A i \in Id : sampled'[i] # NoBlock <=> i <= d + n
    <3> SUFFICES ASSUME NEW i \in Id
                 PROVE  sampled'[i] # NoBlock <=> i <= d + n
      OBVIOUS
    <3>1. i \in Nat
      BY <1>0
    <3>2. CASE i \in d + 1 .. d + n
      BY <1>0, <1>4, <3>1, <3>2
    <3>3. CASE i \notin d + 1 .. d + n
      <4>1. sampled'[i] = sampled[i]
        BY <1>4, <3>3
      <4>2. i <= d <=> i <= d + n
        BY <1>0, <1>4, <3>1, <3>3
      <4> QED
        BY <1>1, <4>1, <4>2
    <3> QED
      BY <3>2, <3>3
  <2> QED
    BY <1>4, <2>1 DEF DrawnInOrder
<1>7. Grows
  <2> SUFFICES ASSUME NEW i \in Id, sampled[i] # NoBlock
               PROVE  sampled'[i] = sampled[i]
    BY DEF Grows
  <2>1. i <= d
    BY <1>1
  <2>2. i \notin d + 1 .. d + n
    BY <1>4, <2>1
  <2> QED
    BY <1>4, <2>2
<1>8. TurnTold'
  <2>1. /\ turn'.block = b
        /\ turn'.ids = [k \in 1 .. n |-> d + k]
    BY <1>2, <1>3
  <2>2. \A k \in 1 .. n : d + k \in Id /\ sampled'[d + k] = b
    <3> SUFFICES ASSUME NEW k \in 1 .. n
                 PROVE  d + k \in Id /\ sampled'[d + k] = b
      OBVIOUS
    <3>1. d + k \in d + 1 .. d + n
      BY <1>0, <1>4
    <3> QED
      BY <1>4, <3>1
  <2>3. turn'.ids \in [1 .. n -> Id]
    BY <2>1, <2>2
  <2>4. \A k \in DOMAIN turn'.ids : sampled'[turn'.ids[k]] = turn'.block
    BY <2>1, <2>2
  <2>5. \E l \in Nat : turn'.ids \in [1 .. l -> Id]
    BY <1>0, <2>3
  <2> QED
    BY <2>1, <2>4, <2>5 DEF TurnTold
<1>9. (toolMem \in Faithful(sampled))' /\ (RequestsTold /\ ReplayExact)'
      /\ FilesTold'
  <2>1. /\ process' = process /\ toolMem' = toolMem /\ files' = files
        /\ request' = request
    BY <1>3
  <2>2. toolMem' \in Faithful(sampled)
    BY <2>1 DEF ToolInv
  <2> QED
    BY <1>7, <2>1, <2>2, MemoryStays, RequestsStay, FilesStay DEF ToolInv
<1> QED
  BY <1>5, <1>6, <1>8, <1>9 DEF ToolInv

(* A turn is put into the memory.                                          *)
LEMMA RememberStep ==
    ASSUME ToolInv, RememberTurn
    PROVE  ToolInv'
<1> DEFINE pairs == [k \in DOMAIN turn.ids |-> <<turn.ids[k], turn.block>>]
<1>1. /\ turn # NoTurn /\ toolMem' = PutAll(toolMem, pairs) /\ turn' = NoTurn
      /\ UNCHANGED <<process, sampled, files, writer, request>>
  BY DEF RememberTurn
<1>2. /\ turn.block \in Block
      /\ \A k \in DOMAIN turn.ids : sampled[turn.ids[k]] = turn.block
  BY <1>1 DEF ToolInv, TurnTold
<1>3. PICK n \in Nat : turn.ids \in [1 .. n -> Id]
  BY <1>1 DEF ToolInv, TurnTold
<1>4. pairs \in Pairs(sampled, n)
  <2>1. DOMAIN turn.ids = 1 .. n
    BY <1>3
  <2>2. \A k \in 1 .. n : /\ pairs[k] = <<turn.ids[k], turn.block>>
                          /\ pairs[k] \in Id \X Block
    BY <1>2, <1>3, <2>1
  <2>3. pairs \in [1 .. n -> Id \X Block]
    BY <2>1, <2>2
  <2>4. \A k \in 1 .. n : sampled[pairs[k][1]] = pairs[k][2]
    BY <1>2, <2>1, <2>2
  <2> HIDE DEF pairs
  <2> QED
    BY <2>3, <2>4 DEF Pairs
<1> HIDE DEF pairs
<1>5. process \in Starts /\ toolMem \in Faithful(sampled)
  BY DEF ToolInv, ToolTypes
<1>6. /\ toolMem' \in Faithful(sampled)
      /\ Roomy => Known(toolMem) \subseteq Known(toolMem')
  BY <1>1, <1>4, <1>5, PutAllFacts
<1>7. Ample => Known(toolMem) \subseteq Known(toolMem')
  BY <1>5, <1>6, AmpleIsRoomy
<1>8. ToolTypes'
  BY <1>1 DEF ToolInv, ToolTypes
<1>9. TurnTold'
  BY <1>1 DEF TurnTold
<1> QED
  BY <1>1, <1>6, <1>7, <1>8, <1>9, OthersStay DEF ToolInv

(* The trailer of a text: its pairs are of ids that are known.             *)
LEMMA MappedFacts ==
    ASSUME ToolInv, NEW t \in Text
    PROVE  /\ Mapped(toolMem, t) \in SUBSET (Id \X Block)
           /\ MapBytes(Mapped(toolMem, t)) \in Nat
           /\ Mapped(toolMem, t) # {} => MapBytes(Mapped(toolMem, t)) # 0
           /\ \A p \in Mapped(toolMem, t) : sampled[p[1]] = p[2]
           /\ \A i \in Known(toolMem) : sampled[i] \in t =>
                 /\ i \in Id /\ sampled[i] \in Block
                 /\ <<i, sampled[i]>> \in Mapped(toolMem, t)
<1> DEFINE m == toolMem
<1>1. m \in Sound /\ \A i \in Known(m) : m.block[i] = sampled[i]
  BY DEF ToolInv, Faithful
<1>2. Known(m) \subseteq Id /\ \A i \in Known(m) : m.block[i] \in Block
  BY <1>1, SoundFields
<1> HIDE DEF m
<1>3. Mapped(m, t) \in SUBSET (Id \X Block)
  BY <1>2 DEF Mapped
<1>4. \A p \in Mapped(m, t) : sampled[p[1]] = p[2]
  BY <1>1 DEF Mapped
<1>5. \A i \in Known(m) : sampled[i] \in t =>
         /\ i \in Id /\ sampled[i] \in Block /\ <<i, sampled[i]>> \in Mapped(m, t)
  BY <1>1, <1>2 DEF Mapped
<1> QED
  BY <1>3, <1>4, <1>5, MapBytesFacts DEF m

(* Steps of the writer and of the budget change checkpoints only.          *)
LEMMA StoreStep ==
    ASSUME ToolInv, UNCHANGED <<toolMem, process, sampled, turn, request>>,
           ToolTypes', FilesTold'
    PROVE  ToolInv'
<1>1. toolMem' \in Faithful(sampled) /\ Known(toolMem) \subseteq Known(toolMem')
  BY DEF ToolInv
<1> QED
  BY <1>1, OthersStay DEF ToolInv

\* The checkpoint of a text becomes another one.
LEMMA OneFile ==
    ASSUME ToolInv, sampled' = sampled, NEW t \in Text, NEW f,
           files' = [files EXCEPT ![t] = f],
           f # NoFile => f \in Trailer /\ Told(f, sampled)
    PROVE  files' \in [Text -> Trailer \cup {NoFile}] /\ FilesTold'
<1>1. files \in [Text -> Trailer \cup {NoFile}]
  BY DEF ToolInv, ToolTypes
<1>2. \A u \in Text : files'[u] = IF u = t THEN f ELSE files[u]
  BY <1>1
<1>3. \A u \in Text : files[u] # NoFile => Told(files[u], sampled)
  BY FilesToldEach DEF ToolInv
<1>4. \A u \in Text : files'[u] # NoFile => Told(files'[u], sampled)
  BY <1>2, <1>3
<1>5. FilesTold'
  BY <1>4 DEF FilesTold, Told
<1>6. f \in Trailer \cup {NoFile}
  OBVIOUS
<1> QED
  BY <1>1, <1>5, <1>6

(* A store begins and takes the lock of the checkpoints.                   *)
LEMMA BeginStoreStep ==
    ASSUME ToolInv, NEW t \in Text, BeginStore(t)
    PROVE  ToolInv'
<1> DEFINE f == IF UsableFile(t)
                THEN [files[t] EXCEPT !.map = {}, !.size = 0, !.owes = {}]
                ELSE NoFile
<1>1. /\ files' = [files EXCEPT ![t] = f]
      /\ writer' = [at |-> "measure", text |-> t, inPlace |-> UsableFile(t)]
      /\ UNCHANGED <<toolMem, process, sampled, turn, request>>
  BY DEF BeginStore
<1>2. f # NoFile => f \in Trailer /\ Told(f, sampled)
  <2> SUFFICES ASSUME UsableFile(t) PROVE f \in Trailer /\ Told(f, sampled)
    OBVIOUS
  <2>1. files[t] \in Trailer
    BY DEF ToolInv, ToolTypes, UsableFile
  <2>2. f \in Trailer /\ f.map = {} /\ f.owes = {}
    BY <2>1 DEF Trailer
  <2> QED
    BY <2>2 DEF Told
<1> HIDE DEF f
<1>3. files' \in [Text -> Trailer \cup {NoFile}] /\ FilesTold'
  BY <1>1, <1>2, OneFile
<1>4. /\ writer'.at = "measure" /\ writer'.text = t
  BY <1>1
<1>5. ToolTypes'
  BY <1>1, <1>3, <1>4 DEF ToolInv, ToolTypes
<1> QED
  BY <1>1, <1>3, <1>5, StoreStep

(* The size that the header will have is measured.                         *)
LEMMA MeasureMapStep ==
    ASSUME ToolInv, MeasureMap
    PROVE  ToolInv'
<1> DEFINE n == MapBytes(Mapped(toolMem, writer.text))
<1>1. /\ writer.at = "measure"
      /\ writer' = [at |-> "write", text |-> writer.text,
                    inPlace |-> writer.inPlace, size |-> n]
      /\ UNCHANGED <<toolMem, process, sampled, turn, files, request>>
  BY DEF MeasureMap
<1>2. writer.text \in Text
  BY <1>1 DEF ToolInv, ToolTypes
<1>3. n \in Nat
  BY <1>2, MappedFacts
<1> HIDE DEF n
<1>4. writer'.at = "write" /\ writer'.text = writer.text /\ writer'.size = n
  BY <1>1
<1>5. ToolTypes'
  BY <1>1, <1>2, <1>3, <1>4 DEF ToolInv, ToolTypes
<1>6. FilesTold'
  BY <1>1 DEF ToolInv, FilesTold
<1> QED
  BY <1>1, <1>5, <1>6, StoreStep

(* The trailer is written, later, of the memory as it is then.             *)
LEMMA WriteMapStep ==
    ASSUME ToolInv, WriteMap
    PROVE  ToolInv'
<1> DEFINE t == writer.text
           map == Mapped(toolMem, t)
           agree == MapBytes(map) = writer.size
           owes == {i \in Known(toolMem) : agree /\ sampled[i] \in t}
           f == [model |-> process.model, map |-> map, size |-> writer.size,
                 owes |-> owes]
<1>1. /\ writer.at = "write" /\ writer' = NoStore
      /\ files' = IF agree \/ writer.inPlace
                  THEN [files EXCEPT ![t] = f] ELSE files
      /\ UNCHANGED <<toolMem, process, sampled, turn, request>>
  BY DEF WriteMap
<1>2. t \in Text /\ writer.size \in Nat
  BY <1>1 DEF ToolInv, ToolTypes
<1>3. /\ map \in SUBSET (Id \X Block)
      /\ map # {} => MapBytes(map) # 0
      /\ \A p \in map : sampled[p[1]] = p[2]
      /\ \A i \in Known(toolMem) : sampled[i] \in t =>
            i \in Id /\ sampled[i] \in Block /\ <<i, sampled[i]>> \in map
  BY <1>2, MappedFacts
<1>4. owes \in SUBSET Id
  BY <1>3
<1>5. process.model \in {s.model : s \in Starts}
  BY DEF ToolInv, ToolTypes
<1>6. \A i \in owes : sampled[i] \in Block /\ <<i, sampled[i]>> \in map
  BY <1>3
<1>7. owes # {} => writer.size # 0
  <2> SUFFICES ASSUME NEW i \in owes PROVE writer.size # 0
    OBVIOUS
  <2>1. map # {} /\ agree
    BY <1>6
  <2> QED
    BY <1>3, <2>1
<1>8. /\ f.map = map /\ f.owes = owes /\ f.size = writer.size
      /\ f = [model |-> process.model, map |-> map, size |-> writer.size,
              owes |-> owes]
  OBVIOUS
<1> HIDE DEF map, owes, f, agree
<1>9. f \in Trailer
  BY <1>2, <1>3, <1>4, <1>5, <1>8 DEF Trailer
<1>10. Told(f, sampled)
  BY <1>3, <1>6, <1>7, <1>8 DEF Told
<1>11. files' \in [Text -> Trailer \cup {NoFile}] /\ FilesTold'
  <2>1. CASE files' = [files EXCEPT ![t] = f]
    BY <1>1, <1>2, <1>9, <1>10, <2>1, OneFile
  <2>2. CASE files' = files
    BY <1>1, <2>2 DEF ToolInv, ToolTypes, FilesTold
  <2> QED
    BY <1>1, <2>1, <2>2
<1>12. writer'.at = "idle"
  BY <1>1 DEF NoStore
<1>13. ToolTypes'
  BY <1>1, <1>11, <1>12 DEF ToolInv, ToolTypes
<1> QED
  BY <1>1, <1>11, <1>13, StoreStep

(* A checkpoint is removed.                                                *)
LEMMA RemoveFileStep ==
    ASSUME ToolInv, NEW t \in Text, RemoveFile(t)
    PROVE  ToolInv'
<1>1. /\ files' = [files EXCEPT ![t] = NoFile]
      /\ UNCHANGED <<toolMem, process, sampled, turn, writer, request>>
  BY DEF RemoveFile
<1>2. files' \in [Text -> Trailer \cup {NoFile}] /\ FilesTold'
  BY <1>1, OneFile
<1>3. ToolTypes'
  BY <1>1, <1>2 DEF ToolInv, ToolTypes
<1> QED
  BY <1>1, <1>2, <1>3, StoreStep

(* What a reader takes is of the trailer; and when nothing can be pushed   *)
(* out, it takes all of a trailer that owes an id.                         *)
LEMMA ReadableFacts ==
    ASSUME ToolInv, NEW t \in Text, UsableFile(t)
    PROVE  /\ Readable(files[t]) \in SUBSET (Id \X Block)
           /\ \A p \in Readable(files[t]) : sampled[p[1]] = p[2]
           /\ Ample => \A i \in files[t].owes :
                 <<i, sampled[i]>> \in Readable(files[t])
           /\ files[t].owes \in SUBSET Id
<1> DEFINE f == files[t]
<1>1. f \in Trailer /\ Told(f, sampled)
  <2>1. f \in Trailer
    BY DEF ToolInv, ToolTypes, UsableFile
  <2> QED
    BY <2>1, FilesToldEach DEF ToolInv, UsableFile
<1> HIDE DEF f
<1>2. f.map \in SUBSET (Id \X Block) /\ f.owes \in SUBSET Id
  BY <1>1 DEF Trailer
<1>3. Readable(f) \subseteq f.map
  BY DEF Readable
<1>4. \A p \in f.map : sampled[p[1]] = p[2]
  BY <1>1 DEF Told
<1>5. ASSUME Ample, NEW i \in f.owes PROVE <<i, sampled[i]>> \in Readable(f)
  <2>1. <<i, sampled[i]>> \in f.map /\ f.size # 0
    BY <1>1 DEF Told
  <2>2. Cardinality(f.map) <= Cardinality(Id)
    <3> DEFINE g == [p \in f.map |-> p[1]]
    <3>1. g \in [f.map -> Id]
      BY <1>2
    <3>2. IsInjective(g)
      <4> SUFFICES ASSUME NEW p \in f.map, NEW q \in f.map, g[p] = g[q]
                   PROVE  p = q
        BY DEF IsInjective
      <4>1. p[1] = q[1] /\ p[2] = q[2]
        BY <1>4
      <4>2. p = <<p[1], p[2]>> /\ q = <<q[1], q[2]>>
        BY <1>2
      <4> QED
        BY <4>1, <4>2
    <3>3. g \in Injection(f.map, Id)
      BY <3>1, <3>2 DEF Injection
    <3> HIDE DEF g
    <3> QED
      BY <3>3, IdsFinite, FS_Injection
  <2>3. /\ Cardinality(f.map) \in Nat /\ Cardinality(Id) \in Nat
        /\ process.ids \in Nat
    <3>1. IsFiniteSet(f.map)
      <4>1. IsFiniteSet(Id \X Block)
        BY IdsFinite, ToolAssumption, FS_Product
      <4> QED
        BY <1>2, <4>1, FS_Subset
    <3>2. process.ids \in Nat
      BY ToolAssumption DEF ToolInv, ToolTypes
    <3> QED
      BY <3>1, <3>2, IdsFinite, FS_CardinalityType
  <2>4. process.ids >= Cardinality(Id)
    BY <1>5 DEF Ample
  <2>5. ~(Cardinality(f.map) > 4 * process.ids)
    BY <2>2, <2>3, <2>4
  <2> QED
    BY <2>1, <2>5 DEF Readable
<1> QED
  BY <1>2, <1>3, <1>4, <1>5 DEF f

(* A checkpoint is loaded and its trailer put into the memory.             *)
LEMMA LoadFileStep ==
    ASSUME ToolInv, NEW t \in Text, LoadFile(t)
    PROVE  ToolInv'
<1> DEFINE S == Readable(files[t])
<1>1. /\ UsableFile(t)
      /\ UNCHANGED <<process, sampled, turn, files, writer, request>>
  BY DEF LoadFile
<1>2. PICK pairs \in SetToSeqs(S) : toolMem' = PutAll(toolMem, pairs)
  BY DEF LoadFile
<1>3. S \in SUBSET (Id \X Block) /\ \A p \in S : sampled[p[1]] = p[2]
  BY <1>1, ReadableFacts
<1> HIDE DEF S
<1>4. process \in Starts /\ toolMem \in Faithful(sampled)
  BY DEF ToolInv, ToolTypes
<1>5. /\ toolMem' \in Faithful(sampled)
      /\ Roomy => Known(toolMem) \subseteq Known(toolMem')
  BY <1>2, <1>3, <1>4, PutSet
<1>6. Ample => Known(toolMem) \subseteq Known(toolMem')
  BY <1>4, <1>5, AmpleIsRoomy
<1>7. ToolTypes'
  BY <1>1 DEF ToolInv, ToolTypes
<1> QED
  BY <1>1, <1>5, <1>6, <1>7, OthersStay DEF ToolInv

(* What is common to the steps of one request.                             *)
LEMMA RequestStep ==
    ASSUME ToolInv, NEW c \in Client, NEW r \in Asked,
           UNCHANGED <<process, sampled, turn, files, writer>>,
           request' = [request EXCEPT ![c] = r],
           toolMem' \in Faithful(sampled),
           Ample => Known(toolMem) \subseteq Known(toolMem'),
           Asks(r, sampled, toolMem'), Answers(r, sampled)
    PROVE  ToolInv'
<1>1. DrawnInOrder' /\ Grows
  BY NoneDrawn DEF ToolInv
<1>2. TurnTold' /\ FilesTold' /\ (toolMem \in Faithful(sampled))'
  BY <1>1, TurnStays, FilesStay, MemoryStays DEF ToolInv
<1>3. request \in [Client -> Asked]
  BY DEF ToolInv, ToolTypes
<1>4. request' \in [Client -> Asked]
  BY <1>3
<1>5. ToolTypes'
  BY <1>4 DEF ToolInv, ToolTypes
<1>6. ASSUME NEW d \in Client
      PROVE  Asks(request'[d], sampled', toolMem')
             /\ Answers(request'[d], sampled')
  <2>1. CASE d = c
    <3>1. request'[d] = r
      BY <1>3, <2>1
    <3> QED
      BY <3>1
  <2>2. CASE d # c
    <3>1. request'[d] = request[d]
      BY <1>3, <2>2
    <3>2. Asks(request[d], sampled', toolMem') /\ Answers(request[d], sampled')
      BY <1>1, RequestStays DEF ToolInv
    <3> QED
      BY <3>1, <3>2
  <2> QED
    BY <2>1, <2>2
<1>7. (RequestsTold /\ ReplayExact)'
  BY <1>6, RequestsEachNext
<1> QED
  BY <1>1, <1>2, <1>5, <1>7 DEF ToolInv

(* A request with ids arrives.                                             *)
LEMMA AskReplayStep ==
    ASSUME ToolInv, NEW c \in Client, NEW msg \in Messages, AskReplay(c, msg)
    PROVE  ToolInv'
<1> DEFINE r == [at |-> "scan", msg |-> msg, left |-> Text,
                 seen |-> ToSet(msg) \cap Known(toolMem), answer |-> NoBlock]
<1>1. /\ \A i \in ToSet(msg) : sampled[i] # NoBlock
      /\ request' = [request EXCEPT ![c] = r]
      /\ UNCHANGED <<toolMem, process, sampled, turn, files, writer>>
  BY DEF AskReplay
<1>2. PICK n \in 1 .. MaxCalls : msg \in [1 .. n -> Id]
  BY DEF Messages
<1>3. msg \in Seq(Id) /\ msg # <<>>
  <2>1. n \in Nat /\ 1 \in 1 .. n
    BY ToolAssumption
  <2>2. msg \in Seq(Id)
    BY <1>2, <2>1, SeqDef
  <2>3. Len(msg) = n
    BY <1>2, <2>1
  <2> QED
    BY <2>1, <2>2, <2>3, EmptySeq
<1>4. toolMem \in Faithful(sampled) /\ Known(toolMem) \subseteq Id
  <2>1. toolMem \in Faithful(sampled)
    BY DEF ToolInv
  <2>2. toolMem \in Sound
    BY <2>1 DEF Faithful
  <2> QED
    BY <2>1, <2>2, SoundFields
<1>5. r \in Asked
  <2>1. ToSet(msg) \cap Known(toolMem) \in SUBSET Id
    BY <1>4
  <2> QED
    BY <1>3, <2>1 DEF Asked
<1>6. Asks(r, sampled, toolMem) /\ Answers(r, sampled)
  BY <1>1, <1>3 DEF Asks, Answers
<1> HIDE DEF r
<1>7. toolMem' = toolMem
  BY <1>1
<1> QED
  BY <1>1, <1>4, <1>5, <1>6, <1>7, RequestStep

(* A request looks into one checkpoint for its ids.                        *)
LEMMA ScanFileStep ==
    ASSUME ToolInv, NEW c \in Client, NEW t \in Text, ScanFile(c, t)
    PROVE  ToolInv'
<1> DEFINE r == request[c]
           S == IF UsableFile(t)
                THEN {p \in Readable(files[t]) : p[1] \in ToSet(r.msg)}
                ELSE {}
           owed == IF UsableFile(t) THEN files[t].owes \cap ToSet(r.msg) ELSE {}
           next == [r EXCEPT !.left = @ \ {t}, !.seen = @ \cup owed]
<1>1. /\ r.at = "scan" /\ t \in r.left
      /\ \E pairs \in SetToSeqs(S) : toolMem' = PutAll(toolMem, pairs)
      /\ request' = [request EXCEPT ![c].left = @ \ {t},
                                    ![c].seen = @ \cup owed]
      /\ UNCHANGED <<process, sampled, turn, files, writer>>
  BY DEF ScanFile
<1>2. PICK pairs \in SetToSeqs(S) : toolMem' = PutAll(toolMem, pairs)
  BY <1>1
<1>3. /\ S \in SUBSET (Id \X Block) /\ \A p \in S : sampled[p[1]] = p[2]
      /\ owed \in SUBSET Id
      /\ Ample => \A i \in owed : <<i, sampled[i]>> \in S
  <2>1. CASE UsableFile(t)
    <3>1. /\ Readable(files[t]) \in SUBSET (Id \X Block)
          /\ \A p \in Readable(files[t]) : sampled[p[1]] = p[2]
          /\ Ample => \A i \in files[t].owes :
                <<i, sampled[i]>> \in Readable(files[t])
          /\ files[t].owes \in SUBSET Id
      BY <2>1, ReadableFacts
    <3> QED
      BY <2>1, <3>1
  <2>2. CASE ~UsableFile(t)
    BY <2>2
  <2> QED
    BY <2>1, <2>2
<1> HIDE DEF S, owed
<1>4. process \in Starts /\ toolMem \in Faithful(sampled)
  BY DEF ToolInv, ToolTypes
<1>5. /\ toolMem' \in Faithful(sampled)
      /\ Roomy => /\ Known(toolMem) \subseteq Known(toolMem')
                  /\ \A p \in S : p[1] \in Known(toolMem')
  BY <1>2, <1>3, <1>4, PutSet
<1>6. r \in Asked /\ Asks(r, sampled, toolMem)
  BY RequestsEach DEF ToolInv, ToolTypes
<1>7. /\ next \in Asked /\ next.at = "scan" /\ next.msg = r.msg
      /\ next.seen = r.seen \cup owed
  BY <1>1, <1>3, <1>6 DEF Asked
<1>8. request' = [request EXCEPT ![c] = next]
  <2>1. request \in [Client -> Asked]
    BY DEF ToolInv, ToolTypes
  <2>2. request' = [request EXCEPT ![c] = [request[c] EXCEPT
                       !.left = @ \ {t}, !.seen = @ \cup owed]]
    BY <1>1, <2>1
  <2> QED
    BY <2>2
<1> HIDE DEF next, r
<1>9. Ample => Known(toolMem) \subseteq Known(toolMem')
               /\ owed \subseteq Known(toolMem')
  <2> SUFFICES ASSUME Ample
               PROVE  Known(toolMem) \subseteq Known(toolMem')
                      /\ owed \subseteq Known(toolMem')
    OBVIOUS
  <2>1. Roomy
    BY <1>4, AmpleIsRoomy
  <2>2. \A i \in owed : i \in Known(toolMem')
    <3> SUFFICES ASSUME NEW i \in owed PROVE i \in Known(toolMem')
      OBVIOUS
    <3>1. <<i, sampled[i]>> \in S
      BY <1>3
    <3>2. <<i, sampled[i]>>[1] \in Known(toolMem')
      BY <1>5, <2>1, <3>1
    <3> QED
      BY <3>2
  <2> QED
    BY <1>5, <2>1, <2>2
<1>10. Asks(next, sampled, toolMem')
  BY <1>1, <1>6, <1>7, <1>9 DEF Asks
<1>11. Answers(next, sampled)
  BY <1>7 DEF Answers
<1> QED
  BY <1>1, <1>5, <1>7, <1>8, <1>9, <1>10, <1>11, RequestStep

(* A request is given the text of its ids.                                 *)
LEMMA AttachTextStep ==
    ASSUME ToolInv, NEW c \in Client, AttachText(c)
    PROVE  ToolInv'
<1> DEFINE r == request[c]
           m == toolMem
           a == Replay(m, r.msg)
           next == [r EXCEPT !.at = "attached", !.answer = a]
           I == ToSet(r.msg)
           blocks == {m.block[i] : i \in I}
<1>1. /\ r.at = "scan" /\ toolMem' = FoldLeft(LookUp, m, r.msg)
      /\ request' = [request EXCEPT ![c].at = "attached", ![c].answer = a]
      /\ UNCHANGED <<process, sampled, turn, files, writer>>
  BY DEF AttachText
<1>2. /\ r \in Asked /\ r.msg \in Seq(Id) /\ I \subseteq Id
      /\ r.msg # <<>> => r.msg[1] \in I
  BY MessageIds DEF ToolInv
<1>3. /\ r.msg # <<>> /\ \A i \in I : sampled[i] # NoBlock
      /\ Ample => r.seen \subseteq Known(m)
  BY <1>1, RequestsEach DEF ToolInv, Asks
<1>4. m \in Faithful(sampled)
  BY DEF ToolInv
<1> HIDE DEF m
<1>5. /\ m.block \in [Id -> Block \cup {NoBlock}]
      /\ \A i \in Id : i \in Known(m) <=> m.block[i] # NoBlock
      /\ \A i \in Known(m) : m.block[i] = sampled[i]
  BY <1>4, SoundFields DEF Faithful
<1>6. /\ toolMem' \in Faithful(sampled) /\ Known(toolMem') = Known(m)
  BY <1>1, <1>2, <1>4, LookUpAll
<1>7. a = IF Cardinality(blocks) = 1 THEN m.block[r.msg[1]] ELSE NoBlock
  BY DEF Replay
<1>8. r.msg[1] \in I /\ r.msg[1] \in Id
  BY <1>2, <1>3
<1> DEFINE x == r.msg[1]
<1> HIDE DEF a, I, x
<1>10. a # NoBlock => \A i \in I : sampled[i] = a
  <2> SUFFICES ASSUME a # NoBlock, NEW i \in I PROVE sampled[i] = a
    OBVIOUS
  <2>1. Cardinality(blocks) = 1 /\ a = m.block[x]
    BY <1>7 DEF x
  <2>2. IsFiniteSet(blocks)
    <3>1. blocks \subseteq Block \cup {NoBlock}
      BY <1>2, <1>5
    <3>2. IsFiniteSet(Block \cup {NoBlock})
      BY ToolAssumption, FS_AddElement
    <3> QED
      BY <3>1, <3>2, FS_Subset
  <2>3. PICK b : blocks = {b}
    BY <2>1, <2>2, FS_Singleton
  <2>4. m.block[i] = a
    BY <1>8, <2>1, <2>3 DEF x
  <2>5. i \in Known(m)
    BY <1>2, <1>5, <2>4
  <2> QED
    BY <1>5, <2>4, <2>5
<1>11. ASSUME Ample, I \subseteq r.seen, Cardinality({sampled[i] : i \in I}) = 1
       PROVE  a # NoBlock
  <2>1. I \subseteq Known(m)
    BY <1>3, <1>11
  <2>2. \A i \in I : m.block[i] = sampled[i]
    BY <1>5, <2>1
  <2>3. blocks = {sampled[i] : i \in I}
    BY <2>2
  <2>4. a = m.block[x]
    BY <1>7, <1>11, <2>3 DEF x
  <2> QED
    BY <1>3, <1>8, <2>2, <2>4 DEF x
<1>12. a \in Block \cup {NoBlock}
  BY <1>5, <1>7, <1>8
<1>13. /\ next \in Asked /\ next.at = "attached" /\ next.msg = r.msg
       /\ next.seen = r.seen /\ next.answer = a
  BY <1>2, <1>12 DEF Asked
<1>14. request' = [request EXCEPT ![c] = next]
  <2>1. request \in [Client -> Asked]
    BY DEF ToolInv, ToolTypes
  <2>2. request' = [request EXCEPT ![c] = [request[c] EXCEPT
                       !.at = "attached", !.answer = a]]
    BY <1>1, <2>1
  <2> QED
    BY <2>2
<1>15. toolMem = m
  BY DEF m
<1> HIDE DEF next, r
<1>16. Asks(next, sampled, toolMem')
  BY <1>3, <1>13 DEF Asks, I
<1>17. Answers(next, sampled)
  BY <1>10, <1>11, <1>13 DEF Answers, I
<1> QED
  BY <1>1, <1>6, <1>13, <1>14, <1>15, <1>16, <1>17, RequestStep

(* A request is rendered.                                                  *)
LEMMA RenderPromptStep ==
    ASSUME ToolInv, NEW c \in Client, RenderPrompt(c)
    PROVE  ToolInv'
<1>1. /\ request' = [request EXCEPT ![c] = NoRequest]
      /\ UNCHANGED <<toolMem, process, sampled, turn, files, writer>>
  BY DEF RenderPrompt
<1>2. NoRequest \in Asked
  BY DEF NoRequest, Asked
<1>3. toolMem' \in Faithful(sampled) /\ Known(toolMem) \subseteq Known(toolMem')
  BY <1>1 DEF ToolInv
<1>4. Asks(NoRequest, sampled, toolMem') /\ Answers(NoRequest, sampled)
  BY DEF NoRequest, Asks, Answers
<1> QED
  BY <1>1, <1>2, <1>3, <1>4, RequestStep

(* A process ends and another one begins, with an empty memory.            *)
LEMMA RestartStep ==
    ASSUME ToolInv, NEW s \in Starts, Restart(s)
    PROVE  ToolInv'
<1>1. /\ process' = s /\ toolMem' = EmptyMemory /\ turn' = NoTurn
      /\ writer' = NoStore /\ request' = [c \in Client |-> NoRequest]
      /\ sampled' = sampled /\ files' = files
  BY DEF Restart
<1>2. DrawnInOrder' /\ Grows
  BY <1>1, NoneDrawn DEF ToolInv
<1>3. ToolTypes'
  BY <1>1 DEF ToolInv, ToolTypes, NoStore, NoRequest, Asked
<1>4. TurnTold' /\ FilesTold'
  BY <1>1, <1>2, FilesStay DEF ToolInv, TurnTold
<1>5. (toolMem \in Faithful(sampled))'
  <2>1. EmptyMemory \in Sound /\ Known(EmptyMemory) = {}
    BY EmptySound
  <2>2. ~(Len(EmptyMemory.lru) > s.ids \/ EmptyMemory.bytes > s.bytes)
    <3>1. s.ids \in Nat /\ s.bytes \in Nat
      BY ToolAssumption
    <3>2. Len(EmptyMemory.lru) = 0 /\ EmptyMemory.bytes = 0
      BY DEF EmptyMemory
    <3> QED
      BY <3>1, <3>2
  <2> QED
    BY <1>1, <2>1, <2>2 DEF Faithful, OverLimit
<1>6. (RequestsTold /\ ReplayExact)'
  <2>1. \A c \in Client : request'[c].at = "idle"
    BY <1>1 DEF NoRequest
  <2> QED
    BY <2>1 DEF RequestsTold, ReplayExact
<1> QED
  BY <1>2, <1>3, <1>4, <1>5, <1>6 DEF ToolInv

(* Every step keeps the invariant.                                         *)
LEMMA ToolInvNext == ToolInv /\ [ToolNext]_toolVars => ToolInv'
<1> SUFFICES ASSUME ToolInv, [ToolNext]_toolVars PROVE ToolInv'
  OBVIOUS
<1>1. ASSUME NEW b \in Block, NEW n \in 1 .. MaxCalls, Sample(b, n)
      PROVE  ToolInv'
  BY <1>1, SampleStep
<1>2. CASE RememberTurn
  BY <1>2, RememberStep
<1>3. CASE MeasureMap
  BY <1>3, MeasureMapStep
<1>4. CASE WriteMap
  BY <1>4, WriteMapStep
<1>5. ASSUME NEW t \in Text, BeginStore(t) \/ RemoveFile(t) \/ LoadFile(t)
      PROVE  ToolInv'
  BY <1>5, BeginStoreStep, RemoveFileStep, LoadFileStep
<1>6. ASSUME NEW c \in Client, NEW msg \in Messages, AskReplay(c, msg)
      PROVE  ToolInv'
  BY <1>6, AskReplayStep
<1>7. ASSUME NEW c \in Client, NEW t \in Text, ScanFile(c, t) PROVE ToolInv'
  BY <1>7, ScanFileStep
<1>8. ASSUME NEW c \in Client, AttachText(c) \/ RenderPrompt(c) PROVE ToolInv'
  BY <1>8, AttachTextStep, RenderPromptStep
<1>9. ASSUME NEW s \in Starts, Restart(s) PROVE ToolInv'
  BY <1>9, RestartStep
<1>10. CASE UNCHANGED toolVars
  <2>1. UNCHANGED <<toolMem, process, sampled, turn, files, writer, request>>
    BY <1>10 DEF toolVars
  <2>2. /\ toolMem' \in Faithful(sampled)
        /\ Known(toolMem) \subseteq Known(toolMem')
    BY <2>1 DEF ToolInv
  <2>3. ToolTypes'
    BY <2>1 DEF ToolInv, ToolTypes
  <2> QED
    BY <2>1, <2>2, <2>3, OthersStay DEF ToolInv
<1> QED
  BY <1>1, <1>2, <1>3, <1>4, <1>5, <1>6, <1>7, <1>8, <1>9, <1>10 DEF ToolNext

(* The invariant holds.                                                    *)
LEMMA ToolInvHolds == ToolSpec => []ToolInv
<1>1. ToolInit => ToolInv
  BY ToolInvInit
<1>2. ToolInv /\ [ToolNext]_toolVars => ToolInv'
  BY ToolInvNext
<1> QED
  BY <1>1, <1>2, PTL DEF ToolSpec

(* The counters of the memory, which decide what is pruned, say what it    *)
(* holds, and both of its limits hold.                                     *)
LEMMA FaithfulIsAccounted ==
    toolMem \in Faithful(sampled) => MemoryAccounted
<1> SUFFICES ASSUME toolMem \in Faithful(sampled) PROVE MemoryAccounted
  OBVIOUS
<1> DEFINE m == toolMem
           used == {m.block[i] : i \in Known(m)}
<1>1. m \in Sound /\ ~OverLimit(m)
  BY DEF Faithful
<1>2. /\ Fits(m.lru, m.block, m.refs, m.bytes) /\ IsInjective(m.lru)
      /\ m.lru \in Seq(Id) /\ Known(m) \subseteq Id
      /\ \A i \in Known(m) : m.block[i] \in Block
      /\ \A i \in Id : i \in Known(m) <=> m.block[i] # NoBlock
  BY <1>1, SoundFields
<1>3. NoBlock \notin Block
  BY ToolAssumption
<1>4. used = Used(m.block)
  <2>1. used \subseteq Block
    BY <1>2
  <2>2. \A b \in Block : b \in used <=> \E i \in Id : m.block[i] = b
    BY <1>2, <1>3
  <2> HIDE DEF used
  <2> QED
    BY <2>1, <2>2 DEF Used, IdsOf
<1>5. NoBlock \notin used /\ \A i \in Id \ Known(m) : m.block[i] = NoBlock
  BY <1>2, <1>3
<1>6. \A b \in Block : m.refs[b] = Cardinality({i \in Id : m.block[i] = b})
  BY <1>2 DEF Fits, IdsOf
<1>7. m.bytes = EntryBytes * Len(m.lru) + BlockBytes(used)
  <2>1. m.bytes = Len(m.lru) + LengthSum(used)
    BY <1>2, <1>4 DEF Fits
  <2>2. used \in SUBSET Block
    BY <1>2
  <2> HIDE DEF used
  <2>3. BlockBytes(used) = LengthSum(used)
    BY <2>2, BlockBytesAreSum
  <2>4. Len(m.lru) \in Nat
    BY <1>2, LenProperties
  <2> QED
    BY <2>1, <2>3, <2>4 DEF EntryBytes
<1>8. m.bytes = EntryBytes * Len(m.lru)
                + MapThenSumSet(LAMBDA b : Length[b], used)
  BY <1>7 DEF BlockBytes
<1> QED
  BY <1>1, <1>2, <1>5, <1>6, <1>8 DEF MemoryAccounted

(* What tool_memory_put_locked and tool_memory_prune_locked count is what  *)
(* the memory holds: an id has a block that stays until its last id goes,  *)
(* the bytes are those of the ids and of each block once, and neither of   *)
(* the two limits is passed, whatever threads put, look up and load.       *)
THEOREM MemoryIsAccounted == ToolSpec => []MemoryAccounted
<1>1. ToolInv => MemoryAccounted
  BY FaithfulIsAccounted DEF ToolInv
<1> QED
  BY <1>1, ToolInvHolds, PTL

(* The text tool_memory_attach_to_messages gives a message is what the     *)
(* model sampled for every one of its ids, whichever process drew them and *)
(* whichever checkpoints brought them back; and where limits are ample, a  *)
(* message whose ids were all seen on the way gets its text.               *)
THEOREM RepliesAreExact == ToolSpec => []ReplayExact
<1>1. ToolInv => ReplayExact
  BY DEF ToolInv
<1> QED
  BY <1>1, ToolInvHolds, PTL
=============================================================================
