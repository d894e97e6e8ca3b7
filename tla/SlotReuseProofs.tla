-------------------------- MODULE SlotReuseProofs --------------------------
(***************************************************************************)
(* For every bound on conversations, every context, quantum, checkpoint    *)
(* policy, set of protocols and set of faults: what a job evaluates, what  *)
(* it reports as cached, what it counts as stored and what is written to   *)
(* disk.  The first part says what the text of tokens and the tokens of a  *)
(* text are, by induction on their length.                                 *)
(***************************************************************************)
EXTENDS SlotReuse, TLAPS, SequenceTheorems, FiniteSetTheorems,
        WellFoundedInduction

-----------------------------------------------------------------------------
(* Induction on numbers, as a set that has no least member.                *)

(* A set of numbers that has no first one is empty.                        *)
LEMMA NoFirst ==
    ASSUME NEW T \in SUBSET Nat,
           \A n \in T : \E m \in T : m < n
    PROVE  T = {}
<1> DEFINE R == OpToRel(<, Nat)
<1>1. IsWellFoundedOn(R, Nat)
  BY NatLessThanWellFounded
<1>2. \A x, y \in Nat : y < x => <<y, x>> \in R
  BY DEF OpToRel
<1> HIDE DEF R
<1>3. SUFFICES ASSUME T # {} PROVE FALSE
  OBVIOUS
<1>4. PICK x \in T : \A y \in T : ~(<<y, x>> \in R)
  BY <1>1, <1>3, WFMin
<1> QED
  BY <1>2, <1>4

(* What is so of 0, and of the next of each number it is so of, is so of   *)
(* all up to a bound.                                                      *)
LEMMA UpTo ==
    ASSUME NEW n \in Nat, NEW T \in SUBSET (0 .. n), 0 \in T,
           \A i \in 0 .. n - 1 : i \in T => i + 1 \in T
    PROVE  T = 0 .. n
<1> DEFINE Rest == (0 .. n) \ T
<1>1. \A k \in Rest : \E m \in Rest : m < k
  <2> SUFFICES ASSUME NEW k \in Rest PROVE \E m \in Rest : m < k
    OBVIOUS
  <2>1. k \in Nat /\ k # 0 /\ k <= n /\ k \notin T
    OBVIOUS
  <2>2. k - 1 \in 0 .. n - 1 /\ (k - 1) + 1 = k
    BY <2>1
  <2>3. k - 1 \notin T
    BY <2>1, <2>2
  <2> QED
    BY <2>2, <2>3
<1>2. Rest = {}
  <2> Rest \in SUBSET Nat
    OBVIOUS
  <2> HIDE DEF Rest
  <2> QED
    BY <1>1, NoFirst
<1> QED
  BY <1>2

\* h[i] is what i steps of g make of x.
Iterates(h, x, g, n) ==
    h[0] = x /\ \A i \in 1 .. n : h[i] = g[<<h[i - 1], i>>]

(* A step function can be applied any number of times.                     *)
LEMMA Iterated ==
    ASSUME NEW X, NEW x \in X, NEW n \in Nat, NEW g \in [X \X (1 .. n) -> X]
    PROVE  \E h \in [0 .. n -> X] : Iterates(h, x, g, n)
<1> DEFINE Good(h, k) == h[0] = x /\ \A i \in 1 .. k : h[i] = g[<<h[i - 1], i>>]
           T == {k \in 0 .. n : \E h \in [0 .. n -> X] : Good(h, k)}
<1>1. 0 \in T
  <2>1. [i \in 0 .. n |-> x] \in [0 .. n -> X]
    OBVIOUS
  <2>2. Good([i \in 0 .. n |-> x], 0)
    OBVIOUS
  <2> HIDE DEF Good
  <2> QED
    BY <2>1, <2>2
<1>2. ASSUME NEW k \in 0 .. n - 1, k \in T PROVE k + 1 \in T
  <2>1. PICK h \in [0 .. n -> X] : Good(h, k)
    BY <1>2
  <2> DEFINE j == [h EXCEPT ![k + 1] = g[<<h[k], k + 1>>]]
  <2>2. k \in 0 .. n /\ k + 1 \in 1 .. n /\ k + 1 \in 0 .. n
    OBVIOUS
  <2>3. h[k] \in X /\ g[<<h[k], k + 1>>] \in X
    BY <2>2
  <2>4. j \in [0 .. n -> X]
    BY <2>2, <2>3
  <2>5. ASSUME NEW i \in 1 .. k + 1 PROVE j[i] = g[<<j[i - 1], i>>]
    <3>1. i - 1 \in 0 .. n /\ i - 1 # k + 1 /\ j[i - 1] = h[i - 1]
      BY <2>2
    <3>2. CASE i = k + 1
      BY <2>2, <3>1, <3>2
    <3>3. CASE i # k + 1
      <4>1. i \in 1 .. k /\ i \in 0 .. n
        BY <2>2, <3>3
      <4>2. j[i] = h[i]
        BY <3>3, <4>1
      <4> QED
        BY <2>1, <3>1, <4>1, <4>2
    <3> QED
      BY <3>2, <3>3
  <2>6. j[0] = x
    BY <2>1, <2>2
  <2>7. Good(j, k + 1)
    <3> HIDE DEF j
    <3> QED
      BY <2>5, <2>6
  <2> HIDE DEF j, Good
  <2> QED
    BY <2>2, <2>4, <2>7
<1>3. T = 0 .. n
  <2> T \in SUBSET (0 .. n)
    OBVIOUS
  <2> HIDE DEF T
  <2> QED
    BY <1>1, <1>2, UpTo
<1>4. n \in T
  <2> HIDE DEF T
  <2> QED
    BY <1>3
<1> QED
  BY <1>4 DEF Iterates

-----------------------------------------------------------------------------
(* FlattenSeq, one sequence at a time.                                     *)

\* f[i] is the first i sequences, one after the other, as FlattenSeq has it.
Flattens(f, seqs) ==
    f = [i \in 1 .. Len(seqs) |->
            IF i = 1 THEN seqs[i] ELSE f[i - 1] \o seqs[i]]

LEMMA FlattenIs ==
    ASSUME NEW S, NEW seqs \in Seq(Seq(S)), Len(seqs) # 0
    PROVE  \E f : Flattens(f, seqs) /\ FlattenSeq(seqs) = f[Len(seqs)]
<1> DEFINE n == Len(seqs)
           g == [p \in Seq(S) \X (1 .. n) |-> p[1] \o seqs[p[2]]]
<1>1. n \in Nat /\ \A i \in 1 .. n : seqs[i] \in Seq(S)
  OBVIOUS
<1>2. g \in [Seq(S) \X (1 .. n) -> Seq(S)]
  <2> SUFFICES ASSUME NEW p \in Seq(S) \X (1 .. n)
               PROVE  p[1] \o seqs[p[2]] \in Seq(S)
    OBVIOUS
  <2> p[1] \in Seq(S) /\ seqs[p[2]] \in Seq(S)
    BY <1>1
  <2> QED
    BY ConcatProperties
<1>3. PICK h \in [0 .. n -> Seq(S)] :
          /\ h[0] = <<>>
          /\ \A i \in 1 .. n : h[i] = g[<<h[i - 1], i>>]
  <2>1. <<>> \in Seq(S)
    OBVIOUS
  <2> HIDE DEF g, n
  <2> DEFINE X == Seq(S)
  <2>2. <<>> \in X /\ g \in [X \X (1 .. n) -> X]
    BY <1>2, <2>1
  <2> HIDE DEF X
  <2>3. \E h \in [0 .. n -> X] : Iterates(h, <<>>, g, n)
    <3>1. n \in Nat
      BY <1>1
    <3> QED
      BY <2>2, <3>1, Iterated
  <2> QED
    BY <2>3 DEF X, Iterates
<1> DEFINE f == [i \in 1 .. n |-> h[i]]
<1>4. ASSUME NEW i \in 1 .. n
      PROVE  f[i] = IF i = 1 THEN seqs[i] ELSE f[i - 1] \o seqs[i]
  <2>1. i - 1 \in 0 .. n /\ h[i - 1] \in Seq(S)
    BY <1>1, <1>3
  <2>2. h[i] = h[i - 1] \o seqs[i]
    BY <1>3, <2>1
  <2>3. CASE i = 1
    <3>1. h[i] = <<>> \o seqs[i] /\ seqs[i] \in Seq(S)
      BY <1>1, <1>3, <2>2, <2>3
    <3> QED
      BY <2>3, <3>1, ConcatEmptySeq
  <2>4. CASE i # 1
    <3>1. i - 1 \in 1 .. n /\ f[i - 1] = h[i - 1]
      BY <1>1, <2>4
    <3> QED
      BY <2>2, <2>4, <3>1
  <2> QED
    BY <2>3, <2>4
<1>5. f = [i \in 1 .. n |->
              IF i = 1 THEN seqs[i] ELSE f[i - 1] \o seqs[i]]
  BY <1>4
<1>6. \E k : Flattens(k, seqs)
  <2> HIDE DEF f
  <2> QED
    BY <1>5 DEF Flattens
<1>7. FlattenSeq(seqs) = (CHOOSE k : Flattens(k, seqs))[Len(seqs)]
  BY DEF FlattenSeq, Flattens
<1> QED
  BY <1>6, <1>7

LEMMA FlattensStep ==
    ASSUME NEW seqs, NEW f, Flattens(f, seqs), NEW i \in 1 .. Len(seqs)
    PROVE  f[i] = IF i = 1 THEN seqs[i] ELSE f[i - 1] \o seqs[i]
BY DEF Flattens

Agree(s, t, n) == \A i \in 1 .. n : s[i] = t[i]

(* What is flattened of two lists agrees as far as the lists do.           *)
LEMMA FlattensAgree ==
    ASSUME NEW S, NEW s \in Seq(Seq(S)), NEW t \in Seq(Seq(S)),
           NEW f, Flattens(f, s), NEW h, Flattens(h, t),
           NEW n \in Nat, n <= Len(s), n <= Len(t),
           Agree(s, t, n)
    PROVE  \A i \in 1 .. n : f[i] = h[i] /\ f[i] \in Seq(S)
<1> DEFINE T == {k \in 0 .. n :
                    k = 0 \/ (f[k] = h[k] /\ f[k] \in Seq(S))}
<1>1. 0 \in T
  OBVIOUS
<1>2. ASSUME NEW k \in 0 .. n - 1, k \in T PROVE k + 1 \in T
  <2>1. /\ k + 1 \in 1 .. Len(s) /\ k + 1 \in 1 .. Len(t)
        /\ k + 1 \in 1 .. n /\ (k + 1) - 1 = k
    OBVIOUS
  <2>2. s[k + 1] = t[k + 1] /\ s[k + 1] \in Seq(S)
    BY <2>1 DEF Agree
  <2>3. /\ f[k + 1] = IF k = 0 THEN s[k + 1] ELSE f[k] \o s[k + 1]
        /\ h[k + 1] = IF k = 0 THEN t[k + 1] ELSE h[k] \o t[k + 1]
    BY <2>1, FlattensStep
  <2>4. k # 0 => f[k] \o s[k + 1] \in Seq(S)
    BY <1>2, <2>2, ConcatProperties
  <2>5. f[k + 1] = h[k + 1] /\ f[k + 1] \in Seq(S)
    BY <1>2, <2>2, <2>3, <2>4
  <2> QED
    BY <2>1, <2>5
<1>3. T = 0 .. n
  <2> T \in SUBSET (0 .. n)
    OBVIOUS
  <2> HIDE DEF T
  <2> QED
    BY <1>1, <1>2, UpTo
<1>4. ASSUME NEW i \in 1 .. n PROVE f[i] = h[i] /\ f[i] \in Seq(S)
  <2>1. i \in T
    <3> HIDE DEF T
    <3> QED
      BY <1>3
  <2> QED
    BY <2>1
<1> QED
  BY <1>4

LEMMA FlattenEmpty ==
    ASSUME NEW seqs, Len(seqs) = 0
    PROVE  FlattenSeq(seqs) = seqs
BY DEF FlattenSeq

LEMMA FlattenType ==
    ASSUME NEW S, NEW seqs \in Seq(Seq(S))
    PROVE  FlattenSeq(seqs) \in Seq(S)
<1>1. CASE Len(seqs) = 0
  <2>1. seqs = <<>>
    BY <1>1, EmptySeq
  <2> QED
    BY <1>1, <2>1, FlattenEmpty, EmptySeq
<1>2. CASE Len(seqs) # 0
  <2>1. PICK f : Flattens(f, seqs) /\ FlattenSeq(seqs) = f[Len(seqs)]
    BY <1>2, FlattenIs
  <2>2. Len(seqs) \in Nat /\ Len(seqs) \in 1 .. Len(seqs)
    BY <1>2, LenProperties
  <2>3. \A i \in 1 .. Len(seqs) : f[i] = f[i] /\ f[i] \in Seq(S)
    <3> DEFINE n == Len(seqs)
    <3>1. Agree(seqs, seqs, n) /\ n \in Nat /\ n <= Len(seqs)
      BY <2>2 DEF Agree
    <3> HIDE DEF n
    <3>2. \A i \in 1 .. n : f[i] = f[i] /\ f[i] \in Seq(S)
      BY <2>1, <3>1, FlattensAgree
    <3> QED
      BY <3>2 DEF n
  <2> QED
    BY <2>1, <2>2, <2>3
<1> QED
  BY <1>1, <1>2

LEMMA FlattenAppend ==
    ASSUME NEW S, NEW seqs \in Seq(Seq(S)), NEW x \in Seq(S)
    PROVE  FlattenSeq(Append(seqs, x)) = FlattenSeq(seqs) \o x
<1> DEFINE more == Append(seqs, x)
           n == Len(seqs)
<1>1. /\ more \in Seq(Seq(S)) /\ Len(more) = n + 1 /\ more[n + 1] = x
      /\ \A i \in 1 .. n : more[i] = seqs[i]
      /\ n \in Nat
  BY AppendProperties, LenProperties
<1> HIDE DEF more
<1>2. PICK h : Flattens(h, more) /\ FlattenSeq(more) = h[n + 1]
  <2> Len(more) # 0
    BY <1>1
  <2> QED
    BY <1>1, FlattenIs
<1>3. n + 1 \in 1 .. Len(more) /\ (n + 1) - 1 = n
  BY <1>1
<1>4. h[n + 1] = IF n + 1 = 1 THEN x ELSE h[n] \o x
  BY <1>1, <1>2, <1>3, FlattensStep
<1>5. CASE n = 0
  <2>1. seqs = <<>> /\ FlattenSeq(seqs) = <<>>
    BY <1>5, EmptySeq, FlattenEmpty
  <2>2. h[n + 1] = x
    BY <1>4, <1>5
  <2> QED
    BY <1>2, <2>1, <2>2, ConcatEmptySeq DEF more
<1>6. CASE n # 0
  <2>1. PICK f : Flattens(f, seqs) /\ FlattenSeq(seqs) = f[n]
    BY <1>6, FlattenIs
  <2>2. n <= Len(more) /\ n <= Len(seqs) /\ n \in 1 .. n
    BY <1>1, <1>6
  <2>3. \A i \in 1 .. n : f[i] = h[i] /\ f[i] \in Seq(S)
    <3>1. Agree(seqs, more, n)
      BY <1>1 DEF Agree
    <3> HIDE DEF n
    <3> QED
      BY <1>1, <1>2, <2>1, <2>2, <3>1, FlattensAgree
  <2>4. h[n] = FlattenSeq(seqs)
    BY <2>1, <2>2, <2>3
  <2> QED
    BY <1>1, <1>2, <1>4, <1>6, <2>4 DEF more
<1> QED
  BY <1>5, <1>6

(* What is flattened of two lists one after the other.                     *)
LEMMA FlattenConcat ==
    ASSUME NEW S, NEW s \in Seq(Seq(S)), NEW t \in Seq(Seq(S))
    PROVE  FlattenSeq(s \o t) = FlattenSeq(s) \o FlattenSeq(t)
<1> DEFINE Upto(k) == SubSeq(t, 1, k)
           n == Len(t)
           T == {k \in 0 .. n :
                    FlattenSeq(s \o Upto(k)) = FlattenSeq(s) \o FlattenSeq(Upto(k))}
<1>1. n \in Nat /\ \A i \in 1 .. n : t[i] \in Seq(S)
  BY LenProperties, ElementOfSeq
<1>2. 0 \in T
  <2>1. Upto(0) = <<>>
    BY SubSeqEmpty
  <2>2. FlattenSeq(<<>>) = <<>> /\ FlattenSeq(s) \in Seq(S)
    BY EmptySeq, FlattenEmpty, FlattenType
  <2>3. s \o <<>> = s /\ FlattenSeq(s) \o <<>> = FlattenSeq(s)
    BY <2>2, ConcatEmptySeq
  <2>4. FlattenSeq(s \o Upto(0)) = FlattenSeq(s) \o FlattenSeq(Upto(0))
    BY <2>1, <2>2, <2>3
  <2> HIDE DEF Upto
  <2> QED
    BY <1>1, <2>4
<1>3. ASSUME NEW k \in 0 .. n - 1, k \in T PROVE k + 1 \in T
  <2>1. k + 1 \in 1 .. n
    BY <1>1
  <2>2. Upto(k) \in Seq(Seq(S))
    <3> \A i \in 1 .. k : t[i] \in Seq(S)
      BY <1>1, <2>1
    <3> QED
      BY SubSeqProperties
  <2>3. Upto(k + 1) = Append(Upto(k), t[k + 1])
    <3>1. SubSeq(t, 1, k + 1) = SubSeq(t, 1, (k + 1) - 1) \o <<t[k + 1]>>
      BY <1>1, <2>1, SubSeqRecursiveSecond
    <3> QED
      BY <1>1, <2>1, <2>2, <3>1, AppendIsConcat
  <2> HIDE DEF Upto
  <2> DEFINE x == t[k + 1]
             u == Upto(k)
  <2>4. x \in Seq(S)
    BY <1>1, <2>1
  <2> HIDE DEF x
  <2>5. s \o u \in Seq(Seq(S)) /\ s \o Append(u, x) = Append(s \o u, x)
    <3>1. s \o u \in Seq(Seq(S)) /\ <<x>> \in Seq(Seq(S))
      BY <2>2, <2>4, ConcatProperties
    <3>2. s \o (u \o <<x>>) = (s \o u) \o <<x>>
      BY <2>2, <3>1, ConcatAssociative
    <3>3. Append(u, x) = u \o <<x>> /\ Append(s \o u, x) = (s \o u) \o <<x>>
      BY <2>2, <2>4, <3>1, AppendIsConcat
    <3> QED
      BY <3>1, <3>2, <3>3
  <2>6. FlattenSeq(s \o Append(u, x)) = FlattenSeq(s \o u) \o x
    BY <2>4, <2>5, FlattenAppend
  <2>7. FlattenSeq(Append(u, x)) = FlattenSeq(u) \o x
    BY <2>2, <2>4, FlattenAppend
  <2>8. FlattenSeq(s \o u) = FlattenSeq(s) \o FlattenSeq(u)
    BY <1>3
  <2>9. (FlattenSeq(s) \o FlattenSeq(u)) \o x
           = FlattenSeq(s) \o (FlattenSeq(u) \o x)
    BY <2>2, <2>4, FlattenType, ConcatAssociative
  <2>10. FlattenSeq(s \o Append(u, x)) = FlattenSeq(s) \o FlattenSeq(Append(u, x))
    BY <2>6, <2>7, <2>8, <2>9
  <2>11. FlattenSeq(s \o Upto(k + 1)) = FlattenSeq(s) \o FlattenSeq(Upto(k + 1))
    BY <2>3, <2>10 DEF x
  <2> QED
    BY <1>1, <2>1, <2>11
<1>4. T = 0 .. n
  <2> T \in SUBSET (0 .. n)
    OBVIOUS
  <2> HIDE DEF T
  <2> QED
    BY <1>1, <1>2, <1>3, UpTo
<1>5. n \in T
  <2> HIDE DEF T
  <2> QED
    BY <1>1, <1>4
<1>6. Upto(n) = t
  BY SubSeqFull
<1> HIDE DEF Upto
<1> QED
  BY <1>5, <1>6

-----------------------------------------------------------------------------
(* The text of tokens, and what of a text a transcript shows.              *)

Letter == {"a", "b", "t"}

Character == Letter \cup {"o"}

\* The values of f along a sequence, as Text and Visible take them.
Maps(f, D, R) == f \in [D -> R]

Mapped(f, s) == [i \in DOMAIN s |-> f[s[i]]]

LEMMA MappedType ==
    ASSUME NEW D, NEW R, NEW f, Maps(f, D, R), NEW s \in Seq(D)
    PROVE  /\ Mapped(f, s) \in Seq(R)
           /\ Len(Mapped(f, s)) = Len(s)
           /\ \A i \in 1 .. Len(s) : Mapped(f, s)[i] = f[s[i]]
<1>1. /\ Len(s) \in Nat /\ DOMAIN s = 1 .. Len(s)
      /\ \A i \in 1 .. Len(s) : s[i] \in D
  BY LenProperties, ElementOfSeq
<1>2. Mapped(f, s) \in [1 .. Len(s) -> R]
  BY <1>1 DEF Mapped, Maps
<1>3. Mapped(f, s) \in Seq(R) /\ Len(Mapped(f, s)) = Len(s)
  BY <1>1, <1>2
<1> QED
  BY <1>1, <1>3 DEF Mapped

LEMMA MappedConcat ==
    ASSUME NEW D, NEW R, NEW f, Maps(f, D, R),
           NEW s \in Seq(D), NEW t \in Seq(D)
    PROVE  Mapped(f, s \o t) = Mapped(f, s) \o Mapped(f, t)
<1> DEFINE u == s \o t
           x == Mapped(f, s)
           y == Mapped(f, t)
           m == Len(s)
           n == Len(t)
<1>1. /\ u \in Seq(D) /\ Len(u) = m + n
      /\ \A i \in 1 .. m + n : u[i] = IF i <= m THEN s[i] ELSE t[i - m]
      /\ m \in Nat /\ n \in Nat
  BY ConcatProperties, LenProperties
<1>2. /\ x \in Seq(R) /\ Len(x) = m /\ \A i \in 1 .. m : x[i] = f[s[i]]
      /\ y \in Seq(R) /\ Len(y) = n /\ \A i \in 1 .. n : y[i] = f[t[i]]
  BY MappedType
<1> HIDE DEF u, x, y, m, n
<1>3. /\ Mapped(f, u) \in Seq(R) /\ Len(Mapped(f, u)) = m + n
      /\ \A i \in 1 .. m + n : Mapped(f, u)[i] = f[u[i]]
  BY <1>1, MappedType
<1>4. /\ x \o y \in Seq(R) /\ Len(x \o y) = m + n
      /\ \A i \in 1 .. m + n : (x \o y)[i] = IF i <= m THEN x[i] ELSE y[i - m]
  BY <1>2, ConcatProperties
<1> DEFINE z == x \o y
           w == Mapped(f, u)
<1> HIDE DEF z, w
<1>5. ASSUME NEW i \in 1 .. m + n
      PROVE  w[i] = z[i]
  <2>1. CASE i <= m
    <3>1. i \in 1 .. m
      BY <1>1, <2>1
    <3>2. z[i] = x[i] /\ x[i] = f[s[i]]
      BY <1>2, <1>4, <2>1, <3>1 DEF z
    <3>3. w[i] = f[u[i]] /\ u[i] = s[i]
      BY <1>1, <1>3, <2>1, <3>1 DEF w
    <3> QED
      BY <3>2, <3>3
  <2>2. CASE ~(i <= m)
    <3> DEFINE k == i - m
    <3>1. k \in 1 .. n
      BY <1>1, <2>2
    <3>2. z[i] = y[k]
      BY <1>4, <2>2 DEF z
    <3>3. w[i] = f[u[i]] /\ u[i] = t[k]
      BY <1>1, <1>3, <2>2 DEF w
    <3> HIDE DEF k
    <3>4. y[k] = f[t[k]]
      BY <1>2, <3>1
    <3> QED
      BY <3>2, <3>3, <3>4
  <2> QED
    BY <2>1, <2>2
<1>6. w = z
  <2> w \in Seq(R) /\ z \in Seq(R) /\ Len(w) = m + n /\ Len(z) = m + n
    BY <1>3, <1>4 DEF w, z
  <2> QED
    BY <1>5, SeqEqual
<1> QED
  BY <1>6 DEF w, z, u, x, y

LEMMA FlattenMappedType ==
    ASSUME NEW D, NEW S, NEW f, Maps(f, D, Seq(S)), NEW s \in Seq(D)
    PROVE  FlattenSeq(Mapped(f, s)) \in Seq(S)
BY MappedType, FlattenType

LEMMA FlattenMapped ==
    ASSUME NEW D, NEW S, NEW f, Maps(f, D, Seq(S)),
           NEW s \in Seq(D), NEW t \in Seq(D)
    PROVE  FlattenSeq(Mapped(f, s \o t))
              = FlattenSeq(Mapped(f, s)) \o FlattenSeq(Mapped(f, t))
<1>1. Mapped(f, s) \in Seq(Seq(S)) /\ Mapped(f, t) \in Seq(Seq(S))
  BY MappedType
<1>2. Mapped(f, s \o t) = Mapped(f, s) \o Mapped(f, t)
  BY MappedConcat
<1> QED
  BY <1>1, <1>2, FlattenConcat

LEMMA FlattenFew ==
    ASSUME NEW D, NEW S, NEW f, Maps(f, D, Seq(S)), NEW c \in D
    PROVE  /\ FlattenSeq(Mapped(f, <<>>)) = <<>>
           /\ FlattenSeq(Mapped(f, <<c>>)) = f[c]
<1>1. Mapped(f, <<>>) = <<>>
  BY DEF Mapped
<1>2. Mapped(f, <<>>) = <<>> /\ FlattenSeq(<<>>) = <<>>
  BY <1>1, EmptySeq, FlattenEmpty
<1>3. Mapped(f, <<c>>) = Append(<<>>, f[c])
  BY DEF Mapped
<1>4. FlattenSeq(Append(<<>>, f[c])) = <<>> \o f[c]
  <2> <<>> \in Seq(Seq(S)) /\ f[c] \in Seq(S)
    BY DEF Maps
  <2> QED
    BY <1>2, FlattenAppend
<1>5. <<>> \o f[c] = f[c]
  <2> f[c] \in Seq(S)
    BY DEF Maps
  <2> QED
    BY ConcatEmptySeq
<1> QED
  BY <1>2, <1>3, <1>4, <1>5

LEMMA SpellingType ==
    Maps(Spelling, Token, Seq(Letter))
<1>1. Spelling = [x \in Token |-> IF x = "ab" THEN <<"a", "b">> ELSE <<x>>]
  BY DEF Spelling, Token
<1>2. \A x \in Token :
         (IF x = "ab" THEN <<"a", "b">> ELSE <<x>>) \in Seq(Letter)
  <2>1. "a" \in Letter /\ "b" \in Letter
    BY DEF Letter
  <2>2. \A x \in Token : x = "ab" \/ x \in Letter
    BY DEF Token, Letter
  <2> QED
    BY <2>1, <2>2
<1> QED
  BY <1>1, <1>2 DEF Maps

LEMMA TextIs ==
    \A s : Text(s) = FlattenSeq(Mapped(Spelling, s))
BY DEF Text, Mapped

LEMMA TextType ==
    ASSUME NEW s \in Seq(Token)
    PROVE  Text(s) \in Seq(Letter)
BY SpellingType, TextIs, FlattenMappedType

(* The text of two runs of tokens is their texts, one after the other.     *)
LEMMA TextConcat ==
    ASSUME NEW s \in Seq(Token), NEW t \in Seq(Token)
    PROVE  Text(s \o t) = Text(s) \o Text(t)
<1>1. FlattenSeq(Mapped(Spelling, s \o t))
         = FlattenSeq(Mapped(Spelling, s)) \o FlattenSeq(Mapped(Spelling, t))
  BY SpellingType, FlattenMapped
<1> QED
  BY <1>1, TextIs

LEMMA TextFew ==
    ASSUME NEW x \in Token
    PROVE  Text(<<>>) = <<>> /\ Text(<<x>>) = Spelling[x]
BY SpellingType, TextIs, FlattenFew

(* A token adds its spelling to the text.                                  *)
LEMMA TextAppend ==
    ASSUME NEW s \in Seq(Token), NEW x \in Token
    PROVE  Text(Append(s, x)) = Text(s) \o Spelling[x]
<1>1. <<x>> \in Seq(Token) /\ Append(s, x) = s \o <<x>>
  BY AppendIsConcat
<1> QED
  BY <1>1, TextConcat, TextFew

\* What a transcript shows of one character.
Shown(C) == [c \in C |-> IF c = "t" THEN <<>> ELSE <<c>>]

LEMMA ShownType ==
    ASSUME NEW C
    PROVE  Maps(Shown(C), C, Seq(C))
BY DEF Shown, Maps

LEMMA VisibleIs ==
    ASSUME NEW C, NEW s \in Seq(C)
    PROVE  Visible(s) = FlattenSeq(Mapped(Shown(C), s))
<1>1. DOMAIN s = 1 .. Len(s) /\ \A i \in 1 .. Len(s) : s[i] \in C
  BY LenProperties, ElementOfSeq
<1>2. Mapped(Shown(C), s) =
         [i \in DOMAIN s |-> IF s[i] = "t" THEN <<>> ELSE <<s[i]>>]
  BY <1>1 DEF Mapped, Shown
<1> QED
  BY <1>2 DEF Visible

LEMMA VisibleType ==
    ASSUME NEW C, NEW s \in Seq(C)
    PROVE  Visible(s) \in Seq(C)
<1>1. Maps(Shown(C), C, Seq(C)) /\ Visible(s) = FlattenSeq(Mapped(Shown(C), s))
  BY ShownType, VisibleIs
<1> QED
  BY <1>1, FlattenMappedType

(* What two texts show, one after the other.                               *)
LEMMA VisibleConcat ==
    ASSUME NEW C, NEW s \in Seq(C), NEW t \in Seq(C)
    PROVE  Visible(s \o t) = Visible(s) \o Visible(t)
<1>1. s \o t \in Seq(C)
  BY ConcatProperties
<1>2. /\ Visible(s \o t) = FlattenSeq(Mapped(Shown(C), s \o t))
      /\ Visible(s) = FlattenSeq(Mapped(Shown(C), s))
      /\ Visible(t) = FlattenSeq(Mapped(Shown(C), t))
  BY <1>1, VisibleIs
<1>3. Maps(Shown(C), C, Seq(C))
  BY ShownType
<1>4. FlattenSeq(Mapped(Shown(C), s \o t))
         = FlattenSeq(Mapped(Shown(C), s)) \o FlattenSeq(Mapped(Shown(C), t))
  BY <1>3, FlattenMapped
<1> QED
  BY <1>2, <1>4

LEMMA VisibleFew ==
    ASSUME NEW C, NEW c \in C
    PROVE  /\ Visible(<<>>) = <<>>
           /\ Visible(<<c>>) = IF c = "t" THEN <<>> ELSE <<c>>
<1>1. <<>> \in Seq(C) /\ <<c>> \in Seq(C)
  OBVIOUS
<1>2. /\ Visible(<<>>) = FlattenSeq(Mapped(Shown(C), <<>>))
      /\ Visible(<<c>>) = FlattenSeq(Mapped(Shown(C), <<c>>))
  BY <1>1, VisibleIs
<1>3. Maps(Shown(C), C, Seq(C))
  BY ShownType
<1>4. /\ FlattenSeq(Mapped(Shown(C), <<>>)) = <<>>
      /\ FlattenSeq(Mapped(Shown(C), <<c>>)) = Shown(C)[c]
  BY <1>3, FlattenFew
<1> QED
  BY <1>2, <1>4 DEF Shown

(* What is shown of what a text shows is all of it.                        *)
LEMMA VisibleAgain ==
    ASSUME NEW s \in Seq(Character)
    PROVE  Visible(Visible(s)) = Visible(s)
<1> DEFINE Upto(k) == SubSeq(s, 1, k)
           n == Len(s)
           T == {k \in 0 .. n : Visible(Visible(Upto(k))) = Visible(Upto(k))}
<1>1. n \in Nat /\ \A i \in 1 .. n : s[i] \in Character
  BY LenProperties, ElementOfSeq
<1>2. 0 \in T
  <2>1. Upto(0) = <<>>
    BY SubSeqEmpty
  <2>2. Visible(<<>>) = <<>>
    <3> "o" \in Character
      BY DEF Character
    <3> QED
      BY VisibleFew
  <2> HIDE DEF Upto
  <2> QED
    BY <1>1, <2>1, <2>2
<1>3. ASSUME NEW k \in 0 .. n - 1, k \in T PROVE k + 1 \in T
  <2> DEFINE u == Upto(k)
             c == s[k + 1]
  <2>1. k + 1 \in 1 .. n /\ c \in Character
    BY <1>1
  <2>2. u \in Seq(Character)
    <3> \A i \in 1 .. k : s[i] \in Character
      BY <1>1, <2>1
    <3> QED
      BY SubSeqProperties
  <2>3. Upto(k + 1) = u \o <<c>>
    <3> SubSeq(s, 1, k + 1) = SubSeq(s, 1, (k + 1) - 1) \o <<s[k + 1]>>
      BY <1>1, <2>1, SubSeqRecursiveSecond
    <3> QED
      BY <1>1
  <2>4. Visible(Visible(u)) = Visible(u)
    BY <1>3
  <2> HIDE DEF u, c, Upto
  <2> DEFINE x == IF c = "t" THEN <<>> ELSE <<c>>
  <2>5. <<c>> \in Seq(Character) /\ x \in Seq(Character)
    BY <2>1
  <2>6. Visible(<<c>>) = x /\ Visible(x) = x
    BY <2>1, VisibleFew
  <2> HIDE DEF x
  <2>7. Visible(u \o <<c>>) = Visible(u) \o x
    BY <2>2, <2>5, <2>6, VisibleConcat
  <2>8. Visible(Visible(u) \o x) = Visible(Visible(u)) \o Visible(x)
    <3> Visible(u) \in Seq(Character)
      BY <2>2, VisibleType
    <3> QED
      BY <2>5, VisibleConcat
  <2>9. Visible(Visible(Upto(k + 1))) = Visible(Upto(k + 1))
    BY <2>3, <2>4, <2>6, <2>7, <2>8
  <2> QED
    BY <1>1, <2>1, <2>9
<1>4. T = 0 .. n
  <2> T \in SUBSET (0 .. n)
    OBVIOUS
  <2> HIDE DEF T
  <2> QED
    BY <1>1, <1>2, <1>3, UpTo
<1>5. n \in T
  <2> HIDE DEF T
  <2> QED
    BY <1>1, <1>4
<1>6. Upto(n) = s
  BY SubSeqFull
<1> HIDE DEF Upto
<1> QED
  BY <1>5, <1>6

-----------------------------------------------------------------------------
(* The tokens of a text.                                                   *)

Piece == Token \cup {"o"}

LEMMA FrontLast ==
    ASSUME NEW S, NEW s \in Seq(S), s # <<>>
    PROVE  /\ Front(s) \in Seq(S) /\ Last(s) \in S
           /\ s = Append(Front(s), Last(s))
           /\ Len(Front(s)) = Len(s) - 1
           /\ \A i \in 1 .. Len(s) - 1 : Front(s)[i] = s[i]
<1> DEFINE n == Len(s)
<1>1. n \in Nat /\ n # 0 /\ n \in 1 .. n /\ \A i \in 1 .. n : s[i] \in S
  BY LenProperties, ElementOfSeq, EmptySeq
<1>2. /\ SubSeq(s, 1, n - 1) \in Seq(S)
      /\ Len(SubSeq(s, 1, n - 1)) = n - 1
      /\ \A i \in 1 .. n - 1 : SubSeq(s, 1, n - 1)[i] = s[i]
  <2>1. \A i \in 1 .. n - 1 : s[i] \in S
    BY <1>1
  <2> HIDE DEF n
  <2>2. /\ SubSeq(s, 1, n - 1) \in Seq(S)
        /\ Len(SubSeq(s, 1, n - 1)) =
              IF 1 <= n - 1 THEN (n - 1) - 1 + 1 ELSE 0
        /\ \A i \in 1 .. (n - 1) - 1 + 1 :
              SubSeq(s, 1, n - 1)[i] = s[1 + i - 1]
    BY <1>1, <2>1, SubSeqProperties
  <2> QED
    BY <1>1, <2>2
<1>3. s = SubSeq(s, 1, n - 1) \o <<s[n]>>
  BY <1>1, SubSeqFull, SubSeqRecursiveSecond
<1>4. Append(SubSeq(s, 1, n - 1), s[n]) = SubSeq(s, 1, n - 1) \o <<s[n]>>
  BY <1>1, <1>2, AppendIsConcat
<1> QED
  BY <1>1, <1>2, <1>3, <1>4 DEF Front, Last

LEMMA PushType ==
    ASSUME NEW tokens \in Seq(Piece), NEW c \in Character
    PROVE  Push(tokens, c) \in Seq(Piece)
<1>1. "ab" \in Piece /\ c \in Piece
  BY DEF Piece, Token, Character, Letter
<1>2. tokens # <<>> => Front(tokens) \in Seq(Piece)
  BY FrontLast
<1> QED
  BY <1>1, <1>2, AppendProperties DEF Push

(* A letter that is pushed is added to the text, merged or not.            *)
LEMMA PushText ==
    ASSUME NEW tokens \in Seq(Token), NEW c \in Letter
    PROVE  /\ Push(tokens, c) \in Seq(Token)
           /\ Text(Push(tokens, c)) = Text(tokens) \o <<c>>
<1>1. CASE c = "b" /\ tokens # <<>> /\ Last(tokens) = "a"
  <2> DEFINE f == Front(tokens)
  <2>1. f \in Seq(Token) /\ tokens = Append(f, "a")
    BY <1>1, FrontLast
  <2>2. Push(tokens, c) = Append(f, "ab")
    BY <1>1 DEF Push
  <2> HIDE DEF f
  <2>3. "a" \in Token /\ "ab" \in Token
    BY DEF Token
  <2>4. Spelling["a"] = <<"a">> /\ Spelling["ab"] = <<"a">> \o <<"b">>
    BY DEF Spelling
  <2>5. Text(tokens) = Text(f) \o <<"a">>
    BY <2>1, <2>3, <2>4, TextAppend
  <2>6. Text(Append(f, "ab")) = Text(f) \o (<<"a">> \o <<"b">>)
    BY <2>1, <2>3, <2>4, TextAppend
  <2>7. (Text(f) \o <<"a">>) \o <<"b">> = Text(f) \o (<<"a">> \o <<"b">>)
    <3>1. Text(f) \in Seq(Letter)
      BY <2>1, TextType
    <3>2. <<"a">> \in Seq(Letter) /\ <<"b">> \in Seq(Letter)
      BY DEF Letter
    <3> QED
      BY <3>1, <3>2, ConcatAssociative
  <2>8. Append(f, "ab") \in Seq(Token)
    BY <2>1, <2>3, AppendProperties
  <2> QED
    BY <1>1, <2>2, <2>5, <2>6, <2>7, <2>8
<1>2. CASE ~(c = "b" /\ tokens # <<>> /\ Last(tokens) = "a")
  <2>1. c \in Token /\ Spelling[c] = <<c>>
    BY DEF Token, Letter, Spelling
  <2>2. Push(tokens, c) = Append(tokens, c)
    BY <1>2 DEF Push
  <2> QED
    <3>1. Text(Append(tokens, c)) = Text(tokens) \o Spelling[c]
      BY <2>1, TextAppend
    <3>2. Append(tokens, c) \in Seq(Token)
      BY <2>1, AppendProperties
    <3> QED
      BY <2>1, <2>2, <3>1, <3>2
<1> QED
  BY <1>1, <1>2

\* u[n] is the tokens of the first n characters, as Tokenize has them.
Merges(u, text) ==
    u = [n \in 0 .. Len(text) |->
            IF n = 0 THEN <<>> ELSE Push(u[n - 1], text[n])]

LEMMA TokenizeIs ==
    ASSUME NEW text \in Seq(Character)
    PROVE  \E u : /\ Merges(u, text)
                  /\ Tokenize(text) = u[Len(text)]
<1> DEFINE n == Len(text)
           X == Seq(Piece)
           g == [p \in X \X (1 .. n) |-> Push(p[1], text[p[2]])]
<1>1. n \in Nat /\ \A i \in 1 .. n : text[i] \in Character
  BY LenProperties, ElementOfSeq
<1>2. g \in [X \X (1 .. n) -> X]
  BY <1>1, PushType
<1>3. <<>> \in X
  OBVIOUS
<1>4. \E h \in [0 .. n -> X] : Iterates(h, <<>>, g, n)
  <2> HIDE DEF X, n, g
  <2>1. n \in Nat
    BY <1>1
  <2> QED
    BY <1>2, <1>3, <2>1, Iterated
<1>5. PICK h \in [0 .. n -> X] : Iterates(h, <<>>, g, n)
  BY <1>4
<1>6. ASSUME NEW i \in 0 .. n
      PROVE  h[i] = IF i = 0 THEN <<>> ELSE Push(h[i - 1], text[i])
  <2>1. CASE i = 0
    BY <1>5, <2>1 DEF Iterates
  <2>2. CASE i # 0
    <3>1. i \in 1 .. n /\ i - 1 \in 0 .. n
      BY <1>1, <2>2
    <3>2. h[i] = g[<<h[i - 1], i>>] /\ h[i - 1] \in X
      <4> HIDE DEF g, X
      <4> QED
        BY <1>5, <3>1 DEF Iterates
    <3>3. <<h[i - 1], i>> \in X \X (1 .. n)
      BY <3>1, <3>2
    <3> HIDE DEF X
    <3> QED
      BY <2>2, <3>2, <3>3
  <2> QED
    BY <2>1, <2>2
<1>7. h = [i \in 0 .. n |-> IF i = 0 THEN <<>> ELSE Push(h[i - 1], text[i])]
  <2> HIDE DEF X
  <2> QED
    BY <1>5, <1>6
<1>8. \E k : Merges(k, text)
  BY <1>7 DEF Merges
<1>9. Tokenize(text) = (CHOOSE k : Merges(k, text))[Len(text)]
  BY DEF Tokenize, Merges
<1> QED
  BY <1>8, <1>9

LEMMA MergesStep ==
    ASSUME NEW text \in Seq(Character), NEW u, Merges(u, text)
    PROVE  /\ u[0] = <<>>
           /\ \A k \in 0 .. Len(text) - 1 : u[k + 1] = Push(u[k], text[k + 1])
<1>1. Len(text) \in Nat
  OBVIOUS
<1>2. \A n \in 0 .. Len(text) :
         u[n] = IF n = 0 THEN <<>> ELSE Push(u[n - 1], text[n])
  BY DEF Merges
<1>3. ASSUME NEW k \in 0 .. Len(text) - 1
      PROVE  u[k + 1] = Push(u[k], text[k + 1])
  <2>1. k + 1 \in 0 .. Len(text) /\ k + 1 # 0 /\ (k + 1) - 1 = k
    BY <1>1
  <2> QED
    BY <1>2, <2>1
<1> QED
  BY <1>1, <1>2, <1>3

(* The tokens of a text spell the text.                                    *)
LEMMA TokenizeText ==
    ASSUME NEW text \in Seq(Letter)
    PROVE  Tokenize(text) \in Seq(Token) /\ Text(Tokenize(text)) = text
<1> DEFINE n == Len(text)
<1>1. text \in Seq(Character) /\ n \in Nat /\ \A i \in 1 .. n : text[i] \in Letter
  BY LenProperties, ElementOfSeq, SeqMonotonic DEF Character
<1>2. PICK u : Merges(u, text) /\ Tokenize(text) = u[n]
  BY <1>1, TokenizeIs
<1>3. u[0] = <<>> /\ \A k \in 0 .. n - 1 : u[k + 1] = Push(u[k], text[k + 1])
  BY <1>1, <1>2, MergesStep
<1> DEFINE T == {k \in 0 .. n :
                    u[k] \in Seq(Token) /\ Text(u[k]) = SubSeq(text, 1, k)}
<1>4. 0 \in T
  <2>1. SubSeq(text, 1, 0) = <<>>
    BY SubSeqEmpty
  <2>2. Text(<<>>) = <<>>
    BY TextFew DEF Token
  <2>3. u[0] \in Seq(Token) /\ Text(u[0]) = SubSeq(text, 1, 0)
    <3>1. u[0] = <<>>
      BY <1>3
    <3>2. <<>> \in Seq(Token)
      OBVIOUS
    <3> DEFINE e == <<>>
               e0 == SubSeq(text, 1, 0)
    <3> HIDE DEF T, e, e0
    <3>3. u[0] = e /\ e0 = e /\ Text(e) = e /\ e \in Seq(Token)
      BY <2>1, <2>2, <3>1, <3>2 DEF e, e0
    <3> QED
      BY <3>3 DEF e0
  <2> QED
    BY <1>1, <2>3
<1>5. ASSUME NEW k \in 0 .. n - 1, k \in T PROVE k + 1 \in T
  <2> DEFINE c == text[k + 1]
  <2>1. k + 1 \in 1 .. n /\ k + 1 \in 0 .. n /\ c \in Letter
    BY <1>1
  <2>2. u[k + 1] = Push(u[k], c)
    BY <1>3
  <2>3. SubSeq(text, 1, k + 1) = SubSeq(text, 1, k) \o <<c>>
    <3> SubSeq(text, 1, k + 1) = SubSeq(text, 1, (k + 1) - 1) \o <<text[k + 1]>>
      BY <1>1, <2>1, SubSeqRecursiveSecond
    <3> QED
      BY <1>1
  <2> HIDE DEF c
  <2>4. u[k] \in Seq(Token) /\ Text(u[k]) = SubSeq(text, 1, k)
    BY <1>5
  <2>5. u[k + 1] \in Seq(Token) /\ Text(u[k + 1]) = SubSeq(text, 1, k + 1)
    BY <2>1, <2>2, <2>3, <2>4, PushText
  <2> QED
    BY <2>1, <2>5
<1>6. T = 0 .. n
  <2> T \in SUBSET (0 .. n)
    OBVIOUS
  <2> HIDE DEF T
  <2> QED
    BY <1>1, <1>4, <1>5, UpTo
<1>7. n \in T
  <2> HIDE DEF T
  <2> QED
    BY <1>1, <1>6
<1>8. SubSeq(text, 1, n) = text
  BY SubSeqFull
<1> QED
  BY <1>2, <1>7, <1>8

(* A text that is not empty has a token.                                   *)
LEMMA TokenizeSome ==
    ASSUME NEW text \in Seq(Letter), text # <<>>
    PROVE  Tokenize(text) # <<>> /\ Len(Tokenize(text)) \in Nat \ {0}
<1>1. Tokenize(text) \in Seq(Token) /\ Text(Tokenize(text)) = text
  BY TokenizeText
<1>2. Text(<<>>) = <<>>
  BY TextFew DEF Token
<1>3. Tokenize(text) # <<>>
  BY <1>1, <1>2
<1> QED
  BY <1>1, <1>3, EmptySeq

(* A prompt of tool outputs only begins with a token that no session has.  *)
LEMMA TokenizeOutputs ==
    ASSUME NEW text \in Seq(Character), text # <<>>, text[1] = "o"
    PROVE  /\ Tokenize(text) \in Seq(Piece)
           /\ Len(Tokenize(text)) >= 1 /\ Tokenize(text)[1] = "o"
<1> DEFINE n == Len(text)
<1>1. n \in Nat /\ n # 0 /\ \A i \in 1 .. n : text[i] \in Character
  BY LenProperties, ElementOfSeq, EmptySeq
<1>2. PICK u : Merges(u, text) /\ Tokenize(text) = u[n]
  BY <1>1, TokenizeIs
<1>3. u[0] = <<>> /\ \A k \in 0 .. n - 1 : u[k + 1] = Push(u[k], text[k + 1])
  BY <1>1, <1>2, MergesStep
<1> DEFINE T == {k \in 0 .. n :
                    /\ u[k] \in Seq(Piece)
                    /\ k # 0 => Len(u[k]) >= 1 /\ u[k][1] = "o"}
<1>4. 0 \in T
  <2> u[0] \in Seq(Piece)
    BY <1>3
  <2> QED
    BY <1>1
<1>5. ASSUME NEW k \in 0 .. n - 1, k \in T PROVE k + 1 \in T
  <2> DEFINE c == text[k + 1]
             v == u[k]
  <2>1. k + 1 \in 1 .. n /\ k + 1 \in 0 .. n /\ k + 1 # 0 /\ c \in Character
    BY <1>1
  <2>2. u[k + 1] = Push(v, c) /\ v \in Seq(Piece) /\ Len(v) \in Nat
    BY <1>3, <1>5
  <2>3. k # 0 => Len(v) >= 1 /\ v[1] = "o"
    BY <1>5
  <2>4. k = 0 => c = "o" /\ v = <<>>
    BY <1>3
  <2>5. c \in Piece /\ "ab" \in Piece
    BY <2>1 DEF Piece, Character, Token, Letter
  <2> HIDE DEF c, v
  <2>6. CASE c = "b" /\ v # <<>> /\ Last(v) = "a"
    <3>1. k # 0
      BY <2>4, <2>6
    <3>2. /\ Front(v) \in Seq(Piece) /\ Len(Front(v)) = Len(v) - 1
          /\ \A i \in 1 .. Len(v) - 1 : Front(v)[i] = v[i]
      BY <2>2, <2>6, FrontLast
    <3>3. Len(v) # 1
      BY <2>3, <2>6, <3>1 DEF Last
    <3>4. 1 \in 1 .. Len(v) - 1
      <4> DEFINE m == Len(v)
      <4>1. m >= 1 /\ m \in Nat /\ m # 1
        BY <2>2, <2>3, <3>1, <3>3
      <4> HIDE DEF m
      <4>2. 1 \in 1 .. m - 1
        BY <4>1
      <4> QED
        BY <4>2 DEF m
    <3>5. Front(v)[1] = "o"
      BY <2>3, <3>1, <3>2, <3>4
    <3>6. Push(v, c) = Append(Front(v), "ab")
      BY <2>6 DEF Push
    <3>7. /\ Append(Front(v), "ab") \in Seq(Piece)
          /\ Len(Append(Front(v), "ab")) = Len(v)
          /\ Append(Front(v), "ab")[1] = "o"
      BY <2>2, <2>5, <3>2, <3>4, <3>5, AppendProperties
    <3> QED
      BY <2>1, <2>2, <2>3, <3>1, <3>6, <3>7
  <2>7. CASE ~(c = "b" /\ v # <<>> /\ Last(v) = "a")
    <3>1. Push(v, c) = Append(v, c)
      BY <2>7 DEF Push
    <3>2. /\ Append(v, c) \in Seq(Piece)
          /\ Len(Append(v, c)) = Len(v) + 1
          /\ \A i \in 1 .. Len(v) : Append(v, c)[i] = v[i]
          /\ Append(v, c)[Len(v) + 1] = c
      BY <2>2, <2>5, AppendProperties
    <3>3. Append(v, c)[1] = "o"
      <4>1. CASE k = 0
        <5> Len(v) = 0
          BY <2>4, <4>1
        <5> QED
          BY <2>4, <3>2, <4>1
      <4>2. CASE k # 0
        <5> 1 \in 1 .. Len(v)
          BY <2>2, <2>3, <4>2
        <5> QED
          BY <2>3, <3>2, <4>2
      <4> QED
        BY <4>1, <4>2
    <3>4. Len(Append(v, c)) >= 1
      BY <2>2, <3>2
    <3> QED
      BY <2>1, <2>2, <3>1, <3>2, <3>3, <3>4
  <2> QED
    BY <2>6, <2>7
<1>6. T = 0 .. n
  <2> T \in SUBSET (0 .. n)
    OBVIOUS
  <2> HIDE DEF T
  <2> QED
    BY <1>1, <1>4, <1>5, UpTo
<1>7. n \in T
  <2> HIDE DEF T
  <2> QED
    BY <1>1, <1>6
<1> QED
  BY <1>1, <1>2, <1>7

-----------------------------------------------------------------------------
(* Prefixes, and what the session shares with a prompt.                    *)

LEMMA PrefixSplit ==
    ASSUME NEW S, NEW s \in Seq(S), NEW t \in Seq(S), IsPrefix(s, t)
    PROVE  /\ After(s, t) \in Seq(S) /\ t = s \o After(s, t)
           /\ Len(s) <= Len(t)
           /\ Len(After(s, t)) = Len(t) - Len(s)
<1> DEFINE m == Len(s)
           n == Len(t)
<1>1. /\ m \in Nat /\ n \in Nat /\ m <= n /\ SubSeq(s, 1, m) = SubSeq(t, 1, m)
      /\ \A i \in 1 .. n : t[i] \in S
  BY LenProperties, ElementOfSeq DEF IsPrefix
<1>2. SubSeq(s, 1, m) = s /\ SubSeq(t, 1, n) = t
  BY SubSeqFull
<1>3. SubSeq(t, 1, m) \o SubSeq(t, m + 1, n) = SubSeq(t, 1, n)
  <2> 1 \in 1 .. n + 1 /\ m \in 1 - 1 .. n /\ n \in m .. n
    BY <1>1
  <2> QED
    BY ConcatAdjacentSubSeq
<1>4. /\ SubSeq(t, m + 1, n) \in Seq(S)
      /\ Len(SubSeq(t, m + 1, n)) = IF m + 1 <= n THEN n - (m + 1) + 1 ELSE 0
  <2>1. \A i \in m + 1 .. n : t[i] \in S
    BY <1>1
  <2> HIDE DEF m, n
  <2> QED
    BY <1>1, <2>1, SubSeqProperties
<1> HIDE DEF m, n
<1>5. Len(SubSeq(t, m + 1, n)) = n - m
  BY <1>1, <1>4
<1> QED
  BY <1>1, <1>2, <1>3, <1>4, <1>5 DEF After, m, n

LEMMA PrefixElements ==
    ASSUME NEW S, NEW s \in Seq(S), NEW t \in Seq(S)
    PROVE  IsPrefix(s, t) <=> /\ Len(s) <= Len(t)
                              /\ \A i \in 1 .. Len(s) : s[i] = t[i]
<1> DEFINE m == Len(s)
           n == Len(t)
<1>1. /\ m \in Nat /\ n \in Nat
      /\ \A i \in 1 .. n : t[i] \in S
  BY LenProperties, ElementOfSeq
<1>2. SubSeq(s, 1, m) = s
  BY SubSeqFull
<1>3. ASSUME m <= n
      PROVE  /\ SubSeq(t, 1, m) \in Seq(S) /\ Len(SubSeq(t, 1, m)) = m
             /\ \A i \in 1 .. m : SubSeq(t, 1, m)[i] = t[i]
  <2>1. \A i \in 1 .. m : t[i] \in S
    BY <1>1, <1>3
  <2> HIDE DEF m, n
  <2>2. /\ SubSeq(t, 1, m) \in Seq(S)
        /\ Len(SubSeq(t, 1, m)) = IF 1 <= m THEN m - 1 + 1 ELSE 0
        /\ \A i \in 1 .. m - 1 + 1 : SubSeq(t, 1, m)[i] = t[1 + i - 1]
    BY <1>1, <2>1, SubSeqProperties
  <2> QED
    BY <1>1, <2>2
<1>4. ASSUME IsPrefix(s, t)
      PROVE  m <= n /\ \A i \in 1 .. m : s[i] = t[i]
  BY <1>2, <1>3, <1>4 DEF IsPrefix
<1>5. ASSUME m <= n, \A i \in 1 .. m : s[i] = t[i]
      PROVE  IsPrefix(s, t)
  <2> DEFINE u == SubSeq(t, 1, m)
  <2>1. u \in Seq(S) /\ Len(u) = Len(s) /\ \A i \in 1 .. Len(s) : s[i] = u[i]
    BY <1>3, <1>5
  <2> HIDE DEF u
  <2>2. s = u
    BY <2>1, SeqEqual
  <2> QED
    BY <1>2, <1>5, <2>2 DEF IsPrefix, u
<1> QED
  BY <1>4, <1>5

LEMMA PrefixConcat ==
    ASSUME NEW S, NEW s \in Seq(S), NEW t \in Seq(S)
    PROVE  s \o t \in Seq(S) /\ IsPrefix(s, s \o t)
<1> DEFINE u == s \o t
<1>1. /\ u \in Seq(S) /\ Len(u) = Len(s) + Len(t)
      /\ \A i \in 1 .. Len(s) + Len(t) :
            u[i] = IF i <= Len(s) THEN s[i] ELSE t[i - Len(s)]
      /\ Len(s) \in Nat /\ Len(t) \in Nat
  BY ConcatProperties, LenProperties
<1> HIDE DEF u
<1>2. Len(s) <= Len(u) /\ \A i \in 1 .. Len(s) : s[i] = u[i]
  BY <1>1
<1>3. IsPrefix(s, u)
  BY <1>1, <1>2, PrefixElements
<1> QED
  BY <1>1, <1>3 DEF u

LEMMA PrefixAppend ==
    ASSUME NEW S, NEW s \in Seq(S), NEW t \in Seq(S), NEW x \in S,
           IsPrefix(s, t)
    PROVE  Append(t, x) \in Seq(S) /\ IsPrefix(s, Append(t, x))
<1> DEFINE u == Append(t, x)
<1>1. /\ u \in Seq(S) /\ Len(u) = Len(t) + 1
      /\ \A i \in 1 .. Len(t) : u[i] = t[i]
      /\ Len(s) \in Nat /\ Len(t) \in Nat
  BY AppendProperties, LenProperties
<1>2. Len(s) <= Len(t) /\ \A i \in 1 .. Len(s) : s[i] = t[i]
  BY PrefixElements
<1> HIDE DEF u
<1>3. Len(s) <= Len(u) /\ \A i \in 1 .. Len(s) : s[i] = u[i]
  BY <1>1, <1>2
<1>4. IsPrefix(s, u)
  BY <1>1, <1>3, PrefixElements
<1> QED
  BY <1>1, <1>4 DEF u

LEMMA PrefixSub ==
    ASSUME NEW S, NEW s \in Seq(S), NEW n \in 0 .. Len(s)
    PROVE  /\ SubSeq(s, 1, n) \in Seq(S) /\ Len(SubSeq(s, 1, n)) = n
           /\ \A i \in 1 .. n : SubSeq(s, 1, n)[i] = s[i]
           /\ IsPrefix(SubSeq(s, 1, n), s)
<1>1. Len(s) \in Nat /\ n \in Int /\ \A i \in 1 .. n : s[i] \in S
  BY LenProperties, ElementOfSeq
<1>2. /\ SubSeq(s, 1, n) \in Seq(S)
      /\ Len(SubSeq(s, 1, n)) = IF 1 <= n THEN n - 1 + 1 ELSE 0
      /\ \A i \in 1 .. n - 1 + 1 : SubSeq(s, 1, n)[i] = s[1 + i - 1]
  BY <1>1, SubSeqProperties
<1> DEFINE u == SubSeq(s, 1, n)
<1>3. u \in Seq(S) /\ Len(u) = n /\ \A i \in 1 .. n : u[i] = s[i]
  BY <1>1, <1>2
<1> HIDE DEF u
<1>4. IsPrefix(u, s)
  BY <1>1, <1>3, PrefixElements
<1> QED
  BY <1>3, <1>4 DEF u

(* A set of numbers up to a bound has a greatest one.                      *)
LEMMA Greatest ==
    ASSUME NEW n \in Nat, NEW T \in SUBSET (0 .. n), T # {}
    PROVE  \E m \in T : \A k \in T : k <= m
<1> DEFINE U == {n - k : k \in T}
<1>1. U \in SUBSET Nat
  OBVIOUS
<1>2. U # {}
  OBVIOUS
<1>3. PICK u \in U : \A v \in U : ~(v < u)
  <2> HIDE DEF U
  <2> QED
    BY <1>1, <1>2, NoFirst
<1>4. PICK m \in T : u = n - m
  OBVIOUS
<1>5. \A k \in T : ~(n - k < n - m)
  BY <1>3, <1>4
<1> QED
  BY <1>5

(* What Common finds is shared, and nothing is shared with a session that  *)
(* cannot be used.                                                         *)
LEMMA CommonIs ==
    ASSUME NEW prompt, Len(prompt) \in Nat, session \in Seq(Token),
           valid \in BOOLEAN
    PROVE  /\ Common(prompt) \in 0 .. Len(session)
           /\ Common(prompt) <= Len(prompt)
           /\ \A i \in 1 .. Common(prompt) : session[i] = prompt[i]
           /\ Common(prompt) # 0 => valid
<1>1. Len(session) \in Nat
  BY LenProperties
<1> DEFINE shared == {n \in 0 .. Len(session) :
                         /\ n <= Len(prompt)
                         /\ \A i \in 1 .. n : session[i] = prompt[i]}
<1>2. \E m \in shared : \A k \in shared : k <= m
  <2>1. 0 \in shared /\ shared \in SUBSET (0 .. Len(session))
    BY <1>1
  <2> HIDE DEF shared
  <2> QED
    BY <1>1, <2>1, Greatest
<1> DEFINE m == CHOOSE k \in shared : \A j \in shared : j <= k
<1>3. m \in shared
  <2> HIDE DEF shared
  <2> QED
    BY <1>2
<1>4. Common(prompt) = IF valid THEN m ELSE 0
  BY DEF Common
<1>5. CASE valid
  <2> Common(prompt) \in shared
    BY <1>3, <1>4, <1>5
  <2> QED
    BY <1>5
<1>6. CASE ~valid
  BY <1>1, <1>4, <1>6
<1> QED
  BY <1>5, <1>6

(* When each source applies.                                               *)
LEMMA AppliesIs ==
    ASSUME NEW r
    PROVE  /\ Applies(r, "responses-visible") <=>
                 r.api = "responses" /\ VisibleKeyMatches(responses, r)
           /\ Applies(r, "responses-tool-output") <=>
                 r.api = "responses" /\ IdsMatch(responses, r)
           /\ Applies(r, "anthropic-tool-output") <=>
                 r.api = "anthropic" /\ IdsMatch(anthropic, r)
           /\ Applies(r, "unavailable") <=>
                 r.text = OutputsOnly
           /\ Applies(r, "memory-rewind") <=>
                 RewindTarget(Tokenize(r.text)) >= 0
           /\ Applies(r, "memory-token") <=>
                 Len(session) > 0 /\ Common(Tokenize(r.text)) = Len(session)
           /\ Applies(r, "thinking-visible") <=>
                 r.api # "responses" /\ VisibleKeyMatches(thinking, r)
           /\ Applies(r, "memory-text") <=>
                 Len(session) > 0 /\ IsPrefix(Text(session), r.text)
           /\ Applies(r, "none") <=>
                 TRUE
<1>1. Applies(r, "responses-visible") <=>
         r.api = "responses" /\ VisibleKeyMatches(responses, r)
  BY DEF Applies
<1>2. Applies(r, "responses-tool-output") <=>
         r.api = "responses" /\ IdsMatch(responses, r)
  BY DEF Applies
<1>3. Applies(r, "anthropic-tool-output") <=>
         r.api = "anthropic" /\ IdsMatch(anthropic, r)
  BY DEF Applies
<1>4. Applies(r, "unavailable") <=>
         r.text = OutputsOnly
  BY DEF Applies
<1>5. Applies(r, "memory-rewind") <=>
         RewindTarget(Tokenize(r.text)) >= 0
  BY DEF Applies
<1>6. Applies(r, "memory-token") <=>
         Len(session) > 0 /\ Common(Tokenize(r.text)) = Len(session)
  BY DEF Applies
<1>7. Applies(r, "thinking-visible") <=>
         r.api # "responses" /\ VisibleKeyMatches(thinking, r)
  BY DEF Applies
<1>8. Applies(r, "memory-text") <=>
         Len(session) > 0 /\ IsPrefix(Text(session), r.text)
  BY DEF Applies
<1>9. Applies(r, "none") <=>
         TRUE
  BY DEF Applies
<1> QED
  BY <1>1, <1>2, <1>3, <1>4, <1>5, <1>6, <1>7, <1>8, <1>9

(* The source of a request is the first one that applies; a prompt of tool *)
(* outputs only goes to none of the later ones.                            *)
LEMMA SourceApplies ==
    ASSUME NEW r
    PROVE  /\ Applies(r, SourceOf(r))
           /\ SourceOf(r) \in {Sources[i] : i \in 1 .. 9}
           /\ SourceOf(r) \in {Sources[i] : i \in 5 .. 9} => r.text # OutputsOnly
<1> DEFINE I == {i \in 1 .. Len(Sources) : Applies(r, Sources[i])}
<1>1. Len(Sources) = 9 /\ Sources[9] = "none" /\ Sources[4] = "unavailable"
  BY DEF Sources
<1>2. 9 \in I
  BY <1>1, AppliesIs
<1>3. \E k \in I : \A j \in I : k <= j
  <2>1. I \in SUBSET Nat /\ I # {}
    BY <1>1, <1>2
  <2> HIDE DEF I
  <2>2. PICK k \in I : \A j \in I : ~(j < k)
    BY <2>1, NoFirst
  <2> QED
    BY <2>1, <2>2
<1> DEFINE k == CHOOSE x \in I : \A y \in I : x <= y
<1>4. k \in I /\ \A j \in I : k <= j
  <2> HIDE DEF I
  <2> QED
    BY <1>3
<1>5. SourceOf(r) = Sources[k]
  BY <1>2 DEF SourceOf, SelectInSeq, Min
<1>6. r.text = OutputsOnly => 4 \in I
  BY <1>1, AppliesIs
<1> HIDE DEF k
<1>7. k \in 1 .. 9 /\ Applies(r, Sources[k])
  BY <1>1, <1>4
<1>8. r.text = OutputsOnly => k <= 4
  <2> HIDE DEF I
  <2> QED
    BY <1>4, <1>6
<1>9. \A i \in 5 .. 9 : Sources[k] = Sources[i] => k = i
  BY <1>7 DEF Sources
<1> QED
  BY <1>5, <1>7, <1>8, <1>9

-----------------------------------------------------------------------------
(* Types, and the requests.                                                *)

Phase == {"idle", "cold", "prefill", "coldEnd", "decode", "rebuild",
          "store", "end"}

Protocol == {"responses", "anthropic", "chat", "none"}

Binding == [valid : BOOLEAN, tokens : Nat, visible : Seq(Character),
            ids : Seq(Character)]

Asked == [api : Protocol, text : Seq(Character), ids : Seq(Letter),
          suffix : Seq(Letter)]

Entry == [key : Seq(Character), tokens : Seq(Token)]

ReuseTypes ==
    /\ session \in Seq(Token) /\ target \in Seq(Token)
    /\ valid \in BOOLEAN /\ failed \in BOOLEAN
    /\ responses \in Binding /\ anthropic \in Binding /\ thinking \in Binding
    /\ last \in Nat /\ cached \in Nat /\ cold \in Nat /\ held \in Int
    /\ disk \subseteq Entry
    /\ pc \in Phase
    /\ req \in Asked
    /\ req.text \in Seq(Letter) \/ req.text = OutputsOnly

(* A request has a text of letters, or of tool outputs only; what follows  *)
(* the turn of its ids is not empty.                                       *)
LEMMA RequestIs ==
    ASSUME ReuseAssumption, NEW r \in Request
    PROVE  /\ r \in Asked
           /\ \/ r.text \in Seq(Letter) /\ r.text # <<>>
              \/ r.text = OutputsOnly
           /\ r.ids # NoIds => r.suffix # <<>>
           /\ Admitted(r) <=> Len(Tokenize(r.text)) < CtxSize
<1>1. Conversation \subseteq Seq(Letter) /\ <<>> \notin Conversation
  <2>1. Conversation \subseteq Seq({"a", "b"})
    BY DEF Conversation, SeqOf, ReuseAssumption
  <2>2. Seq({"a", "b"}) \subseteq Seq(Letter)
    BY SeqMonotonic DEF Letter
  <2> QED
    BY <2>1, <2>2 DEF Conversation
<1>2. Seq(Letter) \subseteq Seq(Character) /\ OutputsOnly \in Seq(Character)
  BY SeqMonotonic DEF Character, OutputsOnly
<1>3. Api \subseteq Protocol
  BY DEF ReuseAssumption, Protocol
<1>4. <<>> \in Seq(Letter)
  OBVIOUS
<1>5. CASE r \in [api : Api, text : Conversation, ids : {NoIds},
                  suffix : {<<>>}]
  <2>1. /\ r.api \in Protocol /\ r.text \in Conversation /\ r.ids = NoIds
        /\ r.suffix = <<>>
        /\ r = [api |-> r.api, text |-> r.text, ids |-> r.ids,
                suffix |-> r.suffix]
    BY <1>3, <1>5
  <2>2. r.text \in Seq(Letter) /\ r.text # <<>> /\ r.ids \in Seq(Letter)
        /\ r.suffix \in Seq(Letter)
    BY <1>1, <1>4, <2>1 DEF NoIds
  <2> QED
    BY <1>2, <2>1, <2>2 DEF Asked, Admitted
<1>6. CASE r \in [api : Api \ {"chat"}, text : Conversation \cup {OutputsOnly},
                  ids : Conversation, suffix : Conversation]
  <2>1. /\ r.api \in Protocol /\ r.text \in Conversation \cup {OutputsOnly}
        /\ r.ids \in Conversation /\ r.suffix \in Conversation
        /\ r = [api |-> r.api, text |-> r.text, ids |-> r.ids,
                suffix |-> r.suffix]
    BY <1>3, <1>6
  <2>2. /\ r.ids \in Seq(Letter) /\ r.suffix \in Seq(Letter)
        /\ r.suffix # <<>>
        /\ (r.text \in Seq(Letter) /\ r.text # <<>>) \/ r.text = OutputsOnly
    BY <1>1, <2>1
  <2> QED
    BY <1>2, <2>1, <2>2 DEF Asked, Admitted
<1> QED
  BY <1>5, <1>6 DEF Request

LEMMA OutputsNotLetters ==
    OutputsOnly \notin Seq(Letter)
BY DEF OutputsOnly, Letter

(* What each source continues.                                             *)
LEMMA LiveTargetIs ==
    ASSUME NEW r
    PROVE  /\ LiveTarget(r, "responses-visible")
                 = Extended(After(responses.visible, r.text))
           /\ LiveTarget(r, "responses-tool-output") = Extended(r.suffix)
           /\ LiveTarget(r, "anthropic-tool-output") = Extended(r.suffix)
           /\ LiveTarget(r, "memory-rewind") = Tokenize(r.text)
           /\ LiveTarget(r, "memory-token") = Tokenize(r.text)
           /\ LiveTarget(r, "thinking-visible")
                 = Extended(After(thinking.visible, r.text))
           /\ LiveTarget(r, "memory-text")
                 = Extended(After(Text(session), r.text))
BY DEF LiveTarget

LEMMA ExtendedIs ==
    ASSUME ReuseTypes, NEW x \in Seq(Letter)
    PROVE  /\ Extended(x) \in Seq(Token)
           /\ IsPrefix(session, Extended(x))
           /\ x # <<>> => Len(session) < Len(Extended(x))
           /\ Text(Extended(x)) = Text(session) \o x
<1>1. session \in Seq(Token) /\ Tokenize(x) \in Seq(Token)
      /\ Text(Tokenize(x)) = x
  BY TokenizeText DEF ReuseTypes
<1>2. session \o Tokenize(x) \in Seq(Token)
      /\ IsPrefix(session, session \o Tokenize(x))
  BY <1>1, PrefixConcat
<1>3. Len(session \o Tokenize(x)) = Len(session) + Len(Tokenize(x))
      /\ Len(session) \in Nat
  BY <1>1, ConcatProperties, LenProperties
<1>4. x # <<>> => Len(Tokenize(x)) \in Nat \ {0}
  BY TokenizeSome
<1>5. Text(session \o Tokenize(x)) = Text(session) \o x
  BY <1>1, TextConcat
<1> QED
  BY <1>2, <1>3, <1>4, <1>5 DEF Extended

(* A visible key that matches a request is the beginning of its text, and  *)
(* something follows it.                                                   *)
LEMMA VisibleKeyIs ==
    ASSUME NEW b \in Binding, NEW r \in Asked,
           r.text \in Seq(Letter) \/ r.text = OutputsOnly,
           VisibleKeyMatches(b, r)
    PROVE  /\ AtFrontier(b) /\ b.visible # <<>>
           /\ r.text \in Seq(Letter)
           /\ b.visible \in Seq(Letter)
           /\ After(b.visible, r.text) \in Seq(Letter)
           /\ After(b.visible, r.text) # <<>>
           /\ r.text = b.visible \o After(b.visible, r.text)
<1> DEFINE v == b.visible
           t == r.text
<1>1. /\ AtFrontier(b) /\ v # <<>> /\ IsPrefix(v, t) /\ v # t
      /\ v \in Seq(Character) /\ t \in Seq(Character)
  BY DEF VisibleKeyMatches, IsStrictPrefix, Binding, Asked
<1> HIDE DEF v, t
<1>2. /\ Len(v) \in Nat \ {0} /\ Len(t) \in Nat /\ Len(v) <= Len(t)
      /\ \A i \in 1 .. Len(v) : v[i] = t[i]
  BY <1>1, EmptySeq, PrefixElements, LenProperties
<1>3. t # OutputsOnly
  <2> SUFFICES ASSUME t = OutputsOnly PROVE FALSE
    OBVIOUS
  <2>1. Len(t) = 1
    BY DEF OutputsOnly
  <2>2. Len(v) = Len(t)
    <3> DEFINE m == Len(v)
               n == Len(t)
    <3>1. m \in Nat /\ m # 0 /\ m <= n /\ n = 1
      BY <1>2, <2>1
    <3> HIDE DEF m, n
    <3>2. m = n
      BY <3>1
    <3> QED
      BY <3>2 DEF m, n
  <2> QED
    BY <1>1, <1>2, <2>2, SeqEqual
<1>4. t \in Seq(Letter)
  BY <1>3 DEF t
<1>5. v \in Seq(Letter)
  <2>1. \A i \in 1 .. Len(v) : v[i] \in Letter
    <3> \A i \in 1 .. Len(v) : i \in 1 .. Len(t)
      BY <1>2
    <3> QED
      BY <1>2, <1>4, ElementOfSeq
  <2>2. v \in [1 .. Len(v) -> Letter]
    BY <1>1, <2>1, LenProperties
  <2> QED
    BY <1>2, <2>2
<1>6. /\ After(v, t) \in Seq(Letter) /\ t = v \o After(v, t)
  BY <1>1, <1>4, <1>5, PrefixSplit
<1>7. After(v, t) # <<>>
  BY <1>1, <1>5, <1>6, ConcatEmptySeq
<1> QED
  BY <1>1, <1>4, <1>5, <1>6, <1>7 DEF v, t

-----------------------------------------------------------------------------
(* The beginnings of a job.                                                *)

LiveSource == {"responses-visible", "responses-tool-output",
               "anthropic-tool-output", "memory-rewind", "memory-token",
               "thinking-visible", "memory-text"}

LEMMA SourceIs ==
    ASSUME NEW r
    PROVE  /\ SourceOf(r) \in LiveSource \cup {"unavailable", "none"}
           /\ Applies(r, SourceOf(r))
           /\ SourceOf(r) \in {"memory-rewind", "memory-token",
                                "thinking-visible", "memory-text", "none"}
                 => r.text # OutputsOnly
<1>1. /\ Sources[1] = "responses-visible"
      /\ Sources[2] = "responses-tool-output"
      /\ Sources[3] = "anthropic-tool-output" /\ Sources[4] = "unavailable"
      /\ Sources[5] = "memory-rewind" /\ Sources[6] = "memory-token"
      /\ Sources[7] = "thinking-visible" /\ Sources[8] = "memory-text"
      /\ Sources[9] = "none"
  BY DEF Sources
<1>2. \A i \in 1 .. 9 :
         i \in {1, 2, 3, 4, 5, 6, 7, 8, 9}
  OBVIOUS
<1>3. \A i \in 1 .. 9 : Sources[i] \in LiveSource \cup {"unavailable", "none"}
  BY <1>1, <1>2 DEF LiveSource
<1>4. \A x \in {"memory-rewind", "memory-token", "thinking-visible",
                "memory-text", "none"} : x \in {Sources[i] : i \in 5 .. 9}
  BY <1>1
<1> QED
  BY <1>3, <1>4, SourceApplies

(* The live session, or what of it is left by a rewind, begins the target. *)
LEMMA StartLiveIs ==
    ASSUME ReuseAssumption, ReuseTypes, NEW r \in Request, StartLive(r)
    PROVE  /\ target' \in Seq(Token) /\ session' \in Seq(Token)
           /\ cached' = Len(session') /\ IsPrefix(session', target')
           /\ source' \in LiveSource /\ Applies(r, source')
           /\ source' \in {"memory-rewind", "memory-token",
                           "thinking-visible", "memory-text"}
                 => r.text \in Seq(Letter)
           /\ source' \in {"memory-rewind", "memory-token"} =>
                 /\ target' = Tokenize(r.text)
                 /\ Len(session') # 0 => valid
           /\ source' \notin {"memory-rewind", "memory-token"} =>
                 /\ session' = session
                 /\ target' = LiveTarget(r, source')
<1> DEFINE s == SourceOf(r)
           prompt == Tokenize(r.text)
<1>1. /\ s \in LiveSource /\ Applies(r, s)
      /\ source' = s /\ target' = LiveTarget(r, s)
      /\ IF s = "memory-rewind"
         THEN /\ cached' = RewindTarget(prompt)
              /\ session' = SubSeq(session, 1, RewindTarget(prompt))
         ELSE cached' = Len(session) /\ session' = session
  BY SourceIs DEF StartLive
<1>2. r \in Asked /\ (r.text \in Seq(Letter) \/ r.text = OutputsOnly)
      /\ (r.ids # NoIds => r.suffix # <<>>)
  BY RequestIs
<1>3. s \in {"memory-rewind", "memory-token", "thinking-visible",
             "memory-text"} => r.text \in Seq(Letter)
  BY <1>2, SourceIs
<1> HIDE DEF s
<1>4. session \in Seq(Token) /\ valid \in BOOLEAN /\ Len(session) \in Nat
  BY LenProperties DEF ReuseTypes
<1>5. r.text \in Seq(Letter) =>
        /\ prompt \in Seq(Token) /\ Len(prompt) \in Nat
        /\ Common(prompt) \in 0 .. Len(session)
        /\ Common(prompt) <= Len(prompt)
        /\ \A i \in 1 .. Common(prompt) : session[i] = prompt[i]
        /\ Common(prompt) # 0 => valid
  <2> SUFFICES ASSUME r.text \in Seq(Letter)
               PROVE  /\ prompt \in Seq(Token) /\ Len(prompt) \in Nat
                      /\ Common(prompt) \in 0 .. Len(session)
                      /\ Common(prompt) <= Len(prompt)
                      /\ \A i \in 1 .. Common(prompt) : session[i] = prompt[i]
                      /\ Common(prompt) # 0 => valid
    OBVIOUS
  <2>1. prompt \in Seq(Token) /\ Len(prompt) \in Nat
    BY TokenizeText, LenProperties
  <2> HIDE DEF prompt
  <2> QED
    BY <1>4, <2>1, CommonIs
<1>6. CASE s = "memory-rewind"
  <2>1. r.text \in Seq(Letter) /\ target' = prompt
    BY <1>1, <1>3, <1>6, LiveTargetIs
  <2>2. RewindTarget(prompt) >= 0
    BY <1>1, <1>6, AppliesIs
  <2> HIDE DEF prompt
  <2> DEFINE n == RewindTarget(prompt)
  <2>3. /\ Len(prompt) > 1 /\ Len(prompt) < Len(session)
        /\ Common(prompt) = Len(prompt) /\ n = Len(prompt) - 1
    BY <2>2 DEF RewindTarget
  <2> HIDE DEF n
  <2>4. n \in 0 .. Len(session) /\ n <= Len(prompt) /\ n \in Nat
    BY <1>4, <1>5, <2>1, <2>3
  <2>5. /\ session' \in Seq(Token) /\ Len(session') = n /\ cached' = n
        /\ \A i \in 1 .. n : session'[i] = session[i]
    <3> session' = SubSeq(session, 1, n) /\ cached' = n
      BY <1>1, <1>6 DEF n
    <3> QED
      BY <1>4, <2>4, PrefixSub
  <2>6. \A i \in 1 .. n : session'[i] = prompt[i]
    <3> \A i \in 1 .. n : i \in 1 .. Common(prompt)
      BY <2>3, <2>4
    <3> QED
      BY <1>5, <2>1, <2>5
  <2>7. IsPrefix(session', target')
    <3> target' \in Seq(Token) /\ Len(session') <= Len(target')
        /\ \A i \in 1 .. Len(session') : session'[i] = target'[i]
      BY <1>5, <2>1, <2>4, <2>5, <2>6
    <3> QED
      BY <2>5, PrefixElements
  <2>8. valid
    BY <1>5, <2>1, <2>3
  <2> QED
    BY <1>1, <1>5, <1>6, <2>1, <2>5, <2>7, <2>8 DEF prompt
<1>7. CASE s = "memory-token"
  <2>1. r.text \in Seq(Letter) /\ target' = prompt
    BY <1>1, <1>3, <1>7, LiveTargetIs
  <2>2. Len(session) > 0 /\ Common(prompt) = Len(session)
    BY <1>1, <1>7, AppliesIs
  <2>3. session' = session /\ cached' = Len(session)
    BY <1>1, <1>7
  <2> HIDE DEF prompt
  <2>4. IsPrefix(session, prompt)
    BY <1>4, <1>5, <2>1, <2>2, PrefixElements
  <2>5. valid
    BY <1>4, <1>5, <2>1, <2>2
  <2> QED
    BY <1>1, <1>4, <1>5, <1>7, <2>1, <2>3, <2>4, <2>5 DEF prompt
<1>8. CASE s \notin {"memory-rewind", "memory-token"}
  <2>1. \E x \in Seq(Letter) : LiveTarget(r, s) = Extended(x)
    <3>1. CASE s = "responses-visible"
      <4>1. VisibleKeyMatches(responses, r) /\ responses \in Binding
        BY <1>1, <3>1, AppliesIs DEF ReuseTypes
      <4> QED
        BY <1>2, <3>1, <4>1, VisibleKeyIs, LiveTargetIs
    <3>2. CASE s = "thinking-visible"
      <4>1. VisibleKeyMatches(thinking, r) /\ thinking \in Binding
        BY <1>1, <3>2, AppliesIs DEF ReuseTypes
      <4> QED
        BY <1>2, <3>2, <4>1, VisibleKeyIs, LiveTargetIs
    <3>3. CASE s \in {"responses-tool-output", "anthropic-tool-output"}
      <4> r.suffix \in Seq(Letter)
        BY <1>2 DEF Asked
      <4> QED
        BY <3>3, LiveTargetIs
    <3>4. CASE s = "memory-text"
      <4>1. r.text \in Seq(Letter) /\ IsPrefix(Text(session), r.text)
        BY <1>1, <1>3, <3>4, AppliesIs
      <4>2. Text(session) \in Seq(Letter)
        BY <1>4, TextType
      <4>3. After(Text(session), r.text) \in Seq(Letter)
        BY <4>1, <4>2, PrefixSplit
      <4> QED
        BY <3>4, <4>3, LiveTargetIs
    <3> QED
      BY <1>1, <1>8, <3>1, <3>2, <3>3, <3>4 DEF LiveSource
  <2>2. PICK x \in Seq(Letter) : target' = Extended(x)
    BY <1>1, <2>1
  <2>3. target' \in Seq(Token) /\ IsPrefix(session, target')
    BY <2>2, ExtendedIs
  <2>4. session' = session /\ cached' = Len(session)
    BY <1>1, <1>8
  <2> QED
    BY <1>1, <1>3, <1>4, <1>8, <2>3, <2>4
<1> QED
  BY <1>6, <1>7, <1>8

(* A store adds at most the one entry.                                     *)
LEMMA StoredIs ==
    ASSUME NEW d, NEW key, NEW tokens, NEW new \in Stored(d, key, tokens)
    PROVE  new \subseteq d \cup {[key |-> key, tokens |-> tokens]}
BY DEF Stored

LEMMA CurrentKeyIs ==
    ASSUME ReuseTypes
    PROVE  /\ CurrentKey \in Seq(Character)
           /\ \/ CurrentKey = Text(session)
              \/ \E b \in {responses, thinking} :
                    AtFrontier(b) /\ b.visible # <<>> /\ CurrentKey = b.visible
<1>1. Text(session) \in Seq(Letter) /\ Seq(Letter) \subseteq Seq(Character)
  BY TextType, SeqMonotonic DEF ReuseTypes, Character
<1>2. responses.visible \in Seq(Character) /\ thinking.visible \in Seq(Character)
  BY DEF ReuseTypes, Binding
<1> QED
  BY <1>1, <1>2 DEF CurrentKey

LEMMA StoreCurrentIs ==
    ASSUME ReuseTypes, NEW new \in StoreCurrent(disk)
    PROVE  /\ new \subseteq disk \cup {[key |-> CurrentKey, tokens |-> session]}
           /\ new \subseteq Entry
<1>1. new \subseteq disk \cup {[key |-> CurrentKey, tokens |-> session]}
  BY StoredIs DEF StoreCurrent
<1>2. [key |-> CurrentKey, tokens |-> session] \in Entry
  BY CurrentKeyIs DEF Entry, ReuseTypes
<1> QED
  BY <1>1, <1>2 DEF ReuseTypes

(* A checkpoint on the way is keyed by the text of its tokens.             *)
LEMMA StoreContinuedIs ==
    ASSUME ReuseTypes, NEW tokens \in Seq(Token), StoreContinued(tokens)
    PROVE  /\ disk' \subseteq
                 disk \cup {[key |-> Text(tokens), tokens |-> tokens]}
           /\ disk' \subseteq Entry
           /\ last' \in Nat
           /\ Len(tokens) <= last => last' = last
           /\ last' # last => last' > last /\ HasKey(disk', Text(tokens))
<1>1. Len(tokens) \in Nat /\ last \in Nat /\ disk \subseteq Entry
  BY LenProperties DEF ReuseTypes
<1>2. [key |-> Text(tokens), tokens |-> tokens] \in Entry
  <2> Text(tokens) \in Seq(Character)
    BY TextType, SeqMonotonic DEF Character
  <2> QED
    BY DEF Entry
<1>3. CASE Due(Len(tokens))
  <2>1. PICK d \in Stored(disk, Text(tokens), tokens) :
            /\ disk' = d
            /\ last' = Noted(Len(tokens), HasKey(d, Text(tokens)))
    BY <1>3 DEF StoreContinued
  <2>2. d \subseteq disk \cup {[key |-> Text(tokens), tokens |-> tokens]}
    BY StoredIs
  <2>3. Len(tokens) > last
    BY <1>3 DEF Due
  <2>4. /\ last' \in Nat
        /\ last' # last => last' > last /\ HasKey(disk', Text(tokens))
    BY <1>1, <2>1, <2>3 DEF Noted
  <2> QED
    BY <1>1, <1>2, <2>1, <2>2, <2>3, <2>4
<1>4. CASE ~Due(Len(tokens))
  BY <1>1, <1>4 DEF StoreContinued
<1> QED
  BY <1>3, <1>4

(* The cold checkpoint is keyed by the text of the session; if it is not   *)
(* written, a frontier held back for it is due again.                      *)
LEMMA StoreColdIs ==
    ASSUME ReuseTypes, NEW next, StoreCold(next)
    PROVE  /\ disk' \subseteq
                 disk \cup {[key |-> Text(session), tokens |-> session]}
           /\ disk' \subseteq Entry
           /\ held' = -1 /\ pc' = next
           /\ \/ /\ HasKey(disk', Text(session))
                 /\ last' \in {cold, last}
              \/ last' = IF held >= 0 /\ last = cold THEN held ELSE last
<1>1. session \in Seq(Token) /\ disk \subseteq Entry
  BY DEF ReuseTypes
<1>2. [key |-> Text(session), tokens |-> session] \in Entry
  <2> Text(session) \in Seq(Character)
    BY <1>1, TextType, SeqMonotonic DEF Character
  <2> QED
    BY <1>1 DEF Entry
<1>3. PICK d \in Stored(disk, Text(session), session) :
         /\ disk' = d
         /\ IF HasKey(d, Text(session))
            THEN last' = Noted(cold, TRUE)
            ELSE last' = IF held >= 0 /\ last = cold THEN held ELSE last
         /\ held' = -1
         /\ pc' = next
  BY DEF StoreCold
<1>4. d \subseteq disk \cup {[key |-> Text(session), tokens |-> session]}
  BY StoredIs
<1> QED
  BY <1>1, <1>2, <1>3, <1>4 DEF Noted

LEMMA ColdLengthsIs ==
    ASSUME ReuseAssumption, NEW prompt, Len(prompt) \in Nat,
           NEW n \in ColdLengths(prompt)
    PROVE  /\ n \in Nat /\ n <= Len(prompt)
           /\ n # 0 => n >= MinTokens
<1>1. MinTokens \in Nat \ {0}
  BY DEF ReuseAssumption
<1>2. n \in MinTokens .. Len(prompt) \/ n = 0
  BY DEF ColdLengths
<1> QED
  BY <1>1, <1>2

LEMMA MoreCharacters ==
    ASSUME NEW s \in Seq(Letter)
    PROVE  s \in Seq(Character)
BY SeqMonotonic DEF Character

(* A checkpoint that is found is one of a text that begins the request's.  *)
LEMMA FoundIs ==
    ASSUME NEW d, d \subseteq Entry, NEW text \in Seq(Letter),
           NEW e \in Found(d, text)
    PROVE  /\ e \in d /\ e \in Entry /\ IsPrefix(e.key, text)
           /\ e.key \in Seq(Letter) /\ After(e.key, text) \in Seq(Letter)
           /\ text = e.key \o After(e.key, text)
           /\ e.tokens \in Seq(Token) /\ Len(e.tokens) \in Nat
           /\ Tokenize(After(e.key, text)) \in Seq(Token)
           /\ e.tokens \o Tokenize(After(e.key, text)) \in Seq(Token)
           /\ IsPrefix(e.tokens, e.tokens \o Tokenize(After(e.key, text)))
<1>1. e \in d /\ IsPrefix(e.key, text)
  BY DEF Found
<1>2. e \in Entry /\ e.key \in Seq(Character) /\ e.tokens \in Seq(Token)
  BY <1>1 DEF Entry
<1>3. e.key \in Seq(Letter)
  <2> DEFINE k == e.key
  <2>1. k \in Seq(Character) /\ text \in Seq(Character) /\ IsPrefix(k, text)
    BY <1>1, <1>2, MoreCharacters
  <2> HIDE DEF k
  <2>2. /\ Len(k) \in Nat /\ Len(text) \in Nat /\ Len(k) <= Len(text)
        /\ \A i \in 1 .. Len(k) : k[i] = text[i]
    BY <2>1, PrefixElements, LenProperties
  <2>3. \A i \in 1 .. Len(k) : k[i] \in Letter
    <3> \A i \in 1 .. Len(k) : i \in 1 .. Len(text)
      BY <2>2
    <3> QED
      BY <2>2, ElementOfSeq
  <2>4. k \in [1 .. Len(k) -> Letter]
    BY <2>1, <2>3, LenProperties
  <2> QED
    BY <2>2, <2>4 DEF k
<1>4. /\ After(e.key, text) \in Seq(Letter)
      /\ text = e.key \o After(e.key, text)
  BY <1>1, <1>3, PrefixSplit
<1>5. Tokenize(After(e.key, text)) \in Seq(Token)
  BY <1>4, TokenizeText
<1>6. /\ e.tokens \o Tokenize(After(e.key, text)) \in Seq(Token)
      /\ IsPrefix(e.tokens, e.tokens \o Tokenize(After(e.key, text)))
  BY <1>2, <1>5, PrefixConcat
<1> QED
  BY <1>1, <1>2, <1>3, <1>4, <1>5, <1>6, LenProperties

(* A job that misses begins with nothing, or with what it loads.           *)
LEMMA StartMissIs ==
    ASSUME ReuseAssumption, ReuseTypes, NEW r \in Request, StartMiss(r)
    PROVE  /\ r.text \in Seq(Letter)
           /\ disk' \in StoreCurrent(disk)
           /\ target' \in Seq(Token) /\ session' \in Seq(Token)
           /\ valid' \in BOOLEAN /\ cached' \in Nat /\ cold' \in Nat
           /\ last' \in Nat
           /\ \/ /\ source' = "none" /\ target' = Tokenize(r.text)
                 /\ cached' = 0
                 /\ \/ session' = session /\ valid' = valid
                    \/ session' = <<>>
                 /\ \/ held' = -1 /\ last' = 0
                    \/ held' = 0 /\ last' = cold' /\ cold' # 0
                 /\ \/ pc' = "cold" /\ cold' <= Len(target')
                    \/ pc' = "prefill" /\ (cold' = 0 \/ cold' = Len(target'))
              \/ /\ source' = "disk-text"
                 /\ \E e \in disk' :
                       /\ e \in Entry /\ IsPrefix(e.key, r.text)
                       /\ e.key \in Seq(Letter)
                       /\ After(e.key, r.text) \in Seq(Letter)
                       /\ r.text = e.key \o After(e.key, r.text)
                       /\ session' = e.tokens /\ valid' = TRUE
                       /\ target' = e.tokens \o Tokenize(After(e.key, r.text))
                 /\ cached' = Len(session') /\ IsPrefix(session', target')
                 /\ held' = -1 /\ last' = 0 /\ pc' = "prefill"
<1>1. r.text \in Seq(Letter)
  BY RequestIs, SourceIs DEF StartMiss
<1>2. disk' \in StoreCurrent(disk)
  BY DEF StartMiss
<1>3. disk' \subseteq Entry
  BY <1>2, StoreCurrentIs
<1> DEFINE prompt == Tokenize(r.text)
<1>4. prompt \in Seq(Token) /\ Len(prompt) \in Nat
  BY <1>1, TokenizeText, LenProperties
<1>5. ASSUME StartCold(r),
             \/ session' = session /\ valid' = valid
             \/ session' = <<>> /\ valid' = FALSE
      PROVE  /\ target' \in Seq(Token) /\ session' \in Seq(Token)
             /\ valid' \in BOOLEAN /\ cached' \in Nat /\ cold' \in Nat
             /\ last' \in Nat
             /\ source' = "none" /\ target' = Tokenize(r.text)
             /\ cached' = 0
             /\ \/ session' = session /\ valid' = valid
                \/ session' = <<>>
             /\ \/ held' = -1 /\ last' = 0
                \/ held' = 0 /\ last' = cold' /\ cold' # 0
             /\ \/ pc' = "cold" /\ cold' <= Len(target')
                \/ pc' = "prefill" /\ (cold' = 0 \/ cold' = Len(target'))
  <2>1. /\ target' = prompt /\ cached' = 0 /\ source' = "none"
        /\ cold' \in ColdLengths(prompt)
        /\ \/ held' = -1 /\ last' = 0
           \/ held' = 0 /\ last' = cold' /\ cold' >= MinTokens
        /\ pc' = IF cold' \in 1 .. Len(prompt) - 1 THEN "cold" ELSE "prefill"
    BY <1>5 DEF StartCold
  <2> HIDE DEF prompt
  <2>2. cold' \in Nat /\ cold' <= Len(prompt)
    BY <1>4, <2>1, ColdLengthsIs
  <2>3. cold' >= MinTokens => cold' # 0
    BY DEF ReuseAssumption
  <2>4. \/ pc' = "cold" /\ cold' <= Len(target')
        \/ pc' = "prefill" /\ (cold' = 0 \/ cold' = Len(target'))
    BY <1>4, <2>1, <2>2
  <2>5. session' \in Seq(Token) /\ valid' \in BOOLEAN
    <3>1. session \in Seq(Token) /\ valid \in BOOLEAN /\ <<>> \in Seq(Token)
      BY DEF ReuseTypes
    <3>2. CASE session' = session /\ valid' = valid
      BY <3>1, <3>2
    <3>3. CASE session' = <<>> /\ valid' = FALSE
      BY <3>1, <3>3
    <3> QED
      BY <1>5, <3>2, <3>3
  <2> QED
    BY <1>4, <1>5, <2>1, <2>2, <2>3, <2>4, <2>5 DEF prompt
<1>6. ASSUME NEW e \in Found(disk', r.text), StartLoaded(r, e)
      PROVE  /\ target' \in Seq(Token) /\ session' \in Seq(Token)
             /\ valid' \in BOOLEAN /\ cached' \in Nat /\ cold' \in Nat
             /\ last' \in Nat
             /\ source' = "disk-text"
             /\ e \in disk' /\ e \in Entry /\ IsPrefix(e.key, r.text)
             /\ e.key \in Seq(Letter) /\ After(e.key, r.text) \in Seq(Letter)
             /\ r.text = e.key \o After(e.key, r.text)
             /\ session' = e.tokens /\ valid' = TRUE
             /\ target' = e.tokens \o Tokenize(After(e.key, r.text))
             /\ cached' = Len(session') /\ IsPrefix(session', target')
             /\ held' = -1 /\ last' = 0 /\ pc' = "prefill"
  BY <1>1, <1>3, <1>6, FoundIs DEF StartLoaded
<1>7. CASE \E e \in Found(disk', r.text) : StartLoaded(r, e)
  BY <1>1, <1>2, <1>6, <1>7
<1>8. CASE /\ StartCold(r)
           /\ \/ session' = session /\ valid' = valid
              \/ session' = <<>> /\ valid' = FALSE
  BY <1>1, <1>2, <1>5, <1>8
<1> QED
  BY <1>7, <1>8 DEF StartMiss

(* What is left of a text is a text.                                       *)
LEMMA AfterType ==
    ASSUME NEW S, NEW s \in Seq(S), NEW t \in Seq(S)
    PROVE  After(s, t) \in Seq(S)
<1>1. Len(s) \in Nat /\ Len(t) \in Nat
  BY LenProperties
<1>2. CASE Len(s) <= Len(t)
  <2>1. Len(s) + 1 \in 1 .. Len(t) + 1 /\ Len(t) \in 0 .. Len(t)
    BY <1>1, <1>2
  <2> QED
    BY <2>1, SubSeqProperties DEF After
<1>3. CASE Len(t) < Len(s)
  <2>1. SubSeq(t, Len(s) + 1, Len(t)) = <<>>
    BY <1>1, <1>3, SubSeqEmpty
  <2> QED
    BY <2>1 DEF After
<1> QED
  BY <1>1, <1>2, <1>3

\* A part of a prompt is planned within it.
ColdWithin == pc = "cold" => cold <= Len(target)

TypesInv == ReuseTypes /\ ColdWithin

LEMMA PrefixOfPrefix ==
    ASSUME NEW S, NEW s \in Seq(S), NEW t \in Seq(S), NEW u \in Seq(S),
           IsPrefix(s, t), IsPrefix(t, u)
    PROVE  IsPrefix(s, u)
<1>1. Len(s) \in Nat /\ Len(t) \in Nat /\ Len(u) \in Nat
  BY LenProperties
<1>2. /\ Len(s) <= Len(t) /\ Len(t) <= Len(u)
      /\ \A i \in 1 .. Len(s) : s[i] = t[i]
      /\ \A i \in 1 .. Len(t) : t[i] = u[i]
  BY PrefixElements
<1>3. Len(s) <= Len(u) /\ \A i \in 1 .. Len(s) : s[i] = u[i]
  BY <1>1, <1>2
<1> QED
  BY <1>3, PrefixElements

LEMMA GoalIs ==
    ASSUME TypesInv
    PROVE  /\ Goal \in Seq(Token) /\ Len(Goal) \in Nat
           /\ IsPrefix(Goal, target)
           /\ pc # "cold" => Goal = target
<1>1. target \in Seq(Token) /\ cold \in Nat /\ Len(target) \in Nat
  BY LenProperties DEF TypesInv, ReuseTypes
<1>2. CASE pc = "cold"
  <2>1. cold \in 0 .. Len(target)
    BY <1>1, <1>2 DEF TypesInv, ColdWithin
  <2>2. SubSeq(target, 1, cold) \in Seq(Token) /\ IsPrefix(SubSeq(target, 1, cold), target)
    BY <1>1, <2>1, PrefixSub
  <2> QED
    BY <1>2, <2>2, LenProperties DEF Goal
<1>3. CASE pc # "cold"
  <2>1. IsPrefix(target, target)
    BY <1>1, PrefixElements
  <2> QED
    BY <1>1, <1>3, <2>1 DEF Goal
<1> QED
  BY <1>2, <1>3

LEMMA ReachIs ==
    ASSUME ReuseAssumption, TypesInv
    PROVE  /\ Reach \in 0 .. Len(Goal)
           /\ Len(Kept) \in 0 .. Reach
           /\ (valid /\ IsPrefix(session, Goal)) => Kept = session
           /\ Reach < Len(Goal) => Len(Kept) < Reach
<1>1. Goal \in Seq(Token) /\ Len(Goal) \in Nat
  BY GoalIs
<1>2. session \in Seq(Token) /\ Quantum \in Nat /\ Quantum # 0
  BY DEF TypesInv, ReuseTypes, ReuseAssumption
<1>3. Len(Kept) \in Nat /\ Len(Kept) <= Len(Goal)
  <2>1. CASE valid /\ IsPrefix(session, Goal)
    <3>1. Kept = session /\ Len(session) \in Nat /\ Len(session) <= Len(Goal)
      BY <1>1, <1>2, <2>1, PrefixSplit, LenProperties DEF Kept
    <3> QED
      BY <3>1
  <2>2. CASE ~(valid /\ IsPrefix(session, Goal))
    <3>1. Kept = <<>> /\ Len(<<>>) = 0
      BY <2>2 DEF Kept
    <3> QED
      BY <1>1, <3>1
  <2> QED
    BY <2>1, <2>2
<1>4. (valid /\ IsPrefix(session, Goal)) => Kept = session
  BY DEF Kept
<1>5. Reach = IF Len(Kept) + Quantum < Len(Goal) THEN Len(Kept) + Quantum ELSE Len(Goal)
  BY DEF Reach
<1> QED
  BY <1>1, <1>2, <1>3, <1>4, <1>5

(* A step of a prefill leaves a longer beginning of the prompt, and files  *)
(* it when it is due.                                                      *)
LEMMA PrefillIs ==
    ASSUME ReuseAssumption, TypesInv, Prefill
    PROVE  /\ session' \in Seq(Token) /\ valid' = TRUE
           /\ IsPrefix(session', Goal) /\ IsPrefix(session', target)
           /\ Len(session') = Reach
           /\ (valid /\ IsPrefix(session, Goal)) => Len(session) <= Reach
           /\ \/ Reach > cached /\ StoreContinued(session')
              \/ disk' = disk /\ last' = last
<1>1. /\ Goal \in Seq(Token) /\ Len(Goal) \in Nat /\ IsPrefix(Goal, target)
      /\ target \in Seq(Token)
  BY GoalIs DEF TypesInv, ReuseTypes
<1>2. Reach \in 0 .. Len(Goal) /\ Len(Kept) \in 0 .. Reach
  BY ReachIs
<1>3. session' = SubSeq(Goal, 1, Reach) /\ valid' = TRUE
  BY DEF Prefill
<1>4. /\ session' \in Seq(Token) /\ Len(session') = Reach
      /\ IsPrefix(session', Goal)
  BY <1>1, <1>2, <1>3, PrefixSub
<1>5. IsPrefix(session', target)
  BY <1>1, <1>4, PrefixOfPrefix
<1>6. (valid /\ IsPrefix(session, Goal)) => Len(session) <= Reach
  BY <1>2, ReachIs
<1>7. \/ Reach > cached /\ StoreContinued(session')
      \/ disk' = disk /\ last' = last
  BY <1>3 DEF Prefill
<1> QED
  BY <1>3, <1>4, <1>5, <1>6, <1>7

LEMMA ResponseIs ==
    ASSUME ReuseTypes
    PROVE  /\ Response \in Seq(Token)
           /\ Text(Response) \in Seq(Letter)
           /\ Visibly(Response) \in Seq(Letter)
<1>1. Response \in Seq(Token)
  BY AfterType DEF ReuseTypes, Response
<1>2. Text(Response) \in Seq(Letter)
  BY <1>1, TextType
<1> QED
  BY <1>1, <1>2, VisibleType DEF Visibly

LEMMA WantedType ==
    ASSUME NEW r \in Asked, r.text \in Seq(Letter) \/ r.text = OutputsOnly
    PROVE  Wanted(r) \in Seq(Letter)
<1>1. r.ids \in Seq(Letter) /\ r.suffix \in Seq(Letter)
  BY DEF Asked
<1>2. r.ids \o r.suffix \in Seq(Letter)
  BY <1>1, PrefixConcat
<1> QED
  BY <1>2 DEF Wanted

(* What a response shows is what was said before and its visible text.     *)
LEMMA ContinuedIs ==
    ASSUME ReuseTypes
    PROVE  /\ Continued \in Seq(Letter)
           /\ Transcript \in Seq(Character)
           /\ req.text \in Seq(Letter) => Transcript \in Seq(Letter)
<1>1. req \in Asked /\ (req.text \in Seq(Letter) \/ req.text = OutputsOnly)
  BY DEF ReuseTypes
<1>2. Visibly(Response) \in Seq(Letter)
  BY ResponseIs
<1>3. Visibly(Response) \in Seq(Character) /\ req.text \in Seq(Character)
  BY <1>1, <1>2, MoreCharacters DEF Asked
<1>4. Wanted(req) \in Seq(Letter)
  BY <1>1, WantedType
<1>5. Continued \in Seq(Letter)
  BY <1>2, <1>4, PrefixConcat DEF Continued
<1>6. Transcript \in Seq(Character)
  BY <1>3, PrefixConcat DEF Transcript
<1>7. req.text \in Seq(Letter) => Transcript \in Seq(Letter)
  BY <1>2, PrefixConcat DEF Transcript
<1> QED
  BY <1>5, <1>6, <1>7

LEMMA BoundType ==
    ASSUME ReuseTypes, NEW visible \in Seq(Character), NEW ids \in Seq(Character)
    PROVE  Bound(visible, ids) \in Binding /\ Unbound \in Binding
<1>1. Len(session) \in Nat
  BY LenProperties DEF ReuseTypes
<1>2. <<>> \in Seq(Character)
  OBVIOUS
<1> QED
  BY <1>1, <1>2 DEF Bound, Unbound, NoIds, Binding

(* What a response leaves behind is bound to the frontier it ends at.      *)
LEMMA RememberIs ==
    ASSUME ReuseTypes, NEW outcome, Remember(outcome)
    PROVE  /\ responses' \in Binding /\ anthropic' \in Binding
           /\ thinking' \in Binding
           /\ \/ responses' = responses /\ req.api # "responses"
              \/ responses' = Bound(Transcript, Continued)
              \/ responses' = Bound(Transcript, NoIds)
              \/ responses' = Unbound
           /\ \/ anthropic' = anthropic /\ req.api # "anthropic"
              \/ anthropic' = Bound(<<>>, Continued)
              \/ anthropic' = Unbound
           /\ \/ thinking' = Bound(Transcript, NoIds) /\ outcome = "thought"
              \/ thinking' = Unbound
<1> DEFINE ids == IF outcome = "tool_calls" THEN Continued ELSE NoIds
<1>1. /\ responses' = IF req.api # "responses" THEN responses
                      ELSE IF outcome \in Answered
                           THEN Bound(Transcript, ids) ELSE Unbound
      /\ anthropic' = IF req.api # "anthropic" THEN anthropic
                      ELSE IF outcome = "tool_calls"
                           THEN Bound(<<>>, ids) ELSE Unbound
      /\ thinking' = IF outcome = "thought" THEN Bound(Transcript, NoIds)
                     ELSE Unbound
  BY DEF Remember
<1>2. NoIds \in Seq(Character) /\ <<>> \in Seq(Character)
  BY DEF NoIds
<1>3. Transcript \in Seq(Character) /\ Continued \in Seq(Character)
  BY ContinuedIs, MoreCharacters
<1>4. ids \in {Continued, NoIds} /\ (outcome = "tool_calls" => ids = Continued)
  OBVIOUS
<1> HIDE DEF ids
<1>5. /\ Bound(Transcript, Continued) \in Binding
      /\ Bound(Transcript, NoIds) \in Binding
      /\ Bound(<<>>, Continued) \in Binding /\ Unbound \in Binding
  BY <1>2, <1>3, BoundType
<1>6. responses \in Binding /\ anthropic \in Binding
  BY DEF ReuseTypes
<1>7. /\ \/ responses' = responses /\ req.api # "responses"
         \/ responses' = Bound(Transcript, Continued)
         \/ responses' = Bound(Transcript, NoIds)
         \/ responses' = Unbound
      /\ \/ anthropic' = anthropic /\ req.api # "anthropic"
         \/ anthropic' = Bound(<<>>, Continued)
         \/ anthropic' = Unbound
      /\ \/ thinking' = Bound(Transcript, NoIds) /\ outcome = "thought"
         \/ thinking' = Unbound
  BY <1>1, <1>4
<1> QED
  BY <1>5, <1>6, <1>7

(* A session is rewritten only for a request that shows the conversation   *)
(* from its beginning.                                                     *)
LEMMA RewritesIs ==
    ASSUME ReuseTypes, NEW said \in Seq(Letter), Rewrites(said)
    PROVE  /\ req.text \in Seq(Letter) /\ Rendered(said) \in Seq(Letter)
           /\ Tokenize(Rendered(said)) \in Seq(Token)
           /\ Text(Tokenize(Rendered(said))) = Rendered(said)
           /\ Common(Tokenize(Rendered(said))) >= Len(Tokenize(req.text))
<1> DEFINE text == Rendered(said)
           canonical == Tokenize(text)
<1>1. session \in Seq(Token) /\ valid \in BOOLEAN
  BY DEF ReuseTypes
<1>2. Common(canonical) >= Len(Tokenize(req.text))
  BY DEF Rewrites
<1>3. req.text # OutputsOnly
  <2>1. SUFFICES ASSUME req.text = OutputsOnly PROVE FALSE
    OBVIOUS
  <2>2. said \in Seq(Character)
    BY MoreCharacters
  <2>3. OutputsOnly \in Seq(Character) /\ Len(OutputsOnly) = 1 /\ OutputsOnly[1] = "o"
    BY DEF OutputsOnly, Character
  <2>4. text \in Seq(Character) /\ text # <<>> /\ text[1] = "o"
    <3>1. text = OutputsOnly \o said
      BY <2>1 DEF Rendered
    <3> QED
      BY <2>2, <2>3, <3>1, ConcatProperties
  <2> HIDE DEF text
  <2>5. /\ canonical \in Seq(Piece) /\ Len(canonical) >= 1
        /\ canonical[1] = "o"
    BY <2>4, TokenizeOutputs
  <2>6. Len(Tokenize(req.text)) >= 1 /\ Len(Tokenize(req.text)) \in Nat
    BY <2>1, <2>3, TokenizeOutputs, LenProperties
  <2>7. Len(canonical) \in Nat /\ Len(session) \in Nat
    BY <1>1, <2>5, LenProperties
  <2> HIDE DEF canonical
  <2>8. /\ Common(canonical) \in 0 .. Len(session)
        /\ \A i \in 1 .. Common(canonical) : session[i] = canonical[i]
    BY <1>1, <2>7, CommonIs
  <2>9. 1 \in 1 .. Len(session) /\ session[1] = "o"
    BY <1>2, <2>5, <2>6, <2>7, <2>8
  <2>10. session[1] \in Token
    BY <1>1, <2>9, ElementOfSeq
  <2> QED
    BY <2>9, <2>10 DEF Token
<1>4. req.text \in Seq(Letter)
  BY <1>3 DEF ReuseTypes
<1>5. text \in Seq(Letter)
  BY <1>4, PrefixConcat DEF Rendered
<1>6. Tokenize(text) \in Seq(Token) /\ Text(Tokenize(text)) = text
  BY <1>5, TokenizeText
<1> QED
  BY <1>2, <1>4, <1>5, <1>6

LEMMA FinishRewritingIs ==
    ASSUME ReuseTypes, FinishRewriting
    PROVE  \E said \in {Text(Response), Visibly(Response)} :
              /\ said \in Seq(Letter) /\ Rewrites(said)
              /\ req' = [req EXCEPT !.text = Rendered(said)]
              /\ session' \in Seq(Token) /\ target' \in Seq(Token)
              /\ cached' \in Nat
              /\ \/ session' = session /\ valid' = valid
                 \/ session' = <<>> /\ valid' = FALSE
                 \/ valid' = TRUE
              /\ \/ target' = Tokenize(Rendered(said))
                 \/ \E e \in Found(disk, Rendered(said)) :
                       target' = e.tokens \o
                                 Tokenize(After(e.key, Rendered(said)))
<1>1. PICK said \in {Text(Response), Visibly(Response)} :
         /\ Rewrites(said)
         /\ req' = [req EXCEPT !.text = Rendered(said)]
         /\ LET canonical == Tokenize(Rendered(said)) IN
            \/ /\ target' = canonical /\ cached' = Len(canonical)
               /\ UNCHANGED <<session, valid>>
            \/ /\ session' = <<>> /\ valid' = FALSE
               /\ target' = canonical /\ cached' = 0
            \/ \E e \in Found(disk, Rendered(said)) :
                  /\ session' = e.tokens /\ valid' = TRUE
                  /\ target' = e.tokens \o
                               Tokenize(After(e.key, Rendered(said)))
                  /\ cached' = Len(e.tokens)
  BY DEF FinishRewriting
<1>2. said \in Seq(Letter)
  BY <1>1, ResponseIs
<1>3. /\ Rendered(said) \in Seq(Letter)
      /\ Tokenize(Rendered(said)) \in Seq(Token)
      /\ Len(Tokenize(Rendered(said))) \in Nat
  BY <1>1, <1>2, RewritesIs, LenProperties
<1>4. \A e \in Found(disk, Rendered(said)) :
         /\ e.tokens \in Seq(Token) /\ Len(e.tokens) \in Nat
         /\ e.tokens \o Tokenize(After(e.key, Rendered(said))) \in Seq(Token)
  BY <1>3, FoundIs DEF ReuseTypes
<1>5. session \in Seq(Token) /\ <<>> \in Seq(Token)
  BY DEF ReuseTypes
<1>6. /\ session' \in Seq(Token) /\ target' \in Seq(Token) /\ cached' \in Nat
      /\ \/ session' = session /\ valid' = valid
         \/ session' = <<>> /\ valid' = FALSE
         \/ valid' = TRUE
      /\ \/ target' = Tokenize(Rendered(said))
         \/ \E e \in Found(disk, Rendered(said)) :
               target' = e.tokens \o Tokenize(After(e.key, Rendered(said)))
  <2>1. CASE /\ target' = Tokenize(Rendered(said))
             /\ cached' = Len(Tokenize(Rendered(said)))
             /\ UNCHANGED <<session, valid>>
    BY <1>3, <1>5, <2>1
  <2>3. CASE /\ session' = <<>> /\ valid' = FALSE
             /\ target' = Tokenize(Rendered(said)) /\ cached' = 0
    BY <1>3, <1>5, <2>3
  <2>2. CASE \E e \in Found(disk, Rendered(said)) :
                /\ session' = e.tokens /\ valid' = TRUE
                /\ target' = e.tokens \o Tokenize(After(e.key, Rendered(said)))
                /\ cached' = Len(e.tokens)
    BY <1>4, <2>2
  <2> QED
    BY <1>1, <2>1, <2>2, <2>3
<1> QED
  BY <1>1, <1>2, <1>6

-----------------------------------------------------------------------------
(* The types of the slot.                                                  *)

LEMMA TypesInit ==
    ASSUME Init
    PROVE  TypesInv
<1>1. <<>> \in Seq(Token) /\ <<>> \in Seq(Letter) /\ <<>> \in Seq(Character)
  OBVIOUS
<1>2. Unbound \in Binding
  BY <1>1 DEF Unbound, NoIds, Binding
<1>3. NoRequest \in Asked /\ NoRequest.text = <<>>
  BY <1>1 DEF NoRequest, NoIds, Asked, Protocol
<1>4. /\ session = <<>> /\ target = <<>> /\ valid = FALSE /\ failed = FALSE
      /\ responses = Unbound /\ anthropic = Unbound /\ thinking = Unbound
      /\ last = 0 /\ cached = 0 /\ cold = 0 /\ held = -1
      /\ disk = {} /\ pc = "idle" /\ req = NoRequest
  BY DEF Init
<1>5. disk \subseteq Entry /\ pc \in Phase /\ pc # "cold"
  BY <1>4 DEF Phase
<1>6. valid \in BOOLEAN /\ failed \in BOOLEAN
  BY <1>4
<1>7. last \in Nat /\ cached \in Nat /\ cold \in Nat /\ held \in Int
  BY <1>4
<1> QED
  BY <1>1, <1>2, <1>3, <1>4, <1>5, <1>6, <1>7 DEF TypesInv, ReuseTypes, ColdWithin

LEMMA EndJobTypes ==
    ASSUME EndJob
    PROVE  /\ target' \in Seq(Token) /\ cached' \in Nat /\ cold' \in Nat
           /\ held' \in Int /\ pc' \in Phase /\ req' \in Asked
           /\ req'.text \in Seq(Letter)
           /\ ColdWithin'
<1>1. <<>> \in Seq(Token) /\ <<>> \in Seq(Letter) /\ <<>> \in Seq(Character)
  OBVIOUS
<1> QED
  BY <1>1 DEF EndJob, NoRequest, NoIds, Asked, Protocol, Phase, ColdWithin

LEMMA TypesStep ==
    ASSUME ReuseAssumption, TypesInv, [Next]_vars
    PROVE  TypesInv'
<1> USE DEF TypesInv
<1>1. /\ session \in Seq(Token) /\ target \in Seq(Token)
      /\ valid \in BOOLEAN /\ failed \in BOOLEAN
      /\ responses \in Binding /\ anthropic \in Binding /\ thinking \in Binding
      /\ last \in Nat /\ cached \in Nat /\ cold \in Nat /\ held \in Int
      /\ disk \subseteq Entry /\ pc \in Phase /\ req \in Asked
      /\ req.text \in Seq(Letter) \/ req.text = OutputsOnly
  BY DEF ReuseTypes
<1>2. Unbound \in Binding /\ <<>> \in Seq(Token)
  <2>1. <<>> \in Seq(Character) /\ <<>> \in Seq(Token)
    OBVIOUS
  <2> QED
    BY <2>1, BoundType
<1>3. CASE UNCHANGED vars
  BY <1>1, <1>3 DEF ReuseTypes, ColdWithin, vars, slotVars, jobVars
<1>4. failed' \in BOOLEAN
  BY <1>1, <1>3 DEF Next, vars
<1>5. ASSUME NEW r \in Request, StartLive(r) PROVE TypesInv'
  <2>1. r \in Asked /\ (r.text \in Seq(Letter) \/ r.text = OutputsOnly)
    BY RequestIs
  <2>2. /\ target' \in Seq(Token) /\ session' \in Seq(Token)
        /\ cached' = Len(session')
    BY <1>5, StartLiveIs
  <2>3. cached' \in Nat
    BY <2>2, LenProperties
  <2> QED
    BY <1>1, <1>4, <1>5, <2>1, <2>2, <2>3 DEF StartLive, ReuseTypes, ColdWithin, Phase
<1>6. ASSUME NEW r \in Request, StartMiss(r) PROVE TypesInv'
  <2>1. r \in Asked /\ (r.text \in Seq(Letter) \/ r.text = OutputsOnly)
    BY RequestIs
  <2>2. /\ disk' \in StoreCurrent(disk)
        /\ target' \in Seq(Token) /\ session' \in Seq(Token)
        /\ valid' \in BOOLEAN /\ cached' \in Nat /\ cold' \in Nat
        /\ last' \in Nat /\ held' \in {-1, 0}
        /\ \/ pc' = "cold" /\ cold' <= Len(target')
           \/ pc' = "prefill"
    BY <1>6, StartMissIs
  <2>3. disk' \subseteq Entry
    BY <2>2, StoreCurrentIs
  <2>4. UNCHANGED <<responses, anthropic, thinking>> /\ req' = r
    BY <1>6 DEF StartMiss
  <2> QED
    BY <1>1, <1>4, <2>1, <2>2, <2>3, <2>4 DEF ReuseTypes, ColdWithin, Phase
<1>7. CASE Prefill
  <2>1. session' \in Seq(Token) /\ valid' = TRUE
    BY <1>7, PrefillIs
  <2>2. disk' \subseteq Entry /\ last' \in Nat
    BY <1>1, <1>7, <2>1, PrefillIs, StoreContinuedIs
  <2>3. UNCHANGED <<responses, anthropic, thinking, pc, jobVars>>
    BY <1>7 DEF Prefill
  <2> QED
    BY <1>1, <1>4, <2>1, <2>2, <2>3 DEF ReuseTypes, ColdWithin, jobVars
<1>8. ASSUME NEW next \in {"prefill", "decode"}, StoreCold(next),
             UNCHANGED <<session, valid, responses, anthropic, thinking,
                         req, target, cached, source, path, cold>>
      PROVE  TypesInv'
  <2>1. /\ disk' \subseteq Entry /\ held' = -1 /\ pc' = next
        /\ \/ last' \in {cold, last}
           \/ last' = IF held >= 0 /\ last = cold THEN held ELSE last
    BY <1>8, StoreColdIs
  <2>2. last' \in Nat
    BY <1>1, <2>1
  <2> QED
    BY <1>1, <1>4, <1>8, <2>1, <2>2 DEF ReuseTypes, ColdWithin, Phase
<1>9. CASE PrefillDone
  <2>1. disk' \subseteq Entry /\ last' \in Nat
    BY <1>1, <1>9, StoreContinuedIs DEF PrefillDone
  <2>2. /\ responses' \in {responses, Unbound}
        /\ anthropic' \in {anthropic, Unbound}
        /\ thinking' \in {thinking, Unbound}
        /\ pc' \in {"coldEnd", "decode"}
        /\ UNCHANGED <<session, valid, jobVars>>
    BY <1>9 DEF PrefillDone
  <2> QED
    BY <1>1, <1>2, <1>4, <2>1, <2>2 DEF ReuseTypes, ColdWithin, Phase, jobVars
<1>10. CASE PrefillFailed
  <2>1. /\ disk' \subseteq Entry /\ last' \in Nat /\ valid' \in BOOLEAN
        /\ session' \in Seq(Token)
    <3>1. CASE path # <<>>
      <4>1. /\ disk' = {e \in disk : e.key # path}
            /\ session' = <<>> /\ valid' = FALSE /\ last' = 0
        BY <1>10, <3>1 DEF PrefillFailed
      <4>2. disk' \subseteq disk
        BY <4>1
      <4> QED
        BY <1>1, <1>2, <4>1, <4>2
    <3>2. CASE path = <<>>
      <4>1. /\ session' \in {session, <<>>} /\ (valid' = valid \/ valid' = FALSE)
            /\ last' = IF held >= 0 /\ last = cold THEN held ELSE last
            /\ disk' = disk
        BY <1>10, <3>2 DEF PrefillFailed, Broken
      <4>2. valid' \in BOOLEAN
        BY <1>1, <4>1
      <4>3. session' \in Seq(Token)
        BY <1>1, <1>2, <4>1
      <4>4. last' \in Nat
        BY <1>1, <4>1
      <4> QED
        BY <1>1, <4>1, <4>2, <4>3, <4>4
    <3> QED
      BY <3>1, <3>2
  <2>2. EndJob /\ UNCHANGED <<responses, anthropic, thinking>>
    BY <1>10 DEF PrefillFailed
  <2> QED
    BY <1>1, <1>4, <2>1, <2>2, EndJobTypes DEF ReuseTypes
<1>11. CASE Decode
  <2>1. session' \in Seq(Token) /\ StoreContinued(session)
    BY <1>1, <1>11, AppendProperties DEF Decode
  <2>2. disk' \subseteq Entry /\ last' \in Nat
    BY <1>1, <2>1, StoreContinuedIs
  <2> QED
    BY <1>1, <1>4, <1>11, <2>1, <2>2 DEF Decode, ReuseTypes, ColdWithin, jobVars
<1>12. CASE Disconnected \/ ErrorEnd
  <2>1. EndJob /\ UNCHANGED <<slotVars, disk>>
    BY <1>12 DEF Disconnected, ErrorEnd
  <2> QED
    BY <1>1, <1>4, <2>1, EndJobTypes DEF ReuseTypes, slotVars
<1>13. CASE DecodeFailed
  BY <1>1, <1>4, <1>13 DEF DecodeFailed, ReuseTypes, ColdWithin, jobVars
<1>14. CASE Finish
  <2>1. /\ responses' \in Binding /\ anthropic' \in Binding
        /\ thinking' \in Binding
    BY <1>1, <1>14, RememberIs DEF Finish
  <2>2. pc' \in {"end", "store"} /\ UNCHANGED <<session, valid, last, disk, jobVars>>
    BY <1>14 DEF Finish
  <2> QED
    BY <1>1, <1>4, <2>1, <2>2 DEF ReuseTypes, ColdWithin, Phase, jobVars
<1>15. CASE FinishRewriting
  <2>1. /\ responses' \in Binding /\ anthropic' \in Binding
        /\ thinking' \in Binding
    BY <1>1, <1>15, RememberIs DEF FinishRewriting
  <2>2. PICK said \in Seq(Letter) :
           /\ Rewrites(said)
           /\ req' = [req EXCEPT !.text = Rendered(said)]
           /\ session' \in Seq(Token) /\ target' \in Seq(Token)
           /\ cached' \in Nat /\ valid' \in BOOLEAN
    BY <1>1, <1>15, FinishRewritingIs
  <2>3. Rendered(said) \in Seq(Letter) /\ Rendered(said) \in Seq(Character)
    BY <2>2, RewritesIs, MoreCharacters
  <2>4. req' \in Asked /\ req'.text \in Seq(Letter)
    BY <1>1, <2>2, <2>3 DEF Asked
  <2>5. pc' = "rebuild" /\ UNCHANGED <<last, disk, cold, held>>
    BY <1>15 DEF FinishRewriting
  <2> QED
    BY <1>1, <1>4, <2>1, <2>2, <2>4, <2>5 DEF ReuseTypes, ColdWithin, Phase
<1>16. CASE RebuildDone \/ RebuildFailed
  <2>1. session' \in Seq(Token) /\ valid' \in BOOLEAN
    BY <1>1, <1>2, <1>16 DEF RebuildDone, RebuildFailed, Broken, slotVars
  <2>2. /\ pc' = "store"
        /\ UNCHANGED <<responses, anthropic, thinking, last, disk, jobVars>>
    BY <1>16 DEF RebuildDone, RebuildFailed, slotVars
  <2> QED
    BY <1>1, <1>4, <2>1, <2>2 DEF ReuseTypes, ColdWithin, Phase, jobVars
<1>17. CASE StoreResponse
  <2>1. disk' \subseteq Entry
    BY <1>1, <1>17, StoreCurrentIs DEF StoreResponse
  <2>2. Len(session) \in Nat
    BY <1>1, LenProperties
  <2>3. last' \in Nat
    BY <1>1, <1>17, <2>2 DEF StoreResponse, Noted
  <2>4. EndJob /\ UNCHANGED <<session, valid, responses, anthropic, thinking>>
    BY <1>17 DEF StoreResponse
  <2> QED
    BY <1>1, <1>4, <2>1, <2>3, <2>4, EndJobTypes DEF ReuseTypes
<1>18. CASE ColdDone
  BY <1>8, <1>18 DEF ColdDone
<1>19. CASE ColdEnd
  BY <1>8, <1>19 DEF ColdEnd
<1> QED
  BY <1>3, <1>5, <1>6, <1>7, <1>9, <1>10, <1>11, <1>12, <1>13, <1>14, <1>15,
     <1>16, <1>17, <1>18, <1>19 DEF Next, Serve, Fail

-----------------------------------------------------------------------------
(* A frontier is held back for the cold checkpoint that the job will       *)
(* store, and nothing on the way to it is due.                             *)
HeldBack ==
    held # -1 =>
        /\ held = 0 /\ last = cold
        /\ \/ pc = "cold"
           \/ pc \in {"prefill", "coldEnd"} /\ cold = Len(target)

HeldInv == TypesInv /\ HeldBack

LEMMA HeldIs ==
    ASSUME HeldInv
    PROVE  /\ held >= 0 => held = 0 /\ last = cold
           /\ pc \notin {"cold", "prefill", "coldEnd"} => held = -1
           /\ held < 0 => held = -1
<1>1. held \in Int
  BY DEF HeldInv, TypesInv, ReuseTypes
<1>2. held < 0 => held = -1
  BY <1>1 DEF HeldInv, HeldBack
<1>3. held >= 0 => held = 0 /\ last = cold
  BY <1>1 DEF HeldInv, HeldBack
<1>4. pc \notin {"cold", "prefill", "coldEnd"} => held = -1
  BY DEF HeldInv, HeldBack
<1> QED
  BY <1>2, <1>3, <1>4

(* What a prefill stores on its way does not pass the frontier held back.  *)
LEMMA HeldPrefill ==
    ASSUME ReuseAssumption, HeldInv, Prefill \/ PrefillDone, held # -1
    PROVE  last' = last /\ held' = held /\ cold' = cold /\ target' = target
<1>1. /\ held = 0 /\ last = cold
      /\ \/ pc = "cold"
         \/ pc \in {"prefill", "coldEnd"} /\ cold = Len(target)
  BY DEF HeldInv, HeldBack
<1>2. ReuseTypes /\ TypesInv
  BY DEF HeldInv, TypesInv
<1>3. cold \in Nat /\ last \in Nat /\ target \in Seq(Token) /\ Len(target) \in Nat
  BY <1>2, LenProperties DEF ReuseTypes
<1>4. held' = held /\ cold' = cold /\ target' = target
  BY DEF Prefill, PrefillDone, jobVars
<1>5. CASE Prefill
  <2>1. Len(Goal) = cold
    <3>1. CASE pc = "cold"
      <4>1. cold \in 0 .. Len(target)
        BY <1>2, <1>3, <3>1 DEF TypesInv, ColdWithin
      <4> QED
        BY <1>3, <3>1, <4>1, PrefixSub DEF Goal
    <3>2. CASE pc # "cold"
      BY <1>1, <3>2 DEF Goal
    <3> QED
      BY <3>1, <3>2
  <2>2. Reach \in 0 .. Len(Goal)
    BY <1>2, ReachIs
  <2>3. /\ session' \in Seq(Token) /\ Len(session') = Reach
        /\ \/ StoreContinued(session')
           \/ last' = last
    BY <1>2, <1>5, PrefillIs
  <2>4. Len(session') <= last
    BY <1>1, <1>3, <2>1, <2>2, <2>3
  <2>5. last' = last
    BY <1>2, <2>3, <2>4, StoreContinuedIs
  <2> QED
    BY <1>4, <2>5
<1>6. CASE PrefillDone
  <2>1. pc = "prefill" /\ session = target /\ StoreContinued(session)
    BY <1>6 DEF PrefillDone
  <2>2. Len(session) <= last
    BY <1>1, <1>3, <2>1
  <2>3. last' = last
    BY <1>2, <1>3, <2>1, <2>2, StoreContinuedIs
  <2> QED
    BY <1>4, <2>3
<1> QED
  BY <1>5, <1>6

LEMMA HeldStep ==
    ASSUME ReuseAssumption, HeldInv, [Next]_vars
    PROVE  HeldBack'
<1>1. ReuseTypes /\ HeldBack
  BY DEF HeldInv, TypesInv
<1>2. CASE UNCHANGED vars
  BY <1>1, <1>2 DEF HeldBack, vars, slotVars, jobVars
<1>3. ASSUME NEW r \in Request, StartLive(r) PROVE HeldBack'
  BY <1>3 DEF StartLive, HeldBack
<1>4. ASSUME NEW r \in Request, StartMiss(r) PROVE HeldBack'
  <2>1. \/ held' = -1
        \/ /\ held' = 0 /\ last' = cold' /\ cold' # 0
           /\ \/ pc' = "cold"
              \/ pc' = "prefill" /\ (cold' = 0 \/ cold' = Len(target'))
    BY <1>1, <1>4, StartMissIs
  <2> QED
    BY <2>1 DEF HeldBack
<1>5. CASE Prefill
  <2>1. pc' = pc /\ held' = held
    BY <1>5 DEF Prefill, jobVars
  <2>2. held # -1 => last' = last /\ cold' = cold /\ target' = target
    BY <1>5, HeldPrefill
  <2> QED
    BY <1>1, <2>1, <2>2 DEF HeldBack
<1>6. CASE PrefillDone
  <2>1. /\ pc = "prefill" /\ held' = held
        /\ pc' = IF cold = Len(target) THEN "coldEnd" ELSE "decode"
    BY <1>6 DEF PrefillDone, jobVars
  <2>2. held # -1 => last' = last /\ cold' = cold /\ target' = target
    BY <1>6, HeldPrefill
  <2> QED
    BY <1>1, <2>1, <2>2 DEF HeldBack
<1>7. CASE ColdDone \/ ColdEnd
  BY <1>7 DEF ColdDone, ColdEnd, StoreCold, HeldBack
<1>8. CASE PrefillFailed \/ Disconnected \/ StoreResponse \/ ErrorEnd
  BY <1>8 DEF PrefillFailed, Disconnected, StoreResponse, ErrorEnd, EndJob, HeldBack
<1>9. CASE Decode \/ DecodeFailed \/ Finish \/ FinishRewriting
           \/ RebuildDone \/ RebuildFailed
  <2>1. pc \in {"decode", "rebuild"} /\ held' = held
    BY <1>9 DEF Decode, DecodeFailed, Finish, FinishRewriting, RebuildDone,
                RebuildFailed, jobVars
  <2> QED
    BY <2>1, HeldIs DEF HeldBack
<1> QED
  BY <1>2, <1>3, <1>4, <1>5, <1>6, <1>7, <1>8, <1>9 DEF Next, Serve, Fail

LEMMA HeldInvariant ==
    Spec => []HeldInv
<1>1. Init => HeldInv
  <2>1. Init => HeldBack
    BY DEF Init, HeldBack
  <2> QED
    BY <2>1, TypesInit DEF HeldInv
<1>2. HeldInv /\ [Next]_vars => HeldInv'
  <2>1. HeldInv /\ [Next]_vars => TypesInv'
    BY ReuseAssumption, TypesStep DEF HeldInv
  <2> QED
    BY <2>1, ReuseAssumption, HeldStep DEF HeldInv
<1> QED
  BY <1>1, <1>2, PTL DEF Spec

(* A step that counts a frontier as stored for good leaves its file.       *)
LEMMA FrontierStep ==
    ASSUME ReuseAssumption, HeldInv, Next,
           held' < 0, last' > 0, last' > last \/ held >= 0
    PROVE  \E key \in {Text(session), Text(session'), CurrentKey} :
              HasKey(disk', key)
<1>1. ReuseTypes /\ TypesInv
  BY DEF HeldInv, TypesInv
<1>2. last \in Nat /\ held \in Int /\ session \in Seq(Token) /\ Len(session) \in Nat
  BY <1>1, LenProperties DEF ReuseTypes
<1>3. ASSUME NEW r \in Request, StartLive(r) PROVE FALSE
  <2>1. pc = "idle" /\ last' = last
    BY <1>3 DEF StartLive
  <2> QED
    BY <1>2, <2>1, HeldIs
<1>4. ASSUME NEW r \in Request, StartMiss(r) PROVE FALSE
  <2>1. \/ held' = -1 /\ last' = 0
        \/ held' = 0
    BY <1>1, <1>4, StartMissIs
  <2> QED
    BY <2>1
<1>5. CASE Prefill
  <2>1. held' = held
    BY <1>5 DEF Prefill, jobVars
  <2>2. last' > last
    BY <1>2, <2>1
  <2>3. /\ session' \in Seq(Token)
        /\ StoreContinued(session') \/ last' = last
    BY <1>1, <1>5, PrefillIs
  <2>4. HasKey(disk', Text(session'))
    BY <1>1, <1>2, <2>2, <2>3, StoreContinuedIs
  <2> QED
    BY <2>4
<1>6. CASE PrefillDone \/ Decode
  <2>1. held' = held /\ StoreContinued(session)
    BY <1>6 DEF PrefillDone, Decode, jobVars
  <2>2. last' > last
    BY <1>2, <2>1
  <2>3. HasKey(disk', Text(session))
    BY <1>1, <1>2, <2>1, <2>2, StoreContinuedIs
  <2> QED
    BY <2>3
<1>7. CASE ColdDone \/ ColdEnd
  <2>1. PICK next : StoreCold(next)
    BY <1>7 DEF ColdDone, ColdEnd
  <2>2. \/ HasKey(disk', Text(session))
        \/ last' = IF held >= 0 /\ last = cold THEN held ELSE last
    BY <1>1, <2>1, StoreColdIs
  <2>3. CASE last' = IF held >= 0 /\ last = cold THEN held ELSE last
    BY <1>2, <2>3, HeldIs
  <2> QED
    BY <2>2, <2>3
<1>8. CASE PrefillFailed
  <2>1. \/ last' = 0
        \/ last' = IF held >= 0 /\ last = cold THEN held ELSE last
    BY <1>8 DEF PrefillFailed
  <2> QED
    BY <1>2, <2>1, HeldIs
<1>9. CASE StoreResponse
  <2>1. pc = "store" /\ last' = Noted(Len(session), HasKey(disk', CurrentKey))
    BY <1>9 DEF StoreResponse
  <2>2. last' > last
    BY <1>2, <2>1, HeldIs
  <2>3. HasKey(disk', CurrentKey)
    BY <1>2, <2>1, <2>2 DEF Noted
  <2> QED
    BY <2>3
<1>10. CASE Disconnected \/ ErrorEnd \/ DecodeFailed \/ Finish
            \/ FinishRewriting \/ RebuildDone \/ RebuildFailed
  <2>1. pc \in {"decode", "end", "rebuild"} /\ last' = last
    BY <1>10 DEF Disconnected, ErrorEnd, DecodeFailed, Finish, FinishRewriting,
                 RebuildDone, RebuildFailed, slotVars
  <2> QED
    BY <1>2, <2>1, HeldIs
<1> QED
  BY <1>3, <1>4, <1>5, <1>6, <1>7, <1>8, <1>9, <1>10 DEF Next, Serve, Fail

(* A frontier counts as stored for good only in a step that leaves its     *)
(* checkpoint on disk, for every prompt, interval and failure.             *)
(* (ds4_server.c 11582-11590, 11611-11620, 11675-11684)                    *)
THEOREM FrontiersAreBacked ==
    Spec => FrontierBacked
<1>1. HeldInv /\ [Next]_vars
         => [(held' < 0 /\ last' > 0 /\ (last' > last \/ held >= 0))
               => \E key \in {Text(session), Text(session'), CurrentKey} :
                     HasKey(disk', key)]_vars
  BY ReuseAssumption, FrontierStep
<1> QED
  BY <1>1, HeldInvariant, PTL DEF Spec, FrontierBacked

-----------------------------------------------------------------------------
(* The rules that compare tokens or text.                                  *)

LEMMA PlainStart ==
    ASSUME ReuseAssumption, ReuseTypes, NEW r \in Request, StartLive(r),
           source' \in PlainSources
    PROVE  Text(target') = r.text
<1>0. session \in Seq(Token)
  BY DEF ReuseTypes
<1>1. /\ source' \in {"memory-rewind", "memory-token", "memory-text"}
      /\ r.text \in Seq(Letter) /\ Applies(r, source')
  BY <1>0, StartLiveIs DEF PlainSources, LiveSource
<1>2. CASE source' \in {"memory-rewind", "memory-token"}
  <2>1. target' = Tokenize(r.text)
    BY <1>0, <1>2, StartLiveIs
  <2> QED
    BY <1>1, <2>1, TokenizeText
<1>3. CASE source' = "memory-text"
  <2>1. target' = Extended(After(Text(session), r.text))
    BY <1>0, <1>3, StartLiveIs, LiveTargetIs
  <2>2. IsPrefix(Text(session), r.text)
    BY <1>1, <1>3, AppliesIs
  <2>3. Text(session) \in Seq(Letter)
    BY <1>0, TextType
  <2>4. /\ After(Text(session), r.text) \in Seq(Letter)
        /\ r.text = Text(session) \o After(Text(session), r.text)
    BY <1>1, <2>2, <2>3, PrefixSplit
  <2> QED
    BY <1>0, <2>1, <2>4, ExtendedIs
<1> QED
  BY <1>1, <1>2, <1>3

LEMMA PlainStep ==
    ASSUME ReuseAssumption, TypesInv, PlainFaithful, [Next]_vars
    PROVE  PlainFaithful'
<1>1. ReuseTypes /\ session \in Seq(Token)
  BY DEF TypesInv, ReuseTypes
<1>2. CASE UNCHANGED vars
  BY <1>2 DEF PlainFaithful, Text, vars, slotVars, jobVars
<1>3. ASSUME NEW r \in Request, StartLive(r), source' \in PlainSources
      PROVE  Text(target') = r.text
  BY <1>1, <1>3, PlainStart
<1>4. ASSUME NEW r \in Request, StartMiss(r), source' \in PlainSources
      PROVE  Text(target') = r.text
  <2>1. r.text \in Seq(Letter) /\ target' = Tokenize(r.text)
    BY <1>1, <1>4, StartMissIs DEF PlainSources
  <2> QED
    BY <2>1, TokenizeText
<1>5. ASSUME NEW r \in Request, StartLive(r) \/ StartMiss(r)
      PROVE  PlainFaithful'
  <2>1. req' = r
    BY <1>5 DEF StartLive, StartMiss
  <2> QED
    BY <1>3, <1>4, <1>5, <2>1 DEF PlainFaithful, PlainSources, Text
<1>6. CASE Prefill \/ ColdDone
  <2>1. pc \in {"cold", "prefill"} \/ pc' = pc
    BY <1>6 DEF Prefill, ColdDone, StoreCold, jobVars
  <2>2. UNCHANGED <<target, req, source>>
    BY <1>6 DEF Prefill, ColdDone, jobVars
  <2> QED
    BY <2>1, <2>2 DEF PlainFaithful, Text
<1>7. CASE PrefillFailed \/ Disconnected \/ StoreResponse \/ ErrorEnd
  BY <1>7 DEF PrefillFailed, Disconnected, StoreResponse, ErrorEnd, EndJob, PlainFaithful
<1>8. CASE PrefillDone \/ ColdEnd \/ Decode \/ DecodeFailed \/ Finish
           \/ FinishRewriting \/ RebuildDone \/ RebuildFailed
  <2>1. pc' \notin {"cold", "prefill"}
    BY <1>8 DEF PrefillDone, ColdEnd, StoreCold, Decode, DecodeFailed, Finish,
                FinishRewriting, RebuildDone, RebuildFailed
  <2> QED
    BY <2>1 DEF PlainFaithful
<1> QED
  BY <1>2, <1>5, <1>6, <1>7, <1>8 DEF Next, Serve, Fail

(* Whatever has failed before, a rule that compares tokens or text makes   *)
(* the job evaluate the text of its request.  (ds4_server.c 11393-11466)   *)
THEOREM PlainRulesAreFaithful ==
    Spec => []PlainFaithful
<1>1. Init => TypesInv /\ PlainFaithful
  BY TypesInit DEF Init, PlainFaithful
<1>2. TypesInv /\ PlainFaithful /\ [Next]_vars => (TypesInv /\ PlainFaithful)'
  BY ReuseAssumption, TypesStep, PlainStep
<1> QED
  BY <1>1, <1>2, PTL DEF Spec

-----------------------------------------------------------------------------
(* What is reported as cached.                                             *)

(* What a job takes from the session stays the beginning of its prompt.    *)
Reused ==
    ~failed =>
        /\ valid \/ session = <<>>
        /\ (pc \in {"cold", "prefill"} /\ cached # 0) =>
              /\ pc = "prefill" /\ valid
              /\ cached <= Len(session) /\ IsPrefix(session, target)

LEMMA ReusedStep ==
    ASSUME ReuseAssumption, TypesInv, Reused, [Next]_vars
    PROVE  Reused'
<1>1. ReuseTypes /\ session \in Seq(Token) /\ Len(session) \in Nat
  BY LenProperties DEF TypesInv, ReuseTypes
<1>2. CASE UNCHANGED vars
  BY <1>2 DEF Reused, vars, slotVars, jobVars
<1>3. CASE Fail /\ failed' = TRUE
  BY <1>3 DEF Reused
<1>4. SUFFICES ASSUME Serve, ~failed
               PROVE  Reused'
  BY <1>2, <1>3 DEF Next, Reused
<1>5. ASSUME NEW r \in Request, StartLive(r) PROVE Reused'
  <2>1. /\ session' \in Seq(Token) /\ cached' = Len(session')
        /\ IsPrefix(session', target')
        /\ \/ session' = session
           \/ Len(session') # 0 => valid
    BY <1>1, <1>5, StartLiveIs
  <2>2. pc' = "prefill" /\ valid' = valid
    BY <1>5 DEF StartLive
  <2>3. Len(session') = 0 => session' = <<>>
    BY <2>1, EmptySeq
  <2>4. valid' \/ session' = <<>>
    BY <1>4, <2>1, <2>2, <2>3 DEF Reused
  <2>5. Len(session') \in Nat /\ (session' = <<>> => Len(session') = 0)
    BY <2>1, LenProperties
  <2> QED
    BY <2>1, <2>2, <2>4, <2>5 DEF Reused
<1>6. ASSUME NEW r \in Request, StartMiss(r) PROVE Reused'
  <2>1. \/ /\ cached' = 0
           /\ \/ session' = session /\ valid' = valid
              \/ session' = <<>>
        \/ /\ valid' = TRUE /\ pc' = "prefill" /\ session' \in Seq(Token)
           /\ cached' = Len(session') /\ IsPrefix(session', target')
    BY <1>1, <1>6, StartMissIs
  <2>2. CASE /\ cached' = 0
             /\ \/ session' = session /\ valid' = valid
                \/ session' = <<>>
    BY <1>4, <2>2 DEF Reused
  <2>3. CASE /\ valid' = TRUE /\ pc' = "prefill" /\ session' \in Seq(Token)
             /\ cached' = Len(session') /\ IsPrefix(session', target')
    <3>1. Len(session') \in Nat
      BY <2>3, LenProperties
    <3> QED
      BY <2>3, <3>1 DEF Reused
  <2> QED
    BY <2>1, <2>2, <2>3
<1>7. CASE Prefill
  <2>1. /\ valid' = TRUE /\ IsPrefix(session', target)
        /\ Len(session') = Reach
        /\ (valid /\ IsPrefix(session, Goal)) => Len(session) <= Reach
    BY <1>7, PrefillIs
  <2>2. pc' = pc /\ target' = target /\ cached' = cached
    BY <1>7 DEF Prefill, jobVars
  <2>3. ASSUME pc \in {"cold", "prefill"}, cached # 0
        PROVE  pc = "prefill" /\ cached <= Len(session')
    <3>1. /\ pc = "prefill" /\ valid
          /\ cached <= Len(session) /\ IsPrefix(session, target)
      BY <1>4, <2>3 DEF Reused
    <3>2. Goal = target
      BY <3>1 DEF Goal
    <3>3. Reach \in Nat /\ cached \in Nat
      BY <1>1, ReachIs, GoalIs DEF ReuseTypes
    <3> QED
      BY <1>1, <2>1, <3>1, <3>2, <3>3
  <2> QED
    BY <2>1, <2>2, <2>3 DEF Reused
<1>8. CASE ColdDone
  <2>1. UNCHANGED <<session, valid, target, cached>> /\ pc = "cold"
    BY <1>8 DEF ColdDone
  <2> QED
    BY <1>4, <2>1 DEF Reused
<1>9. CASE PrefillDone \/ ColdEnd \/ Decode \/ Finish \/ RebuildDone
  <2>1. pc' \notin {"cold", "prefill"} /\ valid' = valid
    BY <1>9 DEF PrefillDone, ColdEnd, StoreCold, Decode, Finish, RebuildDone, slotVars
  <2>2. session' = session \/ valid
    BY <1>9 DEF PrefillDone, ColdEnd, Decode, Finish, RebuildDone, slotVars
  <2> QED
    BY <1>4, <2>1, <2>2 DEF Reused
<1>10. CASE FinishRewriting
  <2>1. \/ session' = session /\ valid' = valid
        \/ session' = <<>> /\ valid' = FALSE
        \/ valid' = TRUE
    BY <1>1, <1>10, FinishRewritingIs
  <2>2. pc' = "rebuild"
    BY <1>10 DEF FinishRewriting
  <2> QED
    BY <1>4, <2>1, <2>2 DEF Reused
<1>11. CASE Disconnected \/ StoreResponse \/ ErrorEnd
  <2>1. pc' = "idle" /\ session' = session /\ valid' = valid
    BY <1>11 DEF Disconnected, StoreResponse, ErrorEnd, EndJob, slotVars
  <2> QED
    BY <1>4, <2>1 DEF Reused
<1> QED
  BY <1>4, <1>5, <1>6, <1>7, <1>8, <1>9, <1>10, <1>11 DEF Serve

LEMMA ReusedKept ==
    ASSUME TypesInv, Reused
    PROVE  CachedIsKept
<1>1. SUFFICES ASSUME pc \in {"cold", "prefill"}, ~failed
               PROVE  /\ valid \/ cached = 0
                      /\ cached <= Len(session)
                      /\ IsPrefix(SubSeq(target, 1, cached), session)
  BY DEF CachedIsKept
<1>2. /\ session \in Seq(Token) /\ target \in Seq(Token)
      /\ Len(session) \in Nat /\ Len(target) \in Nat /\ cached \in Nat
  BY LenProperties DEF TypesInv, ReuseTypes
<1>3. CASE cached = 0
  <2> DEFINE u == SubSeq(target, 1, cached)
  <2>1. cached \in 0 .. Len(target)
    BY <1>2, <1>3
  <2>2. u \in Seq(Token) /\ Len(u) = 0
    BY <1>2, <1>3, <2>1, PrefixSub
  <2> HIDE DEF u
  <2>3. Len(u) <= Len(session) /\ \A i \in 1 .. Len(u) : u[i] = session[i]
    BY <1>2, <2>2
  <2>4. IsPrefix(u, session)
    BY <1>2, <2>2, <2>3, PrefixElements
  <2> QED
    BY <1>2, <1>3, <2>4 DEF u
<1>4. CASE cached # 0
  <2>1. valid /\ cached <= Len(session) /\ IsPrefix(session, target)
    BY <1>1, <1>4 DEF Reused
  <2>2. Len(session) <= Len(target) /\ \A i \in 1 .. Len(session) : session[i] = target[i]
    BY <1>2, <2>1, PrefixElements
  <2>3. cached \in 0 .. Len(target)
    BY <1>2, <2>1, <2>2
  <2>4. /\ SubSeq(target, 1, cached) \in Seq(Token)
        /\ Len(SubSeq(target, 1, cached)) = cached
        /\ \A i \in 1 .. cached : SubSeq(target, 1, cached)[i] = target[i]
    BY <1>2, <2>3, PrefixSub
  <2>5. \A i \in 1 .. cached : SubSeq(target, 1, cached)[i] = session[i]
    BY <1>2, <2>1, <2>2, <2>4
  <2>6. IsPrefix(SubSeq(target, 1, cached), session)
    BY <1>2, <2>1, <2>4, <2>5, PrefixElements
  <2> QED
    BY <2>1, <2>6
<1> QED
  BY <1>3, <1>4

(* Until something fails, what is reported as read from the cache is in    *)
(* the session and is not evaluated again.  (ds4_server.c 11482-11494)     *)
THEOREM CachedTokensAreKept ==
    Spec => []CachedIsKept
<1>1. Init => TypesInv /\ Reused
  BY TypesInit DEF Init, Reused
<1>2. TypesInv /\ Reused /\ [Next]_vars => (TypesInv /\ Reused)'
  BY ReuseAssumption, TypesStep, ReusedStep
<1>3. TypesInv /\ Reused => CachedIsKept
  BY ReusedKept
<1> QED
  BY <1>1, <1>2, <1>3, PTL DEF Spec

-----------------------------------------------------------------------------
(* What a job evaluates is what the client means.                          *)

(* The prompt shows what the client means, and the response follows it.    *)
Meant ==
    ~failed =>
        /\ pc \in {"cold", "prefill", "coldEnd", "decode", "rebuild"} =>
              Visibly(target) = Visible(Wanted(req))
        /\ pc \in {"coldEnd", "decode"} => IsPrefix(target, session)

FromResponses == {"responses-visible", "responses-tool-output"}

(* A binding that this job continues names less than its prompt, and is of *)
(* its protocol; the others go when the prompt is there.                   *)
Behind ==
    /\ pc \in {"cold", "prefill", "coldEnd", "decode"} =>
          /\ source \in FromResponses => req.api = "responses"
          /\ source = "anthropic-tool-output" => req.api = "anthropic"
    /\ (pc \in {"cold", "prefill"} /\ ~failed) =>
          /\ (source \in FromResponses /\ responses.valid)
                => responses.tokens < Len(target)
          /\ (source = "anthropic-tool-output" /\ anthropic.valid)
                => anthropic.tokens < Len(target)
          /\ (source = "thinking-visible" /\ thinking.valid)
                => thinking.tokens < Len(target)
    /\ (pc \in {"coldEnd", "decode"} /\ ~failed) =>
          /\ \A b \in {responses, anthropic, thinking} :
                b.valid => b.tokens < Len(target)
          /\ responses.valid => req.api = "responses"
          /\ anthropic.valid => req.api = "anthropic"

Plain(text) == ~(text # <<>> /\ text[1] = "o")

(* What a binding shows, and what its ids stand for, is in the tokens.     *)
Names(b, tokens) ==
    /\ (b.visible # <<>> /\ Plain(b.visible)) =>
          Visible(b.visible) = Visibly(tokens)
    /\ b.ids # NoIds => Visible(b.ids) = Visibly(tokens)

Named ==
    ~failed =>
        /\ pc \in {"idle", "store", "end"} =>
              \A b \in {responses, anthropic, thinking} :
                 AtFrontier(b) => Names(b, session)
        /\ pc = "rebuild" =>
              /\ ~responses.valid /\ ~thinking.valid
              /\ anthropic.valid => Names(anthropic, target)

(* A checkpoint holds the conversation that its key shows.                 *)
Keyed ==
    ~failed => \A e \in disk :
        Plain(e.key) => Visibly(e.tokens) = Visible(e.key)

MeaningInv == TypesInv /\ Meant /\ Behind /\ Named /\ Keyed

LEMMA LettersPlain ==
    ASSUME NEW s \in Seq(Letter)
    PROVE  Plain(s) /\ s # OutputsOnly
<1>1. s # OutputsOnly
  BY OutputsNotLetters
<1>2. SUFFICES ASSUME s # <<>>, s[1] = "o" PROVE FALSE
  BY <1>1 DEF Plain
<1>3. Len(s) \in Nat /\ Len(s) # 0
  BY <1>2, LenProperties, EmptySeq
<1>4. s[1] \in Letter
  BY <1>3, ElementOfSeq
<1> QED
  BY <1>2, <1>4 DEF Letter

(* The letters that follow some tokens are shown after them.               *)
LEMMA ShownAfter ==
    ASSUME NEW s \in Seq(Token), NEW x \in Seq(Letter)
    PROVE  Visibly(s \o Tokenize(x)) = Visibly(s) \o Visible(x)
<1>1. Tokenize(x) \in Seq(Token) /\ Text(Tokenize(x)) = x
  BY TokenizeText
<1>2. Text(s \o Tokenize(x)) = Text(s) \o x
  BY <1>1, TextConcat
<1>3. Text(s) \in Seq(Letter)
  BY TextType
<1> QED
  BY <1>2, <1>3, VisibleConcat DEF Visibly

-----------------------------------------------------------------------------
(* What is stored shows what its key shows.                                *)

LEMMA KeyedWith ==
    ASSUME Keyed, ~failed, NEW key, NEW tokens,
           Plain(key) => Visibly(tokens) = Visible(key),
           disk' \subseteq disk \cup {[key |-> key, tokens |-> tokens]}
    PROVE  Keyed'
<1>1. \A e \in disk : Plain(e.key) => Visibly(e.tokens) = Visible(e.key)
  BY DEF Keyed
<1>2. ASSUME NEW e \in disk', Plain(e.key)
      PROVE  Visibly(e.tokens) = Visible(e.key)
  <2>1. CASE e \in disk
    BY <1>1, <1>2, <2>1
  <2>2. CASE e = [key |-> key, tokens |-> tokens]
    <3>1. e.key = key /\ e.tokens = tokens
      BY <2>2
    <3> QED
      BY <1>2, <3>1
  <2> QED
    BY <1>2, <2>1, <2>2
<1> QED
  BY <1>2 DEF Keyed, Plain, Visibly, Visible, Text

LEMMA KeyedCurrent ==
    ASSUME MeaningInv, ~failed, pc \in {"idle", "store"},
           disk' \in StoreCurrent(disk)
    PROVE  Keyed'
<1>1. ReuseTypes /\ Keyed /\ Named
  BY DEF MeaningInv, TypesInv
<1>2. disk' \subseteq disk \cup {[key |-> CurrentKey, tokens |-> session]}
  BY <1>1, StoreCurrentIs
<1>3. ASSUME Plain(CurrentKey)
      PROVE  Visibly(session) = Visible(CurrentKey)
  <2>1. CASE CurrentKey = Text(session)
    BY <2>1 DEF Visibly
  <2>2. CASE \E b \in {responses, thinking} :
                AtFrontier(b) /\ b.visible # <<>> /\ CurrentKey = b.visible
    <3>1. PICK b \in {responses, thinking} :
             AtFrontier(b) /\ b.visible # <<>> /\ CurrentKey = b.visible
      BY <2>2
    <3>2. Names(b, session)
      BY <1>1, <3>1 DEF Named
    <3> QED
      BY <1>3, <3>1, <3>2 DEF Names
  <2> QED
    BY <1>1, <2>1, <2>2, CurrentKeyIs
<1> QED
  BY <1>1, <1>2, <1>3, KeyedWith

LEMMA KeyedStep ==
    ASSUME ReuseAssumption, MeaningInv, ~failed, Serve
    PROVE  Keyed'
<1>1. ReuseTypes /\ TypesInv /\ Keyed /\ session \in Seq(Token)
  BY DEF MeaningInv, TypesInv, ReuseTypes
<1>2. ASSUME NEW tokens \in Seq(Token), StoreContinued(tokens)
      PROVE  Keyed'
  <2>1. disk' \subseteq disk \cup {[key |-> Text(tokens), tokens |-> tokens]}
    BY <1>1, <1>2, StoreContinuedIs
  <2>2. Visibly(tokens) = Visible(Text(tokens))
    BY DEF Visibly
  <2> QED
    BY <1>1, <2>1, <2>2, KeyedWith
<1>3. ASSUME disk' = disk PROVE Keyed'
  <2>1. disk' \subseteq disk \cup {[key |-> Text(session), tokens |-> session]}
    BY <1>3
  <2>2. Visibly(session) = Visible(Text(session))
    BY DEF Visibly
  <2> QED
    BY <1>1, <2>1, <2>2, KeyedWith
<1>4. ASSUME NEW r \in Request, StartLive(r) PROVE Keyed'
  BY <1>3, <1>4 DEF StartLive
<1>5. ASSUME NEW r \in Request, StartMiss(r) PROVE Keyed'
  BY <1>5, KeyedCurrent DEF StartMiss
<1>6. CASE Prefill
  BY <1>1, <1>2, <1>3, <1>6, PrefillIs
<1>7. CASE PrefillDone \/ Decode
  BY <1>1, <1>2, <1>7 DEF PrefillDone, Decode
<1>8. CASE ColdDone \/ ColdEnd
  <2>1. PICK next : StoreCold(next)
    BY <1>8 DEF ColdDone, ColdEnd
  <2>2. disk' \subseteq disk \cup {[key |-> Text(session), tokens |-> session]}
    BY <1>1, <2>1, StoreColdIs
  <2>3. Visibly(session) = Visible(Text(session))
    BY DEF Visibly
  <2> QED
    BY <1>1, <2>2, <2>3, KeyedWith
<1>9. CASE StoreResponse
  BY <1>9, KeyedCurrent DEF StoreResponse
<1>10. CASE Disconnected \/ Finish \/ FinishRewriting \/ RebuildDone \/ ErrorEnd
  BY <1>3, <1>10 DEF Disconnected, Finish, FinishRewriting, RebuildDone, ErrorEnd
<1> QED
  BY <1>4, <1>5, <1>6, <1>7, <1>8, <1>9, <1>10 DEF Serve

-----------------------------------------------------------------------------
(* The prompt of a job.                                                    *)

(* What a binding at the frontier shows begins the request: the tokens     *)
(* after it are those of the rest of the request's text.                   *)
LEMMA VisibleKeyMeans ==
    ASSUME ReuseTypes, NEW b \in Binding, NEW r \in Asked,
           r.text \in Seq(Letter) \/ r.text = OutputsOnly,
           VisibleKeyMatches(b, r), Names(b, session)
    PROVE  /\ Visibly(Extended(After(b.visible, r.text))) = Visible(Wanted(r))
           /\ Len(session) < Len(Extended(After(b.visible, r.text)))
<1> DEFINE rest == After(b.visible, r.text)
<1>1. /\ b.visible # <<>> /\ r.text \in Seq(Letter)
      /\ b.visible \in Seq(Letter) /\ rest \in Seq(Letter) /\ rest # <<>>
      /\ r.text = b.visible \o rest
  BY VisibleKeyIs
<1> HIDE DEF rest
<1>2. Visible(b.visible) = Visibly(session)
  BY <1>1, LettersPlain DEF Names
<1>3. session \in Seq(Token)
  BY DEF ReuseTypes
<1>4. Visibly(Extended(rest)) = Visibly(session) \o Visible(rest)
  BY <1>1, <1>3, ShownAfter DEF Extended
<1>5. Visible(r.text) = Visible(b.visible) \o Visible(rest)
  BY <1>1, VisibleConcat
<1>6. Wanted(r) = r.text
  BY <1>1, LettersPlain DEF Wanted
<1>7. Len(session) < Len(Extended(rest))
  BY <1>1, ExtendedIs
<1> QED
  BY <1>2, <1>4, <1>5, <1>6, <1>7 DEF rest

(* What the ids of a request stand for is in the session.                  *)
LEMMA IdsMean ==
    ASSUME ReuseAssumption, ReuseTypes, NEW b, NEW r \in Request, Honest(r),
           IdsMatch(b, r), Names(b, session)
    PROVE  /\ Visibly(Extended(r.suffix)) = Visible(Wanted(r))
           /\ Len(session) < Len(Extended(r.suffix))
<1>1. r.ids # NoIds /\ r.ids = b.ids
  BY DEF IdsMatch
<1>2. r.ids \in Seq(Letter) /\ r.suffix \in Seq(Letter) /\ r.suffix # <<>>
  BY <1>1, RequestIs DEF Asked
<1>3. Visible(r.ids) = Visibly(session)
  BY <1>1 DEF Names
<1>4. session \in Seq(Token)
  BY DEF ReuseTypes
<1>5. Visibly(Extended(r.suffix)) = Visibly(session) \o Visible(r.suffix)
  BY <1>2, <1>4, ShownAfter DEF Extended
<1>6. Visible(r.ids \o r.suffix) = Visible(r.ids) \o Visible(r.suffix)
  BY <1>2, VisibleConcat
<1>7. Wanted(r) = r.ids \o r.suffix
  BY <1>1 DEF Honest, Wanted
<1>8. Len(session) < Len(Extended(r.suffix))
  BY <1>2, ExtendedIs
<1> QED
  BY <1>3, <1>5, <1>6, <1>7, <1>8

LEMMA StartLiveMeans ==
    ASSUME ReuseAssumption, MeaningInv, ~failed,
           NEW r \in Request, Honest(r), StartLive(r)
    PROVE  /\ Visibly(target') = Visible(Wanted(r))
           /\ source' \in FromResponses =>
                 r.api = "responses" /\ responses.tokens < Len(target')
           /\ source' = "anthropic-tool-output" =>
                 r.api = "anthropic" /\ anthropic.tokens < Len(target')
           /\ source' = "thinking-visible" =>
                 thinking.tokens < Len(target')
<1>1. /\ ReuseTypes /\ TypesInv /\ session \in Seq(Token)
      /\ responses \in Binding /\ anthropic \in Binding /\ thinking \in Binding
  BY DEF MeaningInv, TypesInv, ReuseTypes
<1>2. r \in Asked /\ (r.text \in Seq(Letter) \/ r.text = OutputsOnly)
  BY RequestIs
<1>3. /\ source' \in LiveSource /\ Applies(r, source')
      /\ source' \in {"memory-rewind", "memory-token",
                      "thinking-visible", "memory-text"}
            => r.text \in Seq(Letter)
      /\ source' \notin {"memory-rewind", "memory-token"} =>
            target' = LiveTarget(r, source')
  BY <1>1, StartLiveIs
<1>4. \A b \in {responses, anthropic, thinking} :
         AtFrontier(b) => Names(b, session)
  BY DEF StartLive, MeaningInv, Named
<1>5. CASE source' \in PlainSources
  <2>1. r.text \in Seq(Letter)
    BY <1>3, <1>5 DEF PlainSources, LiveSource
  <2>2. Text(target') = r.text
    BY <1>1, <1>5, PlainStart
  <2>3. Wanted(r) = r.text
    BY <2>1, LettersPlain DEF Wanted
  <2> QED
    BY <1>5, <2>2, <2>3 DEF Visibly, PlainSources, FromResponses
<1>6. CASE source' = "responses-visible"
  <2>1. r.api = "responses" /\ VisibleKeyMatches(responses, r)
    BY <1>3, <1>6, AppliesIs
  <2>2. AtFrontier(responses) /\ responses.tokens = Len(session)
    BY <2>1 DEF VisibleKeyMatches, AtFrontier
  <2>3. target' = Extended(After(responses.visible, r.text))
    BY <1>3, <1>6, LiveTargetIs
  <2> QED
    BY <1>1, <1>2, <1>4, <1>6, <2>1, <2>2, <2>3, VisibleKeyMeans
<1>7. CASE source' = "thinking-visible"
  <2>1. VisibleKeyMatches(thinking, r)
    BY <1>3, <1>7, AppliesIs
  <2>2. AtFrontier(thinking) /\ thinking.tokens = Len(session)
    BY <2>1 DEF VisibleKeyMatches, AtFrontier
  <2>3. target' = Extended(After(thinking.visible, r.text))
    BY <1>3, <1>7, LiveTargetIs
  <2> QED
    BY <1>1, <1>2, <1>4, <1>7, <2>1, <2>2, <2>3, VisibleKeyMeans DEF FromResponses
<1>8. CASE source' = "responses-tool-output"
  <2>1. r.api = "responses" /\ IdsMatch(responses, r)
    BY <1>3, <1>8, AppliesIs
  <2>2. AtFrontier(responses) /\ responses.tokens = Len(session)
    BY <2>1 DEF IdsMatch, AtFrontier
  <2>3. target' = Extended(r.suffix)
    BY <1>3, <1>8, LiveTargetIs
  <2> QED
    BY <1>1, <1>4, <1>8, <2>1, <2>2, <2>3, IdsMean
<1>9. CASE source' = "anthropic-tool-output"
  <2>1. r.api = "anthropic" /\ IdsMatch(anthropic, r)
    BY <1>3, <1>9, AppliesIs
  <2>2. AtFrontier(anthropic) /\ anthropic.tokens = Len(session)
    BY <2>1 DEF IdsMatch, AtFrontier
  <2>3. target' = Extended(r.suffix)
    BY <1>3, <1>9, LiveTargetIs
  <2> QED
    BY <1>1, <1>4, <1>9, <2>1, <2>2, <2>3, IdsMean DEF FromResponses
<1> QED
  BY <1>3, <1>5, <1>6, <1>7, <1>8, <1>9 DEF LiveSource, PlainSources

(* The tokens of a checkpoint, and those of the text after its key.        *)
LEMMA LoadedMeans ==
    ASSUME NEW d, d \subseteq Entry, NEW text \in Seq(Letter),
           NEW e \in Found(d, text),
           \A f \in d : Plain(f.key) => Visibly(f.tokens) = Visible(f.key)
    PROVE  Visibly(e.tokens \o Tokenize(After(e.key, text))) = Visible(text)
<1>1. /\ e \in d /\ e.key \in Seq(Letter) /\ After(e.key, text) \in Seq(Letter)
      /\ text = e.key \o After(e.key, text)
      /\ e.tokens \in Seq(Token)
  BY FoundIs
<1>2. Visibly(e.tokens) = Visible(e.key)
  BY <1>1, LettersPlain
<1>3. Visibly(e.tokens \o Tokenize(After(e.key, text)))
         = Visibly(e.tokens) \o Visible(After(e.key, text))
  BY <1>1, ShownAfter
<1>4. Visible(text) = Visible(e.key) \o Visible(After(e.key, text))
  BY <1>1, VisibleConcat
<1> QED
  BY <1>2, <1>3, <1>4

LEMMA StartMissMeans ==
    ASSUME ReuseAssumption, MeaningInv, ~failed, failed' = failed,
           NEW r \in Request, StartMiss(r)
    PROVE  /\ Visibly(target') = Visible(Wanted(r))
           /\ source' \in {"none", "disk-text"}
<1>1. ReuseTypes /\ TypesInv
  BY DEF MeaningInv, TypesInv
<1>2. r.text \in Seq(Letter) /\ disk' \in StoreCurrent(disk)
  BY <1>1, StartMissIs
<1>3. disk' \subseteq Entry
  BY <1>1, <1>2, StoreCurrentIs
<1>4. \A f \in disk' : Plain(f.key) => Visibly(f.tokens) = Visible(f.key)
  <2>1. Keyed'
    BY <1>2, KeyedCurrent DEF StartMiss
  <2> QED
    BY <2>1 DEF Keyed
<1>5. Wanted(r) = r.text
  BY <1>2, LettersPlain DEF Wanted
<1>6. CASE source' = "none" /\ target' = Tokenize(r.text)
  <2>1. Text(target') = r.text
    BY <1>2, <1>6, TokenizeText
  <2> QED
    BY <1>5, <1>6, <2>1 DEF Visibly
<1>7. CASE source' = "disk-text" /\ \E e \in Found(disk', r.text) :
              target' = e.tokens \o Tokenize(After(e.key, r.text))
  <2>1. PICK e \in Found(disk', r.text) :
           target' = e.tokens \o Tokenize(After(e.key, r.text))
    BY <1>7
  <2>2. Visibly(target') = Visible(r.text)
    BY <1>2, <1>3, <1>4, <2>1, LoadedMeans
  <2> QED
    BY <1>5, <1>7, <2>2
<1> QED
  BY <1>6, <1>7 DEF StartMiss, StartCold, StartLoaded

(* A response shows what it adds to the conversation, under every name     *)
(* that it is given.                                                       *)
LEMMA ResponseMeans ==
    ASSUME MeaningInv, ~failed, pc = "decode"
    PROVE  /\ Visibly(session) = Visible(Continued)
           /\ Plain(Transcript) => Transcript = Continued
           /\ Len(target) <= Len(session)
           /\ req.text \in Seq(Letter) =>
                 \A said \in {Text(Response), Visibly(Response)} :
                    Visible(Rendered(said)) = Visible(Continued)
<1>1. /\ ReuseTypes /\ session \in Seq(Token) /\ target \in Seq(Token)
      /\ req \in Asked /\ (req.text \in Seq(Letter) \/ req.text = OutputsOnly)
  BY DEF MeaningInv, TypesInv, ReuseTypes
<1>2. /\ Visibly(target) = Visible(Wanted(req))
      /\ IsPrefix(target, session)
  BY DEF MeaningInv, Meant
<1>3. /\ Response \in Seq(Token) /\ Text(Response) \in Seq(Letter)
      /\ Visibly(Response) \in Seq(Letter)
  BY <1>1, ResponseIs
<1>4. session = target \o Response /\ Len(target) <= Len(session)
  BY <1>1, <1>2, PrefixSplit DEF Response
<1>5. Visibly(session) = Visible(Wanted(req)) \o Visibly(Response)
  <2>1. Text(session) = Text(target) \o Text(Response)
    BY <1>1, <1>3, <1>4, TextConcat
  <2>2. Text(target) \in Seq(Letter)
    BY <1>1, TextType
  <2>3. Visible(Text(session)) = Visible(Text(target)) \o Visible(Text(Response))
    BY <1>3, <2>1, <2>2, VisibleConcat
  <2> QED
    BY <1>2, <2>3 DEF Visibly
<1>6. Visible(Visibly(Response)) = Visibly(Response)
  BY <1>3, MoreCharacters, VisibleAgain DEF Visibly
<1>7. Wanted(req) \in Seq(Letter)
  BY <1>1, WantedType
<1>8. Visible(Continued) = Visible(Wanted(req)) \o Visibly(Response)
  BY <1>3, <1>6, <1>7, VisibleConcat DEF Continued
<1>9. req.text \in Seq(Letter) => Wanted(req) = req.text
  BY LettersPlain DEF Wanted
<1>10. ASSUME Plain(Transcript) PROVE Transcript = Continued
  <2>1. SUFFICES ASSUME req.text = OutputsOnly PROVE FALSE
    BY <1>1, <1>9 DEF Transcript, Continued
  <2>2. Transcript = OutputsOnly \o Visibly(Response)
    BY <2>1 DEF Transcript
  <2>3. Visibly(Response) \in Seq(Character)
    BY <1>3, MoreCharacters
  <2>4. OutputsOnly \in Seq(Character) /\ Len(OutputsOnly) = 1 /\ OutputsOnly[1] = "o"
    BY DEF OutputsOnly, Character
  <2>5. Transcript # <<>> /\ Transcript[1] = "o"
    BY <2>2, <2>3, <2>4, ConcatProperties
  <2> QED
    BY <1>10, <2>5 DEF Plain
<1>11. ASSUME req.text \in Seq(Letter),
              NEW said \in {Text(Response), Visibly(Response)}
       PROVE  Visible(Rendered(said)) = Visible(Continued)
  <2>1. Visible(said) = Visibly(Response) /\ said \in Seq(Letter)
    BY <1>3, <1>6 DEF Visibly
  <2>2. Visible(Rendered(said)) = Visible(req.text) \o Visible(said)
    BY <1>11, <2>1, VisibleConcat DEF Rendered
  <2> QED
    BY <1>8, <1>9, <1>11, <2>1, <2>2
<1> QED
  BY <1>4, <1>5, <1>8, <1>10, <1>11

(* A rewritten session shows what the next request will render.            *)
LEMMA RewritingMeans ==
    ASSUME MeaningInv, ~failed, FinishRewriting
    PROVE  /\ Visibly(target') = Visible(Wanted(req'))
           /\ Visibly(target') = Visible(Continued)
           /\ req.api # "responses"
<1>1. ReuseTypes /\ disk \subseteq Entry /\ req \in Asked
  BY DEF MeaningInv, TypesInv, ReuseTypes
<1>2. PICK said \in {Text(Response), Visibly(Response)} :
         /\ said \in Seq(Letter) /\ Rewrites(said)
         /\ req' = [req EXCEPT !.text = Rendered(said)]
         /\ \/ target' = Tokenize(Rendered(said))
            \/ \E e \in Found(disk, Rendered(said)) :
                  target' = e.tokens \o
                            Tokenize(After(e.key, Rendered(said)))
  BY <1>1, FinishRewritingIs
<1> DEFINE text == Rendered(said)
<1>3. /\ req.text \in Seq(Letter) /\ text \in Seq(Letter)
      /\ Tokenize(text) \in Seq(Token) /\ Text(Tokenize(text)) = text
  BY <1>1, <1>2, RewritesIs
<1>4. Visible(text) = Visible(Continued)
  BY <1>2, <1>3, ResponseMeans DEF FinishRewriting
<1>5. req'.text = text
  BY <1>1, <1>2 DEF Asked
<1> HIDE DEF text
<1>6. Wanted(req') = text
  BY <1>3, <1>5, LettersPlain DEF Wanted
<1>7. Visibly(target') = Visible(text)
  <2>1. CASE target' = Tokenize(text)
    BY <1>3, <2>1 DEF Visibly
  <2>2. CASE \E e \in Found(disk, text) :
                target' = e.tokens \o Tokenize(After(e.key, text))
    <3>1. \A f \in disk : Plain(f.key) => Visibly(f.tokens) = Visible(f.key)
      BY DEF MeaningInv, Keyed
    <3> QED
      BY <1>1, <1>3, <2>2, <3>1, LoadedMeans
  <2> QED
    BY <1>2, <2>1, <2>2 DEF text
<1>8. req.api # "responses"
  BY <1>2 DEF Rewrites
<1> QED
  BY <1>4, <1>6, <1>7, <1>8

LEMMA MeantStep ==
    ASSUME ReuseAssumption, MeaningInv, ~failed, failed' = failed, Serve
    PROVE  Meant'
<1>1. /\ ReuseTypes /\ TypesInv /\ session \in Seq(Token) /\ target \in Seq(Token)
  BY DEF MeaningInv, TypesInv, ReuseTypes
<1>2. /\ pc \in {"cold", "prefill", "coldEnd", "decode", "rebuild"} =>
            Visibly(target) = Visible(Wanted(req))
      /\ pc \in {"coldEnd", "decode"} => IsPrefix(target, session)
  BY DEF MeaningInv, Meant
<1>3. ASSUME UNCHANGED <<target, req>>,
             pc \in {"cold", "prefill", "coldEnd", "decode", "rebuild"}
      PROVE  Visibly(target') = Visible(Wanted(req'))
  BY <1>2, <1>3
<1>4. ASSUME NEW r \in Request, Honest(r), StartLive(r) PROVE Meant'
  <2>1. Visibly(target') = Visible(Wanted(r))
    BY <1>4, StartLiveMeans
  <2>2. req' = r /\ pc' = "prefill"
    BY <1>4 DEF StartLive
  <2> QED
    BY <2>1, <2>2 DEF Meant, Visibly
<1>5. ASSUME NEW r \in Request, StartMiss(r) PROVE Meant'
  <2>1. Visibly(target') = Visible(Wanted(r))
    BY <1>5, StartMissMeans
  <2>2. req' = r /\ pc' \in {"cold", "prefill"}
    BY <1>1, <1>5, StartMissIs DEF StartMiss
  <2> QED
    BY <2>1, <2>2 DEF Meant, Visibly
<1>6. CASE Prefill
  <2>1. UNCHANGED <<target, req, pc>> /\ pc \in {"cold", "prefill", "rebuild"}
    BY <1>6 DEF Prefill, InSync, jobVars
  <2> QED
    BY <1>3, <2>1 DEF Meant, Visibly
<1>7. CASE ColdDone
  <2>1. UNCHANGED <<target, req>> /\ pc = "cold" /\ pc' = "prefill"
    BY <1>7 DEF ColdDone, StoreCold
  <2> QED
    BY <1>3, <2>1 DEF Meant, Visibly
<1>8. CASE PrefillDone
  <2>1. /\ UNCHANGED <<target, req, session>> /\ pc = "prefill"
        /\ pc' \in {"coldEnd", "decode"} /\ session = target
    BY <1>8 DEF PrefillDone, jobVars
  <2>2. IsPrefix(target', session')
    BY <1>1, <2>1, PrefixElements
  <2> QED
    BY <1>3, <2>1, <2>2 DEF Meant, Visibly
<1>9. CASE ColdEnd
  <2>1. /\ UNCHANGED <<target, req, session>> /\ pc = "coldEnd"
        /\ pc' = "decode"
    BY <1>9 DEF ColdEnd, StoreCold
  <2>2. IsPrefix(target', session')
    BY <1>2, <2>1
  <2> QED
    BY <1>3, <2>1, <2>2 DEF Meant, Visibly
<1>10. CASE Decode
  <2>1. /\ UNCHANGED <<target, req, pc>> /\ pc = "decode"
        /\ \E token \in Token : session' = Append(session, token)
    BY <1>10 DEF Decode, jobVars
  <2>2. IsPrefix(target', session')
    BY <1>1, <1>2, <2>1, PrefixAppend
  <2> QED
    BY <1>3, <2>1, <2>2 DEF Meant, Visibly
<1>11. CASE FinishRewriting
  <2>1. Visibly(target') = Visible(Wanted(req'))
    BY <1>11, RewritingMeans
  <2>2. pc' = "rebuild"
    BY <1>11 DEF FinishRewriting
  <2> QED
    BY <2>1, <2>2 DEF Meant, Visibly
<1>12. CASE Disconnected \/ Finish \/ RebuildDone \/ StoreResponse \/ ErrorEnd
  <2>1. pc' \in {"idle", "end", "store"}
    BY <1>12 DEF Disconnected, Finish, RebuildDone, StoreResponse, ErrorEnd, EndJob
  <2> QED
    BY <2>1 DEF Meant
<1> QED
  BY <1>4, <1>5, <1>6, <1>7, <1>8, <1>9, <1>10, <1>11, <1>12 DEF Serve

-----------------------------------------------------------------------------
(* The bindings while a job runs.                                          *)

LEMMA BehindStep ==
    ASSUME ReuseAssumption, MeaningInv, [Next]_vars
    PROVE  Behind'
<1>1. ReuseTypes /\ TypesInv /\ failed \in BOOLEAN
  BY DEF MeaningInv, TypesInv, ReuseTypes
<1>2. Behind
  BY DEF MeaningInv
<1>3. failed' = failed \/ failed'
  BY DEF Next, vars
<1>4. CASE UNCHANGED vars
  BY <1>2, <1>4 DEF Behind, vars, slotVars, jobVars
<1>5. ASSUME NEW r \in Request, Honest(r), StartLive(r) PROVE Behind'
  <2>1. pc' = "prefill" /\ req' = r /\ UNCHANGED <<responses, anthropic, thinking>>
    BY <1>5 DEF StartLive
  <2>2. /\ source' \in FromResponses => r.api = "responses"
        /\ source' = "anthropic-tool-output" => r.api = "anthropic"
    BY <1>1, <1>5, StartLiveIs, AppliesIs DEF FromResponses
  <2>3. ~failed => /\ source' \in FromResponses => responses.tokens < Len(target')
                   /\ source' = "anthropic-tool-output" => anthropic.tokens < Len(target')
                   /\ source' = "thinking-visible" => thinking.tokens < Len(target')
    BY <1>5, StartLiveMeans
  <2> QED
    BY <1>3, <1>5, <2>1, <2>2, <2>3 DEF Behind, FromResponses
<1>6. ASSUME NEW r \in Request, StartMiss(r) PROVE Behind'
  <2>1. source' \in {"none", "disk-text"} /\ pc' \in {"cold", "prefill"}
    BY <1>1, <1>6, StartMissIs
  <2> QED
    BY <2>1 DEF Behind, FromResponses
<1>7. CASE Prefill \/ ColdDone \/ ColdEnd \/ Decode \/ DecodeFailed
  <2>1. UNCHANGED <<responses, anthropic, thinking, req, target, source>>
    BY <1>7 DEF Prefill, ColdDone, ColdEnd, Decode, DecodeFailed, jobVars
  <2>2. \/ pc' = pc
        \/ pc = "cold" /\ pc' = "prefill"
        \/ pc = "coldEnd" /\ pc' = "decode"
    BY <1>7 DEF Prefill, ColdDone, ColdEnd, StoreCold, Decode, DecodeFailed, jobVars
  <2> QED
    BY <1>2, <1>3, <2>1, <2>2 DEF Behind
<1>8. CASE PrefillDone
  <2>1. /\ pc = "prefill" /\ pc' \in {"coldEnd", "decode"}
        /\ UNCHANGED <<req, target, source>>
        /\ responses' = IF source \in FromResponses THEN responses ELSE Unbound
        /\ anthropic' = IF source = "anthropic-tool-output"
                        THEN anthropic ELSE Unbound
        /\ thinking' = IF source = "thinking-visible" THEN thinking ELSE Unbound
    BY <1>8 DEF PrefillDone, jobVars, FromResponses
  <2>2. ~Unbound.valid
    BY DEF Unbound
  <2>3. /\ responses'.valid => source \in FromResponses /\ responses' = responses
        /\ anthropic'.valid => source = "anthropic-tool-output" /\ anthropic' = anthropic
        /\ thinking'.valid => source = "thinking-visible" /\ thinking' = thinking
    BY <2>1, <2>2
  <2>4. ~failed => \A b \in {responses', anthropic', thinking'} :
                      b.valid => b.tokens < Len(target')
    BY <1>2, <2>1, <2>3 DEF Behind
  <2>5. /\ responses'.valid => req'.api = "responses"
        /\ anthropic'.valid => req'.api = "anthropic"
    BY <1>2, <2>1, <2>3 DEF Behind
  <2> QED
    BY <1>2, <1>3, <2>1, <2>4, <2>5 DEF Behind
<1>9. CASE PrefillFailed \/ Disconnected \/ Finish \/ FinishRewriting
           \/ RebuildDone \/ RebuildFailed \/ StoreResponse \/ ErrorEnd
  <2>1. pc' \in {"idle", "end", "store", "rebuild"}
    BY <1>9 DEF PrefillFailed, Disconnected, Finish, FinishRewriting, RebuildDone,
                RebuildFailed, StoreResponse, ErrorEnd, EndJob
  <2> QED
    BY <2>1 DEF Behind
<1> QED
  BY <1>4, <1>5, <1>6, <1>7, <1>8, <1>9 DEF Next, Serve, Fail

LEMMA NamedStep ==
    ASSUME ReuseAssumption, MeaningInv, ~failed, failed' = failed, Serve
    PROVE  Named'
<1>1. /\ ReuseTypes /\ session \in Seq(Token) /\ target \in Seq(Token)
      /\ Len(session) \in Nat /\ Len(target) \in Nat
      /\ responses \in Binding /\ anthropic \in Binding /\ thinking \in Binding
  BY LenProperties DEF MeaningInv, TypesInv, ReuseTypes
<1>2. Behind /\ Named
  BY DEF MeaningInv
<1>3. ASSUME pc = "decode", NEW b \in {responses, anthropic, thinking}
      PROVE  b.valid => b.tokens # Len(session)
  <2>1. b.valid => b.tokens < Len(target)
    BY <1>2, <1>3 DEF Behind
  <2>2. Len(target) <= Len(session)
    BY <1>3, ResponseMeans
  <2>3. b.tokens \in Nat
    BY <1>1 DEF Binding
  <2> QED
    BY <1>1, <2>1, <2>2, <2>3
<1>4. CASE \/ \E r \in Request : StartLive(r) \/ StartMiss(r)
           \/ ColdDone \/ PrefillDone \/ ColdEnd \/ Decode
  <2>1. pc' \in {"cold", "prefill", "coldEnd", "decode"}
    BY <1>4 DEF StartLive, StartMiss, StartCold, StartLoaded, ColdDone, PrefillDone,
                ColdEnd, StoreCold, Decode
  <2> QED
    BY <2>1 DEF Named
<1>5. CASE Prefill
  <2>1. /\ UNCHANGED <<responses, anthropic, thinking, target, pc>>
        /\ pc \in {"cold", "prefill", "rebuild"}
    BY <1>5 DEF Prefill, InSync, jobVars
  <2> QED
    BY <1>2, <2>1 DEF Named, Names, Visibly
<1>6. CASE Disconnected
  <2>1. /\ UNCHANGED <<responses, anthropic, thinking, session>>
        /\ pc = "decode" /\ pc' = "idle"
    BY <1>6 DEF Disconnected, EndJob, slotVars
  <2> QED
    BY <1>3, <2>1 DEF Named, AtFrontier
<1>7. CASE Finish
  <2>1. /\ pc = "decode" /\ pc' \in {"end", "store"} /\ session' = session
    BY <1>7 DEF Finish
  <2>2. PICK outcome : Remember(outcome)
    BY <1>7 DEF Finish
  <2>3. \A b \in {responses', anthropic', thinking'} :
           \/ b \in {responses, anthropic, thinking}
           \/ b = Bound(Transcript, Continued)
           \/ b = Bound(Transcript, NoIds)
           \/ b = Bound(<<>>, Continued)
           \/ b = Unbound
    BY <1>1, <2>2, RememberIs
  <2>4. /\ Visibly(session) = Visible(Continued)
        /\ Plain(Transcript) => Transcript = Continued
    BY <2>1, ResponseMeans
  <2>5. /\ Names(Bound(Transcript, Continued), session)
        /\ Names(Bound(Transcript, NoIds), session)
        /\ Names(Bound(<<>>, Continued), session)
    BY <2>4 DEF Names, Bound
  <2>6. ASSUME NEW b \in {responses', anthropic', thinking'},
               b.valid, b.tokens = Len(session)
        PROVE  Names(b, session)
    <3>1. b \notin {responses, anthropic, thinking}
      BY <1>3, <2>1, <2>6
    <3>2. b # Unbound
      BY <2>6 DEF Unbound
    <3> QED
      BY <2>3, <2>5, <3>1, <3>2
  <2> QED
    BY <2>1, <2>6 DEF Named, AtFrontier
<1>8. CASE FinishRewriting
  <2>1. pc = "decode" /\ pc' = "rebuild" /\ Remember("tool_calls")
    BY <1>8 DEF FinishRewriting
  <2>2. req.api # "responses" /\ Visibly(target') = Visible(Continued)
    BY <1>8, RewritingMeans
  <2>3. /\ responses' = responses
        /\ anthropic' = IF req.api # "anthropic" THEN anthropic
                        ELSE Bound(<<>>, Continued)
        /\ thinking' = Unbound
    BY <2>1, <2>2 DEF Remember
  <2>4. ~responses.valid /\ (anthropic.valid => req.api = "anthropic")
    BY <1>2, <2>1, <2>2 DEF Behind
  <2>5. ~thinking'.valid
    BY <2>3 DEF Unbound
  <2>6. Names(Bound(<<>>, Continued), target')
    BY <2>2 DEF Names, Bound
  <2>7. anthropic'.valid => Names(anthropic', target')
    BY <2>3, <2>4, <2>6
  <2> QED
    BY <2>1, <2>3, <2>4, <2>5, <2>7 DEF Named
<1>9. CASE RebuildDone
  <2>1. /\ UNCHANGED <<responses, anthropic, thinking, session>>
        /\ pc = "rebuild" /\ pc' = "store" /\ session = target
    BY <1>9 DEF RebuildDone, slotVars
  <2> QED
    BY <1>2, <2>1 DEF Named, AtFrontier
<1>10. CASE StoreResponse \/ ErrorEnd
  <2>1. /\ UNCHANGED <<responses, anthropic, thinking, session>>
        /\ pc \in {"store", "end"} /\ pc' = "idle"
    BY <1>10 DEF StoreResponse, ErrorEnd, EndJob, slotVars
  <2> QED
    BY <1>2, <2>1 DEF Named, AtFrontier
<1> QED
  BY <1>4, <1>5, <1>6, <1>7, <1>8, <1>9, <1>10 DEF Serve

LEMMA MeaningInit ==
    ASSUME Init
    PROVE  MeaningInv
<1>1. TypesInv
  BY TypesInit
<1>2. /\ pc = "idle" /\ disk = {}
      /\ responses = Unbound /\ anthropic = Unbound /\ thinking = Unbound
  BY DEF Init
<1>3. ~AtFrontier(Unbound)
  BY DEF Unbound, AtFrontier
<1>4. Named
  BY <1>2, <1>3 DEF Named
<1>5. Meant /\ Behind /\ Keyed
  BY <1>2 DEF Meant, Behind, Keyed
<1> QED
  BY <1>1, <1>4, <1>5 DEF MeaningInv

LEMMA MeaningStep ==
    ASSUME ReuseAssumption, MeaningInv, [Next]_vars
    PROVE  MeaningInv'
<1>1. TypesInv' /\ Behind'
  BY TypesStep, BehindStep DEF MeaningInv
<1>2. Meant' /\ Named' /\ Keyed'
  <2>1. CASE failed'
    BY <2>1 DEF Meant, Named, Keyed
  <2>2. CASE UNCHANGED vars
    BY <2>2 DEF MeaningInv, Meant, Named, Keyed, AtFrontier, Names, Visibly,
                vars, slotVars, jobVars
  <2>3. CASE Serve /\ ~failed /\ failed' = failed
    BY <2>3, MeantStep, NamedStep, KeyedStep
  <2> QED
    BY <2>1, <2>2, <2>3 DEF Next
<1> QED
  BY <1>1, <1>2 DEF MeaningInv

LEMMA MeaningInvariant ==
    Spec => []MeaningInv
<1>1. MeaningInv /\ [Next]_vars => MeaningInv'
  BY ReuseAssumption, MeaningStep
<1> QED
  BY <1>1, MeaningInit, PTL DEF Spec

(* Until something fails, whichever rule found the part of the session     *)
(* that is reused, the prompt that the job evaluates shows the             *)
(* conversation that the client means.  (ds4_server.c 11340-11466)         *)
THEOREM PromptsAreFaithful ==
    Spec => []FaithfulUntilFailure
<1>1. MeaningInv => FaithfulUntilFailure
  BY DEF MeaningInv, Meant, FaithfulUntilFailure, Faithful, InSync
<1> QED
  BY <1>1, MeaningInvariant, PTL

(* Until something fails, a checkpoint on disk holds the conversation that *)
(* its key shows, whatever binding lent it.  (ds4_server.c 9705-9750)      *)
THEOREM CheckpointsAreFaithful ==
    Spec => []DiskUntilFailure
<1>1. ASSUME MeaningInv, ~failed PROVE DiskFaithful
  <2>1. SUFFICES ASSUME NEW e \in disk, Head(e.key) # "o"
                 PROVE  Visibly(e.tokens) = Visible(e.key)
    BY DEF DiskFaithful
  <2>2. Plain(e.key)
    <3>1. e.key \in Seq(Character)
      BY <1>1 DEF MeaningInv, TypesInv, ReuseTypes, Entry
    <3> QED
      BY <2>1, <3>1 DEF Plain
  <2> QED
    BY <1>1, <2>2 DEF MeaningInv, Keyed
<1>2. MeaningInv => DiskUntilFailure
  BY <1>1 DEF DiskUntilFailure
<1> QED
  BY <1>2, MeaningInvariant, PTL

-----------------------------------------------------------------------------
(* The counters of the slot, and the room on disk.                         *)

Bounded ==
    /\ Len(session) <= CtxSize
    /\ \A b \in {responses, anthropic, thinking} : b.tokens <= CtxSize
    /\ last <= CtxSize /\ cached <= CtxSize /\ cold <= CtxSize
    /\ IsFiniteSet(disk) /\ Cardinality(disk) <= MaxEntries
    /\ source \in LiveSource \cup {"none", "disk-text"}

BoundsInv == HeldInv /\ Bounded

(* A store makes room for the entry before it writes it.                   *)
LEMMA StoredRoom ==
    ASSUME ReuseAssumption, NEW d, IsFiniteSet(d), Cardinality(d) <= MaxEntries,
           NEW key, NEW tokens, NEW new \in Stored(d, key, tokens)
    PROVE  IsFiniteSet(new) /\ Cardinality(new) <= MaxEntries
<1> DEFINE entry == [key |-> key, tokens |-> tokens]
           roomy == IF Cardinality(d) < MaxEntries
                    THEN {d} ELSE {d \ {victim} : victim \in d}
<1>1. Cardinality(d) \in Nat /\ MaxEntries \in Nat
  BY FS_CardinalityType DEF ReuseAssumption
<1>2. CASE new = d
  BY <1>2
<1>3. CASE new # d /\ \E k \in roomy : new = k \/ new = k \cup {entry}
  <2>1. PICK k \in roomy : new = k \/ new = k \cup {entry}
    BY <1>3
  <2>2. IsFiniteSet(k) /\ Cardinality(k) \in Nat /\ Cardinality(k) < MaxEntries
    <3>1. CASE Cardinality(d) < MaxEntries
      <4>1. k = d
        BY <2>1, <3>1
      <4> QED
        BY <1>1, <3>1, <4>1
    <3>2. CASE ~(Cardinality(d) < MaxEntries)
      <4>1. PICK victim \in d : k = d \ {victim}
        BY <2>1, <3>2
      <4>2. IsFiniteSet(k) /\ Cardinality(k) = Cardinality(d) - 1
        BY <4>1, FS_RemoveElement
      <4>3. Cardinality(k) \in Nat
        BY <4>2, FS_CardinalityType
      <4> QED
        BY <1>1, <4>2, <4>3
    <3> QED
      BY <3>1, <3>2
  <2>3. /\ IsFiniteSet(k \cup {entry})
        /\ Cardinality(k \cup {entry}) <= Cardinality(k) + 1
        /\ Cardinality(k \cup {entry}) \in Nat
    <3>1. /\ IsFiniteSet(k \cup {entry})
          /\ Cardinality(k \cup {entry}) =
                IF entry \in k THEN Cardinality(k) ELSE Cardinality(k) + 1
      BY <2>2, FS_AddElement
    <3> HIDE DEF entry
    <3> QED
      BY <2>2, <3>1
  <2>4. CASE new = k
    BY <2>2, <2>4
  <2>5. CASE new = k \cup {entry}
    <3>1. Cardinality(k \cup {entry}) <= MaxEntries
      BY <1>1, <2>2, <2>3
    <3> QED
      BY <2>3, <2>5, <3>1
  <2> QED
    BY <2>1, <2>4, <2>5
<1>4. \/ new = d
      \/ \E k \in roomy : new = k \/ new = k \cup {entry}
  BY DEF Stored
<1> QED
  BY <1>2, <1>3, <1>4

LEMMA StoreCurrentRoom ==
    ASSUME ReuseAssumption, Bounded, NEW new \in StoreCurrent(disk)
    PROVE  IsFiniteSet(new) /\ Cardinality(new) <= MaxEntries
BY StoredRoom DEF StoreCurrent, Bounded

LEMMA StoreContinuedBounds ==
    ASSUME ReuseAssumption, BoundsInv, NEW tokens \in Seq(Token),
           Len(tokens) <= CtxSize, StoreContinued(tokens)
    PROVE  /\ IsFiniteSet(disk') /\ Cardinality(disk') <= MaxEntries
           /\ last' <= CtxSize
<1>1. IsFiniteSet(disk) /\ Cardinality(disk) <= MaxEntries /\ last <= CtxSize
  BY DEF BoundsInv, Bounded
<1>2. CASE Due(Len(tokens))
  <2>1. PICK d \in Stored(disk, Text(tokens), tokens) :
           /\ disk' = d
           /\ last' = Noted(Len(tokens), HasKey(d, Text(tokens)))
    BY <1>2 DEF StoreContinued
  <2>2. IsFiniteSet(d) /\ Cardinality(d) <= MaxEntries
    BY <1>1, <2>1, StoredRoom
  <2> QED
    BY <1>1, <2>1, <2>2 DEF Noted
<1>3. CASE ~Due(Len(tokens))
  BY <1>1, <1>3 DEF StoreContinued
<1> QED
  BY <1>2, <1>3

LEMMA StoreColdBounds ==
    ASSUME ReuseAssumption, BoundsInv, NEW next, StoreCold(next)
    PROVE  /\ IsFiniteSet(disk') /\ Cardinality(disk') <= MaxEntries
           /\ last' <= CtxSize
<1>1. /\ IsFiniteSet(disk) /\ Cardinality(disk) <= MaxEntries
      /\ last <= CtxSize /\ cold <= CtxSize /\ ReuseTypes
      /\ CtxSize \in Nat
  BY DEF BoundsInv, Bounded, HeldInv, TypesInv, ReuseAssumption
<1>2. PICK d \in Stored(disk, Text(session), session) : disk' = d
  BY DEF StoreCold
<1>3. IsFiniteSet(disk') /\ Cardinality(disk') <= MaxEntries
  BY <1>1, <1>2, StoredRoom
<1>4. \/ last' \in {cold, last}
      \/ last' = IF held >= 0 /\ last = cold THEN held ELSE last
  BY <1>1, StoreColdIs
<1>5. held >= 0 => held = 0
  BY HeldIs DEF BoundsInv
<1> QED
  BY <1>1, <1>3, <1>4, <1>5

LEMMA EndJobBounds ==
    ASSUME ReuseAssumption, EndJob
    PROVE  /\ cached' <= CtxSize /\ cold' <= CtxSize
           /\ source' \in LiveSource \cup {"none", "disk-text"}
BY DEF EndJob, ReuseAssumption

LEMMA LiveBounds ==
    ASSUME ReuseAssumption, BoundsInv, NEW r \in Request, StartLive(r)
    PROVE  Bounded'
<1>1. /\ session \in Seq(Token) /\ Len(session) \in Nat /\ ReuseTypes
      /\ Len(session) <= CtxSize /\ CtxSize \in Nat
  BY LenProperties
     DEF BoundsInv, Bounded, HeldInv, TypesInv, ReuseTypes, ReuseAssumption
<1>2. /\ source' \in LiveSource /\ cached' = Len(session')
      /\ Applies(r, source') /\ source' = SourceOf(r)
      /\ source' = "memory-rewind" => r.text \in Seq(Letter)
  BY <1>1, StartLiveIs DEF StartLive
<1>3. Len(session') <= CtxSize
  <2>1. CASE source' = "memory-rewind"
    <3> DEFINE prompt == Tokenize(r.text)
               n == RewindTarget(prompt)
    <3>1. session' = SubSeq(session, 1, n)
      BY <1>2, <2>1 DEF StartLive
    <3>2. n >= 0
      BY <1>2, <2>1 DEF Applies
    <3>3. Len(prompt) \in Nat
      BY <1>2, <2>1, TokenizeText, LenProperties
    <3>4. n \in 0 .. Len(session)
      <4> HIDE DEF prompt
      <4> QED
        BY <1>1, <3>2, <3>3 DEF RewindTarget
    <3> HIDE DEF n
    <3>5. Len(session') = n
      BY <1>1, <3>1, <3>4, PrefixSub
    <3> QED
      BY <1>1, <3>4, <3>5
  <2>2. CASE source' # "memory-rewind"
    BY <1>1, <1>2, <2>2 DEF StartLive
  <2> QED
    BY <2>1, <2>2
<1>4. cold' = 0 /\ UNCHANGED <<responses, anthropic, thinking, last, disk>>
  BY DEF StartLive
<1> QED
  BY <1>1, <1>2, <1>3, <1>4 DEF BoundsInv, Bounded

LEMMA MissBounds ==
    ASSUME ReuseAssumption, BoundsInv, NEW r \in Request, Admitted(r), StartMiss(r)
    PROVE  Bounded'
<1>1. /\ session \in Seq(Token) /\ Len(session) \in Nat /\ ReuseTypes
      /\ Len(session) <= CtxSize /\ CtxSize \in Nat
  BY LenProperties
     DEF BoundsInv, Bounded, HeldInv, TypesInv, ReuseTypes, ReuseAssumption
<1>2. IsFiniteSet(disk') /\ Cardinality(disk') <= MaxEntries
  BY StoreCurrentRoom DEF StartMiss, BoundsInv
<1>3. UNCHANGED <<responses, anthropic, thinking>>
  BY DEF StartMiss
<1>4. r.text \in Seq(Letter)
  BY <1>1, StartMissIs
<1>5. Len(Tokenize(r.text)) \in Nat /\ Len(Tokenize(r.text)) <= CtxSize
  <2>1. Len(Tokenize(r.text)) \in Nat
    BY <1>4, TokenizeText, LenProperties
  <2> QED
    BY <1>1, <2>1 DEF Admitted
<1>6. ASSUME StartCold(r), session' \in {session, <<>>} PROVE Bounded'
  <2>1. cold' \in Nat /\ cold' <= CtxSize
    <3>1. cold' \in ColdLengths(Tokenize(r.text))
      BY <1>6 DEF StartCold
    <3>2. cold' \in Nat /\ cold' <= Len(Tokenize(r.text))
      BY <1>5, <3>1, ColdLengthsIs
    <3> QED
      BY <1>1, <1>5, <3>2
  <2>2. cached' = 0 /\ source' = "none" /\ last' \in {0, cold'}
    BY <1>6 DEF StartCold
  <2>3. Len(session') <= CtxSize
    BY <1>1, <1>6
  <2> QED
    BY <1>1, <1>2, <1>3, <2>1, <2>2, <2>3 DEF BoundsInv, Bounded
<1>7. ASSUME NEW e \in Found(disk', r.text), Fits(e), StartLoaded(r, e)
      PROVE  Bounded'
  <2>1. disk' \subseteq Entry
    BY <1>1, StoreCurrentIs DEF StartMiss
  <2>2. Len(e.tokens) \in Nat
    BY <1>4, <1>7, <2>1, FoundIs
  <2>3. Len(e.tokens) <= CtxSize
    BY <1>1, <1>7, <2>2 DEF Fits
  <2>4. /\ session' = e.tokens /\ cached' = Len(e.tokens)
        /\ source' = "disk-text" /\ cold' = 0 /\ last' = 0
    BY <1>7 DEF StartLoaded
  <2> QED
    BY <1>1, <1>2, <1>3, <2>3, <2>4 DEF BoundsInv, Bounded
<1>8. \/ StartCold(r) /\ session' \in {session, <<>>}
      \/ \E e \in Found(disk', r.text) : Fits(e) /\ StartLoaded(r, e)
  BY DEF StartMiss
<1> QED
  BY <1>6, <1>7, <1>8

(* What is bound names the length of the session.                          *)
LEMMA RememberBounds ==
    ASSUME ReuseAssumption, BoundsInv, NEW outcome, Remember(outcome)
    PROVE  \A b \in {responses', anthropic', thinking'} : b.tokens <= CtxSize
<1>1. /\ \A b \in {responses, anthropic, thinking} : b.tokens <= CtxSize
      /\ Len(session) <= CtxSize /\ CtxSize \in Nat
  BY DEF BoundsInv, Bounded, ReuseAssumption
<1>2. Unbound.tokens <= CtxSize
  BY <1>1 DEF Unbound
<1>3. \A visible, ids : Bound(visible, ids).tokens <= CtxSize
  BY <1>1 DEF Bound
<1> QED
  BY <1>1, <1>2, <1>3 DEF Remember

LEMMA RewritingBounds ==
    ASSUME ReuseAssumption, BoundsInv, FinishRewriting
    PROVE  Bounded'
<1>1. /\ session \in Seq(Token) /\ Len(session) \in Nat /\ ReuseTypes
      /\ Len(session) <= CtxSize /\ CtxSize \in Nat /\ disk \subseteq Entry
  BY LenProperties
     DEF BoundsInv, Bounded, HeldInv, TypesInv, ReuseTypes, ReuseAssumption
<1>2. \A b \in {responses', anthropic', thinking'} : b.tokens <= CtxSize
  BY RememberBounds DEF FinishRewriting
<1>3. UNCHANGED <<last, disk, source, cold>>
  BY DEF FinishRewriting
<1>4. PICK said \in {Text(Response), Visibly(Response)} :
         /\ Rewrites(said)
         /\ \/ cached' = Len(Tokenize(Rendered(said))) /\ session' = session
            \/ session' = <<>> /\ cached' = 0
            \/ \E e \in Found(disk, Rendered(said)) :
                  Fits(e) /\ session' = e.tokens /\ cached' = Len(e.tokens)
  BY DEF FinishRewriting
<1>5. said \in Seq(Letter)
  BY <1>1, <1>4, ResponseIs
<1>6. /\ Rendered(said) \in Seq(Letter)
      /\ Len(Tokenize(Rendered(said))) \in Nat
  BY <1>1, <1>4, <1>5, RewritesIs, LenProperties
<1>7. Len(Tokenize(Rendered(said))) <= CtxSize
  BY <1>1, <1>4, <1>6 DEF Rewrites
<1>8. \A e \in Found(disk, Rendered(said)) :
         Fits(e) => Len(e.tokens) <= CtxSize
  <2>1. TAKE e \in Found(disk, Rendered(said))
  <2>2. Len(e.tokens) \in Nat
    BY <1>1, <1>6, FoundIs
  <2> QED
    BY <1>1, <2>2 DEF Fits
<1>9. Len(session') <= CtxSize /\ cached' <= CtxSize
  BY <1>1, <1>4, <1>7, <1>8
<1> QED
  BY <1>2, <1>3, <1>9 DEF BoundsInv, Bounded

LEMMA BoundedStep ==
    ASSUME ReuseAssumption, BoundsInv, [Next]_vars
    PROVE  Bounded'
<1>1. /\ HeldInv /\ TypesInv /\ ReuseTypes /\ Bounded
      /\ session \in Seq(Token) /\ target \in Seq(Token)
      /\ Len(session) \in Nat /\ Len(session) <= CtxSize /\ CtxSize \in Nat
  BY LenProperties
     DEF BoundsInv, Bounded, HeldInv, TypesInv, ReuseTypes, ReuseAssumption
<1>2. CASE UNCHANGED vars
  BY <1>1, <1>2 DEF Bounded, vars, slotVars, jobVars
<1>3. ASSUME NEW r \in Request, Admitted(r), StartLive(r) \/ StartMiss(r)
      PROVE  Bounded'
  BY <1>3, LiveBounds, MissBounds
<1>4. CASE Prefill
  <2>1. /\ session' \in Seq(Token) /\ Len(session') = Reach
        /\ \/ StoreContinued(session')
           \/ disk' = disk /\ last' = last
    BY <1>1, <1>4, PrefillIs
  <2>2. Reach < CtxSize /\ Reach \in Nat
    BY <1>1, <1>4, ReachIs, GoalIs DEF Prefill
  <2>3. Len(session') <= CtxSize
    BY <1>1, <2>1, <2>2
  <2>4. /\ IsFiniteSet(disk') /\ Cardinality(disk') <= MaxEntries
        /\ last' <= CtxSize
    BY <1>1, <2>1, <2>3, StoreContinuedBounds DEF Bounded
  <2>5. UNCHANGED <<responses, anthropic, thinking, cached, cold, source>>
    BY <1>4 DEF Prefill, jobVars
  <2> QED
    BY <1>1, <2>3, <2>4, <2>5 DEF Bounded
<1>5. CASE ColdDone \/ ColdEnd
  <2>1. PICK next : StoreCold(next)
    BY <1>5 DEF ColdDone, ColdEnd
  <2>2. /\ IsFiniteSet(disk') /\ Cardinality(disk') <= MaxEntries
        /\ last' <= CtxSize
    BY <2>1, StoreColdBounds
  <2>3. UNCHANGED <<session, responses, anthropic, thinking, cached, source, cold>>
    BY <1>5 DEF ColdDone, ColdEnd
  <2> QED
    BY <1>1, <2>2, <2>3 DEF Bounded
<1>6. CASE PrefillDone
  <2>1. /\ IsFiniteSet(disk') /\ Cardinality(disk') <= MaxEntries
        /\ last' <= CtxSize
    BY <1>1, <1>6, StoreContinuedBounds DEF PrefillDone
  <2>2. /\ responses' \in {responses, Unbound}
        /\ anthropic' \in {anthropic, Unbound}
        /\ thinking' \in {thinking, Unbound}
        /\ UNCHANGED <<session, cached, cold, source>>
    BY <1>6 DEF PrefillDone, jobVars
  <2>3. Unbound.tokens <= CtxSize
    BY <1>1 DEF Unbound
  <2> QED
    BY <1>1, <2>1, <2>2, <2>3 DEF Bounded
<1>7. CASE PrefillFailed
  <2>1. EndJob /\ UNCHANGED <<responses, anthropic, thinking>>
    BY <1>7 DEF PrefillFailed
  <2>2. /\ session' \in {session, <<>>} /\ disk' \subseteq disk
        /\ \/ last' = 0
           \/ last' = IF held >= 0 /\ last = cold THEN held ELSE last
    BY <1>7 DEF PrefillFailed, Broken
  <2>3. last' <= CtxSize
    BY <1>1, <2>2, HeldIs DEF Bounded
  <2>4. IsFiniteSet(disk') /\ Cardinality(disk') <= MaxEntries
    <3>1. /\ IsFiniteSet(disk') /\ Cardinality(disk') <= Cardinality(disk)
          /\ Cardinality(disk') \in Nat /\ Cardinality(disk) \in Nat
      BY <1>1, <2>2, FS_Subset, FS_CardinalityType DEF Bounded
    <3> QED
      BY <1>1, <3>1 DEF Bounded, ReuseAssumption
  <2>5. Len(session') <= CtxSize
    BY <1>1, <2>2
  <2> QED
    BY <1>1, <2>1, <2>3, <2>4, <2>5, EndJobBounds DEF Bounded
<1>8. CASE Decode
  <2>1. PICK token \in Token : session' = Append(session, token)
    BY <1>8 DEF Decode
  <2>2. Len(session) < CtxSize /\ StoreContinued(session)
    BY <1>8 DEF Decode
  <2>3. Len(session') = Len(session) + 1
    BY <1>1, <2>1, AppendProperties
  <2>4. Len(session') <= CtxSize
    BY <1>1, <2>2, <2>3
  <2>5. /\ IsFiniteSet(disk') /\ Cardinality(disk') <= MaxEntries
        /\ last' <= CtxSize
    BY <1>1, <2>2, StoreContinuedBounds
  <2>6. UNCHANGED <<responses, anthropic, thinking, cached, cold, source>>
    BY <1>8 DEF Decode, jobVars
  <2> QED
    BY <1>1, <2>4, <2>5, <2>6 DEF Bounded
<1>9. CASE Disconnected \/ ErrorEnd
  <2>1. EndJob /\ UNCHANGED <<slotVars, disk>>
    BY <1>9 DEF Disconnected, ErrorEnd
  <2> QED
    BY <1>1, <2>1, EndJobBounds DEF Bounded, slotVars
<1>10. CASE DecodeFailed \/ RebuildDone
  BY <1>1, <1>10 DEF DecodeFailed, RebuildDone, Bounded, slotVars, jobVars
<1>11. CASE Finish
  <2>1. \A b \in {responses', anthropic', thinking'} : b.tokens <= CtxSize
    BY <1>11, RememberBounds DEF Finish
  <2>2. UNCHANGED <<session, last, disk, cached, cold, source>>
    BY <1>11 DEF Finish, jobVars
  <2> QED
    BY <1>1, <2>1, <2>2 DEF Bounded
<1>12. CASE FinishRewriting
  BY <1>12, RewritingBounds
<1>13. CASE RebuildFailed
  <2>1. /\ session' \in {session, <<>>}
        /\ UNCHANGED <<responses, anthropic, thinking, last, disk,
                       cached, cold, source>>
    BY <1>13 DEF RebuildFailed, Broken, jobVars
  <2>2. Len(session') <= CtxSize
    BY <1>1, <2>1
  <2> QED
    BY <1>1, <2>1, <2>2 DEF Bounded
<1>14. CASE StoreResponse
  <2>1. PICK d \in StoreCurrent(disk) :
           /\ disk' = d
           /\ last' = Noted(Len(session), HasKey(d, CurrentKey))
    BY <1>14 DEF StoreResponse
  <2>2. IsFiniteSet(disk') /\ Cardinality(disk') <= MaxEntries
    BY <1>1, <2>1, StoreCurrentRoom
  <2>3. last' <= CtxSize
    BY <1>1, <2>1 DEF Noted, Bounded
  <2>4. EndJob /\ UNCHANGED <<session, responses, anthropic, thinking>>
    BY <1>14 DEF StoreResponse
  <2> QED
    BY <1>1, <2>2, <2>3, <2>4, EndJobBounds DEF Bounded
<1> QED
  BY <1>2, <1>3, <1>4, <1>5, <1>6, <1>7, <1>8, <1>9, <1>10, <1>11, <1>12,
     <1>13, <1>14 DEF Next, Serve, Fail

LEMMA BoundsInvariant ==
    Spec => []BoundsInv
<1>1. Init => Bounded
  <2>1. IsFiniteSet({}) /\ Cardinality({}) = 0
    BY FS_EmptySet
  <2> QED
    BY <2>1, ReuseAssumption DEF Init, Bounded, Unbound, ReuseAssumption
<1>2. HeldInv /\ Bounded /\ [Next]_vars => Bounded'
  BY ReuseAssumption, BoundedStep DEF BoundsInv
<1>3. Spec => []Bounded
  BY <1>1, <1>2, HeldInvariant, PTL DEF Spec
<1> QED
  BY <1>3, HeldInvariant, PTL DEF BoundsInv

(* After any prompt, load, evaluation and failure: the session, what is    *)
(* bound to its frontier, what is read from the cache and what counts as   *)
(* stored stay within the context, and the files within their budget.      *)
(* (generate_job, ds4_server.c 11340-11684)                                *)
THEOREM SlotStaysWithinBounds ==
    Spec => []TypeOK
<1>1. LiveSource \cup {"none", "disk-text"} \subseteq Range(Sources) \cup {"disk-text"}
  <2>1. /\ DOMAIN Sources = 1 .. 9
        /\ Sources[1] = "responses-visible"
        /\ Sources[2] = "responses-tool-output"
        /\ Sources[3] = "anthropic-tool-output"
        /\ Sources[5] = "memory-rewind" /\ Sources[6] = "memory-token"
        /\ Sources[7] = "thinking-visible" /\ Sources[8] = "memory-text"
        /\ Sources[9] = "none"
    BY DEF Sources
  <2> QED
    BY <2>1 DEF Range, LiveSource
<1>2. BoundsInv => TypeOK
  <2>1. SUFFICES ASSUME BoundsInv PROVE TypeOK
    OBVIOUS
  <2>2. /\ ReuseTypes /\ Bounded /\ CtxSize \in Nat
    <3>1. CtxSize \in Nat
      BY ReuseAssumption DEF ReuseAssumption
    <3> QED
      BY <2>1, <3>1 DEF BoundsInv, HeldInv, TypesInv
  <2>3. \A b \in {responses, anthropic, thinking} :
           b.valid \in BOOLEAN /\ b.tokens \in 0 .. CtxSize
    <3>1. \A b \in {responses, anthropic, thinking} :
             b \in Binding /\ b.tokens <= CtxSize
      BY <2>2 DEF ReuseTypes, Bounded
    <3> QED
      BY <2>2, <3>1 DEF Binding
  <2>4. last \in 0 .. CtxSize /\ cached \in 0 .. CtxSize
    BY <2>2 DEF ReuseTypes, Bounded
  <2> QED
    BY <1>1, <2>2, <2>3, <2>4 DEF TypeOK, ReuseTypes, Bounded, Phase
<1> QED
  BY <1>2, BoundsInvariant, PTL
=============================================================================
