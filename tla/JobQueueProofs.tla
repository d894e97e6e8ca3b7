--------------------------- MODULE JobQueueProofs ---------------------------
(***************************************************************************)
(* Proofs about JobQueue, for every number of slots, clients and calls:    *)
(*                                                                         *)
(*   QueueTypes      the types of its state                                *)
(*   QueueAccounts   a job is in one place, and the end leaves none behind *)
(*   QueueRoutes     tool outputs go to the slot that made the calls       *)
(*   QueueKeepsBusy  no job waits that an idle slot could run              *)
(*   QueueRefines    the queue implements JobService                       *)
(*                                                                         *)
(* The state has pointers, the arguments are about sequences: IsList says  *)
(* which sequence of jobs the pointers link, LinkedIsList that following   *)
(* them, which is what QueuedAt does, finds it.                            *)
(***************************************************************************)
EXTENDS JobQueue, FiniteSetTheorems, SequenceTheorems, TLAPS

-----------------------------------------------------------------------------
(* Induction over the naturals, for a set of them.                         *)

(* A set of naturals that is not empty has a least element. *)
LEMMA LeastNatural ==
    ASSUME NEW T \in SUBSET Nat, T # {}
    PROVE  \E m \in T : \A k \in T : m <= k
<1>1. \E m \in T : \A k \in T : ~ (<<k, m>> \in OpToRel(<, Nat))
  BY NatLessThanWellFounded, WFMin
<1>2. PICK m \in T : \A k \in T : ~ (<<k, m>> \in OpToRel(<, Nat))
  BY <1>1
<1>3. ASSUME NEW k \in T PROVE m <= k
  <2>1. ~ (<<k, m>> \in OpToRel(<, Nat))
    BY <1>2
  <2>2. k \in Nat /\ m \in Nat
    OBVIOUS
  <2>3. ~ (k < m)
    BY <2>1, <2>2 DEF OpToRel
  <2> QED
    BY <2>2, <2>3
<1> QED
  BY <1>3

(* A set that has 0 and, with each natural, the next one has them all. *)
LEMMA SetInduction ==
    ASSUME NEW T, 0 \in T, \A n \in Nat : n \in T => n + 1 \in T
    PROVE  Nat \subseteq T
<1> SUFFICES ASSUME Nat \ T # {} PROVE FALSE
  OBVIOUS
<1>1. PICK m \in Nat \ T : \A k \in Nat \ T : m <= k
  BY LeastNatural
<1>2. m # 0
  BY <1>1
<1>3. m - 1 \in Nat /\ m - 1 < m /\ (m - 1) + 1 = m
  BY <1>1, <1>2
<1>4. m - 1 \in T
  BY <1>1, <1>3
<1> QED
  BY <1>1, <1>3, <1>4

-----------------------------------------------------------------------------
(* The linked list.  IsList says that the jobs q, of which there are n, are what
   the pointers h, t and nx link, and that no other job has a link.        *)

IsList(h, t, nx, n, q) ==
    /\ n \in Nat /\ q \in [1 .. n -> Client]
    /\ \A i, j \in 1 .. n : q[i] = q[j] => i = j
    /\ h = IF n = 0 THEN NoJob ELSE q[1]
    /\ t = IF n = 0 THEN NoJob ELSE q[n]
    /\ nx \in [Client -> JobOrNull]
    /\ \A i \in 1 .. n : nx[q[i]] = IF i = n THEN NoJob ELSE q[i + 1]
    /\ \A c \in Client : (\A i \in 1 .. n : q[i] # c) => nx[c] = NoJob

LEMMA ClientCount == Cardinality(Client) \in Nat
  BY QueueAssumption, FS_CardinalityType

(* A list has no more jobs than there are clients. *)
LEMMA ListBound ==
    ASSUME NEW n \in Nat, NEW q \in [1 .. n -> Client],
           \A i, j \in 1 .. n : q[i] = q[j] => i = j
    PROVE  n <= Cardinality(Client)
<1>1. q \in Injection(1 .. n, Client)
  BY DEF Injection, IsInjective
<1>2. Cardinality(1 .. n) <= Cardinality(Client)
  BY <1>1, FS_Injection, QueueAssumption
<1>3. Cardinality(1 .. n) = n
  BY FS_Interval
<1> QED
  BY <1>2, <1>3

(* Following the links gives the jobs of the list, then the null pointer. *)
LEMMA LinkedIsList ==
    ASSUME NEW h, NEW t, NEW nx, NEW n, NEW q, IsList(h, t, nx, n, q)
    PROVE  LinkedFrom(h, nx)
             = [i \in 0 .. Cardinality(Client) |-> IF i < n THEN q[i + 1] ELSE NoJob]
<1> DEFINE D == 0 .. Cardinality(Client)
           W == [i \in D |-> IF i < n THEN q[i + 1] ELSE NoJob]
           F(at) == [i \in D |-> IF i = 0 THEN h
                                 ELSE IF at[i - 1] = NoJob THEN NoJob
                                 ELSE nx[at[i - 1]]]
<1>0. n \in Nat /\ q \in [1 .. n -> Client] /\ Cardinality(Client) \in Nat
  BY ClientCount DEF IsList
<1>1. \A i \in D : i # 0 => i - 1 \in D
  BY <1>0
<1>2. ASSUME NEW i \in D
      PROVE  W[i] = IF i = 0 THEN h ELSE IF W[i - 1] = NoJob THEN NoJob ELSE nx[W[i - 1]]
  <2>1. CASE i = 0
    BY <1>0, <2>1 DEF IsList
  <2>2. CASE i # 0 /\ i - 1 < n
    <3>1. i \in 1 .. n /\ i - 1 \in D
      BY <1>0, <2>2
    <3>2. W[i - 1] = q[i]
      BY <1>0, <2>2, <3>1
    <3>3. q[i] # NoJob
      BY <1>0, <3>1, QueueAssumption
    <3>4. nx[q[i]] = IF i = n THEN NoJob ELSE q[i + 1]
      BY <3>1 DEF IsList
    <3>5. W[i] = IF i = n THEN NoJob ELSE q[i + 1]
      BY <1>0, <3>1
    <3> QED
      BY <2>2, <3>2, <3>3, <3>4, <3>5
  <2>3. CASE i # 0 /\ ~(i - 1 < n)
    <3>1. W[i - 1] = NoJob
      BY <1>0, <1>1, <2>3
    <3>2. W[i] = NoJob
      BY <1>0, <2>3
    <3> QED
      BY <2>3, <3>1, <3>2
  <2> QED
    BY <2>1, <2>2, <2>3
<1>3. W = F(W)
  BY <1>2
<1>8. W = [i \in D |-> W[i]]
  OBVIOUS
<1> HIDE DEF W
<1>4. ASSUME NEW g, g = F(g) PROVE g = W
  <2> DEFINE T == {i \in Nat : i \in D => g[i] = W[i]}
  <2>1. 0 \in T
    <3>1. 0 \in D /\ g[0] = h
      BY <1>0, <1>4
    <3>2. W[0] = h
      BY <1>2, <3>1
    <3> QED
      BY <3>1, <3>2
  <2>2. ASSUME NEW i \in Nat, i \in T PROVE i + 1 \in T
    <3> SUFFICES ASSUME i + 1 \in D PROVE g[i + 1] = W[i + 1]
      OBVIOUS
    <3>1. i \in D /\ (i + 1) - 1 = i /\ i + 1 # 0
      BY <1>0
    <3>2. g[i] = W[i]
      BY <2>2, <3>1
    <3>3. g[i + 1] = IF g[i] = NoJob THEN NoJob ELSE nx[g[i]]
      BY <1>4, <3>1
    <3>4. W[i + 1] = IF W[i] = NoJob THEN NoJob ELSE nx[W[i]]
      BY <1>2, <3>1
    <3> QED
      BY <3>2, <3>3, <3>4
  <2>3. Nat \subseteq T
    <3> HIDE DEF T
    <3> QED
      BY <2>1, <2>2, SetInduction
  <2>4. \A i \in D : g[i] = W[i]
    BY <1>0, <2>3
  <2>5. g = [i \in D |-> g[i]]
    BY <1>4
  <2> QED
    BY <1>8, <2>4, <2>5
<1>5. LinkedFrom(h, nx) = CHOOSE at : at = F(at)
  BY DEF LinkedFrom
<1> HIDE DEF F
<1>6. (CHOOSE at : at = F(at)) = F(CHOOSE at : at = F(at))
  BY <1>3
<1>7. (CHOOSE at : at = F(at)) = W
  BY <1>4, <1>6
<1> QED
  BY <1>5, <1>7 DEF W

JobsOf(n, q) == {q[i] : i \in 1 .. n}

(* The queued jobs are the jobs of the list. *)
LEMMA LinkedJobs ==
    ASSUME NEW h, NEW t, NEW nx, NEW n, NEW q, IsList(h, t, nx, n, q)
    PROVE  /\ {LinkedFrom(h, nx)[i] : i \in Place} \ {NoJob} = JobsOf(n, q)
           /\ \A i \in Place : i < n => LinkedFrom(h, nx)[i] = q[i + 1]
           /\ \A i \in Place : ~(i < n) => LinkedFrom(h, nx)[i] = NoJob
           /\ \A i \in 1 .. n : i - 1 \in Place /\ LinkedFrom(h, nx)[i - 1] = q[i]
<1> DEFINE L == LinkedFrom(h, nx)
<1>1. n \in Nat /\ q \in [1 .. n -> Client] /\ Cardinality(Client) \in Nat
  BY ClientCount DEF IsList
<1>2. n <= Cardinality(Client)
  BY <1>1, ListBound DEF IsList
<1>3. L = [i \in 0 .. Cardinality(Client) |-> IF i < n THEN q[i + 1] ELSE NoJob]
  BY LinkedIsList
<1> HIDE DEF L
<1>4. \A i \in Place : i \in 0 .. Cardinality(Client)
  BY <1>1 DEF Place
<1>5. \A i \in Place : i < n => L[i] = q[i + 1]
  BY <1>3, <1>4
<1>6. \A i \in Place : ~(i < n) => L[i] = NoJob
  BY <1>3, <1>4
<1>7. ASSUME NEW i \in 1 .. n PROVE i - 1 \in Place /\ L[i - 1] = q[i]
  <2>1. i - 1 \in Place /\ i - 1 < n /\ (i - 1) + 1 = i
    BY <1>1, <1>2 DEF Place
  <2> QED
    BY <1>5, <2>1
<1>8. ASSUME NEW i \in 1 .. n PROVE q[i] \in {L[k] : k \in Place} \ {NoJob}
  <2>1. q[i] # NoJob
    BY <1>1, QueueAssumption
  <2> QED
    BY <1>7, <2>1
<1>9. ASSUME NEW i \in Place, L[i] # NoJob PROVE L[i] \in JobsOf(n, q)
  <2>1. i < n
    BY <1>6, <1>9
  <2>2. i + 1 \in 1 .. n
    BY <1>1, <2>1 DEF Place
  <2> QED
    BY <1>5, <2>1, <2>2 DEF JobsOf
<1>10. {L[k] : k \in Place} \ {NoJob} = JobsOf(n, q)
  BY <1>8, <1>9 DEF JobsOf
<1> QED
  BY <1>5, <1>6, <1>7, <1>10 DEF L

With(n, q, c) == [i \in 1 .. n + 1 |-> IF i = n + 1 THEN c ELSE q[i]]
Without(n, q, i) == [k \in 1 .. n - 1 |-> IF k < i THEN q[k] ELSE q[k + 1]]

(* A job that is linked behind the tail is the last one of the list. *)
LEMMA ListAppend ==
    ASSUME NEW h, NEW t, NEW nx, NEW n, NEW q, IsList(h, t, nx, n, q),
           NEW c \in Client, c \notin JobsOf(n, q)
    PROVE  /\ IsList(IF t = NoJob THEN c ELSE h, c,
                     IF t = NoJob THEN nx ELSE [nx EXCEPT ![t] = c],
                     n + 1, With(n, q, c))
           /\ JobsOf(n + 1, With(n, q, c)) = JobsOf(n, q) \cup {c}
<1> DEFINE r == With(n, q, c)
           hh == IF t = NoJob THEN c ELSE h
           nn == IF t = NoJob THEN nx ELSE [nx EXCEPT ![t] = c]
<1>1. n \in Nat /\ n + 1 \in Nat /\ n + 1 # 0 /\ q \in [1 .. n -> Client]
      /\ nx \in [Client -> JobOrNull]
  BY DEF IsList
<1>2. \A i \in 1 .. n : q[i] # NoJob /\ q[i] # c /\ q[i] \in Client
  BY <1>1, QueueAssumption DEF JobsOf
<1>3. c # NoJob /\ c \in JobOrNull
  BY QueueAssumption DEF JobOrNull
<1>4. r \in [1 .. n + 1 -> Client] /\ r[n + 1] = c /\ \A i \in 1 .. n : r[i] = q[i]
  BY <1>1 DEF With
<1>5. \A i \in 1 .. n + 1 : i = n + 1 \/ i \in 1 .. n
  BY <1>1
<1>6. t = NoJob <=> n = 0
  BY <1>1, <1>2 DEF IsList
<1>7. n # 0 => t = q[n] /\ n \in 1 .. n /\ h = q[1] /\ 1 \in 1 .. n
  BY <1>1 DEF IsList
<1>8. nn \in [Client -> JobOrNull]
  BY <1>1, <1>3
<1> HIDE DEF r
<1>9. \A i, j \in 1 .. n + 1 : r[i] = r[j] => i = j
  BY <1>2, <1>4, <1>5 DEF IsList
<1>10. hh = r[1]
  BY <1>1, <1>4, <1>6, <1>7
<1>11. ASSUME NEW i \in 1 .. n + 1
       PROVE  nn[r[i]] = IF i = n + 1 THEN NoJob ELSE r[i + 1]
  <2>1. CASE i = n + 1
    <3>1. nx[c] = NoJob
      BY <1>2 DEF IsList
    <3>2. nn[c] = nx[c]
      BY <1>1, <1>2, <1>6, <1>7
    <3> QED
      BY <1>4, <2>1, <3>1, <3>2
  <2>2. CASE i = n /\ n # 0
    <3>1. nn[t] = c
      BY <1>1, <1>2, <1>6, <1>7, <2>2
    <3> QED
      BY <1>1, <1>4, <1>7, <2>2, <3>1
  <2>3. CASE i \in 1 .. n /\ i # n
    <3>1. i + 1 \in 1 .. n /\ i # n + 1
      BY <1>1, <2>3
    <3>2. nx[q[i]] = q[i + 1]
      BY <2>3 DEF IsList
    <3>3. q[i] # t
      BY <1>1, <1>7, <2>3 DEF IsList
    <3>4. nn[q[i]] = nx[q[i]]
      BY <1>1, <1>2, <2>3, <3>3
    <3> QED
      BY <1>4, <2>3, <3>1, <3>2, <3>4
  <2> QED
    BY <1>1, <1>5, <2>1, <2>2, <2>3
<1>12. ASSUME NEW d \in Client, \A i \in 1 .. n + 1 : r[i] # d PROVE nn[d] = NoJob
  <2>1. d # c
    BY <1>1, <1>4, <1>12
  <2>2. \A i \in 1 .. n : q[i] # d
    BY <1>1, <1>4, <1>12
  <2>3. nx[d] = NoJob
    BY <2>2 DEF IsList
  <2>4. nn[d] = nx[d]
    BY <1>1, <1>6, <1>7, <2>2
  <2> QED
    BY <2>3, <2>4
<1>13. JobsOf(n + 1, r) = JobsOf(n, q) \cup {c}
  BY <1>1, <1>4, <1>5 DEF JobsOf
<1> HIDE DEF hh, nn
<1>14. IsList(hh, c, nn, n + 1, r)
  BY <1>1, <1>4, <1>8, <1>9, <1>10, <1>11, <1>12 DEF IsList
<1> QED
  BY <1>13, <1>14 DEF r, hh, nn

(* A job that is unlinked behind the one before it leaves the others in order. *)
LEMMA ListRemove ==
    ASSUME NEW h, NEW t, NEW nx, NEW n, NEW q, IsList(h, t, nx, n, q),
           NEW i \in 1 .. n, NEW prev, prev = IF i = 1 THEN NoJob ELSE q[i - 1]
    PROVE  /\ IsList(IF prev = NoJob THEN nx[q[i]] ELSE h,
                     IF t = q[i] THEN prev ELSE t,
                     [c \in Client |-> IF c = prev THEN nx[q[i]]
                                       ELSE IF c = q[i] THEN NoJob ELSE nx[c]],
                     n - 1, Without(n, q, i))
           /\ JobsOf(n - 1, Without(n, q, i)) = JobsOf(n, q) \ {q[i]}
<1> DEFINE r == Without(n, q, i)
           hh == IF prev = NoJob THEN nx[q[i]] ELSE h
           tt == IF t = q[i] THEN prev ELSE t
           nn == [c \in Client |-> IF c = prev THEN nx[q[i]]
                                   ELSE IF c = q[i] THEN NoJob ELSE nx[c]]
<1>1. n \in Nat /\ n # 0 /\ n - 1 \in Nat /\ q \in [1 .. n -> Client]
      /\ nx \in [Client -> JobOrNull] /\ i \in Nat /\ 1 <= i /\ i <= n
  BY DEF IsList
<1>2. \A k \in 1 .. n : q[k] # NoJob /\ q[k] \in Client /\ q[k] \in JobOrNull
  BY <1>1, QueueAssumption DEF JobOrNull
<1>3. \A k, l \in 1 .. n : q[k] = q[l] => k = l
  BY DEF IsList
<1>4. h = q[1] /\ t = q[n]
  BY <1>1 DEF IsList
<1>5. nx[q[i]] = IF i = n THEN NoJob ELSE q[i + 1]
  BY DEF IsList
<1>6. prev = NoJob <=> i = 1
  BY <1>1, <1>2
<1>7. i # 1 => prev = q[i - 1] /\ i - 1 \in 1 .. n
  BY <1>1
<1>8. \A k \in 1 .. n - 1 : IF k < i THEN r[k] = q[k] /\ k \in 1 .. n
                                     ELSE r[k] = q[k + 1] /\ k + 1 \in 1 .. n
  BY <1>1 DEF Without
<1>9. r \in [1 .. n - 1 -> Client]
  BY <1>1, <1>2 DEF Without
<1> HIDE DEF r
<1>10. \A k, l \in 1 .. n - 1 : r[k] = r[l] => k = l
  BY <1>1, <1>3, <1>8
<1>11. hh = IF n - 1 = 0 THEN NoJob ELSE r[1]
  <2>1. CASE n = 1
    BY <1>1, <1>5, <1>6, <2>1
  <2>2. CASE n # 1 /\ i = 1
    BY <1>1, <1>5, <1>6, <1>8, <2>2
  <2>3. CASE n # 1 /\ i # 1
    BY <1>1, <1>4, <1>6, <1>8, <2>3
  <2> QED
    BY <2>1, <2>2, <2>3
<1>12. tt = IF n - 1 = 0 THEN NoJob ELSE r[n - 1]
  <2>0. t = q[i] <=> i = n
    BY <1>1, <1>3, <1>4
  <2>1. CASE n = 1
    BY <1>1, <1>6, <2>0, <2>1
  <2>2. CASE n # 1 /\ i = n
    BY <1>1, <1>7, <1>8, <2>0, <2>2
  <2>3. CASE n # 1 /\ i # n
    BY <1>1, <1>4, <1>8, <2>0, <2>3
  <2> QED
    BY <2>1, <2>2, <2>3
<1>13. nn \in [Client -> JobOrNull]
  BY <1>1, <1>2 DEF JobOrNull
<1>14. ASSUME NEW k \in 1 .. n - 1
       PROVE  nn[r[k]] = IF k = n - 1 THEN NoJob ELSE r[k + 1]
  <2>1. CASE k < i - 1
    <3>1. k \in 1 .. n /\ k # i /\ k # i - 1 /\ k # n - 1 /\ k # n /\ k + 1 \in 1 .. n - 1
          /\ k + 1 < i /\ k < i
      BY <1>1, <2>1
    <3>2. r[k] = q[k] /\ r[k + 1] = q[k + 1]
      BY <1>8, <3>1
    <3>3. q[k] # prev /\ q[k] # q[i]
      BY <1>2, <1>3, <1>7, <3>1
    <3>4. nx[q[k]] = q[k + 1]
      BY <3>1 DEF IsList
    <3>5. nn[q[k]] = nx[q[k]]
      BY <1>2, <3>1, <3>3
    <3> QED
      BY <3>1, <3>2, <3>4, <3>5
  <2>2. CASE k = i - 1
    <3>1. i # 1 /\ k < i /\ (k = n - 1 <=> i = n)
      BY <1>1, <2>2
    <3>2. r[k] = prev /\ prev \in Client
      BY <1>2, <1>7, <1>8, <2>2, <3>1
    <3>3. nn[prev] = nx[q[i]]
      BY <3>2
    <3>4. CASE i = n
      BY <1>5, <3>1, <3>2, <3>3, <3>4
    <3>5. CASE i # n
      <4>1. k + 1 \in 1 .. n - 1 /\ ~(k + 1 < i) /\ (k + 1) + 1 = i + 1
        BY <1>1, <2>2, <3>5
      <4>2. r[k + 1] = q[i + 1]
        BY <1>8, <4>1
      <4> QED
        BY <1>5, <3>1, <3>2, <3>3, <3>5, <4>2
    <3> QED
      BY <3>4, <3>5
  <2>3. CASE k >= i
    <3>1. ~(k < i) /\ k + 1 \in 1 .. n /\ k + 1 # i /\ k + 1 # i - 1
          /\ (k = n - 1 <=> k + 1 = n)
      BY <1>1, <2>3
    <3>2. r[k] = q[k + 1]
      BY <1>8, <3>1
    <3>3. q[k + 1] # prev /\ q[k + 1] # q[i]
      BY <1>2, <1>3, <1>7, <3>1
    <3>4. nn[q[k + 1]] = nx[q[k + 1]]
      BY <1>2, <3>1, <3>3
    <3>5. nx[q[k + 1]] = IF k + 1 = n THEN NoJob ELSE q[(k + 1) + 1]
      BY <3>1 DEF IsList
    <3>6. k # n - 1 => k + 1 \in 1 .. n - 1 /\ ~(k + 1 < i)
      BY <1>1, <2>3
    <3>7. k # n - 1 => r[k + 1] = q[(k + 1) + 1]
      BY <1>8, <3>6
    <3> QED
      BY <3>1, <3>2, <3>4, <3>5, <3>7
  <2> QED
    BY <1>1, <2>1, <2>2, <2>3
<1>15. JobsOf(n - 1, r) = JobsOf(n, q) \ {q[i]}
  <2>1. ASSUME NEW k \in 1 .. n - 1 PROVE r[k] \in JobsOf(n, q) \ {q[i]}
    BY <1>1, <1>3, <1>8 DEF JobsOf
  <2>2. ASSUME NEW k \in 1 .. n, q[k] # q[i] PROVE q[k] \in JobsOf(n - 1, r)
    <3>1. CASE k < i
      <4>1. k \in 1 .. n - 1 /\ r[k] = q[k]
        BY <1>1, <1>8, <3>1
      <4> QED
        BY <4>1 DEF JobsOf
    <3>2. CASE k > i
      <4>1. k - 1 \in 1 .. n - 1 /\ ~(k - 1 < i) /\ (k - 1) + 1 = k
        BY <1>1, <3>2
      <4>2. r[k - 1] = q[k]
        BY <1>8, <4>1
      <4> QED
        BY <4>1, <4>2 DEF JobsOf
    <3> QED
      BY <1>1, <2>2, <3>1, <3>2
  <2> QED
    BY <2>1, <2>2 DEF JobsOf
<1>16. ASSUME NEW d \in Client, \A k \in 1 .. n - 1 : r[k] # d PROVE nn[d] = NoJob
  <2>1. d = q[i] \/ (\A k \in 1 .. n : q[k] # d)
    <3>1. d \notin JobsOf(n, q) \ {q[i]}
      BY <1>15, <1>16 DEF JobsOf
    <3> QED
      BY <3>1 DEF JobsOf
  <2>2. d # prev
    <3>1. CASE i = 1
      BY <1>6, <3>1, QueueAssumption
    <3>2. CASE i # 1
      <4>1. prev = q[i - 1] /\ i - 1 \in 1 .. n /\ i - 1 # i
        BY <1>1, <1>7, <3>2
      <4>2. q[i - 1] # q[i]
        BY <1>3, <4>1
      <4> QED
        BY <2>1, <4>1, <4>2
    <3> QED
      BY <3>1, <3>2
  <2>3. CASE d = q[i]
    BY <2>2, <2>3
  <2>4. CASE d # q[i]
    <3>1. nx[d] = NoJob
      BY <2>1, <2>4 DEF IsList
    <3> QED
      BY <2>2, <2>4, <3>1
  <2> QED
    BY <2>3, <2>4
<1> HIDE DEF hh, tt, nn
<1>17. IsList(hh, tt, nn, n - 1, r)
  BY <1>1, <1>9, <1>10, <1>11, <1>12, <1>13, <1>14, <1>16 DEF IsList
<1> QED
  BY <1>15, <1>17 DEF r, hh, tt, nn

-----------------------------------------------------------------------------
(* The inductive invariant. *)

(* The queue is a list: head, tail and the links agree. *)
ListInv ==
    \E n \in 0 .. Cardinality(Client) : \E q \in [1 .. n -> Client] :
        IsList(head, tail, next, n, q)

(* A job that is in service is in one place, and no other job is in any. *)
PlaceInv ==
    /\ \A s, t \in Slot : assigned[s] # NoJob /\ assigned[s] = assigned[t] => s = t
    /\ \A s, t \in Slot : job[s] # NoJob /\ job[s] = job[t] => s = t
    /\ \A s, t \in Slot : assigned[s] # NoJob => assigned[s] # job[t]
    /\ \A s \in Slot : assigned[s] \notin Queued /\ job[s] \notin Queued
    /\ \A c \in Client : InService(c) <=> \/ c \in Queued
                                          \/ \E s \in Slot : assigned[s] = c
                                          \/ \E s \in Slot : job[s] = c

(* Where a worker is says whether it has a job, whether its slot is busy and
   whether it was started; a worker that has gone left an empty queue. *)
Running == {"match", "prefill", "finish", "respond", "end"}
WorkerInv ==
    \A s \in Slot :
        /\ job[s] # NoJob <=> wpc[s] \in Running
        /\ assigned[s] # NoJob => busy[s] /\ wpc[s] \in {"top", "dispatch"}
        /\ batched /\ wpc[s] \in Running \cup {"release"} => busy[s]
        /\ busy[s] => \/ assigned[s] # NoJob
                      \/ wpc[s] \in Running \cup {"release"}
        /\ busy[s] \/ wpc[s] \in {"release", "dispatch"} => batched
        /\ wpc[s] = "absent" <=> started <= s
        /\ wpc[s] = "absent" => bind[s] = NoCall
        /\ wpc[s] = "exited" => stopping /\ head = NoJob

(* How far the main thread is says which workers and clients there are. *)
Present == {c \in Client : cpc[c] # "gone"}
MainInv ==
    /\ started <= WorkerCount
    /\ main = "starting" => started < WorkerCount
    /\ main \in {"serving", "spawn"} => started = WorkerCount
    /\ started < WorkerCount => Present = {}
    /\ stopping <=> main \in {"dispatch", "joinSlots", "drain", "closed"}
    /\ stopping => started > 0
    /\ main = "dispatch" => batched
    /\ clients = Cardinality(Present) + (IF main = "spawn" THEN 1 ELSE 0)
    /\ main \in {"drain", "closed"} => \A s \in Slot : wpc[s] \in {"absent", "exited"}
    /\ main = "closed" => clients = 0

(* A client that has no job in service, and what a request may want. *)
ClientInv ==
    \A c \in Client :
        /\ cpc[c] \in {"gone", "parse", "enqueue", "close"} => ~jdone[c]
        /\ cpc[c] = "dispatch" => batched
        /\ live[c] => wants[c] # NoCall
        /\ bound[c] => batched

(* A tool-call id is bound to one session. *)
BindInv ==
    \A s, t \in Slot : bind[s] # NoCall /\ bind[s] = bind[t] => s = t

Inv == /\ TypeOK /\ ListInv /\ PlaceInv /\ WorkerInv /\ MainInv /\ ClientInv
       /\ BindInv /\ Routed /\ NoIdleSlot

-----------------------------------------------------------------------------
(* What the steps that move a job do to the list. *)

LEMMA Constants ==
    SlotCount \in Nat /\ SlotCount > 0 /\ NoJob \notin Client /\ NoCall \notin Call
  BY QueueAssumption

LEMMA SlotFacts == IsFiniteSet(Slot) /\ 0 \in Slot /\ Slot \subseteq Nat
  BY QueueAssumption, FS_Interval DEF Slot

LEMMA QueueIsList ==
    ASSUME NEW n, NEW q, IsList(head, tail, next, n, q)
    PROVE  /\ Queued = JobsOf(n, q) /\ Queued \subseteq Client
           /\ \A i \in Place : i < n => QueuedAt[i] = q[i + 1]
           /\ \A i \in Place : ~(i < n) => QueuedAt[i] = NoJob
           /\ \A i \in 1 .. n : i - 1 \in Place /\ QueuedAt[i - 1] = q[i]
           /\ head = NoJob => Queued = {}
           /\ n <= Cardinality(Client)
<1>1. n \in Nat /\ q \in [1 .. n -> Client]
  BY DEF IsList
<1>2. Queued = JobsOf(n, q)
  BY LinkedJobs DEF Queued, QueuedAt
<1>3. /\ \A i \in Place : i < n => QueuedAt[i] = q[i + 1]
      /\ \A i \in Place : ~(i < n) => QueuedAt[i] = NoJob
      /\ \A i \in 1 .. n : i - 1 \in Place /\ QueuedAt[i - 1] = q[i]
  BY LinkedJobs DEF QueuedAt
<1>4. JobsOf(n, q) \subseteq Client
  BY <1>1 DEF JobsOf
<1>5. n # 0 => head # NoJob
  BY <1>1, QueueAssumption DEF IsList
<1>6. n = 0 => JobsOf(n, q) = {}
  BY DEF JobsOf
<1>7. n <= Cardinality(Client)
  BY ListBound DEF IsList
<1> QED
  BY <1>2, <1>3, <1>4, <1>5, <1>6, <1>7

LEMMA NextQueueIsList ==
    ASSUME NEW n, NEW q, IsList(head', tail', next', n, q)
    PROVE  /\ ListInv'
           /\ Queued' = JobsOf(n, q)
           /\ head' \in JobOrNull /\ tail' \in JobOrNull
           /\ next' \in [Client -> JobOrNull]
           /\ \A i \in 1 .. n : i - 1 \in Place /\ QueuedAt'[i - 1] = q[i]
<1>1. n \in Nat /\ q \in [1 .. n -> Client]
  BY DEF IsList
<1>2. Queued' = JobsOf(n, q)
  BY LinkedJobs DEF Queued, QueuedAt, Place
<1>3. n \in 0 .. Cardinality(Client)
  BY <1>1, ListBound, ClientCount DEF IsList
<1>4. ListInv'
  BY <1>1, <1>3 DEF ListInv
<1>5. head' \in JobOrNull /\ tail' \in JobOrNull /\ next' \in [Client -> JobOrNull]
  <2>1. CASE n = 0
    BY <2>1 DEF IsList, JobOrNull
  <2>2. CASE n # 0
    <3>1. 1 \in 1 .. n /\ n \in 1 .. n
      BY <1>1, <2>2
    <3> QED
      BY <1>1, <2>2, <3>1 DEF IsList, JobOrNull
  <2> QED
    BY <2>1, <2>2
<1>6. \A i \in 1 .. n : i - 1 \in Place /\ QueuedAt'[i - 1] = q[i]
  BY LinkedJobs DEF QueuedAt
<1> QED
  BY <1>2, <1>4, <1>5, <1>6

(* A step of the dispatcher takes one job out of the list and gives it to a slot. *)
LEMMA DispatchTakes ==
    ASSUME ListInv, DispatchOne
    PROVE  \E n, q, i, s :
             /\ n \in Nat /\ q \in [1 .. n -> Client] /\ i \in 1 .. n
             /\ s \in EligibleSlots(q[i])
             /\ IsList(head, tail, next, n, q)
             /\ IsList(head', tail', next', n - 1, Without(n, q, i))
             /\ Queued = JobsOf(n, q)
             /\ Queued' = Queued \ {q[i]}
             /\ bound' = Set(bound, q[i], RequiredSlots(q[i]) # {})
             /\ assigned' = Set(assigned, s, q[i])
             /\ busy' = Set(busy, s, TRUE)
<1>1. PICK n \in 0 .. Cardinality(Client) : \E q \in [1 .. n -> Client] :
        IsList(head, tail, next, n, q)
  BY DEF ListInv
<1>2. PICK q \in [1 .. n -> Client] : IsList(head, tail, next, n, q)
  BY <1>1
<1>3. PICK k \in Place :
        /\ FirstRunnable(k)
        /\ Unlink(QueuedAt[k], IF k = 0 THEN NoJob ELSE QueuedAt[k - 1])
        /\ bound' = Set(bound, QueuedAt[k], RequiredSlots(QueuedAt[k]) # {})
        /\ \E s \in EligibleSlots(QueuedAt[k]) :
             /\ assigned' = Set(assigned, s, QueuedAt[k])
             /\ busy' = Set(busy, s, TRUE)
  BY DEF DispatchOne
<1>4. n \in Nat /\ k \in Nat
  BY ClientCount DEF Place
<1>5. k < n
  BY <1>2, <1>3, QueueIsList DEF FirstRunnable
<1> DEFINE i == k + 1
           prev == IF k = 0 THEN NoJob ELSE QueuedAt[k - 1]
<1>6. i \in 1 .. n /\ (k # 0 => i - 1 \in 1 .. n)
  BY <1>4, <1>5
<1>7. QueuedAt[k] = q[i]
  BY <1>2, <1>5, QueueIsList
<1>8. prev = IF i = 1 THEN NoJob ELSE q[i - 1]
  <2>1. k # 0 => k - 1 \in Place /\ QueuedAt[k - 1] = q[k]
    BY <1>2, <1>4, <1>5, QueueIsList
  <2> QED
    BY <1>4, <2>1
<1> HIDE DEF prev
<1>9. Unlink(q[i], prev)
  BY <1>3, <1>7 DEF prev
<1>10. /\ IsList(head', tail', next', n - 1, Without(n, q, i))
       /\ JobsOf(n - 1, Without(n, q, i)) = JobsOf(n, q) \ {q[i]}
  BY <1>2, <1>6, <1>8, <1>9, ListRemove DEF Unlink
<1>11. Queued = JobsOf(n, q) /\ Queued' = JobsOf(n - 1, Without(n, q, i))
  BY <1>2, <1>10, QueueIsList, NextQueueIsList
<1>12. PICK s \in EligibleSlots(q[i]) :
         assigned' = Set(assigned, s, q[i]) /\ busy' = Set(busy, s, TRUE)
  BY <1>3, <1>7
<1>13. bound' = Set(bound, q[i], RequiredSlots(q[i]) # {})
  BY <1>3, <1>7
<1>14. Queued' = Queued \ {q[i]}
  BY <1>10, <1>11
<1> HIDE DEF i
<1>15. /\ n \in Nat /\ q \in [1 .. n -> Client] /\ i \in 1 .. n
       /\ s \in EligibleSlots(q[i])
       /\ IsList(head, tail, next, n, q)
       /\ IsList(head', tail', next', n - 1, Without(n, q, i))
       /\ Queued = JobsOf(n, q)
       /\ Queued' = Queued \ {q[i]}
       /\ bound' = Set(bound, q[i], RequiredSlots(q[i]) # {})
       /\ assigned' = Set(assigned, s, q[i])
       /\ busy' = Set(busy, s, TRUE)
  BY <1>2, <1>4, <1>6, <1>10, <1>11, <1>12, <1>13, <1>14
<1> QED
  BY <1>15, Zenon

(* The one worker takes the head of the list. *)
LEMMA DequeueTakes ==
    ASSUME ListInv, NEW s \in Slot, Dequeue(s)
    PROVE  \E n, q :
             /\ n \in Nat \ {0} /\ q \in [1 .. n -> Client]
             /\ IsList(head, tail, next, n, q)
             /\ IsList(head', tail', next', n - 1, Without(n, q, 1))
             /\ head = q[1] /\ head \in Queued
             /\ Queued = JobsOf(n, q)
             /\ Queued' = Queued \ {head}
<1>1. PICK n \in 0 .. Cardinality(Client) : \E q \in [1 .. n -> Client] :
        IsList(head, tail, next, n, q)
  BY DEF ListInv
<1>2. PICK q \in [1 .. n -> Client] : IsList(head, tail, next, n, q)
  BY <1>1
<1>3. n \in Nat /\ n # 0 /\ 1 \in 1 .. n /\ n \in 1 .. n /\ n \in 1 .. Cardinality(Client)
  BY <1>2, ClientCount DEF Dequeue, HasWork, IsList
<1>4. head = q[1] /\ tail = q[n] /\ head \in Client /\ head # NoJob
  BY <1>2, <1>3, QueueAssumption DEF IsList
<1>5. next[head] = IF n = 1 THEN NoJob ELSE q[2]
  BY <1>2, <1>3, <1>4 DEF IsList
<1>6. n # 1 => q[2] # NoJob /\ q[n] # q[1]
  <2>1. n # 1 => 2 \in 1 .. n
    BY <1>3
  <2> QED
    BY <1>2, <1>3, <2>1, QueueAssumption DEF IsList
<1>7. head' = next[head]
      /\ tail' = (IF next[head] = NoJob THEN NoJob ELSE tail)
      /\ next' = [next EXCEPT ![head] = NoJob]
  BY DEF Dequeue, Set
<1>8. next \in [Client -> JobOrNull]
  BY <1>2 DEF IsList
<1> DEFINE nn == [c \in Client |-> IF c = NoJob THEN next[q[1]]
                                   ELSE IF c = q[1] THEN NoJob ELSE next[c]]
<1>9. next' = nn
  BY <1>4, <1>7, <1>8, QueueAssumption
<1>10. tail' = IF tail = q[1] THEN NoJob ELSE tail
  BY <1>3, <1>4, <1>5, <1>6, <1>7
<1>11. head' = IF NoJob = NoJob THEN next[q[1]] ELSE head
  BY <1>4, <1>7
<1>12. /\ IsList(IF NoJob = NoJob THEN next[q[1]] ELSE head,
                 IF tail = q[1] THEN NoJob ELSE tail, nn, n - 1, Without(n, q, 1))
       /\ JobsOf(n - 1, Without(n, q, 1)) = JobsOf(n, q) \ {q[1]}
  BY <1>2, <1>3, ListRemove
<1>13. IsList(head', tail', next', n - 1, Without(n, q, 1))
  BY <1>9, <1>10, <1>11, <1>12
<1>14. Queued = JobsOf(n, q) /\ Queued' = JobsOf(n - 1, Without(n, q, 1))
  BY <1>2, <1>13, QueueIsList, NextQueueIsList
<1>15. head \in JobsOf(n, q)
  BY <1>3, <1>4 DEF JobsOf
<1> QED
  BY <1>2, <1>3, <1>4, <1>12, <1>13, <1>14, <1>15

(* A client links its job behind the last one. *)
LEMMA EnqueueLinks ==
    ASSUME ListInv, NEW c \in Client, c \notin Queued, AppendJob(c)
    PROVE  \E n, q :
             /\ n \in Nat /\ q \in [1 .. n -> Client]
             /\ IsList(head, tail, next, n, q)
             /\ IsList(head', tail', next', n + 1, With(n, q, c))
             /\ Queued = JobsOf(n, q)
             /\ Queued' = Queued \cup {c}
<1>1. PICK n \in 0 .. Cardinality(Client) : \E q \in [1 .. n -> Client] :
        IsList(head, tail, next, n, q)
  BY DEF ListInv
<1>2. PICK q \in [1 .. n -> Client] : IsList(head, tail, next, n, q)
  BY <1>1
<1>3. Queued = JobsOf(n, q)
  BY <1>2, QueueIsList
<1>4. /\ IsList(head', tail', next', n + 1, With(n, q, c))
      /\ JobsOf(n + 1, With(n, q, c)) = JobsOf(n, q) \cup {c}
  BY <1>2, <1>3, ListAppend DEF AppendJob, Set
<1>5. Queued' = JobsOf(n + 1, With(n, q, c))
  BY <1>4, NextQueueIsList
<1> QED
  BY <1>2, <1>3, <1>4, <1>5

-----------------------------------------------------------------------------
(* Types. *)

LEMMA PresentCount == IsFiniteSet(Present) /\ Cardinality(Present) \in Nat
<1>1. Present \subseteq Client
  BY DEF Present
<1> QED
  BY <1>1, QueueAssumption, FS_Subset, FS_CardinalityType

LEMMA InitTypes == Init => TypeOK
<1> SUFFICES ASSUME Init PROVE TypeOK
  OBVIOUS
<1>1. batched \in Modes /\ g_stop_requested \in BOOLEAN /\ stopping \in BOOLEAN
  BY DEF Init
<1>5. main \in MainPC /\ started \in 0 .. SlotCount /\ clients \in Nat
  BY Constants DEF Init, MainPC
<1>2. /\ head \in JobOrNull /\ tail \in JobOrNull /\ next \in [Client -> JobOrNull]
      /\ assigned \in [Slot -> JobOrNull] /\ job \in [Slot -> JobOrNull]
      /\ bind \in [Slot -> CallOrNull] /\ wants \in [Client -> CallOrNull]
  BY DEF Init, JobOrNull, CallOrNull
<1>3. /\ busy \in [Slot -> BOOLEAN] /\ continues \in [Slot -> BOOLEAN]
      /\ fits \in [Slot -> BOOLEAN] /\ live \in [Client -> BOOLEAN]
      /\ jdone \in [Client -> BOOLEAN] /\ bound \in [Client -> BOOLEAN]
      /\ cv \subseteq Slot /\ seen \subseteq Call
  BY DEF Init
<1>4. cpc \in [Client -> ClientPC] /\ wpc \in [Slot -> WorkerPC]
  BY DEF Init, ClientPC, WorkerPC
<1> QED
  BY <1>1, <1>2, <1>3, <1>4, <1>5 DEF TypeOK

LEMMA MainTypes ==
    ASSUME Inv, MainStep \/ StopSignal \/ SpuriousWakeup
    PROVE  TypeOK'
<1> USE DEF TypeOK, Set
<1>0. TypeOK /\ MainInv /\ SlotCount \in Nat \ {0}
  BY QueueAssumption DEF Inv
<1>1. CASE StartWorker
  <2>1. started < WorkerCount /\ WorkerCount \in 1 .. SlotCount
    BY <1>0, <1>1 DEF StartWorker, MainInv, WorkerCount
  <2>2. started + 1 \in 0 .. SlotCount
    BY <1>0, <2>1
  <2> QED
    BY <1>0, <1>1, <2>2 DEF StartWorker, MainPC, WorkerPC, listVars, clientVars, liveVars
<1>2. CASE Accept
  BY <1>0, <1>2 DEF Accept, MainPC, listVars, clientVars, workVars, liveVars
<1>3. CASE Spawn
  <2>1. clients - 1 \in Nat
    BY <1>0, <1>3, PresentCount DEF Spawn, MainInv
  <2> QED
    BY <1>0, <1>3, <2>1 DEF Spawn, GiveBackCount, MainPC, ClientPC, listVars, workVars, liveVars
<1>4. CASE WorkerStop
  BY <1>0, <1>4 DEF WorkerStop, Broadcast, MainPC, listVars, clientVars, workVars, liveVars
<1>5. CASE MainDispatched
  BY <1>0, <1>5 DEF MainDispatched, Broadcast, MainPC, listVars, clientVars, workVars, liveVars
<1>6. CASE JoinSlots
  BY <1>0, <1>6 DEF JoinSlots, MainPC, listVars, clientVars, workVars, liveVars
<1>7. CASE CloseServer
  BY <1>0, <1>7 DEF CloseServer, MainPC, listVars, clientVars, workVars, liveVars
<1>8. CASE StopSignal
  BY <1>0, <1>8 DEF StopSignal, listVars, clientVars, workVars, liveVars
<1>9. CASE SpuriousWakeup
  BY <1>0, <1>9 DEF SpuriousWakeup, ClientPC, mainVars, listVars, workVars, liveVars
<1> QED
  BY <1>1, <1>2, <1>3, <1>4, <1>5, <1>6, <1>7, <1>8, <1>9 DEF MainStep

LEMMA DispatchTypes ==
    ASSUME Inv, DispatchOne
    PROVE  TypeOK'
<1>0. TypeOK /\ ListInv
  BY DEF Inv
<1>1. PICK n, q, i, s :
        /\ n \in Nat /\ q \in [1 .. n -> Client] /\ i \in 1 .. n
        /\ s \in EligibleSlots(q[i])
        /\ IsList(head, tail, next, n, q)
        /\ IsList(head', tail', next', n - 1, Without(n, q, i))
        /\ Queued = JobsOf(n, q)
        /\ Queued' = Queued \ {q[i]}
        /\ bound' = Set(bound, q[i], RequiredSlots(q[i]) # {})
        /\ assigned' = Set(assigned, s, q[i])
        /\ busy' = Set(busy, s, TRUE)
  BY <1>0, DispatchTakes
<1> USE DEF TypeOK, Set
<1>2. q[i] \in Client /\ q[i] \in JobOrNull
  BY <1>1 DEF JobOrNull
<1>3. head' \in JobOrNull /\ tail' \in JobOrNull /\ next' \in [Client -> JobOrNull]
  BY <1>1, NextQueueIsList
<1>4. bound' \in [Client -> BOOLEAN] /\ assigned' \in [Slot -> JobOrNull]
      /\ busy' \in [Slot -> BOOLEAN]
  BY <1>0, <1>1, <1>2
<1> QED
  BY <1>0, <1>3, <1>4 DEF DispatchOne, Broadcast, clientVars, workVars, liveVars, mainVars

LEMMA ClientTypes ==
    ASSUME Inv, NEW c \in Client, ClientStep(c)
    PROVE  TypeOK'
<1> USE DEF TypeOK, Set
<1>0. TypeOK /\ ListInv
  BY DEF Inv
<1>f. Forget(c) => /\ wants' \in [Client -> CallOrNull] /\ live' \in [Client -> BOOLEAN]
                   /\ jdone' \in [Client -> BOOLEAN] /\ bound' \in [Client -> BOOLEAN]
                   /\ cpc' \in [Client -> ClientPC]
  BY <1>0 DEF Forget, ClientPC, CallOrNull
<1>1. CASE ParseRequest(c)
  BY <1>0, <1>1 DEF ParseRequest, ClientPC, CallOrNull, mainVars, listVars, workVars, liveVars
<1>2. CASE Enqueue(c)
  <2>1. CASE Forget(c) /\ UNCHANGED <<listVars, cv>>
    BY <1>0, <1>2, <1>f, <2>1 DEF Enqueue, mainVars, workVars, listVars, liveVars
  <2>2. CASE AppendJob(c)
    <3>1. head' \in JobOrNull /\ tail' \in JobOrNull /\ next' \in [Client -> JobOrNull]
      BY <1>0, <2>2 DEF AppendJob, JobOrNull
    <3>2. cv' \subseteq Slot
      BY <1>0, <1>2 DEF Enqueue, Signal
    <3>3. cpc' \in [Client -> ClientPC]
      BY <1>0, <1>2, <1>f DEF Enqueue, ClientPC
    <3>4. /\ wants' \in [Client -> CallOrNull] /\ live' \in [Client -> BOOLEAN]
          /\ jdone' \in [Client -> BOOLEAN] /\ bound' \in [Client -> BOOLEAN]
      BY <1>0, <1>2, <1>f DEF Enqueue
    <3> QED
      BY <1>0, <1>2, <3>1, <3>2, <3>3, <3>4 DEF Enqueue, mainVars, workVars, liveVars
  <2> QED
    BY <1>2, <2>1, <2>2 DEF Enqueue
<1>3. CASE Enqueued(c)
  BY <1>0, <1>3 DEF Enqueued, Broadcast, ClientPC, mainVars, listVars, workVars, liveVars
<1>4. CASE AwaitJob(c)
  BY <1>0, <1>4, <1>f DEF AwaitJob, ClientPC, mainVars, listVars, workVars, liveVars
<1>5. CASE ClientDone(c)
  BY <1>0, <1>5 DEF ClientDone, ClientPC, mainVars, listVars, workVars, liveVars
<1> QED
  BY <1>1, <1>2, <1>3, <1>4, <1>5 DEF ClientStep

LEMMA WorkerTypes ==
    ASSUME Inv, NEW s \in Slot, WorkerStep(s)
    PROVE  TypeOK'
<1> USE DEF TypeOK, Set
<1>0. TypeOK /\ ListInv /\ WorkerInv
  BY DEF Inv
<1>1. CASE WaitForWork(s)
  BY <1>0, <1>1 DEF WaitForWork, mainVars, listVars, clientVars, workVars, liveVars
<1>2. CASE ExitWorker(s)
  BY <1>0, <1>2 DEF ExitWorker, WorkerPC, mainVars, listVars, clientVars, liveVars
<1>3. CASE TakeAssigned(s)
  BY <1>0, <1>3 DEF TakeAssigned, WorkerPC, JobOrNull, mainVars, listVars, clientVars, liveVars
<1>4. CASE Dequeue(s)
  <2>1. head \in Client
    BY <1>0, <1>4 DEF Dequeue, HasWork, JobOrNull
  <2>2. head' \in JobOrNull /\ tail' \in JobOrNull /\ next' \in [Client -> JobOrNull]
    BY <1>0, <1>4, <2>1 DEF Dequeue, JobOrNull
  <2> QED
    BY <1>0, <1>4, <2>2 DEF Dequeue, WorkerPC, mainVars, clientVars, liveVars
<1>5. CASE MatchSession(s)
  <2>1. continues' \in [Slot -> BOOLEAN] /\ wpc' \in [Slot -> WorkerPC]
    BY <1>0, <1>5 DEF MatchSession, WorkerPC
  <2> QED
    BY <1>0, <1>5, <2>1 DEF MatchSession, mainVars, listVars, clientVars, liveVars
<1>6. CASE PrefillJob(s)
  <2>1. bind' \in [Slot -> CallOrNull] /\ fits' \in [Slot -> BOOLEAN]
        /\ wpc' \in [Slot -> WorkerPC]
    BY <1>0, <1>6 DEF PrefillJob, WorkerPC, CallOrNull
  <2> QED
    BY <1>0, <1>6, <2>1 DEF PrefillJob, mainVars, listVars, clientVars
<1>7. CASE FinishJob(s)
  <2>1. bind' \in [Slot -> CallOrNull] /\ fits' \in [Slot -> BOOLEAN] /\ seen' \subseteq Call
        /\ wpc' \in [Slot -> WorkerPC]
    BY <1>0, <1>7 DEF FinishJob, RememberLive, WorkerPC, CallOrNull
  <2> QED
    BY <1>0, <1>7, <2>1 DEF FinishJob, mainVars, listVars, clientVars
<1>8. CASE Respond(s)
  <2>1. seen' \subseteq Call
    BY <1>0, <1>8 DEF Respond, CallOrNull
  <2> QED
    BY <1>0, <1>8, <2>1 DEF Respond, WorkerPC, mainVars, listVars, clientVars
<1>9. CASE MarkDone(s)
  <2>1. job[s] \in Client
    BY <1>0, <1>9 DEF MarkDone, WorkerInv, Running, JobOrNull
  <2>2. cpc' \in [Client -> ClientPC]
    BY <1>0, <1>9 DEF MarkDone, Notify, ClientPC
  <2>3. wpc' \in [Slot -> WorkerPC] /\ job' \in [Slot -> JobOrNull]
    BY <1>0, <1>9 DEF MarkDone, WorkerPC, JobOrNull
  <2> QED
    BY <1>0, <1>9, <2>1, <2>2, <2>3 DEF MarkDone, mainVars, listVars, liveVars
<1>10. CASE Release(s)
  BY <1>0, <1>10 DEF Release, AfterRelease, WorkerPC, mainVars, listVars, clientVars, liveVars
<1>11. CASE Released(s)
  BY <1>0, <1>11 DEF Released, WorkerPC, mainVars, listVars, clientVars, liveVars
<1> QED
  BY <1>1, <1>2, <1>3, <1>4, <1>5, <1>6, <1>7, <1>8, <1>9, <1>10, <1>11 DEF WorkerStep

-----------------------------------------------------------------------------
(* Workers. *)

LEMMA HolderIsBatched == Inv /\ ~MuFree => batched
  BY DEF Inv, MuFree, MainInv, ClientInv, WorkerInv

(* A queued job has a client, so every worker was started. *)
LEMMA QueuedIsServed ==
    ASSUME Inv, NEW c \in Queued
    PROVE  c \in Client /\ InService(c) /\ started = WorkerCount /\ head # NoJob
<1>1. PICK n \in 0 .. Cardinality(Client) : \E q \in [1 .. n -> Client] :
        IsList(head, tail, next, n, q)
  BY DEF Inv, ListInv
<1>2. PICK q \in [1 .. n -> Client] : IsList(head, tail, next, n, q)
  BY <1>1
<1>3. c \in Client /\ head # NoJob
  BY <1>2, QueueIsList
<1>4. InService(c)
  BY <1>3 DEF Inv, PlaceInv
<1>5. c \in Present
  BY <1>3, <1>4 DEF Present, InService
<1>6. WorkerCount \in Nat /\ started \in Nat
  BY Constants DEF WorkerCount, Inv, TypeOK
<1> QED
  BY <1>3, <1>4, <1>5, <1>6 DEF Inv, MainInv

LEMMA WorkersOfMain ==
    ASSUME Inv, MainStep \/ StopSignal \/ SpuriousWakeup
    PROVE  WorkerInv'
<1>0. TypeOK /\ WorkerInv /\ MainInv /\ SlotCount \in Nat
  BY Constants DEF Inv
<1>1. CASE StartWorker
  <2>1. started < WorkerCount /\ WorkerCount \in 1 .. SlotCount /\ started \in Nat
    BY <1>0, <1>1, Constants DEF StartWorker, MainInv, WorkerCount, TypeOK
  <2>2. started \in Slot /\ Slot \subseteq Nat
    BY <1>0, <2>1 DEF Slot
  <2>3. wpc[started] = "absent"
    BY <1>0, <2>1, <2>2 DEF WorkerInv
  <2> QED
    BY <1>0, <1>1, <2>1, <2>2, <2>3
    DEF StartWorker, WorkerInv, TypeOK, Running, Set, listVars, liveVars
<1>2. CASE WorkerStop
  BY <1>0, <1>2 DEF WorkerStop, WorkerInv, listVars, workVars, liveVars
<1>3. CASE UNCHANGED <<job, wpc, assigned, busy, batched, started, bind, stopping, head>>
  BY <1>0, <1>3 DEF WorkerInv
<1> QED
  BY <1>1, <1>2, <1>3 DEF MainStep, Accept, Spawn, MainDispatched, JoinSlots, CloseServer,
     StopSignal, SpuriousWakeup, listVars, workVars, liveVars, mainVars

LEMMA WorkersOfDispatch ==
    ASSUME Inv, DispatchOne
    PROVE  WorkerInv'
<1>0. TypeOK /\ ListInv /\ WorkerInv /\ batched
  BY HolderIsBatched DEF Inv, DispatchOne
<1>1. PICK n, q, i, s :
        /\ n \in Nat /\ q \in [1 .. n -> Client] /\ i \in 1 .. n
        /\ s \in EligibleSlots(q[i])
        /\ IsList(head, tail, next, n, q)
        /\ IsList(head', tail', next', n - 1, Without(n, q, i))
        /\ Queued = JobsOf(n, q)
        /\ Queued' = Queued \ {q[i]}
        /\ bound' = Set(bound, q[i], RequiredSlots(q[i]) # {})
        /\ assigned' = Set(assigned, s, q[i])
        /\ busy' = Set(busy, s, TRUE)
  BY <1>0, DispatchTakes
<1> DEFINE c == q[i]
<1>2. c \in Queued
  BY <1>1 DEF JobsOf
<1>3. c \in Client /\ c # NoJob /\ started = SlotCount /\ head # NoJob
  BY <1>0, <1>2, QueuedIsServed, Constants DEF WorkerCount
<1>4. s \in Slot /\ ~busy[s] /\ assigned[s] = NoJob
  BY <1>1 DEF EligibleSlots
<1>5. assigned' = [assigned EXCEPT ![s] = c] /\ busy' = [busy EXCEPT ![s] = TRUE]
  BY <1>1 DEF Set
<1>6. s < started
  BY <1>3, <1>4, Constants DEF Slot
<1>7. \A t \in Slot : wpc[t] # "exited"
  BY <1>0, <1>3 DEF WorkerInv
<1>8. wpc[s] \in {"top", "dispatch"}
  BY <1>0, <1>4, <1>6, <1>7, SlotFacts DEF WorkerInv, TypeOK, WorkerPC, Running
<1>9. UNCHANGED <<job, wpc, batched, started, bind, stopping>>
  BY DEF DispatchOne, workVars, mainVars, liveVars
<1> HIDE DEF c
<1> QED
  BY <1>0, <1>3, <1>4, <1>5, <1>7, <1>8, <1>9 DEF WorkerInv, TypeOK

LEMMA WorkersOfClient ==
    ASSUME Inv, NEW c \in Client, ClientStep(c)
    PROVE  WorkerInv'
<1>0. TypeOK /\ WorkerInv
  BY DEF Inv
<1>1. CASE UNCHANGED <<job, wpc, assigned, busy, batched, started, bind, stopping, head>>
  BY <1>0, <1>1 DEF WorkerInv
<1>2. CASE UNCHANGED <<job, wpc, assigned, busy, batched, started, bind, stopping>> /\ ~stopping
  BY <1>0, <1>2 DEF WorkerInv
<1> QED
  BY <1>1, <1>2 DEF ClientStep, ParseRequest, Enqueue, Enqueued, AwaitJob, ClientDone,
     AcceptsJob, listVars, workVars, liveVars, mainVars

LEMMA WorkersOfWorker ==
    ASSUME Inv, NEW s \in Slot, WorkerStep(s)
    PROVE  WorkerInv'
<1>0. TypeOK /\ WorkerInv
  BY DEF Inv
<1> SUFFICES ASSUME NEW t \in Slot PROVE WorkerInv!(t)'
  BY DEF WorkerInv
<1> USE DEF WorkerInv, TypeOK, Set, Running
<1>1. CASE WaitForWork(s)
  BY <1>0, <1>1 DEF WaitForWork, mainVars, listVars, workVars, liveVars
<1>2. CASE ExitWorker(s)
  BY <1>0, <1>2 DEF ExitWorker, AtTop, HasWork, MayExit, mainVars, listVars, liveVars
<1>3. CASE TakeAssigned(s)
  BY <1>0, <1>3 DEF TakeAssigned, AtTop, HasWork, mainVars, listVars, liveVars
<1>4. CASE Dequeue(s)
  BY <1>0, <1>4 DEF Dequeue, AtTop, HasWork, mainVars, liveVars
<1>5. CASE MatchSession(s)
  <2>1. wpc' = [wpc EXCEPT ![s] = "end"] \/ wpc' = [wpc EXCEPT ![s] = "prefill"]
    BY <1>5 DEF MatchSession
  <2> QED
    BY <1>0, <1>5, <2>1 DEF MatchSession, mainVars, listVars, liveVars
<1>6. CASE PrefillJob(s)
  <2>1. wpc' = [wpc EXCEPT ![s] = "end"] \/ wpc' = [wpc EXCEPT ![s] = "finish"]
    BY <1>6 DEF PrefillJob
  <2>2. t # s => bind'[t] = bind[t]
    BY <1>0, <1>6 DEF PrefillJob
  <2> QED
    BY <1>0, <1>6, <2>1, <2>2 DEF PrefillJob, mainVars, listVars
<1>7. CASE FinishJob(s)
  <2>1. t # s => bind'[t] = bind[t]
    BY <1>0, <1>7 DEF FinishJob, RememberLive
  <2> QED
    BY <1>0, <1>7, <2>1 DEF FinishJob, mainVars, listVars
<1>8. CASE Respond(s)
  BY <1>0, <1>8 DEF Respond, mainVars, listVars
<1>9. CASE MarkDone(s)
  BY <1>0, <1>9 DEF MarkDone, mainVars, listVars, liveVars
<1>10. CASE Release(s)
  BY <1>0, <1>10 DEF Release, AfterRelease, mainVars, listVars, liveVars
<1>11. CASE Released(s)
  BY <1>0, <1>11 DEF Released, mainVars, listVars, liveVars
<1> QED
  BY <1>1, <1>2, <1>3, <1>4, <1>5, <1>6, <1>7, <1>8, <1>9, <1>10, <1>11 DEF WorkerStep

-----------------------------------------------------------------------------
(* The main thread and its count of clients. *)

LEMMA MainOfMain ==
    ASSUME Inv, MainStep \/ StopSignal \/ SpuriousWakeup
    PROVE  MainInv'
<1>0. TypeOK /\ WorkerInv /\ MainInv /\ WorkerCount \in Nat \ {0} /\ started \in Nat
  BY Constants DEF Inv, WorkerCount, TypeOK
<1>p. UNCHANGED cpc => Present' = Present
  BY DEF Present
<1>1. CASE StartWorker
  <2>1. UNCHANGED <<batched, cpc, stopping, clients>> /\ main = "starting"
        /\ main' \in {"serving", "starting"} /\ started' = started + 1
        /\ (main' = "serving" <=> started + 1 = WorkerCount)
    BY <1>1 DEF StartWorker, AllStarted, clientVars
  <2>2. WorkerCount' = WorkerCount /\ Present' = Present
    BY <1>p, <2>1 DEF WorkerCount
  <2> QED
    BY <1>0, <2>1, <2>2 DEF MainInv
<1>2. CASE Accept
  <2>1. UNCHANGED <<batched, started, stopping, cpc, wpc>> /\ clients' = clients + 1
        /\ main = "serving" /\ main' = "spawn"
    BY <1>2 DEF Accept, clientVars, workVars
  <2>2. WorkerCount' = WorkerCount /\ Present' = Present
    BY <1>p, <2>1 DEF WorkerCount
  <2> QED
    BY <1>0, <2>1, <2>2, PresentCount DEF MainInv
<1>3. CASE Spawn
  <2>1. UNCHANGED <<batched, started, stopping, wpc>> /\ main = "spawn" /\ main' = "serving"
    BY <1>3 DEF Spawn, workVars
  <2>2. WorkerCount' = WorkerCount
    BY <2>1 DEF WorkerCount
  <2>3. clients' = Cardinality(Present') /\ Cardinality(Present') \in Nat
    <3>1. ASSUME NEW c \in Client, cpc[c] = "gone", cpc' = Set(cpc, c, "parse"),
                 UNCHANGED clients
          PROVE  clients' = Cardinality(Present') /\ Cardinality(Present') \in Nat
      <4>1. Present' = Present \cup {c} /\ c \notin Present
        BY <1>0, <3>1 DEF Present, Set, TypeOK
      <4>2. Cardinality(Present') = Cardinality(Present) + 1
        BY <4>1, PresentCount, FS_AddElement
      <4> QED
        BY <1>0, <2>1, <3>1, <4>2, PresentCount DEF MainInv
    <3>2. CASE clients' = clients - 1 /\ UNCHANGED cpc
      BY <1>0, <1>p, <2>1, <3>2, PresentCount DEF MainInv
    <3> QED
      BY <1>3, <3>1, <3>2 DEF Spawn, GiveBackCount
  <2> QED
    BY <1>0, <2>1, <2>2, <2>3, PresentCount DEF MainInv
<1>4. CASE WorkerStop
  <2>1. UNCHANGED <<batched, started, clients, cpc>> /\ stopping' = TRUE
        /\ main \in {"serving", "starting"} /\ started > 0
        /\ main' = IF batched THEN "dispatch" ELSE "joinSlots"
    BY <1>0, <1>4 DEF WorkerStop, MainInv, clientVars
  <2>2. WorkerCount' = WorkerCount /\ Present' = Present
    BY <1>p, <2>1 DEF WorkerCount
  <2> QED
    BY <1>0, <2>1, <2>2 DEF MainInv
<1>5. CASE MainDispatched
  <2>1. UNCHANGED <<batched, started, clients, stopping, cpc>>
        /\ main = "dispatch" /\ main' = "joinSlots"
    BY <1>5 DEF MainDispatched, clientVars
  <2>2. WorkerCount' = WorkerCount /\ Present' = Present
    BY <1>p, <2>1 DEF WorkerCount
  <2> QED
    BY <1>0, <2>1, <2>2 DEF MainInv
<1>6. CASE JoinSlots
  <2>1. UNCHANGED <<batched, started, clients, stopping, cpc, wpc>>
        /\ main = "joinSlots" /\ main' = "drain"
    BY <1>6 DEF JoinSlots, clientVars, workVars
  <2>2. WorkerCount' = WorkerCount /\ Present' = Present
    BY <1>p, <2>1 DEF WorkerCount
  <2>3. \A s \in Slot : wpc[s] \in {"absent", "exited"}
    BY <1>0, <1>6, SlotFacts DEF JoinSlots, WorkerInv
  <2> QED
    BY <1>0, <2>1, <2>2, <2>3 DEF MainInv
<1>7. CASE CloseServer
  <2>1. UNCHANGED <<batched, started, clients, stopping, cpc, wpc>>
        /\ main = "drain" /\ main' = "closed" /\ clients = 0
    BY <1>7 DEF CloseServer, Drained, clientVars, workVars
  <2>2. WorkerCount' = WorkerCount /\ Present' = Present
    BY <1>p, <2>1 DEF WorkerCount
  <2> QED
    BY <1>0, <2>1, <2>2 DEF MainInv
<1>8. CASE StopSignal
  <2>1. UNCHANGED <<batched, started, clients, stopping, cpc, wpc, main>>
    BY <1>8 DEF StopSignal, clientVars, workVars
  <2>2. WorkerCount' = WorkerCount /\ Present' = Present
    BY <1>p, <2>1 DEF WorkerCount
  <2> QED
    BY <1>0, <2>1, <2>2 DEF MainInv
<1>9. CASE SpuriousWakeup
  <2>1. UNCHANGED <<batched, started, clients, stopping, wpc, main>>
    BY <1>9 DEF SpuriousWakeup, mainVars, workVars
  <2>2. WorkerCount' = WorkerCount
    BY <2>1 DEF WorkerCount
  <2>3. Present' = Present
    BY <1>0, <1>9 DEF SpuriousWakeup, Present, Set, TypeOK
  <2> QED
    BY <1>0, <2>1, <2>2, <2>3 DEF MainInv
<1> QED
  BY <1>1, <1>2, <1>3, <1>4, <1>5, <1>6, <1>7, <1>8, <1>9 DEF MainStep

LEMMA MainOfClient ==
    ASSUME Inv, NEW c \in Client, ClientStep(c)
    PROVE  MainInv'
<1>0. TypeOK /\ MainInv
  BY DEF Inv
<1>1. UNCHANGED <<batched, started, stopping, wpc, main>>
  BY DEF ClientStep, ParseRequest, Enqueue, Enqueued, AwaitJob, ClientDone, mainVars, workVars
<1>2. WorkerCount' = WorkerCount
  BY <1>1 DEF WorkerCount
<1>3. c \in Present
  BY DEF ClientStep, ParseRequest, Enqueue, Enqueued, AwaitJob, ClientDone, Present
<1>4. CASE ClientDone(c)
  <2>1. Present' = Present \ {c}
    BY <1>0, <1>4 DEF ClientDone, Present, Set, TypeOK
  <2>2. Cardinality(Present') = Cardinality(Present) - 1
    BY <1>3, <2>1, PresentCount, FS_RemoveElement
  <2>3. Cardinality(Present) # 0
    BY <1>3, PresentCount, FS_EmptySet
  <2>4. clients > 0 /\ clients' = clients - 1
    BY <1>0, <1>4, <2>3, PresentCount DEF ClientDone, MainInv
  <2> QED
    BY <1>0, <1>1, <1>2, <1>3, <2>2, <2>4, PresentCount DEF MainInv, TypeOK
<1>5. CASE ~ClientDone(c)
  <2>1. clients' = clients
    BY <1>5 DEF ClientStep, ParseRequest, Enqueue, Enqueued, AwaitJob
  <2>2. cpc' = cpc \/ \E p : p # "gone" /\ cpc' = [cpc EXCEPT ![c] = p]
    BY <1>5 DEF ClientStep, ParseRequest, Enqueue, Enqueued, AwaitJob, Forget, Set
  <2>3. Present' = Present
    BY <1>0, <1>3, <2>2 DEF Present, TypeOK
  <2> QED
    BY <1>0, <1>1, <1>2, <2>1, <2>3 DEF MainInv
<1> QED
  BY <1>4, <1>5

LEMMA MainOfWorker ==
    ASSUME Inv, DispatchOne \/ \E s \in Slot : WorkerStep(s)
    PROVE  MainInv'
<1>0. TypeOK /\ MainInv /\ WorkerInv
  BY DEF Inv
<1>1. CASE DispatchOne
  <2>1. UNCHANGED <<batched, started, stopping, wpc, main, cpc, clients>>
    BY <1>1 DEF DispatchOne, mainVars, workVars, clientVars
  <2> QED
    BY <1>0, <2>1 DEF MainInv, WorkerCount, Present
<1>2. ASSUME NEW s \in Slot, WorkerStep(s) PROVE MainInv'
  <2>1. UNCHANGED <<batched, started, stopping, main, clients>>
    BY <1>2 DEF WorkerStep, WaitForWork, ExitWorker, TakeAssigned, Dequeue, MatchSession,
       PrefillJob, FinishJob, Respond, MarkDone, Release, Released, mainVars
  <2>2. wpc[s] \notin {"absent", "exited"}
    BY <1>2 DEF WorkerStep, WaitForWork, ExitWorker, TakeAssigned, Dequeue, MatchSession,
       PrefillJob, FinishJob, Respond, MarkDone, Release, Released, AtTop
  <2>3. main \notin {"drain", "closed"}
    BY <1>0, <2>2 DEF MainInv
  <2>4. Present' = Present
    <3>1. CASE UNCHANGED cpc
      BY <3>1 DEF Present
    <3>2. CASE MarkDone(s)
      BY <1>0, <3>2 DEF MarkDone, Notify, Present, Set, TypeOK
    <3> QED
      BY <1>2, <3>1, <3>2 DEF WorkerStep, WaitForWork, ExitWorker, TakeAssigned, Dequeue,
         MatchSession, PrefillJob, FinishJob, Respond, Release, Released, clientVars
  <2>5. WorkerCount' = WorkerCount
    BY <2>1 DEF WorkerCount
  <2> QED
    BY <1>0, <2>1, <2>3, <2>4, <2>5 DEF MainInv
<1> QED
  BY <1>1, <1>2

-----------------------------------------------------------------------------
(* Clients and bindings. *)

LEMMA ClientsKept ==
    ASSUME Inv, Next
    PROVE  ClientInv'
<1>0. TypeOK /\ ClientInv /\ WorkerInv /\ PlaceInv
  BY DEF Inv
<1>1. CASE MainStep \/ StopSignal
  <2>1. UNCHANGED <<jdone, wants, live, batched, bound>>
    BY <1>1 DEF MainStep, StopSignal, StartWorker, Accept, Spawn, WorkerStop, MainDispatched,
       JoinSlots, CloseServer, clientVars
  <2>2. UNCHANGED cpc \/ \E c \in Client : cpc[c] = "gone" /\ cpc' = [cpc EXCEPT ![c] = "parse"]
    BY <1>1 DEF MainStep, StopSignal, StartWorker, Accept, Spawn, WorkerStop, MainDispatched,
       JoinSlots, CloseServer, clientVars, Set
  <2> QED
    BY <1>0, <2>1, <2>2 DEF ClientInv, TypeOK
<1>2. CASE DispatchOne
  <2>1. batched /\ UNCHANGED <<cpc, jdone, wants, live, batched>>
    BY <1>2, HolderIsBatched DEF DispatchOne, clientVars, mainVars
  <2> QED
    BY <1>0, <2>1 DEF ClientInv
<1>3. CASE SpuriousWakeup
  <2>1. UNCHANGED <<jdone, wants, live, batched, bound>>
    BY <1>3 DEF SpuriousWakeup, mainVars
  <2>2. UNCHANGED cpc \/ \E c \in Client : cpc' = [cpc EXCEPT ![c] = "woken"]
    BY <1>3 DEF SpuriousWakeup, Set
  <2> QED
    BY <1>0, <2>1, <2>2 DEF ClientInv, TypeOK
<1>4. ASSUME NEW c \in Client, ClientStep(c) PROVE ClientInv'
  <2> SUFFICES ASSUME NEW d \in Client PROVE ClientInv!(d)'
    BY DEF ClientInv
  <2> USE DEF ClientInv, TypeOK, Set
  <2>0. batched' = batched
    BY <1>4 DEF ClientStep, ParseRequest, Enqueue, Enqueued, AwaitJob, ClientDone, mainVars
  <2>1. CASE ParseRequest(c)
    BY <1>0, <2>0, <2>1, Constants DEF ParseRequest
  <2>2. CASE Enqueue(c)
    BY <1>0, <2>0, <2>2 DEF Enqueue, Forget
  <2>3. CASE Enqueued(c)
    BY <1>0, <2>0, <2>3 DEF Enqueued
  <2>4. CASE AwaitJob(c)
    BY <1>0, <2>0, <2>4 DEF AwaitJob, Forget
  <2>5. CASE ClientDone(c)
    BY <1>0, <2>0, <2>5 DEF ClientDone
  <2> QED
    BY <1>4, <2>1, <2>2, <2>3, <2>4, <2>5 DEF ClientStep
<1>5. ASSUME NEW s \in Slot, WorkerStep(s) PROVE ClientInv'
  <2>1. CASE UNCHANGED <<cpc, jdone, wants, live, batched, bound>>
    BY <1>0, <2>1 DEF ClientInv
  <2>2. CASE MarkDone(s)
    <3>1. job[s] \in Client
      BY <1>0, <2>2 DEF MarkDone, WorkerInv, Running, TypeOK, JobOrNull
    <3>2. InService(job[s])
      BY <1>0, <3>1 DEF PlaceInv
    <3>3. jdone' = [jdone EXCEPT ![job[s]] = TRUE] /\ UNCHANGED <<wants, live, batched, bound>>
      BY <2>2 DEF MarkDone, Set, mainVars
    <3>4. cpc' = cpc \/ (cpc' = [cpc EXCEPT ![job[s]] = "woken"])
      BY <2>2 DEF MarkDone, Notify, Set
    <3> QED
      BY <1>0, <3>1, <3>2, <3>3, <3>4 DEF ClientInv, TypeOK, InService
  <2> QED
    BY <1>5, <2>1, <2>2 DEF WorkerStep, WaitForWork, ExitWorker, TakeAssigned, Dequeue,
       MatchSession, PrefillJob, FinishJob, Respond, Release, Released, clientVars, mainVars
<1>6. CASE Terminated
  BY <1>0, <1>6 DEF Terminated, vars, ClientInv, clientVars, mainVars
<1> QED
  BY <1>1, <1>2, <1>3, <1>4, <1>5, <1>6 DEF Next

LEMMA BindsKept ==
    ASSUME Inv, Next
    PROVE  BindInv'
<1>0. TypeOK /\ BindInv
  BY DEF Inv
<1>1. CASE UNCHANGED bind
  BY <1>0, <1>1 DEF BindInv
<1>2. ASSUME NEW s \in Slot, PrefillJob(s) PROVE BindInv'
  BY <1>0, <1>2 DEF PrefillJob, BindInv, TypeOK, Set
<1>3. ASSUME NEW s \in Slot, FinishJob(s) PROVE BindInv'
  BY <1>0, <1>3 DEF FinishJob, RememberLive, Fresh, BindInv, TypeOK, Set
<1>4. CASE MainStep
  BY <1>1, <1>4 DEF MainStep, StartWorker, Accept, Spawn, WorkerStop, MainDispatched,
     JoinSlots, CloseServer, liveVars
<1>5. CASE StopSignal \/ DispatchOne \/ SpuriousWakeup \/ Terminated
  BY <1>1, <1>5 DEF StopSignal, DispatchOne, SpuriousWakeup, Terminated, liveVars, vars
<1>6. ASSUME NEW c \in Client, ClientStep(c) PROVE BindInv'
  BY <1>1, <1>6 DEF ClientStep, ParseRequest, Enqueue, Enqueued, AwaitJob, ClientDone, liveVars
<1>7. ASSUME NEW s \in Slot, WorkerStep(s) PROVE BindInv'
  BY <1>1, <1>2, <1>3, <1>7 DEF WorkerStep, WaitForWork, ExitWorker, TakeAssigned, Dequeue,
     MatchSession, Respond, MarkDone, Release, Released, liveVars
<1> QED
  BY <1>4, <1>5, <1>6, <1>7 DEF Next

-----------------------------------------------------------------------------
(* Jobs. *)

(* A step that moves no job and ends no service leaves every job in its place. *)
LEMMA JobsUnmoved ==
    ASSUME Inv, UNCHANGED <<head, tail, next, assigned, job>>,
           \A c \in Client : InService(c)' <=> InService(c)
    PROVE  ListInv' /\ PlaceInv' /\ Queued' = Queued
<1>1. ListInv /\ PlaceInv
  BY DEF Inv
<1>2. ListInv'
  BY <1>1 DEF ListInv
<1>3. Queued' = Queued
  BY DEF Queued, QueuedAt
<1>4. PlaceInv'
  BY <1>1, <1>3 DEF PlaceInv
<1> QED
  BY <1>2, <1>3, <1>4

LEMMA JobsOfDispatch ==
    ASSUME Inv, DispatchOne
    PROVE  ListInv' /\ PlaceInv'
<1>0. TypeOK /\ ListInv /\ PlaceInv
  BY DEF Inv
<1>1. PICK n, q, i, s :
        /\ n \in Nat /\ q \in [1 .. n -> Client] /\ i \in 1 .. n
        /\ s \in EligibleSlots(q[i])
        /\ IsList(head, tail, next, n, q)
        /\ IsList(head', tail', next', n - 1, Without(n, q, i))
        /\ Queued = JobsOf(n, q)
        /\ Queued' = Queued \ {q[i]}
        /\ bound' = Set(bound, q[i], RequiredSlots(q[i]) # {})
        /\ assigned' = Set(assigned, s, q[i])
        /\ busy' = Set(busy, s, TRUE)
  BY <1>0, DispatchTakes
<1> DEFINE c == q[i]
<1>2. c \in Queued /\ c \in Client /\ c # NoJob
  BY <1>1, Constants DEF JobsOf
<1>3. s \in Slot /\ assigned[s] = NoJob
  BY <1>1 DEF EligibleSlots
<1>4. assigned' = [assigned EXCEPT ![s] = c] /\ Queued' = Queued \ {c}
  BY <1>1 DEF Set
<1>5. ListInv'
  BY <1>1, NextQueueIsList
<1>6. UNCHANGED <<job, cpc, jdone>>
  BY DEF DispatchOne, workVars, clientVars
<1>7. \A d \in Client : InService(d)' <=> InService(d)
  BY <1>6 DEF InService
<1> HIDE DEF c
<1>8. \A t \in Slot : assigned'[t] = IF t = s THEN c ELSE assigned[t]
  BY <1>0, <1>3, <1>4 DEF TypeOK
<1>9. /\ \A t, u \in Slot : assigned'[t] # NoJob /\ assigned'[t] = assigned'[u] => t = u
      /\ \A t, u \in Slot : job[t] # NoJob /\ job[t] = job[u] => t = u
      /\ \A t, u \in Slot : assigned'[t] # NoJob => assigned'[t] # job[u]
      /\ \A t \in Slot : assigned'[t] \notin Queued' /\ job[t] \notin Queued'
  BY <1>0, <1>2, <1>3, <1>4, <1>8 DEF PlaceInv
<1>10. ASSUME NEW d \in Client
       PROVE  InService(d) <=> \/ d \in Queued'
                               \/ \E t \in Slot : assigned'[t] = d
                               \/ \E t \in Slot : job[t] = d
  <2>1. InService(d) <=> \/ d \in Queued
                         \/ \E t \in Slot : assigned[t] = d
                         \/ \E t \in Slot : job[t] = d
    BY <1>0 DEF PlaceInv
  <2>2. d # NoJob
    BY Constants
  <2>3. CASE d = c
    BY <1>2, <1>3, <1>8, <2>1, <2>3
  <2>4. CASE d # c
    <3>1. d \in Queued' <=> d \in Queued
      BY <1>4, <2>4
    <3>2. (\E t \in Slot : assigned'[t] = d) <=> (\E t \in Slot : assigned[t] = d)
      BY <1>3, <1>8, <2>2, <2>4
    <3> QED
      BY <2>1, <3>1, <3>2
  <2> QED
    BY <2>3, <2>4
<1>11. PlaceInv'
  BY <1>6, <1>7, <1>9, <1>10 DEF PlaceInv
<1> QED
  BY <1>5, <1>11

LEMMA JobsOfEnqueue ==
    ASSUME Inv, NEW c \in Client, Enqueue(c), AcceptsJob
    PROVE  /\ ListInv' /\ PlaceInv'
           /\ AppendJob(c) /\ ~InService(c) /\ c \notin Queued
<1>0. TypeOK /\ ListInv /\ PlaceInv /\ ClientInv
  BY DEF Inv
<1>1. AppendJob(c) /\ cpc[c] = "enqueue" /\ UNCHANGED <<jdone, job, assigned>>
      /\ (cpc' = [cpc EXCEPT ![c] = "dispatch"] \/ cpc' = [cpc EXCEPT ![c] = "hold"])
  BY DEF Enqueue, AcceptsJob, Set, workVars
<1>2. ~InService(c) /\ ~jdone[c]
  BY <1>0, <1>1 DEF InService, ClientInv
<1>3. c \notin Queued
  BY <1>0, <1>2 DEF PlaceInv
<1>4. PICK n, q :
        /\ n \in Nat /\ q \in [1 .. n -> Client]
        /\ IsList(head, tail, next, n, q)
        /\ IsList(head', tail', next', n + 1, With(n, q, c))
        /\ Queued = JobsOf(n, q)
        /\ Queued' = Queued \cup {c}
  BY <1>0, <1>1, <1>3, EnqueueLinks
<1>5. ListInv'
  BY <1>4, NextQueueIsList
<1>6. InService(c)' /\ \A d \in Client : d # c => (InService(d)' <=> InService(d))
  BY <1>0, <1>1, <1>2 DEF InService, TypeOK
<1>7. \A t \in Slot : assigned[t] # c /\ job[t] # c
  BY <1>0, <1>2 DEF PlaceInv
<1>8. PlaceInv'
  BY <1>0, <1>1, <1>4, <1>6, <1>7 DEF PlaceInv
<1> QED
  BY <1>1, <1>2, <1>3, <1>5, <1>8

LEMMA JobsOfTake ==
    ASSUME Inv, NEW s \in Slot, TakeAssigned(s)
    PROVE  ListInv' /\ PlaceInv' /\ Queued' = Queued
<1>0. TypeOK /\ ListInv /\ PlaceInv /\ WorkerInv
  BY DEF Inv
<1>1. job' = [job EXCEPT ![s] = assigned[s]] /\ assigned' = [assigned EXCEPT ![s] = NoJob]
      /\ assigned[s] # NoJob /\ wpc[s] = "top"
      /\ UNCHANGED <<head, tail, next, cpc, jdone>>
  BY DEF TakeAssigned, AtTop, HasWork, Set, listVars, clientVars
<1>2. job[s] = NoJob
  BY <1>0, <1>1 DEF WorkerInv, Running
<1>3. ListInv' /\ Queued' = Queued
  BY <1>0, <1>1 DEF ListInv, Queued, QueuedAt
<1>4. \A d \in Client : InService(d)' <=> InService(d)
  BY <1>1 DEF InService
<1>5. \A t \in Slot : /\ assigned'[t] = IF t = s THEN NoJob ELSE assigned[t]
                      /\ job'[t] = IF t = s THEN assigned[s] ELSE job[t]
  BY <1>0, <1>1 DEF TypeOK
<1>6. NoJob \notin Queued
  BY <1>0, <1>2 DEF PlaceInv
<1>7. /\ \A t, u \in Slot : assigned'[t] # NoJob /\ assigned'[t] = assigned'[u] => t = u
      /\ \A t, u \in Slot : job'[t] # NoJob /\ job'[t] = job'[u] => t = u
      /\ \A t, u \in Slot : assigned'[t] # NoJob => assigned'[t] # job'[u]
      /\ \A t \in Slot : assigned'[t] \notin Queued' /\ job'[t] \notin Queued'
  BY <1>0, <1>1, <1>2, <1>3, <1>5, <1>6 DEF PlaceInv
<1>8. ASSUME NEW d \in Client
      PROVE  (\/ \E t \in Slot : assigned[t] = d
              \/ \E t \in Slot : job[t] = d)
         <=> (\/ \E t \in Slot : assigned'[t] = d
              \/ \E t \in Slot : job'[t] = d)
  BY <1>1, <1>2, <1>5, Constants
<1>9. PlaceInv'
  BY <1>0, <1>3, <1>4, <1>7, <1>8 DEF PlaceInv
<1> QED
  BY <1>3, <1>9

LEMMA JobsOfDequeue ==
    ASSUME Inv, NEW s \in Slot, Dequeue(s)
    PROVE  ListInv' /\ PlaceInv'
<1>0. TypeOK /\ ListInv /\ PlaceInv /\ WorkerInv
  BY DEF Inv
<1>1. PICK n, q :
        /\ n \in Nat \ {0} /\ q \in [1 .. n -> Client]
        /\ IsList(head, tail, next, n, q)
        /\ IsList(head', tail', next', n - 1, Without(n, q, 1))
        /\ head = q[1] /\ head \in Queued
        /\ Queued = JobsOf(n, q)
        /\ Queued' = Queued \ {head}
  BY <1>0, DequeueTakes
<1>2. job' = [job EXCEPT ![s] = head] /\ wpc[s] = "top" /\ UNCHANGED <<assigned, cpc, jdone>>
  BY DEF Dequeue, AtTop, Set, clientVars
<1>3. job[s] = NoJob /\ head \in Client /\ head # NoJob
  BY <1>0, <1>1, <1>2, Constants DEF WorkerInv, Running
<1>4. ListInv'
  BY <1>1, NextQueueIsList
<1>5. \A d \in Client : InService(d)' <=> InService(d)
  BY <1>2 DEF InService
<1>6. \A t \in Slot : job'[t] = IF t = s THEN head ELSE job[t]
  BY <1>0, <1>2 DEF TypeOK
<1>7. /\ \A t, u \in Slot : job'[t] # NoJob /\ job'[t] = job'[u] => t = u
      /\ \A t, u \in Slot : assigned[t] # NoJob => assigned[t] # job'[u]
      /\ \A t \in Slot : assigned[t] \notin Queued' /\ job'[t] \notin Queued'
  BY <1>0, <1>1, <1>3, <1>6 DEF PlaceInv
<1>8. ASSUME NEW d \in Client
      PROVE  InService(d) <=> \/ d \in Queued'
                              \/ \E t \in Slot : assigned[t] = d
                              \/ \E t \in Slot : job'[t] = d
  <2>1. InService(d) <=> \/ d \in Queued
                         \/ \E t \in Slot : assigned[t] = d
                         \/ \E t \in Slot : job[t] = d
    BY <1>0 DEF PlaceInv
  <2>2. d \in Queued' <=> d \in Queued /\ d # head
    BY <1>1
  <2>3. (\E t \in Slot : job'[t] = d) <=> (d = head \/ \E t \in Slot : job[t] = d)
    BY <1>3, <1>6, Constants
  <2> QED
    BY <1>1, <2>1, <2>2, <2>3
<1>9. PlaceInv'
  BY <1>0, <1>2, <1>5, <1>7, <1>8 DEF PlaceInv
<1> QED
  BY <1>4, <1>9

LEMMA JobsOfDone ==
    ASSUME Inv, NEW s \in Slot, MarkDone(s)
    PROVE  ListInv' /\ PlaceInv' /\ Queued' = Queued
<1>0. TypeOK /\ ListInv /\ PlaceInv /\ WorkerInv
  BY DEF Inv
<1>1. PICK c \in Client : c = job[s] /\ c # NoJob
  BY <1>0 DEF MarkDone, WorkerInv, Running, TypeOK, JobOrNull
<1>2. job' = [job EXCEPT ![s] = NoJob] /\ jdone' = [jdone EXCEPT ![c] = TRUE]
      /\ UNCHANGED <<head, tail, next, assigned>>
      /\ cpc' = IF cpc[c] = "wait" THEN [cpc EXCEPT ![c] = "woken"] ELSE cpc
  BY <1>1 DEF MarkDone, Notify, Set, listVars
<1>3. ListInv' /\ Queued' = Queued
  BY <1>0, <1>2 DEF ListInv, Queued, QueuedAt
<1>4. ~InService(c)' /\ \A d \in Client : d # c => (InService(d)' <=> InService(d))
  BY <1>0, <1>1, <1>2 DEF InService, TypeOK
<1>5. \A t \in Slot : job'[t] = IF t = s THEN NoJob ELSE job[t]
  BY <1>0, <1>2 DEF TypeOK
<1>6. NoJob \notin Queued
  BY <1>0, Constants, QueueIsList DEF ListInv
<1>7. /\ \A t, u \in Slot : job'[t] # NoJob /\ job'[t] = job'[u] => t = u
      /\ \A t, u \in Slot : assigned[t] # NoJob => assigned[t] # job'[u]
      /\ \A t \in Slot : assigned[t] \notin Queued' /\ job'[t] \notin Queued'
  BY <1>0, <1>3, <1>5, <1>6 DEF PlaceInv
<1>8. ASSUME NEW d \in Client
      PROVE  InService(d)' <=> \/ d \in Queued
                               \/ \E t \in Slot : assigned[t] = d
                               \/ \E t \in Slot : job'[t] = d
  <2>1. CASE d = c
    <3>1. c \notin Queued /\ \A t \in Slot : assigned[t] # c
      BY <1>0, <1>1 DEF PlaceInv
    <3>2. \A t \in Slot : t # s => job[t] # c
      BY <1>0, <1>1 DEF PlaceInv
    <3> QED
      BY <1>1, <1>4, <1>5, <2>1, <3>1, <3>2
  <2>2. CASE d # c
    <3>1. InService(d) <=> \/ d \in Queued
                           \/ \E t \in Slot : assigned[t] = d
                           \/ \E t \in Slot : job[t] = d
      BY <1>0 DEF PlaceInv
    <3>2. (\E t \in Slot : job'[t] = d) <=> (\E t \in Slot : job[t] = d)
      BY <1>1, <1>5, <2>2, Constants
    <3> QED
      BY <1>4, <2>2, <3>1, <3>2
  <2> QED
    BY <2>1, <2>2
<1>9. PlaceInv'
  BY <1>0, <1>2, <1>3, <1>7, <1>8 DEF PlaceInv
<1> QED
  BY <1>3, <1>9

LEMMA JobsKept ==
    ASSUME Inv, Next
    PROVE  ListInv' /\ PlaceInv'
<1>0. TypeOK /\ PlaceInv /\ ClientInv
  BY DEF Inv
<1>1. CASE MainStep \/ StopSignal \/ SpuriousWakeup
  <2>1. UNCHANGED <<head, tail, next, assigned, job, jdone>>
    BY <1>1 DEF MainStep, StopSignal, StartWorker, Accept, Spawn, WorkerStop, MainDispatched,
       JoinSlots, CloseServer, SpuriousWakeup, clientVars, listVars, workVars
  <2>2. \/ UNCHANGED cpc
        \/ \E c \in Client : cpc[c] = "gone" /\ cpc' = [cpc EXCEPT ![c] = "parse"]
        \/ \E c \in Client : cpc[c] = "wait" /\ cpc' = [cpc EXCEPT ![c] = "woken"]
    BY <1>1 DEF MainStep, StopSignal, StartWorker, Accept, Spawn, WorkerStop, MainDispatched,
       JoinSlots, CloseServer, SpuriousWakeup, clientVars, Set
  <2>3. \A c \in Client : InService(c)' <=> InService(c)
    BY <1>0, <2>1, <2>2 DEF InService, TypeOK
  <2> QED
    BY <2>1, <2>3, JobsUnmoved
<1>2. CASE DispatchOne
  BY <1>2, JobsOfDispatch
<1>3. ASSUME NEW c \in Client, ClientStep(c) PROVE ListInv' /\ PlaceInv'
  <2>1. CASE Enqueue(c) /\ AcceptsJob
    BY <2>1, JobsOfEnqueue
  <2>2. CASE ParseRequest(c) \/ (Enqueue(c) /\ ~AcceptsJob) \/ Enqueued(c) \/ AwaitJob(c)
             \/ ClientDone(c)
    <3>1. UNCHANGED <<head, tail, next, assigned, job>>
      BY <2>2 DEF ParseRequest, Enqueue, Enqueued, AwaitJob, ClientDone, listVars, workVars
    <3>2. CASE ParseRequest(c)
      <4>1. \A d \in Client : InService(d)' <=> InService(d)
        BY <1>0, <3>2 DEF ParseRequest, InService, TypeOK, Set
      <4> QED
        BY <3>1, <4>1, JobsUnmoved
    <3>3. CASE Enqueue(c) /\ ~AcceptsJob
      <4>1. \A d \in Client : InService(d)' <=> InService(d)
        BY <1>0, <3>3 DEF Enqueue, Forget, InService, TypeOK, Set
      <4> QED
        BY <3>1, <4>1, JobsUnmoved
    <3>4. CASE Enqueued(c)
      <4>1. \A d \in Client : InService(d)' <=> InService(d)
        BY <1>0, <3>4 DEF Enqueued, InService, TypeOK, Set
      <4> QED
        BY <3>1, <4>1, JobsUnmoved
    <3>5. CASE AwaitJob(c)
      <4>1. \A d \in Client : InService(d)' <=> InService(d)
        BY <1>0, <3>5 DEF AwaitJob, MayLeave, Forget, InService, TypeOK, Set
      <4> QED
        BY <3>1, <4>1, JobsUnmoved
    <3>6. CASE ClientDone(c)
      <4>1. \A d \in Client : InService(d)' <=> InService(d)
        BY <1>0, <3>6 DEF ClientDone, InService, TypeOK, Set
      <4> QED
        BY <3>1, <4>1, JobsUnmoved
    <3> QED
      BY <2>2, <3>2, <3>3, <3>4, <3>5, <3>6
  <2> QED
    BY <1>3, <2>1, <2>2 DEF ClientStep
<1>4. ASSUME NEW s \in Slot, WorkerStep(s) PROVE ListInv' /\ PlaceInv'
  <2>1. CASE TakeAssigned(s)
    BY <2>1, JobsOfTake
  <2>2. CASE Dequeue(s)
    BY <2>2, JobsOfDequeue
  <2>3. CASE MarkDone(s)
    BY <2>3, JobsOfDone
  <2>4. CASE UNCHANGED <<head, tail, next, assigned, job, cpc, jdone>>
    BY <2>4, JobsUnmoved DEF InService
  <2> QED
    BY <1>4, <2>1, <2>2, <2>3, <2>4 DEF WorkerStep, WaitForWork, ExitWorker, MatchSession,
       PrefillJob, FinishJob, Respond, Release, Released, listVars, workVars, clientVars
<1>5. CASE Terminated
  BY <1>5, JobsUnmoved DEF Terminated, vars, InService, listVars, workVars, clientVars
<1> QED
  BY <1>1, <1>2, <1>3, <1>4, <1>5 DEF Next

-----------------------------------------------------------------------------
(* Routing. *)

(* A client that is not in service is in no slot. *)
LEMMA NotInSlot ==
    ASSUME Inv, NEW c \in Client, ~InService(c), NEW s \in Slot
    PROVE  c \notin {assigned[s], job[s]} \ {NoJob}
  BY DEF Inv, PlaceInv

LEMMA RouteOfDispatch ==
    ASSUME Inv, DispatchOne
    PROVE  Routed'
<1>0. TypeOK /\ ListInv /\ PlaceInv /\ BindInv /\ ClientInv /\ WorkerInv /\ Routed /\ batched
  BY HolderIsBatched DEF Inv, DispatchOne
<1>1. PICK n, q, i, s :
        /\ n \in Nat /\ q \in [1 .. n -> Client] /\ i \in 1 .. n
        /\ s \in EligibleSlots(q[i])
        /\ IsList(head, tail, next, n, q)
        /\ IsList(head', tail', next', n - 1, Without(n, q, i))
        /\ Queued = JobsOf(n, q)
        /\ Queued' = Queued \ {q[i]}
        /\ bound' = Set(bound, q[i], RequiredSlots(q[i]) # {})
        /\ assigned' = Set(assigned, s, q[i])
        /\ busy' = Set(busy, s, TRUE)
  BY <1>0, DispatchTakes
<1> DEFINE c == q[i]
<1>2. c \in Queued /\ c \in Client /\ c # NoJob
  BY <1>1, Constants DEF JobsOf
<1>3. /\ s \in Slot /\ assigned[s] = NoJob /\ ~busy[s]
      /\ RequiredSlots(c) # {} => s \in RequiredSlots(c)
  BY <1>1 DEF EligibleSlots
<1>4. assigned' = [assigned EXCEPT ![s] = c] /\ bound' = [bound EXCEPT ![c] = RequiredSlots(c) # {}]
  BY <1>1 DEF Set
<1>5. UNCHANGED <<job, wpc, wants, live, bind>>
  BY DEF DispatchOne, workVars, clientVars, liveVars
<1> HIDE DEF c
<1>6. \A t \in Slot : assigned'[t] = IF t = s THEN c ELSE assigned[t]
  BY <1>0, <1>3, <1>4 DEF TypeOK
<1>7. \A d \in Client : d # c => bound'[d] = bound[d]
  BY <1>0, <1>4 DEF TypeOK
<1>8. bound'[c] = (RequiredSlots(c) # {})
  BY <1>0, <1>2, <1>4 DEF TypeOK
<1>9. SUFFICES ASSUME NEW t \in Slot, NEW d \in {assigned'[t], job[t]} \ {NoJob},
                      wpc[t] \in {"top", "dispatch", "match"}
               PROVE  /\ live[d] => \A u \in Slot \ {t} : bind[u] # wants[d]
                      /\ bound'[d] => bind[t] = wants[d]
  BY <1>5 DEF Routed
<1>10. CASE d = c
  <2>1. t = s
    BY <1>0, <1>2, <1>6, <1>9, <1>10 DEF PlaceInv
  <2>2. ASSUME live[c], NEW u \in Slot \ {s}, bind[u] = wants[c] PROVE FALSE
    <3>1. u \in RequiredSlots(c)
      BY <2>2 DEF RequiredSlots
    <3>2. bind[s] = wants[c]
      BY <1>3, <3>1 DEF RequiredSlots
    <3>3. wants[c] # NoCall
      BY <1>0, <1>2, <2>2 DEF ClientInv
    <3> QED
      BY <1>0, <1>3, <2>2, <3>2, <3>3 DEF BindInv
  <2>3. bound'[c] => bind[s] = wants[c]
    BY <1>3, <1>8 DEF RequiredSlots
  <2> QED
    BY <1>10, <2>1, <2>2, <2>3
<1>11. CASE d # c
  <2>1. d \in {assigned[t], job[t]} \ {NoJob} /\ d \in Client
    BY <1>0, <1>3, <1>6, <1>9, <1>11 DEF TypeOK, JobOrNull
  <2> QED
    BY <1>0, <1>7, <1>9, <1>11, <2>1 DEF Routed
<1> QED
  BY <1>10, <1>11

LEMMA RouteOfClient ==
    ASSUME Inv, NEW c \in Client, ClientStep(c)
    PROVE  Routed'
<1>0. TypeOK /\ PlaceInv /\ ClientInv /\ Routed
  BY DEF Inv
<1>1. UNCHANGED <<assigned, job, wpc, bind>>
  BY DEF ClientStep, ParseRequest, Enqueue, Enqueued, AwaitJob, ClientDone, workVars, liveVars
<1>2. CASE UNCHANGED <<wants, live, bound>>
  BY <1>0, <1>1, <1>2 DEF Routed
<1>3. CASE ~UNCHANGED <<wants, live, bound>>
  <2>1. ~InService(c)
    BY <1>0, <1>3 DEF ClientStep, ParseRequest, Enqueue, Enqueued, AwaitJob, MayLeave,
       ClientDone, InService
  <2>2. \A d \in Client : d # c => wants'[d] = wants[d] /\ live'[d] = live[d]
                                   /\ bound'[d] = bound[d]
    BY <1>0 DEF ClientStep, ParseRequest, Enqueue, Enqueued, AwaitJob, ClientDone, Forget,
       Set, TypeOK
  <2>3. \A s \in Slot : \A d \in {assigned[s], job[s]} \ {NoJob} : d \in Client /\ d # c
    BY <1>0, <2>1, NotInSlot DEF TypeOK, JobOrNull
  <2> QED
    BY <1>0, <1>1, <2>2, <2>3 DEF Routed
<1> QED
  BY <1>2, <1>3

LEMMA RouteOfWorker ==
    ASSUME Inv, NEW s \in Slot, WorkerStep(s)
    PROVE  Routed'
<1>0. TypeOK /\ PlaceInv /\ ClientInv /\ WorkerInv /\ Routed
  BY DEF Inv
<1>1. UNCHANGED <<wants, live, bound, batched>>
  BY DEF WorkerStep, WaitForWork, ExitWorker, TakeAssigned, Dequeue, MatchSession, PrefillJob,
     FinishJob, Respond, MarkDone, Release, Released, clientVars, mainVars
<1>2. \A t \in Slot : t # s => /\ assigned'[t] = assigned[t] /\ job'[t] = job[t]
                               /\ wpc'[t] = wpc[t] /\ bind'[t] = bind[t]
  BY <1>0 DEF WorkerStep, WaitForWork, ExitWorker, TakeAssigned, Dequeue, MatchSession,
     PrefillJob, FinishJob, RememberLive, Respond, MarkDone, Release, Released, Set, TypeOK,
     workVars, liveVars
<1>3. ASSUME NEW c \in Client, wants[c] = bind'[s]
      PROVE  wants[c] = NoCall \/ bind[s] = wants[c]
  <2>1. bind'[s] \in {NoCall, bind[s]} \/ Fresh(bind'[s])
    BY <1>0 DEF WorkerStep, WaitForWork, ExitWorker, TakeAssigned, Dequeue, MatchSession,
       PrefillJob, FinishJob, RememberLive, Respond, MarkDone, Release, Released, Set, TypeOK,
       workVars, liveVars
  <2> QED
    BY <1>3, <2>1 DEF Fresh
(* The other slots keep their jobs, and no binding that these want comes to s. *)
<1>4. ASSUME NEW t \in Slot, t # s, NEW c \in {assigned'[t], job'[t]} \ {NoJob},
             wpc'[t] \in {"top", "dispatch", "match"}
      PROVE  /\ live[c] => \A u \in Slot \ {t} : bind'[u] # wants[c]
             /\ bound[c] => bind'[t] = wants[c]
  <2>1. c \in {assigned[t], job[t]} \ {NoJob} /\ wpc[t] \in {"top", "dispatch", "match"}
        /\ c \in Client
    BY <1>0, <1>2, <1>4 DEF TypeOK, JobOrNull
  <2>2. /\ live[c] => \A u \in Slot \ {t} : bind[u] # wants[c]
        /\ bound[c] => bind[t] = wants[c]
    BY <1>0, <2>1 DEF Routed
  <2>3. ASSUME live[c], NEW u \in Slot \ {t} PROVE bind'[u] # wants[c]
    <3>1. wants[c] # NoCall
      BY <1>0, <2>1, <2>3 DEF ClientInv
    <3>2. CASE u = s
      BY <1>3, <2>1, <2>2, <2>3, <3>1, <3>2
    <3>3. CASE u # s
      BY <1>2, <2>2, <2>3, <3>3
    <3> QED
      BY <3>2, <3>3
  <2> QED
    BY <1>2, <1>4, <2>2, <2>3
(* The slot s keeps its job and its binding, or has no job that is still to be matched. *)
<1>5. ASSUME NEW c \in {assigned'[s], job'[s]} \ {NoJob},
             wpc'[s] \in {"top", "dispatch", "match"}
      PROVE  /\ live[c] => \A u \in Slot \ {s} : bind'[u] # wants[c]
             /\ bound[c] => bind'[s] = wants[c]
  <2>1. CASE Dequeue(s)
    <3>1. c = head /\ bind' = bind /\ ~batched /\ head \in Client
      BY <1>0, <1>5, <2>1 DEF Dequeue, AtTop, HasWork, WorkerInv, Running, Set, TypeOK, liveVars,
         JobOrNull
    <3>2. ~bound[c]
      BY <1>0, <3>1 DEF ClientInv
    <3>3. ASSUME live[c], NEW u \in Slot \ {s} PROVE bind[u] # wants[c]
      <4>1. wpc[s] # "absent"
        BY <2>1 DEF Dequeue, AtTop
      <4>2. started \in Nat /\ started <= 1 /\ s < started
        BY <1>0, <3>1, <4>1, SlotFacts DEF WorkerInv, TypeOK, Inv, MainInv, WorkerCount
      <4>3. wpc[u] = "absent"
        BY <1>0, <4>2, SlotFacts DEF WorkerInv
      <4> QED
        BY <1>0, <3>1, <3>3, <4>3 DEF WorkerInv, ClientInv
    <3> QED
      BY <3>1, <3>2, <3>3
  <2>2. CASE TakeAssigned(s)
    BY <1>0, <1>5, <2>2 DEF TakeAssigned, AtTop, HasWork, Routed, Set, TypeOK, liveVars
  <2>3. CASE WaitForWork(s) \/ Released(s)
    BY <1>0, <1>5, <2>3 DEF WaitForWork, Released, AtTop, Routed, Set, TypeOK, liveVars, workVars
  <2>4. CASE ExitWorker(s) \/ MatchSession(s) \/ PrefillJob(s) \/ FinishJob(s) \/ Respond(s)
    BY <1>0, <1>5, <2>4 DEF ExitWorker, MatchSession, PrefillJob, FinishJob, Respond, TypeOK, Set
  <2>5. CASE MarkDone(s) \/ Release(s)
    BY <1>0, <1>5, <2>5 DEF MarkDone, Release, WorkerInv, Running, TypeOK, Set
  <2> QED
    BY <2>1, <2>2, <2>3, <2>4, <2>5 DEF WorkerStep
<1> QED
  BY <1>1, <1>4, <1>5 DEF Routed

LEMMA RouteKept ==
    ASSUME Inv, Next
    PROVE  Routed'
<1>0. TypeOK /\ WorkerInv /\ Routed
  BY DEF Inv
<1>1. CASE UNCHANGED <<assigned, job, wpc, wants, live, bind, bound>>
  BY <1>0, <1>1 DEF Routed
<1>2. CASE StartWorker
  <2>1. UNCHANGED <<assigned, job, wants, live, bind, bound>>
        /\ wpc' = [wpc EXCEPT ![started] = "top"]
    BY <1>2 DEF StartWorker, Set, liveVars, clientVars
  <2>2. \A s \in Slot : s = started => assigned[s] = NoJob /\ job[s] = NoJob
    BY <1>0, SlotFacts DEF WorkerInv, Running, TypeOK
  <2>3. \A s \in Slot : s # started => wpc'[s] = wpc[s]
    BY <1>0, <2>1 DEF TypeOK
  <2> QED
    BY <1>0, <2>1, <2>2, <2>3 DEF Routed
<1>3. CASE MainStep
  BY <1>1, <1>2, <1>3 DEF MainStep, Accept, Spawn, WorkerStop, MainDispatched, JoinSlots,
     CloseServer, clientVars, workVars, liveVars
<1>4. CASE StopSignal \/ SpuriousWakeup \/ Terminated
  BY <1>1, <1>4 DEF StopSignal, SpuriousWakeup, Terminated, vars, clientVars, workVars, liveVars
<1> QED
  BY <1>3, <1>4, RouteOfDispatch, RouteOfClient, RouteOfWorker DEF Next

-----------------------------------------------------------------------------
(* Idle slots. *)

(* When the dispatcher stops, no queued job has a slot that could run it. *)
LEMMA NoneEligible ==
    ASSUME ListInv, NothingRunnable, NEW c \in Queued
    PROVE  EligibleSlots(c) = {}
<1>1. PICK n \in 0 .. Cardinality(Client) : \E q \in [1 .. n -> Client] :
        IsList(head, tail, next, n, q)
  BY DEF ListInv
<1>2. PICK q \in [1 .. n -> Client] : IsList(head, tail, next, n, q)
  BY <1>1
<1>3. n \in Nat /\ \A i \in 1 .. n : q[i] # NoJob
  BY Constants, ClientCount
<1> DEFINE T == {i \in Nat : i \in Place /\ i < n /\ EligibleSlots(QueuedAt[i]) # {}}
<1>4. T = {}
  <2> SUFFICES ASSUME T # {} PROVE FALSE
    OBVIOUS
  <2>1. PICK m \in T : \A k \in T : m <= k
    BY LeastNatural
  <2>2. m \in Nat /\ m \in Place /\ m < n /\ EligibleSlots(QueuedAt[m]) # {}
    BY <2>1
  <2>3. QueuedAt[m] # NoJob
    <3>1. QueuedAt[m] = q[m + 1] /\ m + 1 \in 1 .. n
      BY <1>2, <1>3, <2>2, QueueIsList
    <3> QED
      BY <1>3, <3>1
  <2>4. ASSUME NEW k \in Place, k < m PROVE EligibleSlots(QueuedAt[k]) = {}
    <3>1. k \in Nat /\ k < n
      BY <1>3, <2>2, <2>4, ClientCount DEF Place
    <3>2. k \notin T
      BY <2>1, <2>2, <2>4, <3>1
    <3> QED
      BY <2>4, <3>1, <3>2
  <2> QED
    BY <2>2, <2>3, <2>4 DEF NothingRunnable, FirstRunnable
<1>5. PICK i \in 1 .. n : c = q[i]
  BY <1>2, QueueIsList DEF JobsOf
<1>6. i - 1 \in Place /\ QueuedAt[i - 1] = c
  BY <1>2, <1>5, QueueIsList
<1>7. i - 1 \in Nat /\ i - 1 < n
  BY <1>3
<1> QED
  BY <1>4, <1>6, <1>7

LEMMA DispatcherLeaves ==
    ASSUME Inv, NothingRunnable, NEW c \in Queued
    PROVE  /\ \E s \in Slot : busy[s]
           /\ live[c] \/ \A s \in Slot : busy[s]
<1>1. EligibleSlots(c) = {} /\ 0 \in Slot
  BY NoneEligible, SlotFacts DEF Inv
<1>2. \A s \in Slot : busy[s] \/ (RequiredSlots(c) # {} /\ s \notin RequiredSlots(c))
  BY <1>1 DEF EligibleSlots, Inv, WorkerInv
<1>3. CASE RequiredSlots(c) = {}
  BY <1>1, <1>2, <1>3
<1>4. CASE RequiredSlots(c) # {}
  <2>1. PICK s \in Slot : s \in RequiredSlots(c)
    BY <1>4 DEF RequiredSlots
  <2>2. busy[s] /\ live[c]
    BY <1>2, <2>1 DEF RequiredSlots
  <2> QED
    BY <2>2
<1> QED
  BY <1>3, <1>4

LEMMA IdleKept ==
    ASSUME Inv, Next
    PROVE  NoIdleSlot'
<1>0. TypeOK /\ NoIdleSlot /\ PlaceInv /\ ListInv
  BY DEF Inv
<1>q. Queued \subseteq Client
  BY <1>0, QueueIsList DEF ListInv
<1>1. ASSUME MuFree' => MuFree, batched' = batched, busy' = busy, Queued' = Queued,
             \A c \in Queued : live'[c] = live[c]
      PROVE  NoIdleSlot'
  BY <1>0, <1>1 DEF NoIdleSlot
<1>2. ASSUME ~MuFree' \/ ~batched'
      PROVE  NoIdleSlot'
  BY <1>2 DEF NoIdleSlot
<1>3. ASSUME NothingRunnable, UNCHANGED <<batched, busy, head, tail, next, live>>
      PROVE  NoIdleSlot'
  <2>1. Queued' = Queued
    BY <1>3 DEF Queued, QueuedAt
  <2> QED
    BY <1>3, <2>1, DispatcherLeaves DEF NoIdleSlot
<1>4. ASSUME MuFree' => MuFree, UNCHANGED <<batched, busy, head, tail, next, live>>
      PROVE  NoIdleSlot'
  <2>1. Queued' = Queued
    BY <1>4 DEF Queued, QueuedAt
  <2> QED
    BY <1>1, <1>4, <2>1
<1>5. CASE MainStep
  <2>1. UNCHANGED <<batched, busy, head, tail, next, live>>
    BY <1>5 DEF MainStep, StartWorker, Accept, Spawn, WorkerStop, MainDispatched,
       JoinSlots, CloseServer, clientVars, listVars
  <2>2. CASE MainDispatched
    BY <1>3, <2>1, <2>2 DEF MainDispatched
  <2>3. CASE WorkerStop
    <3>1. MuFree
      BY <2>3 DEF WorkerStop
    <3> QED
      BY <1>4, <2>1, <3>1
  <2>4. CASE StartWorker
    <3>0. \A s \in Slot : s = started => wpc[s] = "absent"
      BY <1>0, SlotFacts DEF Inv, WorkerInv, TypeOK
    <3>1. MuFree' => MuFree
      BY <1>0, <2>4, <3>0 DEF StartWorker, MuFree, TypeOK, Set, clientVars
    <3> QED
      BY <1>4, <2>1, <3>1
  <2>5. CASE Spawn
    <3>1. MuFree' => MuFree
      BY <1>0, <2>5 DEF Spawn, MuFree, TypeOK, Set, workVars
    <3> QED
      BY <1>4, <2>1, <3>1
  <2>6. CASE Accept \/ JoinSlots \/ CloseServer
    <3>1. MuFree' => MuFree
      BY <2>6 DEF Accept, JoinSlots, CloseServer, MuFree, clientVars, workVars
    <3> QED
      BY <1>4, <2>1, <3>1
  <2> QED
    BY <1>5, <2>2, <2>3, <2>4, <2>5, <2>6 DEF MainStep
<1>6. CASE StopSignal \/ Terminated
  <2>1. UNCHANGED <<batched, busy, head, tail, next, live, main, cpc, wpc>>
    BY <1>6 DEF StopSignal, Terminated, vars, listVars, clientVars, workVars, mainVars
  <2> QED
    BY <1>4, <2>1 DEF MuFree
<1>7. CASE SpuriousWakeup
  <2>1. UNCHANGED <<batched, busy, head, tail, next, live, main, wpc>>
    BY <1>7 DEF SpuriousWakeup, listVars, workVars, mainVars
  <2>2. MuFree' => MuFree
    BY <1>0, <1>7, <2>1 DEF SpuriousWakeup, MuFree, TypeOK, Set
  <2> QED
    BY <1>4, <2>1, <2>2
<1>8. CASE DispatchOne
  <2>1. ~MuFree'
    BY <1>8 DEF DispatchOne, MuFree, clientVars, workVars, mainVars
  <2> QED
    BY <1>2, <2>1
<1>9. ASSUME NEW c \in Client, ClientStep(c) PROVE NoIdleSlot'
  <2>1. CASE Enqueue(c) /\ AcceptsJob
    <3>1. ~batched' \/ cpc'[c] = "dispatch"
      BY <1>0, <2>1 DEF Enqueue, AcceptsJob, Set, TypeOK, mainVars
    <3> QED
      BY <1>2, <3>1 DEF MuFree
  <2>2. CASE Enqueue(c) /\ ~AcceptsJob
    <3>1. UNCHANGED <<batched, busy, head, tail, next>> /\ MuFree
          /\ live' = [live EXCEPT ![c] = FALSE] /\ ~InService(c)
      BY <2>2 DEF Enqueue, Forget, InService, Set, mainVars, listVars
    <3>2. c \notin Queued
      BY <1>0, <3>1 DEF PlaceInv
    <3>3. Queued' = Queued
      BY <3>1 DEF Queued, QueuedAt
    <3>4. \A d \in Queued : live'[d] = live[d]
      BY <1>0, <1>q, <3>1, <3>2 DEF TypeOK
    <3> QED
      BY <1>1, <3>1, <3>3, <3>4
  <2>3. CASE ParseRequest(c) \/ AwaitJob(c)
    <3>1. UNCHANGED <<batched, busy, head, tail, next, main, wpc>>
      BY <2>3 DEF ParseRequest, AwaitJob, mainVars, listVars, workVars
    <3>2. MuFree' => MuFree
      BY <1>0, <2>3, <3>1 DEF ParseRequest, AwaitJob, Forget, Set, TypeOK, MuFree
    <3>3. Queued' = Queued
      BY <3>1 DEF Queued, QueuedAt
    <3>4. \A d \in Client : d # c => live'[d] = live[d]
      BY <1>0, <2>3 DEF ParseRequest, AwaitJob, Forget, Set, TypeOK
    <3>5. ~InService(c) \/ live' = live
      BY <2>3 DEF ParseRequest, AwaitJob, MayLeave, InService
    <3>6. \A d \in Queued : live'[d] = live[d]
      BY <1>0, <1>q, <3>4, <3>5 DEF PlaceInv
    <3> QED
      BY <1>1, <3>1, <3>2, <3>3, <3>6
  <2>4. CASE Enqueued(c)
    BY <1>3, <2>4 DEF Enqueued, mainVars, listVars
  <2>5. CASE ClientDone(c)
    <3>1. MuFree /\ UNCHANGED <<batched, busy, head, tail, next, live>>
      BY <2>5 DEF ClientDone, mainVars, listVars
    <3> QED
      BY <1>4, <3>1
  <2> QED
    BY <1>9, <2>1, <2>2, <2>3, <2>4, <2>5 DEF ClientStep
<1>10. ASSUME NEW s \in Slot, WorkerStep(s) PROVE NoIdleSlot'
  <2>1. CASE Dequeue(s)
    BY <1>2, <2>1 DEF Dequeue, mainVars
  <2>2. CASE Release(s)
    <3>1. wpc'[s] = "dispatch"
      BY <1>0, <2>2 DEF Release, AfterRelease, Set, TypeOK
    <3> QED
      BY <1>2, <3>1 DEF MuFree
  <2>3. CASE Released(s)
    BY <1>3, <2>3 DEF Released, mainVars, listVars, clientVars
  <2>4. CASE WaitForWork(s) \/ ExitWorker(s) \/ TakeAssigned(s)
    <3>1. MuFree /\ UNCHANGED <<batched, busy, head, tail, next, live>>
      BY <2>4 DEF WaitForWork, ExitWorker, TakeAssigned, AtTop, mainVars, listVars, clientVars
    <3> QED
      BY <1>4, <3>1
  <2>5. CASE MatchSession(s) \/ PrefillJob(s) \/ FinishJob(s) \/ Respond(s) \/ MarkDone(s)
    <3>1. UNCHANGED <<batched, busy, head, tail, next, live, main>>
      BY <2>5 DEF MatchSession, PrefillJob, FinishJob, Respond, MarkDone, mainVars, listVars,
         clientVars
    <3>2. wpc[s] # "dispatch" /\ \A t \in Slot : t # s => wpc'[t] = wpc[t]
      BY <1>0, <2>5 DEF MatchSession, PrefillJob, FinishJob, Respond, MarkDone, Set, TypeOK
    <3>3. \A c \in Client : cpc[c] = "dispatch" => cpc'[c] = "dispatch"
      BY <1>0, <2>5 DEF MatchSession, PrefillJob, FinishJob, Respond, MarkDone, Notify, Set,
         TypeOK, clientVars
    <3>4. MuFree' => MuFree
      BY <3>1, <3>2, <3>3 DEF MuFree
    <3> QED
      BY <1>4, <3>1, <3>4
  <2> QED
    BY <1>10, <2>1, <2>2, <2>3, <2>4, <2>5 DEF WorkerStep
<1> QED
  BY <1>5, <1>6, <1>7, <1>8, <1>9, <1>10 DEF Next

-----------------------------------------------------------------------------
(* The inductive invariant holds. *)

LEMMA InitInv == Init => Inv
<1> SUFFICES ASSUME Init PROVE Inv
  OBVIOUS
<1> DEFINE q == [i \in 1 .. 0 |-> NoJob]
<1>0. \A i \in 1 .. 0 : FALSE
  OBVIOUS
<1>1. IsList(head, tail, next, 0, q)
  BY <1>0 DEF Init, IsList, JobOrNull
<1>2. ListInv
  <2>1. q \in [1 .. 0 -> Client] /\ 0 \in 0 .. Cardinality(Client)
    BY <1>0, ClientCount
  <2> HIDE DEF q
  <2> QED
    BY <1>1, <2>1 DEF ListInv
<1>3. Queued = {}
  <2>1. head = NoJob
    BY DEF Init
  <2> QED
    BY <1>1, <2>1, QueueIsList
<1>4. PlaceInv
  BY <1>3, Constants DEF Init, PlaceInv, InService
<1>5. WorkerInv
  BY SlotFacts DEF Init, WorkerInv, Running
<1>6. MainInv
  <2>1. Present = {}
    BY DEF Init, Present
  <2>2. WorkerCount \in Nat /\ WorkerCount > 0
    BY Constants DEF WorkerCount
  <2> QED
    BY <2>1, <2>2, FS_EmptySet DEF Init, MainInv
<1>7. ClientInv
  BY DEF Init, ClientInv
<1>8. BindInv
  BY DEF Init, BindInv
<1>9. Routed
  BY DEF Init, Routed
<1>10. NoIdleSlot
  BY <1>3 DEF NoIdleSlot
<1> QED
  BY InitTypes, <1>2, <1>4, <1>5, <1>6, <1>7, <1>8, <1>9, <1>10 DEF Inv

LEMMA NextInv == Inv /\ Next => Inv'
<1> SUFFICES ASSUME Inv, Next PROVE Inv'
  OBVIOUS
<1>0. Terminated => UNCHANGED vars
  BY DEF Terminated
<1>1. TypeOK'
  <2>1. CASE UNCHANGED vars
    BY <2>1 DEF Inv, TypeOK, vars, mainVars, listVars, clientVars, workVars, liveVars
  <2> QED
    BY <1>0, <2>1, MainTypes, DispatchTypes, ClientTypes, WorkerTypes DEF Next
<1>2. WorkerInv'
  <2>1. CASE UNCHANGED vars
    BY <2>1 DEF Inv, WorkerInv, vars, mainVars, listVars, workVars, liveVars
  <2> QED
    BY <1>0, <2>1, WorkersOfMain, WorkersOfDispatch, WorkersOfClient, WorkersOfWorker DEF Next
<1>3. MainInv'
  <2>1. CASE UNCHANGED vars
    BY <2>1 DEF Inv, MainInv, WorkerCount, Present, vars, mainVars, clientVars, workVars
  <2> QED
    BY <1>0, <2>1, MainOfMain, MainOfClient, MainOfWorker DEF Next
<1> QED
  BY <1>1, <1>2, <1>3, JobsKept, ClientsKept, BindsKept, RouteKept, IdleKept DEF Inv

LEMMA InvStep == Inv /\ [Next]_vars => Inv'
<1> SUFFICES ASSUME Inv, UNCHANGED vars PROVE Inv'
  BY NextInv
<1>2. /\ UNCHANGED <<batched, g_stop_requested, main, started, head, tail, next, stopping>>
      /\ UNCHANGED <<clients, assigned, busy, cv, cpc, wants, live, jdone, wpc, job>>
      /\ UNCHANGED <<continues, bind, fits, seen, bound>>
  BY DEF vars, mainVars, listVars, clientVars, workVars, liveVars
<1>3. Queued' = Queued
  BY <1>2 DEF Queued, QueuedAt
<1>4. TypeOK' /\ ListInv' /\ WorkerInv' /\ MainInv' /\ ClientInv' /\ BindInv'
  BY <1>2 DEF Inv, TypeOK, ListInv, WorkerInv, MainInv, WorkerCount, Present, ClientInv, BindInv
<1>5. PlaceInv' /\ Routed' /\ NoIdleSlot'
  BY <1>2, <1>3 DEF Inv, PlaceInv, InService, Routed, NoIdleSlot, MuFree
<1> QED
  BY <1>4, <1>5 DEF Inv

LEMMA InvHolds == Spec => []Inv
  BY InitInv, InvStep, PTL DEF Spec

(* Each variable keeps its type; the client count never goes below zero, though
   it is given back in two places.  (ds4_server.c 13560-13720) *)
THEOREM QueueTypes == Spec => []TypeOK
<1>1. Inv => TypeOK
  BY DEF Inv
<1> QED
  BY <1>1, InvHolds, PTL

-----------------------------------------------------------------------------
(* The properties. *)

LEMMA CountOne ==
    ASSUME NEW S \in SUBSET Slot, \A s, t \in S : s = t
    PROVE  Cardinality(S) = IF S = {} THEN 0 ELSE 1
<1>1. CASE S = {}
  BY <1>1, FS_EmptySet
<1>2. CASE S # {}
  <2>1. PICK s \in S : S = {s}
    BY <1>2
  <2> QED
    BY <1>2, <2>1, FS_Singleton
<1> QED
  BY <1>1, <1>2

LEMMA InvJobOnce == Inv => JobOnce
<1> SUFFICES ASSUME Inv, NEW c \in Client
             PROVE  Cardinality({s \in Slot : assigned[s] = c})
                        + Cardinality({s \in Slot : job[s] = c})
                        + (IF c \in Queued THEN 1 ELSE 0)
                    = IF InService(c) THEN 1 ELSE 0
  BY DEF JobOnce
<1> DEFINE A == {s \in Slot : assigned[s] = c}
           J == {s \in Slot : job[s] = c}
<1>0. PlaceInv /\ c # NoJob
  BY Constants DEF Inv
<1>1. Cardinality(A) = IF A = {} THEN 0 ELSE 1
  <2>1. \A s, t \in A : s = t
    BY <1>0 DEF PlaceInv
  <2> QED
    BY <2>1, CountOne
<1>2. Cardinality(J) = IF J = {} THEN 0 ELSE 1
  <2>1. \A s, t \in J : s = t
    BY <1>0 DEF PlaceInv
  <2> QED
    BY <2>1, CountOne
<1>3. A = {} \/ J = {}
  BY <1>0 DEF PlaceInv
<1>4. c \in Queued => A = {} /\ J = {}
  BY <1>0 DEF PlaceInv
<1>5. InService(c) <=> c \in Queued \/ A # {} \/ J # {}
  BY <1>0 DEF PlaceInv
<1> HIDE DEF A, J
<1>6. Cardinality(A) + Cardinality(J) + (IF c \in Queued THEN 1 ELSE 0)
      = IF InService(c) THEN 1 ELSE 0
  BY <1>1, <1>2, <1>3, <1>4, <1>5
<1> QED
  BY <1>6 DEF A, J

LEMMA InvDrained == Inv => DrainedAtClose
<1> SUFFICES ASSUME Inv PROVE DrainedAtClose
  OBVIOUS
<1>1. ASSUME main \in {"drain", "closed"}
      PROVE  /\ Queued = {}
             /\ \A s \in Slot : wpc[s] \in {"absent", "exited"} /\ assigned[s] = NoJob
  <2>1. \A s \in Slot : wpc[s] \in {"absent", "exited"} /\ assigned[s] = NoJob
    BY <1>1 DEF Inv, MainInv, WorkerInv
  <2>2. started > 0 /\ started \in Nat
    BY <1>1 DEF Inv, MainInv, TypeOK
  <2>3. head = NoJob
    BY <2>1, <2>2, SlotFacts DEF Inv, WorkerInv
  <2>4. Queued = {}
    BY <2>3, QueuedIsServed
  <2> QED
    BY <2>1, <2>4
<1>2. ASSUME main = "closed" PROVE \A c \in Client : cpc[c] = "gone"
  <2>1. Cardinality(Present) = 0
    BY <1>2, PresentCount DEF Inv, MainInv
  <2>2. Present = {}
    BY <2>1, PresentCount, FS_EmptySet
  <2> QED
    BY <2>2 DEF Present
<1> QED
  BY <1>1, <1>2 DEF DrainedAtClose

(* An accepted job is in exactly one place until it is done: in the list, with a
   slot, or with a worker, for any number of slots and clients; and when the
   server closes none is left.  (ds4_server.c 12500-12602, 12880-12910) *)
THEOREM QueueAccounts == Spec => []JobsAccounted
<1>1. Inv => JobsAccounted
  BY InvJobOnce, InvDrained DEF JobsAccounted
<1> QED
  BY <1>1, InvHolds, PTL

(* A request that only brings tool outputs is with the slot whose session has
   made the calls, from its dispatch until its worker looks for the binding.
   (job_required_slot_locked, ds4_server.c 12500-12517) *)
THEOREM QueueRoutes == Spec => []Routed
<1>1. Inv => Routed
  BY DEF Inv
<1> QED
  BY <1>1, InvHolds, PTL

(* When s.mu is free no job waits that an idle slot could run.
   (dispatch_jobs_locked, ds4_server.c 12528-12569) *)
THEOREM QueueKeepsBusy == Spec => []NoIdleSlot
<1>1. Inv => NoIdleSlot
  BY DEF Inv
<1> QED
  BY <1>1, InvHolds, PTL

-----------------------------------------------------------------------------
(* The queue implements the service. *)

(* A list is a sequence; linking and unlinking are Append and RemoveAt. *)
LEMMA ListSeq ==
    ASSUME NEW n \in Nat, NEW q \in [1 .. n -> Client]
    PROVE  q \in Seq(Client) /\ Len(q) = n
<1>1. q \in Seq(Client)
  BY SeqDef
<1>2. Len(q) \in Nat /\ DOMAIN q = 1 .. Len(q)
  BY <1>1, LenProperties
<1>3. DOMAIN q = 1 .. n
  OBVIOUS
<1>4. Len(q) = n
  BY <1>2, <1>3
<1> QED
  BY <1>1, <1>4

LEMMA WithIsAppend ==
    ASSUME NEW n \in Nat, NEW q \in [1 .. n -> Client], NEW c \in Client
    PROVE  With(n, q, c) = Append(q, c)
<1>1. q \in Seq(Client) /\ Len(q) = n
  BY ListSeq
<1>2. /\ Append(q, c) \in Seq(Client) /\ Len(Append(q, c)) = n + 1
      /\ \A i \in 1 .. n : Append(q, c)[i] = q[i]
      /\ Append(q, c)[n + 1] = c
  BY <1>1, AppendProperties
<1>3. n + 1 \in Nat /\ With(n, q, c) \in [1 .. n + 1 -> Client]
  BY DEF With
<1>4. With(n, q, c) \in Seq(Client) /\ Len(With(n, q, c)) = n + 1
  BY <1>3, ListSeq
<1>5. \A i \in 1 .. n + 1 : With(n, q, c)[i] = Append(q, c)[i]
  BY <1>2 DEF With
<1> QED
  BY <1>2, <1>4, <1>5, SeqEqual

LEMMA WithoutIsRemove ==
    ASSUME NEW n \in Nat, NEW q \in [1 .. n -> Client], NEW i \in 1 .. n
    PROVE  Without(n, q, i) = SubSeq(q, 1, i - 1) \o SubSeq(q, i + 1, n)
<1> DEFINE a == SubSeq(q, 1, i - 1)
           b == SubSeq(q, i + 1, n)
<1>1. i \in Nat /\ 1 <= i /\ i <= n
  OBVIOUS
<1>2. /\ a \in Seq(Client) /\ Len(a) = i - 1
      /\ \A k \in 1 .. i - 1 : a[k] = q[k]
  <2>1. 1 \in Int /\ i - 1 \in Int /\ \A k \in 1 .. i - 1 : q[k] \in Client
    BY <1>1
  <2>2. /\ a \in Seq(Client)
        /\ Len(a) = IF 1 <= i - 1 THEN (i - 1) - 1 + 1 ELSE 0
        /\ \A k \in 1 .. (i - 1) - 1 + 1 : a[k] = q[1 + k - 1]
    BY <2>1, SubSeqProperties
  <2> HIDE DEF a
  <2> QED
    BY <1>1, <2>2
<1>3. /\ b \in Seq(Client) /\ Len(b) = n - i
      /\ \A k \in 1 .. n - i : b[k] = q[i + k]
  <2>1. i + 1 \in Int /\ n \in Int /\ \A k \in i + 1 .. n : q[k] \in Client
    BY <1>1
  <2>2. /\ b \in Seq(Client)
        /\ Len(b) = IF i + 1 <= n THEN n - (i + 1) + 1 ELSE 0
        /\ \A k \in 1 .. n - (i + 1) + 1 : b[k] = q[(i + 1) + k - 1]
    BY <2>1, SubSeqProperties
  <2> HIDE DEF b
  <2> QED
    BY <1>1, <2>2
<1> HIDE DEF a, b
<1>4. /\ a \o b \in Seq(Client) /\ Len(a \o b) = n - 1
      /\ \A k \in 1 .. n - 1 : (a \o b)[k] = IF k <= i - 1 THEN a[k] ELSE b[k - (i - 1)]
  <2>1. /\ a \o b \in Seq(Client) /\ Len(a \o b) = Len(a) + Len(b)
        /\ \A k \in 1 .. Len(a) + Len(b) :
              (a \o b)[k] = IF k <= Len(a) THEN a[k] ELSE b[k - Len(a)]
    BY <1>2, <1>3, ConcatProperties
  <2>2. Len(a) + Len(b) = n - 1
    BY <1>1, <1>2, <1>3
  <2> QED
    BY <1>2, <2>1, <2>2
<1>5. n - 1 \in Nat /\ Without(n, q, i) \in [1 .. n - 1 -> Client]
  BY <1>1 DEF Without
<1>6. Without(n, q, i) \in Seq(Client) /\ Len(Without(n, q, i)) = n - 1
  BY <1>5, ListSeq
<1>7. ASSUME NEW k \in 1 .. n - 1 PROVE Without(n, q, i)[k] = (a \o b)[k]
  <2>1. CASE k < i
    <3>1. k \in 1 .. i - 1 /\ k <= i - 1
      BY <1>1, <2>1
    <3> QED
      BY <1>2, <1>4, <2>1, <3>1 DEF Without
  <2>2. CASE ~(k < i)
    <3>1. ~(k <= i - 1) /\ k - (i - 1) \in 1 .. n - i /\ i + (k - (i - 1)) = k + 1
      BY <1>1, <2>2
    <3>2. (a \o b)[k] = q[k + 1]
      BY <1>3, <1>4, <3>1
    <3> QED
      BY <2>2, <3>2 DEF Without
  <2> QED
    BY <2>1, <2>2
<1>8. Without(n, q, i) = a \o b
  BY <1>4, <1>6, <1>7, SeqEqual
<1> QED
  BY <1>8 DEF a, b

Waiting == [i \in 1 .. QueueLength |-> QueuedAt[i - 1]]
RunningJob == [s \in Slot |-> IF assigned[s] # NoJob THEN assigned[s] ELSE job[s]]

LEMMA JobsCounted ==
    ASSUME NEW n \in Nat, NEW q \in [1 .. n -> Client],
           \A i, j \in 1 .. n : q[i] = q[j] => i = j
    PROVE  Cardinality(JobsOf(n, q)) = n
<1>1. q \in Bijection(1 .. n, JobsOf(n, q))
  BY DEF Bijection, Injection, Surjection, IsInjective, JobsOf
<1>2. ExistsBijection(1 .. n, JobsOf(n, q))
  BY <1>1 DEF ExistsBijection
<1> QED
  BY <1>2, FS_CountingElements

(* The service's waiting jobs are the list. *)
LEMMA WaitingIsList ==
    ASSUME NEW n, NEW q, IsList(head, tail, next, n, q)
    PROVE  Waiting = q /\ q \in Seq(Client) /\ Len(q) = n
<1>1. n \in Nat /\ q \in [1 .. n -> Client] /\ \A i, j \in 1 .. n : q[i] = q[j] => i = j
  BY DEF IsList
<1>2. QueueLength = n
  BY <1>1, JobsCounted, QueueIsList DEF QueueLength
<1>3. \A i \in 1 .. n : QueuedAt[i - 1] = q[i]
  BY QueueIsList
<1>4. Waiting = q
  BY <1>1, <1>2, <1>3 DEF Waiting
<1> QED
  BY <1>1, <1>4, ListSeq

LEMMA NextWaitingIsList ==
    ASSUME NEW n, NEW q, IsList(head', tail', next', n, q)
    PROVE  Waiting' = q
<1>1. n \in Nat /\ q \in [1 .. n -> Client] /\ \A i, j \in 1 .. n : q[i] = q[j] => i = j
  BY DEF IsList
<1>2. QueueLength' = n
  BY <1>1, JobsCounted, NextQueueIsList DEF QueueLength
<1>3. \A i \in 1 .. n : QueuedAt'[i - 1] = q[i]
  BY NextQueueIsList
<1> QED
  BY <1>1, <1>2, <1>3 DEF Waiting

(* Which step of the service a change of the list and the slots is. *)
LEMMA IsSubmit ==
    ASSUME NEW c \in Client, ~stopping, ~stopping',
           \A i \in DOMAIN Waiting : Waiting[i] # c,
           \A s \in Slot : RunningJob[s] # c,
           Waiting' = Append(Waiting, c), RunningJob' = RunningJob
    PROVE  Service!Submit(c)
<1>1. Service!Absent(c)
  BY DEF Service!Absent, Service!ToSet, Waiting, RunningJob
<1>2. UNCHANGED <<~stopping, RunningJob>>
  OBVIOUS
<1> QED
  BY <1>1, <1>2 DEF Service!Submit, Waiting, RunningJob

LEMMA IsStart ==
    ASSUME NEW s \in Slot, NEW i \in DOMAIN Waiting, stopping' = stopping,
           RunningJob[s] = NoJob,
           RunningJob' = [RunningJob EXCEPT ![s] = Waiting[i]],
           Waiting' = SubSeq(Waiting, 1, i - 1) \o SubSeq(Waiting, i + 1, Len(Waiting))
    PROVE  Service!Start(i, s)
  BY DEF Service!Start, Service!RemoveAt, Waiting, RunningJob

LEMMA IsFinish ==
    ASSUME NEW s \in Slot, stopping' = stopping, RunningJob[s] # NoJob,
           RunningJob' = [RunningJob EXCEPT ![s] = NoJob], Waiting' = Waiting
    PROVE  Service!Finish(s)
  BY DEF Service!Finish, Waiting, RunningJob

LEMMA ServiceStutters ==
    ASSUME UNCHANGED <<stopping, head, tail, next>>, RunningJob' = RunningJob
    PROVE  UNCHANGED Service!serviceVars
<1>1. Waiting' = Waiting
  BY DEF Waiting, QueueLength, Queued, QueuedAt
<1> QED
  BY <1>1 DEF Service!serviceVars, Waiting, RunningJob

LEMMA ServiceInitially == Init => Service!ServiceInit
<1> SUFFICES ASSUME Init PROVE Service!ServiceInit
  OBVIOUS
<1>1. PICK n \in 0 .. Cardinality(Client) : \E q \in [1 .. n -> Client] :
        IsList(head, tail, next, n, q)
  BY InitInv DEF Inv, ListInv
<1>2. PICK q \in [1 .. n -> Client] : IsList(head, tail, next, n, q)
  BY <1>1
<1>3. n = 0
  <2>1. head = NoJob /\ n \in Nat
    BY <1>2 DEF Init, IsList
  <2> QED
    BY <1>2, <2>1, Constants DEF IsList
<1>4. Waiting = <<>>
  <2>1. Waiting \in Seq(Client) /\ Len(Waiting) = 0
    BY <1>2, <1>3, WaitingIsList
  <2> HIDE DEF Waiting
  <2> QED
    BY <2>1, EmptySeq
<1>5. RunningJob = [s \in Slot |-> NoJob]
  BY DEF Init, RunningJob
<1>6. ~stopping
  BY DEF Init
<1> QED
  BY <1>4, <1>5, <1>6 DEF Service!ServiceInit, Waiting, RunningJob

LEMMA DispatchIsStart ==
    ASSUME Inv, DispatchOne
    PROVE  \E s \in Slot : \E i \in DOMAIN Waiting : Service!Start(i, s)
<1>0. TypeOK /\ ListInv /\ PlaceInv /\ WorkerInv /\ batched
  BY HolderIsBatched DEF Inv, DispatchOne
<1>1. PICK n, q, i, s :
        /\ n \in Nat /\ q \in [1 .. n -> Client] /\ i \in 1 .. n
        /\ s \in EligibleSlots(q[i])
        /\ IsList(head, tail, next, n, q)
        /\ IsList(head', tail', next', n - 1, Without(n, q, i))
        /\ Queued = JobsOf(n, q)
        /\ Queued' = Queued \ {q[i]}
        /\ bound' = Set(bound, q[i], RequiredSlots(q[i]) # {})
        /\ assigned' = Set(assigned, s, q[i])
        /\ busy' = Set(busy, s, TRUE)
  BY <1>0, DispatchTakes
<1>2. Waiting = q /\ Len(q) = n /\ Waiting' = Without(n, q, i)
  BY <1>1, WaitingIsList, NextWaitingIsList
<1>3. Waiting' = SubSeq(Waiting, 1, i - 1) \o SubSeq(Waiting, i + 1, Len(Waiting))
  BY <1>1, <1>2, WithoutIsRemove
<1>4. s \in Slot /\ assigned[s] = NoJob /\ job[s] = NoJob
  BY <1>0, <1>1 DEF EligibleSlots, WorkerInv
<1>5. RunningJob[s] = NoJob
  BY <1>4 DEF RunningJob
<1>6. q[i] # NoJob /\ i \in DOMAIN Waiting
  BY <1>1, <1>2, Constants
<1>7. RunningJob' = [RunningJob EXCEPT ![s] = Waiting[i]]
  <2>1. \A t \in Slot : assigned'[t] = IF t = s THEN q[i] ELSE assigned[t]
    BY <1>0, <1>1, <1>4 DEF Set, TypeOK
  <2>2. UNCHANGED job
    BY DEF DispatchOne, workVars
  <2> QED
    BY <1>2, <1>4, <1>6, <2>1, <2>2 DEF RunningJob
<1>8. stopping' = stopping
  BY DEF DispatchOne
<1>9. Service!Start(i, s)
  BY <1>3, <1>4, <1>5, <1>6, <1>7, <1>8, IsStart
<1> QED
  BY <1>4, <1>6, <1>9

LEMMA DequeueIsStart ==
    ASSUME Inv, NEW s \in Slot, Dequeue(s)
    PROVE  \E i \in DOMAIN Waiting : Service!Start(i, s)
<1>0. TypeOK /\ ListInv /\ WorkerInv
  BY DEF Inv
<1>1. PICK n, q :
        /\ n \in Nat \ {0} /\ q \in [1 .. n -> Client]
        /\ IsList(head, tail, next, n, q)
        /\ IsList(head', tail', next', n - 1, Without(n, q, 1))
        /\ head = q[1] /\ head \in Queued
        /\ Queued = JobsOf(n, q)
        /\ Queued' = Queued \ {head}
  BY <1>0, DequeueTakes
<1>2. Waiting = q /\ Len(q) = n /\ Waiting' = Without(n, q, 1)
  BY <1>1, WaitingIsList, NextWaitingIsList
<1>3. 1 \in 1 .. n /\ 1 \in DOMAIN Waiting
  BY <1>1, <1>2
<1>4. Waiting' = SubSeq(Waiting, 1, 1 - 1) \o SubSeq(Waiting, 1 + 1, Len(Waiting))
  BY <1>1, <1>2, <1>3, WithoutIsRemove
<1>5. ~batched /\ wpc[s] = "top" /\ job' = [job EXCEPT ![s] = head]
      /\ UNCHANGED <<assigned, stopping>>
  BY DEF Dequeue, AtTop, Set
<1>6. assigned[s] = NoJob /\ job[s] = NoJob
  BY <1>0, <1>5 DEF WorkerInv, Running
<1>7. RunningJob[s] = NoJob
  BY <1>6 DEF RunningJob
<1>8. RunningJob' = [RunningJob EXCEPT ![s] = Waiting[1]]
  <2>1. \A t \in Slot : job'[t] = IF t = s THEN Waiting[1] ELSE job[t]
    BY <1>0, <1>1, <1>2, <1>5 DEF TypeOK
  <2> HIDE DEF Waiting
  <2> QED
    BY <1>5, <1>6, <2>1 DEF RunningJob
<1>9. Service!Start(1, s)
  BY <1>3, <1>4, <1>5, <1>7, <1>8, IsStart
<1> QED
  BY <1>3, <1>9

LEMMA EnqueueIsSubmit ==
    ASSUME Inv, NEW c \in Client, Enqueue(c), AcceptsJob
    PROVE  Service!Submit(c)
<1>0. TypeOK /\ ListInv /\ PlaceInv
  BY DEF Inv
<1>1. AppendJob(c) /\ ~InService(c) /\ c \notin Queued
  BY JobsOfEnqueue
<1>2. PICK n, q :
        /\ n \in Nat /\ q \in [1 .. n -> Client]
        /\ IsList(head, tail, next, n, q)
        /\ IsList(head', tail', next', n + 1, With(n, q, c))
        /\ Queued = JobsOf(n, q)
        /\ Queued' = Queued \cup {c}
  BY <1>0, <1>1, EnqueueLinks
<1>3. Waiting = q /\ Waiting' = Append(Waiting, c)
  BY <1>2, WaitingIsList, NextWaitingIsList, WithIsAppend
<1>4. \A i \in DOMAIN Waiting : Waiting[i] # c
  <2>1. \A i \in 1 .. n : q[i] # c
    BY <1>1, <1>2 DEF JobsOf
  <2> HIDE DEF Waiting
  <2> QED
    BY <1>2, <1>3, <2>1
<1>5. \A s \in Slot : RunningJob[s] # c
  BY <1>0, <1>1 DEF PlaceInv, RunningJob
<1>6. ~stopping /\ ~stopping' /\ UNCHANGED <<assigned, job>>
  BY DEF Enqueue, AcceptsJob, workVars
<1>7. RunningJob' = RunningJob
  BY <1>6 DEF RunningJob
<1> QED
  BY <1>3, <1>4, <1>5, <1>6, <1>7, IsSubmit

LEMMA ServiceStep == Inv /\ Next => [Service!ServiceNext]_(Service!serviceVars)
<1> SUFFICES ASSUME Inv, Next
             PROVE  Service!ServiceNext \/ UNCHANGED Service!serviceVars
  OBVIOUS
<1>0. TypeOK /\ PlaceInv /\ WorkerInv
  BY DEF Inv
<1>1. ASSUME UNCHANGED <<stopping, head, tail, next, assigned, job>>
      PROVE  UNCHANGED Service!serviceVars
  BY <1>1, ServiceStutters DEF RunningJob
<1>2. CASE WorkerStop
  <2>1. ~stopping /\ stopping' /\ UNCHANGED <<head, tail, next, assigned, job>>
    BY <1>2 DEF WorkerStop, Inv, MainInv, listVars, workVars
  <2>2. Waiting' = Waiting /\ RunningJob' = RunningJob
    BY <2>1 DEF Waiting, QueueLength, Queued, QueuedAt, RunningJob
  <2>3. Service!Close
    BY <2>1, <2>2 DEF Service!Close, Waiting, RunningJob
  <2> QED
    BY <2>3 DEF Service!ServiceNext
<1>3. CASE MainStep \/ StopSignal \/ SpuriousWakeup \/ Terminated
  BY <1>1, <1>2, <1>3 DEF MainStep, StopSignal, StartWorker, Accept, Spawn, MainDispatched,
     JoinSlots, CloseServer, SpuriousWakeup, Terminated, vars, listVars, workVars
<1>4. CASE DispatchOne
  BY <1>4, DispatchIsStart DEF Service!ServiceNext, Waiting
<1>5. ASSUME NEW c \in Client, ClientStep(c)
      PROVE  Service!ServiceNext \/ UNCHANGED Service!serviceVars
  <2>1. CASE Enqueue(c) /\ AcceptsJob
    BY <2>1, EnqueueIsSubmit DEF Service!ServiceNext
  <2>2. CASE ~(Enqueue(c) /\ AcceptsJob)
    BY <1>1, <1>5, <2>2 DEF ClientStep, ParseRequest, Enqueue, Enqueued, AwaitJob, ClientDone,
       listVars, workVars
  <2> QED
    BY <2>1, <2>2
<1>6. ASSUME NEW s \in Slot, WorkerStep(s)
      PROVE  Service!ServiceNext \/ UNCHANGED Service!serviceVars
  <2>1. CASE Dequeue(s)
    BY <2>1, DequeueIsStart DEF Service!ServiceNext, Waiting
  <2>2. CASE TakeAssigned(s)
    <3>1. RunningJob' = RunningJob
      <4>1. assigned[s] # NoJob /\ wpc[s] = "top"
            /\ assigned' = [assigned EXCEPT ![s] = NoJob] /\ job' = [job EXCEPT ![s] = assigned[s]]
        BY <2>2 DEF TakeAssigned, AtTop, HasWork, Set
      <4> QED
        BY <1>0, <4>1 DEF RunningJob, TypeOK
    <3> QED
      BY <2>2, <3>1, ServiceStutters DEF TakeAssigned, listVars
  <2>3. CASE MarkDone(s)
    <3>1. wpc[s] = "end" /\ job' = [job EXCEPT ![s] = NoJob]
          /\ UNCHANGED <<stopping, assigned, head, tail, next>>
      BY <2>3 DEF MarkDone, Set, listVars
    <3>2. job[s] # NoJob /\ assigned[s] = NoJob
      BY <1>0, <3>1 DEF WorkerInv, Running
    <3>3. Waiting' = Waiting
      BY <3>1 DEF Waiting, QueueLength, Queued, QueuedAt
    <3>4. RunningJob[s] # NoJob /\ RunningJob' = [RunningJob EXCEPT ![s] = NoJob]
      BY <1>0, <3>1, <3>2 DEF RunningJob, TypeOK
    <3>5. Service!Finish(s)
      BY <3>1, <3>3, <3>4, IsFinish
    <3> QED
      BY <3>5 DEF Service!ServiceNext
  <2>4. CASE UNCHANGED <<stopping, head, tail, next, assigned, job>>
    BY <1>1, <2>4
  <2> QED
    BY <1>6, <2>1, <2>2, <2>3, <2>4 DEF WorkerStep, WaitForWork, ExitWorker, MatchSession,
       PrefillJob, FinishJob, Respond, Release, Released, listVars, workVars
<1> QED
  BY <1>3, <1>4, <1>5, <1>6 DEF Next

(* The linked list, the dispatcher and the workers do what the plain service does:
   jobs wait in the order of arrival, one slot runs one job at a time, none is
   accepted after the stop and none is dropped.  (ds4_server.c 12488-12650) *)
THEOREM QueueRefines == Spec => QueueIsService
<1>1. Inv /\ [Next]_vars => [Service!ServiceNext]_(Service!serviceVars)
  <2>1. UNCHANGED vars => UNCHANGED Service!serviceVars
    <3> SUFFICES ASSUME UNCHANGED vars PROVE UNCHANGED Service!serviceVars
      OBVIOUS
    <3>1. UNCHANGED <<stopping, head, tail, next, assigned, job>>
      BY DEF vars, listVars, workVars
    <3> QED
      BY <3>1, ServiceStutters DEF RunningJob
  <2> QED
    BY <2>1, ServiceStep
<1> QED
  BY <1>1, ServiceInitially, InvHolds, PTL DEF Spec, QueueIsService, Service!ServiceSafety

=============================================================================
