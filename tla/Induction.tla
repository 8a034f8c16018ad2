------------------------------ MODULE Induction ------------------------------
(***************************************************************************)
(* Facts that the proofs about loops and tables rest on, whatever the      *)
(* program: induction over the natural numbers without a predicate as a    *)
(* parameter (a set of numbers stands for it), functions defined by        *)
(* recursion over an interval and over the subsets of a finite set, loops  *)
(* that come to an end, sums, sequences as sets of their elements, and     *)
(* sequences of elements of any kind.                                      *)
(***************************************************************************)
EXTENDS Integers, Sequences, FiniteSets, Functions, SequencesExt, FiniteSetTheorems, SequenceTheorems,
        TLAPS

-----------------------------------------------------------------------------
(* Induction.                                                              *)

\* A set of natural numbers that is not empty has a least element: of the
\* intervals from 0 to an element, one has none of the others within it.
LEMMA LeastElement ==
    ASSUME NEW T \in SUBSET Nat, T # {}
    PROVE  \E m \in T : \A k \in T : m <= k
<1> DEFINE F == {0..n : n \in T}
           R == StrictSubsetOrdering(Nat)
<1>1. F \subseteq FiniteSubsetsOf(Nat)
  <2> SUFFICES ASSUME NEW n \in Nat PROVE 0..n \in SUBSET Nat /\ IsFiniteSet(0..n)
      BY DEF FiniteSubsetsOf
  <2>1. IsFiniteSet(0..n)
      BY FS_Interval
  <2> QED
      BY <2>1
<1>2. IsWellFoundedOn(R, FiniteSubsetsOf(Nat))
    BY FS_StrictSubsetOrderingWellFounded
<1>3. F # {}
    OBVIOUS
<1>4. PICK X \in F : \A Y \in F : <<Y, X>> \notin R
  <2> HIDE DEF F, R
  <2> QED
      BY <1>1, <1>2, <1>3, WFMin
<1>5. PICK m \in T : X = 0..m
    OBVIOUS
<1>6. ASSUME NEW k \in T, k < m PROVE FALSE
  <2>1. 0..k \in F /\ 0..k \subseteq X /\ m \in X /\ m \notin 0..k
      BY <1>5, <1>6
  <2>2. X \in SUBSET Nat /\ 0..k \in SUBSET Nat
      BY <1>5
  <2>3. <<0..k, X>> \in R
      BY <2>1, <2>2 DEF StrictSubsetOrdering
  <2> QED
      BY <1>4, <2>1, <2>3
<1> QED
    BY <1>6

LEMMA NatSetInduction ==
    ASSUME NEW S, 0 \in S, \A n \in Nat : n \in S => n + 1 \in S
    PROVE  \A n \in Nat : n \in S
<1> SUFFICES ASSUME Nat \ S # {} PROVE FALSE
    OBVIOUS
<1>1. PICK m \in Nat \ S : \A k \in Nat \ S : m <= k
    BY LeastElement
<1>2. m - 1 \in Nat \ S
    OBVIOUS
<1> QED
    BY <1>1, <1>2

LEMMA MinLeast ==
    ASSUME NEW T \in SUBSET Nat, T # {}
    PROVE  Min(T) \in T /\ \A k \in T : Min(T) <= k
<1>1. \E m \in T : \A k \in T : m <= k
    BY LeastElement
<1> QED
    BY <1>1 DEF Min

LEMMA MaxGreatest ==
    ASSUME NEW n \in Nat, NEW s \in SUBSET (0..n), s # {}
    PROVE  Max(s) \in s /\ \A k \in s : k <= Max(s)
<1> DEFINE S == {n - k : k \in s}
<1>1. S \in SUBSET Nat /\ S # {}
  <2>1. \A k \in s : k \in 0..n /\ n - k \in Nat
      OBVIOUS
  <2>2. S \in SUBSET Nat
      BY <2>1
  <2>3. PICK k \in s : TRUE
      OBVIOUS
  <2>4. n - k \in S
      OBVIOUS
  <2> QED
      BY <2>2, <2>4
<1>2. PICK m \in S : \A k \in S : m <= k
  <2> HIDE DEF S
  <2> QED
      BY <1>1, LeastElement
<1>3. PICK k \in s : m = n - k
    OBVIOUS
<1>4. \A j \in s : n - j \in S /\ j \in Int /\ k \in Int
    OBVIOUS
<1>5. \A j \in s : k >= j
    BY <1>2, <1>3, <1>4
<1>6. Max(s) \in s /\ \A j \in s : Max(s) >= j
    BY <1>5 DEF Max
<1> QED
    BY <1>6

\* f is defined over 0..N by recursion from e with the steps g.
Solves(f, N, V, e, g) ==
    /\ f \in [0..N -> V] /\ f[0] = e
    /\ \A n \in 1..N : f[n] = g[<<n, f[n - 1]>>]

LEMMA Recursion ==
    ASSUME NEW N \in Nat, NEW V, NEW e \in V, NEW g \in [Nat \X V -> V]
    PROVE  \E f : Solves(f, N, V, e, g)
<1> DEFINE S == {M \in Nat : \E f : Solves(f, M, V, e, g)}
<1>1. 0 \in S
  <2>1. Solves([n \in 0..0 |-> e], 0, V, e, g)
      BY DEF Solves
  <2> QED
      BY <2>1
<1>2. ASSUME NEW M \in Nat, M \in S PROVE M + 1 \in S
  <2>1. PICK f : Solves(f, M, V, e, g)
      BY <1>2
  <2> DEFINE h == [n \in 0..M + 1 |-> IF n = M + 1 THEN g[<<M + 1, f[M]>>] ELSE f[n]]
  <2>2. h \in [0..M + 1 -> V] /\ h[0] = e
      BY <2>1 DEF Solves
  <2>3. \A n \in 1..M + 1 : h[n] = g[<<n, h[n - 1]>>]
    <3>1. h[M] = f[M]
        OBVIOUS
    <3>2. h[M + 1] = g[<<M + 1, f[M]>>]
      <4>1. M + 1 \in 0..M + 1
          OBVIOUS
      <4> QED
          BY <4>1
    <3>3. h[M + 1] = g[<<M + 1, h[(M + 1) - 1]>>]
      <4>1. (M + 1) - 1 = M
          OBVIOUS
      <4> HIDE DEF h
      <4> QED
          BY <3>1, <3>2, <4>1
    <3>4. \A n \in 1..M : h[n] = f[n] /\ h[n - 1] = f[n - 1]
        OBVIOUS
    <3>5. \A n \in 1..M + 1 : n = M + 1 \/ n \in 1..M
        OBVIOUS
    <3> HIDE DEF h
    <3> QED
        BY <2>1, <3>3, <3>4, <3>5 DEF Solves
  <2> HIDE DEF h
  <2> QED
      BY <2>2, <2>3 DEF Solves
<1>3. N \in S
  <2> HIDE DEF S
  <2> QED
      BY <1>1, <1>2, NatSetInduction
<1> QED
    BY <1>3

\* f is the result of a loop: where it stops, the one there, else that of the next place.
Loops(f, D, stop, out, next) ==
    \A s \in D : f[s] = IF s \in stop THEN out[s] ELSE f[next[s]]

\* A loop in which a number below N becomes smaller has a result.
LEMMA LoopRecursion ==
    ASSUME NEW D, NEW V, NEW v \in V, NEW stop, NEW out, NEW next, NEW mu, NEW N \in Nat,
           \A s \in D : mu[s] \in Nat /\ mu[s] < N,
           \A s \in D : s \in stop => out[s] \in V,
           \A s \in D : s \notin stop => next[s] \in D /\ mu[next[s]] < mu[s]
    PROVE  \E f \in [D -> V] : Loops(f, D, stop, out, next)
<1> DEFINE Upto(f, n) == \A s \in D : mu[s] < n =>
                            f[s] = IF s \in stop THEN out[s] ELSE f[next[s]]
           S == {n \in Nat : \E f \in [D -> V] : Upto(f, n)}
<1>1. 0 \in S
  <2>1. Upto([s \in D |-> v], 0)
      OBVIOUS
  <2> HIDE DEF Upto
  <2> QED
      BY <2>1
<1>2. ASSUME NEW n \in Nat, n \in S PROVE n + 1 \in S
  <2>1. PICK f \in [D -> V] : Upto(f, n)
      BY <1>2
  <2> DEFINE h == [s \in D |-> IF mu[s] = n THEN IF s \in stop THEN out[s] ELSE f[next[s]]
                               ELSE f[s]]
  <2>2. h \in [D -> V]
      OBVIOUS
  <2>3. ASSUME NEW s \in D, mu[s] < n + 1
        PROVE  h[s] = IF s \in stop THEN out[s] ELSE h[next[s]]
    <3>1. s \notin stop => next[s] \in D /\ mu[next[s]] \in Nat /\ mu[next[s]] < n
        BY <2>3
    <3>2. s \notin stop => h[next[s]] = f[next[s]]
        BY <3>1
    <3>3. CASE mu[s] = n
      <4>1. h[s] = IF s \in stop THEN out[s] ELSE f[next[s]]
          BY <3>3
      <4> HIDE DEF h
      <4> QED
          BY <3>2, <4>1
    <3>4. CASE mu[s] # n
      <4>1. mu[s] < n /\ h[s] = f[s]
          BY <2>3, <3>4
      <4>2. f[s] = IF s \in stop THEN out[s] ELSE f[next[s]]
          BY <2>1, <4>1
      <4> HIDE DEF h
      <4> QED
          BY <3>2, <4>1, <4>2
    <3> QED
        BY <3>3, <3>4
  <2> HIDE DEF h
  <2>4. Upto(h, n + 1)
      BY <2>3
  <2> HIDE DEF Upto
  <2> QED
      BY <2>2, <2>4
<1>3. N \in S
  <2> HIDE DEF S
  <2> QED
      BY <1>1, <1>2, NatSetInduction
<1>4. PICK f \in [D -> V] : Upto(f, N)
    BY <1>3
<1>5. Loops(f, D, stop, out, next)
    BY <1>4 DEF Loops
<1> QED
    BY <1>5

\* Q holds on the way, and makes the result good where the loop stops.
Keeps(D, stop, out, next, mu, Q, G) ==
    /\ Q \subseteq D
    /\ \A s \in Q : mu[s] \in Nat
    /\ \A s \in Q : s \in stop => out[s] \in G
    /\ \A s \in Q : s \notin stop => next[s] \in Q /\ mu[next[s]] < mu[s]

\* Then it makes the result good from the start.
LEMMA LoopInvariant ==
    ASSUME NEW D, NEW stop, NEW out, NEW next, NEW mu, NEW f, Loops(f, D, stop, out, next),
           NEW Q, NEW G, Keeps(D, stop, out, next, mu, Q, G)
    PROVE  \A s \in Q : f[s] \in G
<1> DEFINE S == {n \in Nat : \A s \in Q : mu[s] < n => f[s] \in G}
<1>1. 0 \in S
    BY DEF Keeps
<1>2. ASSUME NEW n \in Nat, n \in S PROVE n + 1 \in S
  <2> SUFFICES ASSUME NEW s \in Q, mu[s] < n + 1 PROVE f[s] \in G
      OBVIOUS
  <2>1. f[s] = IF s \in stop THEN out[s] ELSE f[next[s]]
      BY DEF Loops, Keeps
  <2>2. CASE s \in stop
      BY <2>1, <2>2 DEF Keeps
  <2>3. CASE s \notin stop
    <3>1. next[s] \in Q /\ mu[next[s]] < n
      <4>1. next[s] \in Q /\ mu[next[s]] \in Nat /\ mu[s] \in Nat /\ mu[next[s]] < mu[s]
          BY <2>3 DEF Keeps
      <4> QED
          BY <4>1
    <3>2. f[next[s]] \in G
        BY <1>2, <3>1
    <3> QED
        BY <2>1, <2>3, <3>2
  <2> QED
      BY <2>2, <2>3
<1>3. \A n \in Nat : n \in S
  <2> HIDE DEF S
  <2> QED
      BY <1>1, <1>2, NatSetInduction
<1> SUFFICES ASSUME NEW s \in Q PROVE f[s] \in G
    OBVIOUS
<1>4. mu[s] + 1 \in S /\ mu[s] < mu[s] + 1
    BY <1>3 DEF Keeps
<1> QED
    BY <1>4

-----------------------------------------------------------------------------
(* Sequences.                                                              *)

LEMMA AppendFacts ==
    ASSUME NEW S, NEW s \in Seq(S), NEW e \in S
    PROVE  /\ Append(s, e) \in Seq(S) /\ Len(Append(s, e)) = Len(s) + 1
           /\ \A i \in 1..Len(s) : Append(s, e)[i] = s[i]
           /\ Append(s, e)[Len(s) + 1] = e
           /\ ToSet(Append(s, e)) = ToSet(s) \cup {e}
<1>1. /\ Append(s, e) \in Seq(S) /\ Len(Append(s, e)) = Len(s) + 1
      /\ \A i \in 1..Len(s) : Append(s, e)[i] = s[i]
      /\ Append(s, e)[Len(s) + 1] = e
      /\ DOMAIN Append(s, e) = 1..Len(s) + 1 /\ DOMAIN s = 1..Len(s)
    OBVIOUS
<1>2. \A i \in 1..Len(s) + 1 : i \in 1..Len(s) \/ i = Len(s) + 1
    OBVIOUS
<1>3. 1..Len(s) \subseteq 1..Len(s) + 1 /\ Len(s) + 1 \in 1..Len(s) + 1
    OBVIOUS
<1>4. ToSet(Append(s, e)) = ToSet(s) \cup {e}
    BY <1>1, <1>2, <1>3 DEF ToSet
<1> QED
    BY <1>1, <1>4

LEMMA InjectiveAppend ==
    ASSUME NEW S, NEW s \in Seq(S), NEW e \in S, IsInjective(s), e \notin ToSet(s)
    PROVE  IsInjective(Append(s, e))
<1>1. /\ DOMAIN Append(s, e) = 1..Len(s) + 1 /\ DOMAIN s = 1..Len(s)
      /\ \A i \in 1..Len(s) : Append(s, e)[i] = s[i] /\ s[i] # e
      /\ Append(s, e)[Len(s) + 1] = e
    BY DEF ToSet
<1>2. \A i \in 1..Len(s) + 1 : i \in 1..Len(s) \/ i = Len(s) + 1
    OBVIOUS
<1> QED
    BY <1>1, <1>2 DEF IsInjective

\* Without one of its elements, a sequence has the others.
LEMMA RemoveFirstFacts ==
    ASSUME NEW S, NEW s \in Seq(S), NEW h \in ToSet(s), IsInjective(s)
    PROVE  /\ RemoveFirst(s, h) \in Seq(S) /\ IsInjective(RemoveFirst(s, h))
           /\ ToSet(RemoveFirst(s, h)) = ToSet(s) \ {h}
<1> DEFINE I == {i \in 1..Len(s) : s[i] = h}
           i == Min(I)
           r == SubSeq(s, 1, i - 1) \o SubSeq(s, i + 1, Len(s))
<1>1. Len(s) \in Nat /\ DOMAIN s = 1..Len(s) /\ I \in SUBSET Nat /\ I # {}
    BY DEF ToSet
<1>2. i \in 1..Len(s) /\ s[i] = h
  <2>1. i \in I
    <3> HIDE DEF I
    <3> QED
        BY <1>1, MinLeast
  <2> QED
      BY <2>1
<1>3. RemoveFirst(s, h) = r
    BY <1>1 DEF RemoveFirst, RemoveAt, SelectInSeq
<1> HIDE DEF i, I
<1>4. /\ r \in Seq(S) /\ Len(r) = Len(s) - 1 /\ DOMAIN r = 1..Len(s) - 1
      /\ \A k \in 1..Len(s) - 1 : r[k] = IF k < i THEN s[k] ELSE s[k + 1]
  <2> DEFINE a == SubSeq(s, 1, i - 1)
             b == SubSeq(s, i + 1, Len(s))
  <2>1. /\ a \in Seq(S) /\ Len(a) = i - 1
        /\ \A k \in 1..i - 1 : a[k] = s[k]
      BY <1>1, <1>2
  <2>2. /\ b \in Seq(S) /\ Len(b) = Len(s) - i
        /\ \A k \in 1..Len(s) - i : b[k] = s[k + i]
    <3>1. i + 1 \in Int /\ Len(s) \in Int /\ \A k \in i + 1..Len(s) : s[k] \in S
        BY <1>1, <1>2
    <3>2. /\ b \in Seq(S) /\ Len(b) = IF i + 1 <= Len(s) THEN Len(s) - (i + 1) + 1 ELSE 0
          /\ \A k \in 1..Len(s) - (i + 1) + 1 : b[k] = s[i + 1 + k - 1]
        BY <3>1, SubSeqProperties
    <3>3. /\ Len(s) - (i + 1) + 1 = Len(s) - i /\ i <= Len(s)
          /\ \A k \in Nat : i + 1 + k - 1 = k + i
        BY <1>1, <1>2
    <3> HIDE DEF b
    <3>4. Len(b) = Len(s) - i
      <4>1. i \in Nat /\ Len(s) \in Nat /\ i <= Len(s)
          BY <1>1, <1>2
      <4> HIDE DEF r
      <4> QED
          BY <3>2, <4>1
    <3>5. \A k \in 1..Len(s) - i : k \in Nat /\ b[k] = s[i + 1 + k - 1]
        BY <3>2, <3>3
    <3> QED
        BY <3>2, <3>3, <3>4, <3>5
  <2>3. r = a \o b
      OBVIOUS
  <2> HIDE DEF a, b, r
  <2>4. /\ r \in Seq(S) /\ Len(r) = Len(a) + Len(b) /\ DOMAIN r = 1..Len(a) + Len(b)
        /\ \A k \in 1..Len(a) + Len(b) : r[k] = IF k <= Len(a) THEN a[k] ELSE b[k - Len(a)]
    <3>1. /\ a \o b \in Seq(S) /\ Len(a \o b) = Len(a) + Len(b)
          /\ \A k \in 1..Len(a) + Len(b) :
                (a \o b)[k] = IF k <= Len(a) THEN a[k] ELSE b[k - Len(a)]
        BY <2>1, <2>2, ConcatProperties
    <3>2. DOMAIN r = 1..Len(r)
        BY <2>3, <3>1
    <3> QED
        BY <2>3, <3>1, <3>2
  <2>5. Len(a) + Len(b) = Len(s) - 1
      BY <1>1, <1>2, <2>1, <2>2
  <2>6. ASSUME NEW k \in 1..Len(s) - 1 PROVE r[k] = IF k < i THEN s[k] ELSE s[k + 1]
    <3>1. CASE k < i
        BY <1>1, <1>2, <2>1, <2>4, <2>5, <3>1
    <3>2. CASE ~(k < i)
      <4>1. k - (i - 1) \in 1..Len(s) - i /\ (k - (i - 1)) + i = k + 1 /\ ~(k <= Len(a))
          BY <1>1, <1>2, <2>1, <3>2
      <4>2. r[k] = b[k - (i - 1)]
          BY <2>1, <2>4, <2>5, <4>1
      <4> QED
          BY <2>2, <3>2, <4>1, <4>2
    <3> QED
        BY <3>1, <3>2
  <2> QED
      BY <2>4, <2>5, <2>6
<1> HIDE DEF r
<1>5. IsInjective(r)
  <2> SUFFICES ASSUME NEW k \in 1..Len(s) - 1, NEW m \in 1..Len(s) - 1, r[k] = r[m]
               PROVE  k = m
      BY <1>4 DEF IsInjective
  <2>1. /\ k \in DOMAIN s /\ k + 1 \in DOMAIN s
        /\ m \in DOMAIN s /\ m + 1 \in DOMAIN s
      BY <1>1
  <2> QED
      BY <1>2, <1>4, <2>1 DEF IsInjective
<1>6. ASSUME NEW k \in 1..Len(s) - 1 PROVE r[k] \in ToSet(s) \ {h}
  <2>1. k \in DOMAIN s /\ k + 1 \in DOMAIN s /\ i \in DOMAIN s
      BY <1>1, <1>2
  <2>2. k < i => s[k] # s[i]
      BY <1>2, <2>1 DEF IsInjective
  <2>3. ~(k < i) => s[k + 1] # s[i]
      BY <1>2, <2>1 DEF IsInjective
  <2> QED
      BY <1>2, <1>4, <2>1, <2>2, <2>3 DEF ToSet
<1>7. ASSUME NEW x \in ToSet(s) \ {h} PROVE \E k \in 1..Len(s) - 1 : r[k] = x
  <2>1. PICK j \in 1..Len(s) : s[j] = x /\ j # i
      BY <1>1, <1>2 DEF ToSet
  <2>2. CASE j < i
      BY <1>2, <1>4, <2>1, <2>2
  <2>3. CASE j > i
    <3>1. j - 1 \in 1..Len(s) - 1 /\ ~(j - 1 < i) /\ (j - 1) + 1 = j
        BY <1>1, <1>2, <2>3
    <3> QED
        BY <1>4, <2>1, <3>1
  <2> QED
      BY <1>2, <2>1, <2>2, <2>3
<1>8. ToSet(r) = ToSet(s) \ {h}
  <2>1. \A x \in ToSet(r) : \E k \in 1..Len(s) - 1 : x = r[k]
      BY <1>4 DEF ToSet
  <2>2. \A k \in 1..Len(s) - 1 : r[k] \in ToSet(r)
      BY <1>4 DEF ToSet
  <2>3. ToSet(r) \subseteq ToSet(s) \ {h}
      BY <1>6, <2>1
  <2>4. ToSet(s) \ {h} \subseteq ToSet(r)
      BY <1>7, <2>2
  <2> QED
      BY <2>3, <2>4
<1> QED
    BY <1>3, <1>4, <1>5, <1>8

-----------------------------------------------------------------------------
(* Finite sets: recursion from a set to the set without one of its         *)
(* elements, which the folds of the community modules are defined by.      *)

LEMMA CardinalityLess ==
    ASSUME NEW S, IsFiniteSet(S), NEW x \in S
    PROVE  /\ IsFiniteSet(S \ {x}) /\ Cardinality(S) \in Nat
           /\ Cardinality(S \ {x}) = Cardinality(S) - 1 /\ Cardinality(S) > 0
<1>1. IsFiniteSet(S \ {x}) /\ Cardinality(S \ {x}) = Cardinality(S) - 1
    BY FS_RemoveElement
<1>2. Cardinality(S) \in Nat /\ Cardinality(S \ {x}) \in Nat
    BY <1>1, FS_CardinalityType
<1> QED
    BY <1>1, <1>2

\* f is defined over the subsets of D by recursion from e, taking away c[s] from s.
SolvesOn(f, D, V, e, c, g) ==
    /\ f \in [SUBSET D -> V] /\ f[{}] = e
    /\ \A s \in SUBSET D : s # {} => f[s] = g[<<s, f[s \ {c[s]}]>>]

LEMMA SetRecursion ==
    ASSUME NEW D, IsFiniteSet(D), NEW V, NEW e \in V, NEW g \in [(SUBSET D) \X V -> V],
           NEW c, \A s \in SUBSET D : s # {} => c[s] \in s
    PROVE  \E f : SolvesOn(f, D, V, e, c, g)
<1> DEFINE Upto(f, n) == /\ f \in [SUBSET D -> V] /\ f[{}] = e
                         /\ \A s \in SUBSET D : s # {} /\ Cardinality(s) <= n
                                => f[s] = g[<<s, f[s \ {c[s]}]>>]
           S == {n \in Nat : \E f : Upto(f, n)}
<1>1. ASSUME NEW s \in SUBSET D
      PROVE  /\ IsFiniteSet(s) /\ Cardinality(s) \in Nat /\ Cardinality(s) <= Cardinality(D)
             /\ Cardinality(D) \in Nat
             /\ s # {} => Cardinality(s \ {c[s]}) = Cardinality(s) - 1 /\ Cardinality(s) > 0
  <2>1. IsFiniteSet(s) /\ Cardinality(s) <= Cardinality(D)
      BY FS_Subset
  <2>2. Cardinality(s) \in Nat /\ Cardinality(D) \in Nat
      BY <2>1, FS_CardinalityType
  <2> QED
      BY <2>1, <2>2, CardinalityLess
<1>2. 0 \in S
  <2>1. \A s \in SUBSET D : s # {} => ~(Cardinality(s) <= 0)
    <3>1. ASSUME NEW s \in SUBSET D, s # {} PROVE Cardinality(s) > 0 /\ Cardinality(s) \in Nat
        BY <1>1, <3>1
    <3> QED
        BY <3>1
  <2>2. Upto([s \in SUBSET D |-> e], 0)
      BY <2>1
  <2> HIDE DEF Upto
  <2> QED
      BY <2>2
<1>3. ASSUME NEW n \in Nat, n \in S PROVE n + 1 \in S
  <2>1. PICK f : Upto(f, n)
      BY <1>3
  <2> DEFINE h == [s \in SUBSET D |-> IF Cardinality(s) = n + 1
                                      THEN g[<<s, f[s \ {c[s]}]>>] ELSE f[s]]
  <2>2. h \in [SUBSET D -> V] /\ h[{}] = e
    <3>1. Cardinality({}) = 0 /\ {} \in SUBSET D
        BY FS_EmptySet
    <3>2. \A s \in SUBSET D : f[s] \in V
        BY <2>1
    <3>3. \A s \in SUBSET D : s \ {c[s]} \in SUBSET D /\ <<s, f[s \ {c[s]}]>> \in (SUBSET D) \X V
        BY <3>2
    <3>4. \A s \in SUBSET D : g[<<s, f[s \ {c[s]}]>>] \in V
        BY <3>3
    <3> QED
        BY <2>1, <3>1, <3>2, <3>4
  <2>3. ASSUME NEW s \in SUBSET D, s # {}, Cardinality(s) <= n + 1
        PROVE  h[s] = g[<<s, h[s \ {c[s]}]>>]
    <3>1. h[s \ {c[s]}] = f[s \ {c[s]}]
      <4>1. /\ Cardinality(s) \in Nat /\ Cardinality(s \ {c[s]}) = Cardinality(s) - 1
            /\ s \ {c[s]} \in SUBSET D
          BY <1>1, <2>3
      <4>2. Cardinality(s \ {c[s]}) # n + 1
          BY <2>3, <4>1
      <4> QED
          BY <4>1, <4>2
    <3>2. CASE Cardinality(s) = n + 1
      <4>1. h[s] = g[<<s, f[s \ {c[s]}]>>]
          BY <3>2
      <4> HIDE DEF h
      <4> QED
          BY <3>1, <4>1
    <3>3. CASE Cardinality(s) # n + 1
      <4>1. Cardinality(s) <= n
        <5>1. Cardinality(s) \in Nat
            BY <1>1
        <5> QED
            BY <2>3, <3>3, <5>1
      <4>2. f[s] = g[<<s, f[s \ {c[s]}]>>]
          BY <2>1, <2>3, <4>1
      <4>3. h[s] = f[s]
          BY <3>3
      <4> HIDE DEF h
      <4> QED
          BY <3>1, <4>2, <4>3
    <3> QED
        BY <3>2, <3>3
  <2> HIDE DEF h
  <2>4. Upto(h, n + 1)
      BY <2>2, <2>3
  <2> HIDE DEF Upto
  <2> QED
      BY <2>4
<1>4. Cardinality(D) \in S
  <2>1. Cardinality(D) \in Nat
      BY FS_CardinalityType
  <2> HIDE DEF S
  <2> QED
      BY <1>2, <1>3, <2>1, NatSetInduction
<1>5. PICK f : Upto(f, Cardinality(D))
    BY <1>4
<1>6. SolvesOn(f, D, V, e, c, g)
    BY <1>1, <1>5 DEF SolvesOn
<1> QED
    BY <1>6

-----------------------------------------------------------------------------
(* Sums: SumFunctionOnSet of the module Functions, which takes away an     *)
(* arbitrary element in every step.                                        *)

IsSum(f, S, w) ==
    f = [s \in SUBSET S |->
            IF s = {} THEN 0
            ELSE w[CHOOSE x \in s : TRUE] + f[s \ {CHOOSE x \in s : TRUE}]]

LEMMA SumExists ==
    ASSUME NEW S, IsFiniteSet(S), NEW w, \A x \in S : w[x] \in Nat
    PROVE  \E f : IsSum(f, S, w) /\ f \in [SUBSET S -> Nat]
<1> DEFINE c == [s \in SUBSET S |-> CHOOSE x \in s : TRUE]
           g == [p \in (SUBSET S) \X Nat |-> IF p[1] = {} THEN 0 ELSE w[c[p[1]]] + p[2]]
<1>1. \A s \in SUBSET S : s # {} => c[s] \in s /\ c[s] = CHOOSE x \in s : TRUE
    OBVIOUS
<1> HIDE DEF c
<1>2. g \in [(SUBSET S) \X Nat -> Nat]
  <2> SUFFICES ASSUME NEW p \in (SUBSET S) \X Nat
               PROVE  (IF p[1] = {} THEN 0 ELSE w[c[p[1]]] + p[2]) \in Nat
      OBVIOUS
  <2>1. p[1] \in SUBSET S /\ p[2] \in Nat
      OBVIOUS
  <2> QED
      BY <1>1, <2>1
<1>3. PICK f : SolvesOn(f, S, Nat, 0, c, g)
  <2>1. 0 \in Nat /\ \A s \in SUBSET S : s # {} => c[s] \in s
      BY <1>1
  <2> HIDE DEF g
  <2> QED
      BY <1>2, <2>1, SetRecursion
<1>4. ASSUME NEW s \in SUBSET S, s # {}
      PROVE  f[s] = w[CHOOSE x \in s : TRUE] + f[s \ {CHOOSE x \in s : TRUE}]
  <2>1. f[s] = g[<<s, f[s \ {c[s]}]>>]
      BY <1>3, <1>4 DEF SolvesOn
  <2>2. <<s, f[s \ {c[s]}]>> \in (SUBSET S) \X Nat
      BY <1>3 DEF SolvesOn
  <2>3. g[<<s, f[s \ {c[s]}]>>] = w[c[s]] + f[s \ {c[s]}]
      BY <1>4, <2>2
  <2> QED
      BY <1>1, <1>4, <2>1, <2>3
<1>5. f \in [SUBSET S -> Nat] /\ f[{}] = 0
    BY <1>3 DEF SolvesOn
<1>6. IsSum(f, S, w)
    BY <1>4, <1>5 DEF IsSum
<1> QED
    BY <1>5, <1>6

\* What a sum is depends on the weights of the set alone.
LEMMA SumUnique ==
    ASSUME NEW S, NEW R, NEW w, NEW v, NEW f, NEW h, IsSum(f, S, w), IsSum(h, R, v),
           NEW s, IsFiniteSet(s), s \subseteq S, s \subseteq R, \A x \in s : w[x] = v[x]
    PROVE  f[s] = h[s]
<1> DEFINE N == {n \in Nat : \A t \in SUBSET s : Cardinality(t) = n => f[t] = h[t]}
<1>1. \A t \in SUBSET s : /\ IsFiniteSet(t) /\ Cardinality(t) \in Nat
                          /\ t \in SUBSET S /\ t \in SUBSET R
    BY FS_Subset, FS_CardinalityType
<1>2. 0 \in N
  <2> SUFFICES ASSUME NEW t \in SUBSET s, Cardinality(t) = 0 PROVE f[t] = h[t]
      OBVIOUS
  <2>1. t = {}
      BY <1>1, FS_EmptySet
  <2> QED
      BY <1>1, <2>1 DEF IsSum
<1>3. ASSUME NEW n \in Nat, n \in N PROVE n + 1 \in N
  <2> SUFFICES ASSUME NEW t \in SUBSET s, Cardinality(t) = n + 1 PROVE f[t] = h[t]
      OBVIOUS
  <2> DEFINE y == CHOOSE x \in t : TRUE
  <2>1. t # {}
      BY FS_EmptySet
  <2>2. y \in t
      BY <2>1
  <2> HIDE DEF y
  <2>3. Cardinality(t \ {y}) = n
      BY <1>1, <2>2, CardinalityLess
  <2>4. f[t \ {y}] = h[t \ {y}]
      BY <1>3, <2>3
  <2>5. f[t] = w[y] + f[t \ {y}] /\ h[t] = v[y] + h[t \ {y}]
      BY <1>1, <2>1 DEF IsSum, y
  <2> QED
      BY <2>2, <2>4, <2>5
<1>4. Cardinality(s) \in N
  <2>1. Cardinality(s) \in Nat
      BY <1>1
  <2> HIDE DEF N
  <2> QED
      BY <1>2, <1>3, <2>1, NatSetInduction
<1> QED
    BY <1>4

\* Any element may be taken away first.
LEMMA SumSplit ==
    ASSUME NEW S, IsFiniteSet(S), NEW w, \A x \in S : w[x] \in Nat,
           NEW f \in [SUBSET S -> Nat], IsSum(f, S, w), NEW a \in S
    PROVE  f[S] = w[a] + f[S \ {a}]
<1> DEFINE N == {n \in Nat : \A t \in SUBSET S : \A b \in t :
                                Cardinality(t) = n => f[t] = w[b] + f[t \ {b}]}
<1>1. \A t \in SUBSET S : IsFiniteSet(t) /\ Cardinality(t) \in Nat
    BY FS_Subset, FS_CardinalityType
<1>2. 0 \in N
  <2>1. ASSUME NEW t \in SUBSET S, NEW b \in t PROVE Cardinality(t) # 0
    <3>1. Cardinality(t) \in Nat /\ Cardinality(t) > 0
        BY <1>1, CardinalityLess
    <3> QED
        BY <3>1
  <2> QED
      BY <2>1
<1>3. ASSUME NEW n \in Nat, n \in N PROVE n + 1 \in N
  <2> SUFFICES ASSUME NEW t \in SUBSET S, NEW b \in t, Cardinality(t) = n + 1
               PROVE  f[t] = w[b] + f[t \ {b}]
      OBVIOUS
  <2> DEFINE y == CHOOSE x \in t : TRUE
             z == CHOOSE x \in t \ {b} : TRUE
  <2>1. y \in t /\ f[t] = w[y] + f[t \ {y}]
      BY DEF IsSum
  <2> HIDE DEF y
  <2>2. CASE y = b
      BY <2>1, <2>2
  <2>3. CASE y # b
    <3>1. Cardinality(t \ {y}) = n /\ Cardinality(t \ {b}) = n
        BY <1>1, <2>1, CardinalityLess
    <3>2. f[t \ {y}] = w[b] + f[(t \ {y}) \ {b}]
        BY <1>3, <2>3, <3>1
    <3>3. f[t \ {b}] = w[y] + f[(t \ {b}) \ {y}]
        BY <1>3, <2>1, <2>3, <3>1
    <3>4. (t \ {y}) \ {b} = (t \ {b}) \ {y}
        OBVIOUS
    <3> DEFINE wb == w[b]
               wy == w[y]
               rest == f[(t \ {b}) \ {y}]
    <3>5. wb \in Nat /\ wy \in Nat /\ rest \in Nat
        BY <2>1
    <3>6. f[t] = wy + (wb + rest) /\ f[t \ {b}] = wy + rest
        BY <2>1, <3>2, <3>3, <3>4
    <3> HIDE DEF wb, wy, rest
    <3>7. f[t] = wb + f[t \ {b}]
        BY <3>5, <3>6
    <3> QED
        BY <3>7 DEF wb
  <2> QED
      BY <2>2, <2>3
<1>4. Cardinality(S) \in N
  <2>1. Cardinality(S) \in Nat
      BY <1>1
  <2> HIDE DEF N
  <2> QED
      BY <1>2, <1>3, <2>1, NatSetInduction
<1> QED
    BY <1>4

LEMMA SumFacts ==
    ASSUME NEW S, IsFiniteSet(S), NEW w, \A x \in S : w[x] \in Nat
    PROVE  /\ SumFunctionOnSet(w, S) \in Nat
           /\ S = {} => SumFunctionOnSet(w, S) = 0
           /\ \A a \in S : SumFunctionOnSet(w, S) = w[a] + SumFunctionOnSet(w, S \ {a})
           /\ \A v : (\A x \in S : v[x] = w[x]) => SumFunctionOnSet(v, S) = SumFunctionOnSet(w, S)
<1>1. ASSUME NEW R, IsFiniteSet(R), NEW v, \A x \in R : v[x] \in Nat
      PROVE  \E f : /\ IsSum(f, R, v) /\ f \in [SUBSET R -> Nat]
                    /\ SumFunctionOnSet(v, R) = f[R]
  <2> DEFINE F == CHOOSE f : IsSum(f, R, v)
  <2>1. IsSum(F, R, v)
      BY <1>1, SumExists
  <2>2. PICK f : IsSum(f, R, v) /\ f \in [SUBSET R -> Nat]
      BY <1>1, SumExists
  <2>3. F[R] = f[R]
    <3> HIDE DEF F
    <3> QED
        BY <1>1, <2>1, <2>2, SumUnique
  <2>4. SumFunctionOnSet(v, R) = F[R]
      BY DEF SumFunctionOnSet, FoldFunctionOnSet, MapThenFoldSet, IsSum
  <2> QED
      BY <2>2, <2>3, <2>4
<1>2. PICK f : IsSum(f, S, w) /\ f \in [SUBSET S -> Nat] /\ SumFunctionOnSet(w, S) = f[S]
    BY <1>1
<1>3. SumFunctionOnSet(w, S) \in Nat
    BY <1>2
<1>4. S = {} => SumFunctionOnSet(w, S) = 0
    BY <1>2 DEF IsSum
<1>5. ASSUME NEW a \in S
      PROVE  SumFunctionOnSet(w, S) = w[a] + SumFunctionOnSet(w, S \ {a})
  <2>1. IsFiniteSet(S \ {a})
      BY FS_Subset
  <2>2. PICK h : /\ IsSum(h, S \ {a}, w) /\ SumFunctionOnSet(w, S \ {a}) = h[S \ {a}]
      BY <1>1, <2>1
  <2>3. h[S \ {a}] = f[S \ {a}]
      BY <1>2, <2>1, <2>2, SumUnique
  <2>4. f[S] = w[a] + f[S \ {a}]
      BY <1>2, SumSplit
  <2> QED
      BY <1>2, <2>2, <2>3, <2>4
<1>6. ASSUME NEW v, \A x \in S : v[x] = w[x]
      PROVE  SumFunctionOnSet(v, S) = SumFunctionOnSet(w, S)
  <2>1. PICK h : IsSum(h, S, v) /\ SumFunctionOnSet(v, S) = h[S]
      BY <1>1, <1>6
  <2>2. h[S] = f[S]
      BY <1>2, <1>6, <2>1, SumUnique
  <2> QED
      BY <1>2, <2>1, <2>2
<1> QED
    BY <1>3, <1>4, <1>5, <1>6

\* Summed from the second element on, a sequence is its tail.
LEMMA SumOfTail ==
    ASSUME NEW n \in Nat, NEW w, \A k \in 1..n + 1 : w[k] \in Nat,
           NEW v, \A k \in 1..n : v[k] = w[k + 1]
    PROVE  SumFunctionOnSet(w, 1..n + 1) = w[1] + SumFunctionOnSet(v, 1..n)
<1> DEFINE P(m) == SumFunctionOnSet(w, 1..m + 1) = w[1] + SumFunctionOnSet(v, 1..m)
           S == {m \in Nat : m <= n => P(m)}
<1>1. \A m \in Nat : IsFiniteSet(1..m)
    BY FS_Interval
<1>2. 0 \in S
  <2>1. /\ SumFunctionOnSet(w, 1..1) = w[1] + SumFunctionOnSet(w, (1..1) \ {1})
    <3>1. \A k \in 1..1 : w[k] \in Nat
        OBVIOUS
    <3>2. 1 \in 1..1 /\ IsFiniteSet(1..1)
      <4>1. 1..1 = {1}
          OBVIOUS
      <4>2. IsFiniteSet({1})
          BY FS_Singleton
      <4> QED
          BY <4>1, <4>2
    <3> QED
        BY <3>1, <3>2, SumFacts
  <2>2. (1..1) \ {1} = {} /\ 1..0 = {}
      OBVIOUS
  <2>3. SumFunctionOnSet(w, {}) = 0 /\ SumFunctionOnSet(v, {}) = 0
    <3>1. IsFiniteSet({})
        BY FS_EmptySet
    <3> QED
        BY <3>1, SumFacts
  <2>4. w[1] \in Nat
      OBVIOUS
  <2>5. SumFunctionOnSet(w, 1..0 + 1) = w[1] + SumFunctionOnSet(v, 1..0)
    <3>1. 0 + 1 = 1
        OBVIOUS
    <3> QED
        BY <2>1, <2>2, <2>3, <2>4, <3>1
  <2> QED
      BY <2>5
<1>3. ASSUME NEW m \in Nat, m \in S PROVE m + 1 \in S
  <2> SUFFICES ASSUME m + 1 <= n PROVE P(m + 1)
      OBVIOUS
  <2>1. P(m)
      BY <1>3
  <2>2. /\ \A k \in 1..m + 2 : w[k] \in Nat /\ k \in 1..n + 1
        /\ \A k \in 1..m + 1 : v[k] = w[k + 1] /\ v[k] \in Nat
      OBVIOUS
  <2>3. SumFunctionOnSet(w, 1..m + 2) = w[m + 2] + SumFunctionOnSet(w, 1..m + 1)
    <3>1. m + 2 \in 1..m + 2 /\ (1..m + 2) \ {m + 2} = 1..m + 1 /\ IsFiniteSet(1..m + 2)
        BY <1>1
    <3>2. SumFunctionOnSet(w, 1..m + 2) = w[m + 2] + SumFunctionOnSet(w, (1..m + 2) \ {m + 2})
        BY <2>2, <3>1, SumFacts
    <3> QED
        BY <3>1, <3>2
  <2>4. SumFunctionOnSet(v, 1..m + 1) = v[m + 1] + SumFunctionOnSet(v, 1..m)
    <3>1. m + 1 \in 1..m + 1 /\ (1..m + 1) \ {m + 1} = 1..m /\ IsFiniteSet(1..m + 1)
        BY <1>1
    <3>2. SumFunctionOnSet(v, 1..m + 1) = v[m + 1] + SumFunctionOnSet(v, (1..m + 1) \ {m + 1})
        BY <2>2, <3>1, SumFacts
    <3> QED
        BY <3>1, <3>2
  <2>5. SumFunctionOnSet(v, 1..m) \in Nat
    <3>1. \A k \in 1..m : v[k] \in Nat
        BY <2>2
    <3> QED
        BY <1>1, <3>1, SumFacts
  <2>6. v[m + 1] = w[m + 2] /\ w[m + 2] \in Nat /\ w[1] \in Nat /\ m + 2 = (m + 1) + 1
      BY <2>2
  <2> QED
      BY <2>1, <2>3, <2>4, <2>5, <2>6
<1>4. n \in S
  <2> HIDE DEF S
  <2> QED
      BY <1>2, <1>3, NatSetInduction
<1> QED
    BY <1>4

-----------------------------------------------------------------------------
(* Sequences, whatever their elements are.                                 *)

IsSequence(s) == \E S : s \in Seq(S)

LEMMA SequenceFacts ==
    ASSUME NEW s, IsSequence(s)
    PROVE  /\ Len(s) \in Nat /\ DOMAIN s = 1..Len(s)
           /\ s = [i \in 1..Len(s) |-> s[i]] /\ s \in Seq(ToSet(s))
           /\ \A i \in 1..Len(s) : s[i] \in ToSet(s)
<1>1. PICK S : s \in Seq(S)
    BY DEF IsSequence
<1>2. Len(s) \in Nat /\ DOMAIN s = 1..Len(s) /\ s = [i \in 1..Len(s) |-> s[i]]
    BY <1>1
<1>3. \A i \in 1..Len(s) : s[i] \in ToSet(s)
    BY <1>2 DEF ToSet
<1>4. s \in Seq(ToSet(s))
    BY <1>2, <1>3
<1> QED
    BY <1>2, <1>3, <1>4

LEMMA Appended ==
    ASSUME NEW s, IsSequence(s), NEW e
    PROVE  /\ IsSequence(Append(s, e))
           /\ Len(s) \in Nat /\ DOMAIN s = 1..Len(s)
           /\ Len(Append(s, e)) = Len(s) + 1 /\ DOMAIN Append(s, e) = 1..Len(s) + 1
           /\ \A i \in 1..Len(s) : Append(s, e)[i] = s[i]
           /\ Append(s, e)[Len(s) + 1] = e
           /\ ToSet(Append(s, e)) = ToSet(s) \cup {e}
<1>1. PICK S : s \in Seq(S)
    BY DEF IsSequence
<1>2. PICK T : T = S \cup {e}
    OBVIOUS
<1>3. s \in Seq(T) /\ e \in T
    BY <1>1, <1>2
<1>4. /\ Append(s, e) \in Seq(T) /\ Len(Append(s, e)) = Len(s) + 1
      /\ \A i \in 1..Len(s) : Append(s, e)[i] = s[i]
      /\ Append(s, e)[Len(s) + 1] = e
      /\ ToSet(Append(s, e)) = ToSet(s) \cup {e}
    BY <1>3, AppendFacts
<1>5. Len(s) \in Nat /\ DOMAIN s = 1..Len(s) /\ DOMAIN Append(s, e) = 1..Len(s) + 1
    BY <1>3, <1>4
<1> QED
    BY <1>4, <1>5 DEF IsSequence

\* A function with the domain of a sequence is a sequence.
LEMMA SameDomain ==
    ASSUME NEW s, IsSequence(s), NEW t, t = [i \in DOMAIN s |-> t[i]]
    PROVE  IsSequence(t)
<1>1. Len(s) \in Nat /\ DOMAIN s = 1..Len(s)
    BY SequenceFacts
<1>2. PICK T : T = ToSet(t)
    OBVIOUS
<1>3. DOMAIN t = 1..Len(s) /\ \A i \in 1..Len(s) : t[i] \in T
    BY <1>1, <1>2 DEF ToSet
<1>4. t \in Seq(T)
  <2>1. t \in [1..Len(s) -> T]
      BY <1>1, <1>3
  <2> QED
      BY <1>1, <2>1
<1> QED
    BY <1>4 DEF IsSequence

LEMMA ConcatElements ==
    ASSUME NEW s, IsSequence(s), NEW t, IsSequence(t)
    PROVE  IsSequence(s \o t) /\ ToSet(s \o t) = ToSet(s) \cup ToSet(t)
<1>1. PICK S : S = ToSet(s) \cup ToSet(t)
    OBVIOUS
<1>2. s \in Seq(S) /\ t \in Seq(S)
  <2>1. s \in Seq(ToSet(s)) /\ t \in Seq(ToSet(t))
      BY SequenceFacts
  <2> QED
      BY <1>1, <2>1
<1>3. /\ s \o t \in Seq(S) /\ Len(s) \in Nat /\ Len(t) \in Nat
      /\ Len(s \o t) = Len(s) + Len(t)
      /\ DOMAIN s = 1..Len(s) /\ DOMAIN t = 1..Len(t) /\ DOMAIN (s \o t) = 1..Len(s) + Len(t)
    BY <1>2
<1>4. \A i \in 1..Len(s) : (s \o t)[i] = s[i] /\ i \in 1..Len(s) + Len(t)
    BY <1>2, <1>3
<1>5. \A i \in 1..Len(t) : (s \o t)[Len(s) + i] = t[i] /\ Len(s) + i \in 1..Len(s) + Len(t)
    BY <1>2, <1>3
<1>6. \A i \in 1..Len(s) + Len(t) :
         i \in 1..Len(s) \/ (i - Len(s) \in 1..Len(t) /\ Len(s) + (i - Len(s)) = i)
    BY <1>3
<1>7. ToSet(s \o t) \subseteq ToSet(s) \cup ToSet(t)
  <2> SUFFICES ASSUME NEW i \in 1..Len(s) + Len(t) PROVE (s \o t)[i] \in ToSet(s) \cup ToSet(t)
      BY <1>3 DEF ToSet
  <2>1. CASE i \in 1..Len(s)
      BY <1>3, <1>4, <2>1 DEF ToSet
  <2>2. CASE i - Len(s) \in 1..Len(t) /\ Len(s) + (i - Len(s)) = i
      BY <1>3, <1>5, <2>2 DEF ToSet
  <2> QED
      BY <1>6, <2>1, <2>2
<1>8. ToSet(s) \subseteq ToSet(s \o t) /\ ToSet(t) \subseteq ToSet(s \o t)
    BY <1>3, <1>4, <1>5 DEF ToSet
<1> QED
    BY <1>3, <1>7, <1>8 DEF IsSequence

LEMMA TailElements ==
    ASSUME NEW s, IsSequence(s), s # <<>>
    PROVE  IsSequence(Tail(s)) /\ ToSet(s) = {Head(s)} \cup ToSet(Tail(s))
<1>1. s \in Seq(ToSet(s)) /\ Len(s) \in Nat /\ Len(s) > 0
    BY SequenceFacts
<1>2. PICK S : S = ToSet(s)
    OBVIOUS
<1>3. /\ s \in Seq(S) /\ Tail(s) \in Seq(S) /\ Len(Tail(s)) = Len(s) - 1
      /\ DOMAIN s = 1..Len(s) /\ DOMAIN Tail(s) = 1..Len(s) - 1
      /\ Head(s) = s[1] /\ \A i \in 1..Len(s) - 1 : Tail(s)[i] = s[i + 1]
    BY <1>1, <1>2
<1>4. \A i \in 1..Len(s) : i = 1 \/ (i - 1 \in 1..Len(s) - 1 /\ (i - 1) + 1 = i)
    BY <1>1
<1>5. 1 \in 1..Len(s) /\ \A i \in 1..Len(s) - 1 : i + 1 \in 1..Len(s)
    BY <1>1
<1>6. \A i \in 1..Len(s) : s[i] \in {Head(s)} \cup ToSet(Tail(s))
  <2> SUFFICES ASSUME NEW i \in 1..Len(s), i # 1 PROVE s[i] \in ToSet(Tail(s))
      BY <1>3
  <2>1. i - 1 \in DOMAIN Tail(s) /\ Tail(s)[i - 1] = s[i]
      BY <1>3, <1>4
  <2> QED
      BY <2>1 DEF ToSet
<1>7. \A i \in 1..Len(s) - 1 : Tail(s)[i] \in ToSet(s)
    BY <1>3, <1>5 DEF ToSet
<1>8. ToSet(s) = {s[i] : i \in 1..Len(s)} /\ ToSet(Tail(s)) = {Tail(s)[i] : i \in 1..Len(s) - 1}
    BY <1>3 DEF ToSet
<1> QED
    BY <1>3, <1>5, <1>6, <1>7, <1>8 DEF IsSequence

LEMMA FlattenFacts ==
    ASSUME NEW ss, IsSequence(ss), \A k \in DOMAIN ss : IsSequence(ss[k])
    PROVE  /\ IsSequence(FlattenSeq(ss))
           /\ ToSet(FlattenSeq(ss)) = UNION {ToSet(ss[k]) : k \in DOMAIN ss}
<1> DEFINE n == Len(ss)
           Flattens(f) == f = [i \in 1..n |-> IF i = 1 THEN ss[i] ELSE f[i - 1] \o ss[i]]
           f == CHOOSE f : Flattens(f)
<1>1. n \in Nat /\ DOMAIN ss = 1..n
    BY SequenceFacts
<1>2. CASE n = 0
  <2>1. FlattenSeq(ss) = ss /\ DOMAIN ss = {}
      BY <1>1, <1>2 DEF FlattenSeq
  <2> QED
      BY <2>1 DEF ToSet
<1>3. CASE n > 0
  <2>1. \E g : Flattens(g)
    <3>1. PICK S : S = UNION {ToSet(ss[k]) : k \in DOMAIN ss}
        OBVIOUS
    <3>2. \A k \in 1..n : ss[k] \in Seq(S)
      <4> SUFFICES ASSUME NEW k \in 1..n PROVE ss[k] \in Seq(S)
          OBVIOUS
      <4>1. ss[k] \in Seq(ToSet(ss[k])) /\ ToSet(ss[k]) \subseteq S
          BY <1>1, <3>1, SequenceFacts
      <4> QED
          BY <4>1
    <3> DEFINE V == Seq(S)
               g == [p \in Nat \X V |-> IF p[1] \in 1..n THEN p[2] \o ss[p[1]] ELSE p[2]]
    <3>3. g \in [Nat \X V -> V] /\ <<>> \in V
      <4> SUFFICES ASSUME NEW p \in Nat \X V
                   PROVE  (IF p[1] \in 1..n THEN p[2] \o ss[p[1]] ELSE p[2]) \in V
          OBVIOUS
      <4>1. p[2] \in Seq(S) /\ (p[1] \in 1..n => ss[p[1]] \in Seq(S))
          BY <3>2
      <4> QED
          BY <4>1
    <3>4. PICK h : Solves(h, n, V, <<>>, g)
      <4> HIDE DEF g, V
      <4> QED
          BY <1>1, <3>3, Recursion
    <3>5. ASSUME NEW i \in 1..n
          PROVE  h[i] = IF i = 1 THEN ss[i] ELSE h[i - 1] \o ss[i]
      <4>1. i - 1 \in 0..n /\ i \in Nat /\ h[i - 1] \in Seq(S)
          BY <1>1, <3>4 DEF Solves
      <4>2. h[i] = g[<<i, h[i - 1]>>]
        <5> HIDE DEF g, V
        <5> QED
            BY <3>4 DEF Solves
      <4>3. h[i] = h[i - 1] \o ss[i]
          BY <4>1, <4>2
      <4>4. i = 1 => h[i - 1] \o ss[i] = ss[i]
        <5>1. i = 1 => h[i - 1] = <<>>
            BY <3>4 DEF Solves
        <5>2. <<>> \o ss[i] = ss[i]
            BY <3>2
        <5> QED
            BY <5>1, <5>2
      <4> QED
          BY <4>3, <4>4
    <3> DEFINE k == [i \in 1..n |-> h[i]]
    <3>6. ASSUME NEW i \in 1..n PROVE i # 1 => k[i - 1] = h[i - 1]
      <4>1. i # 1 => i - 1 \in 1..n
          BY <1>1
      <4> QED
          BY <4>1
    <3>7. k = [i \in 1..n |-> IF i = 1 THEN ss[i] ELSE k[i - 1] \o ss[i]]
        BY <3>5, <3>6
    <3> QED
        BY <3>7
  <2>2. Flattens(f)
    <3> HIDE DEF Flattens
    <3> QED
        BY <2>1
  <2>3. FlattenSeq(ss) = f[n]
      BY <1>3 DEF FlattenSeq
  <2> HIDE DEF f
  <2> DEFINE U(m) == UNION {ToSet(ss[k]) : k \in 1..m}
             N == {m \in Nat : m \in 1..n => IsSequence(f[m]) /\ ToSet(f[m]) = U(m)}
  <2>4. 0 \in N
      OBVIOUS
  <2>5. ASSUME NEW m \in Nat, m \in N PROVE m + 1 \in N
    <3> SUFFICES ASSUME m + 1 \in 1..n PROVE IsSequence(f[m + 1]) /\ ToSet(f[m + 1]) = U(m + 1)
        OBVIOUS
    <3>1. IsSequence(ss[m + 1])
        BY <1>1
    <3>2. CASE m = 0
      <4>1. f[m + 1] = ss[m + 1] /\ 1..m + 1 = {m + 1}
          BY <2>2, <3>2
      <4> QED
          BY <3>1, <4>1
    <3>3. CASE m # 0
      <4>1. m \in 1..n /\ m + 1 # 1 /\ (m + 1) - 1 = m
          BY <1>1, <3>3
      <4>2. f[m + 1] = f[m] \o ss[m + 1]
          BY <2>2, <4>1
      <4>3. IsSequence(f[m]) /\ ToSet(f[m]) = U(m)
          BY <2>5, <4>1
      <4>4. U(m + 1) = U(m) \cup ToSet(ss[m + 1])
        <5>1. 1..m + 1 = (1..m) \cup {m + 1}
            OBVIOUS
        <5> QED
            BY <5>1
      <4> HIDE DEF U
      <4> QED
          BY <3>1, <4>2, <4>3, <4>4, ConcatElements
    <3> QED
        BY <3>2, <3>3
  <2>6. n \in N
    <3> HIDE DEF N
    <3> QED
        BY <1>1, <2>4, <2>5, NatSetInduction
  <2>7. n \in 1..n
      BY <1>1, <1>3
  <2> QED
      BY <1>1, <2>3, <2>6, <2>7
<1> QED
    BY <1>1, <1>2, <1>3
=============================================================================
