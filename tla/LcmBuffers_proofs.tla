--------------------------- MODULE LcmBuffers_proofs ---------------------------
(***************************************************************************)
(* The buffers behind the receiver's socket.                               *)
(*                                                                         *)
(* Fragmentation and reassembly (LcmFragments) for any number of threads   *)
(* and sources, any datagram and message sizes and any limits of the       *)
(* table: what the fragment buffers account for, and that a completed      *)
(* message is the one that was published.                                  *)
(*                                                                         *)
(* The queue inbufs_empty at the level of its pointers (LcmBufQueue), for  *)
(* any number of structs: it is the pool that the receive path is built    *)
(* on, whatever the order in which the racing enqueues load and store.     *)
(***************************************************************************)
EXTENDS LcmFragments, LcmBufQueue, Induction, SequenceTheorems, TLAPS

-----------------------------------------------------------------------------
(* The invariant.                                                          *)

Byte == Nat \X Nat
Contents == UNION {[0..n - 1 -> Byte] : n \in Nat}

Datagram == [src : Sources, seq : Nat, id : Nat, size : Nat,
             no : Nat, count : Nat, off : Nat, len : Nat]
Progress == [id : Nat, size : Nat, no : Nat, off : Nat, ok : BOOLEAN]
Message == [id : Nat, size : Nat, data : Contents]
Buffer == [seq : Nat, size : Nat, remaining : Int, data : Contents, id : Nat, got : SUBSET Nat]
Table == [buf : UNION {[X -> Buffer] : X \in SUBSET Sources}, order : Seq(Sources), total : Int]

Types ==
    /\ lock \in [Sources -> Threads \cup {NoThread}] /\ seqno \in [Sources -> Nat]
    /\ pub \in [Threads -> Progress] /\ published \in Nat
    /\ wire \in SUBSET Datagram /\ twice \in SUBSET Nat
    /\ delivered \in Seq(Message) /\ table \in Table

\* Where fragment n of a message begins, and, past the last one, where it ends.
Offset(size, n) ==
    IF n = 0 THEN 0
    ELSE IF n * Mtu - NameSize <= size THEN n * Mtu - NameSize ELSE size

\* The transmit lock: a thread in lcm_udpm_publish holds it, and is where its
\* counters say.
Senders ==
    \A t \in Threads :
        LET p == pub[t] IN
        p.id # 0 =>
            /\ lock[SourceOf[t]] = t
            /\ NameSize + p.size >= Mtu
            /\ p.no <= Fragments(p.size) /\ p.off = Offset(p.size, p.no)

\* What a datagram, a fragment buffer and a thread say of the message they belong to.
HeadOf(d) == [src |-> d.src, seq |-> d.seq, id |-> d.id, size |-> d.size]
BufHead(s) == [src |-> s, seq |-> table.buf[s].seq, id |-> table.buf[s].id,
               size |-> table.buf[s].size]
PubHead(t) == [src |-> SourceOf[t], seq |-> seqno[SourceOf[t]], id |-> pub[t].id,
               size |-> pub[t].size]
Heads ==
    {HeadOf(d) : d \in wire} \cup {BufHead(s) : s \in DOMAIN table.buf}
        \cup {PubHead(t) : t \in {u \in Threads : pub[u].id # 0}}

\* Source address and sequence number identify a message.
Identified ==
    /\ \A x \in Heads :
        /\ x.id \in 1..published /\ x.seq <= seqno[x.src]
        /\ x.seq = seqno[x.src] =>
             \E t \in Threads : pub[t].id = x.id /\ SourceOf[t] = x.src
    /\ \A x, y \in Heads :
        x.id = y.id \/ (x.src = y.src /\ x.seq = y.seq) => x = y

\* A datagram that carries fragment d.no of a message of its size.
Fragment(d) ==
    /\ NameSize + d.size >= Mtu
    /\ d.count = Fragments(d.size) /\ d.no < d.count
    /\ d.off = Offset(d.size, d.no)
    /\ d.len = Offset(d.size, d.no + 1) - Offset(d.size, d.no)

\* What is on its way is a fragment that its sender is past.
Datagrams ==
    \A d \in wire :
        Fragment(d) /\ \A t \in Threads : pub[t].id = d.id => d.no < pub[t].no

\* A fragment that is stored is neither on its way nor still to be sent, and its
\* bytes are in their place.
Filling(b) ==
    /\ b.got \subseteq 0..Fragments(b.size) - 1
    /\ b.remaining = Fragments(b.size) - Cardinality(b.got)
    /\ \A n \in b.got, k \in 0..b.size - 1 :
         Offset(b.size, n) <= k /\ k < Offset(b.size, n + 1) => b.data[k] = <<b.id, k>>
Passed(b) ==
    /\ \A d \in wire : d.id = b.id => d.no \notin b.got
    /\ \A t \in Threads : pub[t].id = b.id => \A n \in b.got : n < pub[t].no
Stored(b) == Filling(b) /\ Passed(b) /\ b.remaining > 0 /\ 0 \in b.got
Buffers ==
    \A s \in DOMAIN table.buf :
        /\ DOMAIN table.buf[s].data = 0..table.buf[s].size - 1
        /\ table.buf[s].id \notin twice => Stored(table.buf[s])

\* A completed message is whole, and its first fragment is gone everywhere.
Exact(m) == m.data = [k \in 0..m.size - 1 |-> <<m.id, k>>]
Complete(i) ==
    LET m == delivered[i] IN
    /\ Exact(m)
    /\ \A j \in 1..Len(delivered) : delivered[j].id = m.id => j = i
    /\ \A d \in wire : d.id = m.id => d.no # 0
    /\ \A t \in Threads : pub[t].id = m.id => pub[t].no # 0
    /\ \A s \in DOMAIN table.buf : table.buf[s].id # m.id
Deliveries ==
    \A i \in 1..Len(delivered) :
        /\ delivered[i].id \in 1..published
        /\ delivered[i].id \notin twice => Complete(i)

\* The two hash tables have the same keys, once each in the order of their times,
\* and the limits are exceeded by one buffer at most.
Room(T) ==
    \/ T.total <= MaxTotal
    \/ \E s \in DOMAIN T.buf : T.total - T.buf[s].size <= MaxTotal
Tabled(T) ==
    /\ T \in Table
    /\ IsInjective(T.order) /\ ToSet(T.order) = DOMAIN T.buf
    /\ T.total = SumFunction([s \in DOMAIN T.buf |-> T.buf[s].size])
Bounded(T) == Cardinality(DOMAIN T.buf) <= MaxBufs + 1 /\ Room(T)

IInv ==
    /\ Types /\ Senders /\ Identified /\ Datagrams /\ Buffers /\ Deliveries
    /\ Tabled(table) /\ Bounded(table)

-----------------------------------------------------------------------------
(* Sizes and offsets.                                                      *)

LEMMA Division ==
    ASSUME NEW n \in Nat, NEW m \in Nat, 0 < m
    PROVE  /\ n \div m \in Nat /\ n % m \in 0..m - 1
           /\ n = m * (n \div m) + (n % m)
OBVIOUS

\* The number of fragments is the least that holds the payload.
LEMMA FragmentsFacts ==
    ASSUME NEW size \in Nat, NameSize + size >= Mtu
    PROVE  /\ Fragments(size) \in Nat \ {0}
           /\ Fragments(size) * Mtu >= NameSize + size
           /\ (Fragments(size) - 1) * Mtu < NameSize + size
<1> DEFINE n == NameSize + size
           q == n \div Mtu
           r == n % Mtu
<1>1. n \in Nat /\ Mtu \in Nat /\ 0 < Mtu /\ n >= Mtu
    BY FragmentsAssumption
<1>2. q \in Nat /\ r \in 0..Mtu - 1 /\ n = Mtu * q + r
    BY <1>1, Division
<1>3. q # 0
  <2>1. q = 0 => Mtu * q = 0
      BY <1>1
  <2> QED
      BY <1>1, <1>2, <2>1
<1>4. Fragments(size) = q + (IF r # 0 THEN 1 ELSE 0)
    BY DEF Fragments
<1> HIDE DEF n, q, r
<1>5. q * Mtu = Mtu * q /\ (q + 1) * Mtu = Mtu * q + Mtu /\ (q - 1) * Mtu = Mtu * q - Mtu
    BY <1>1, <1>2
<1>6. CASE r = 0
    BY <1>1, <1>2, <1>3, <1>4, <1>5, <1>6 DEF n
<1>7. CASE r # 0
    BY <1>1, <1>2, <1>3, <1>4, <1>5, <1>7 DEF n
<1> QED
    BY <1>6, <1>7

LEMMA OffsetFacts ==
    ASSUME NEW size \in Nat, NameSize + size >= Mtu, NEW n \in Nat
    PROVE  /\ Offset(size, 0) = 0 /\ Offset(size, n) \in 0..size
           /\ n * Mtu - NameSize >= 0 \/ n = 0
           /\ Offset(size, n) <= Offset(size, n + 1)
           /\ n >= Fragments(size) => Offset(size, n) = size
           /\ n < Fragments(size) => n * Mtu - NameSize < size
<1> DEFINE F == Fragments(size)
<1>1. F \in Nat \ {0} /\ F * Mtu >= NameSize + size /\ (F - 1) * Mtu < NameSize + size
    BY FragmentsFacts
<1> HIDE DEF F
<1>2. Mtu \in Nat /\ NameSize \in Nat /\ 0 < NameSize /\ NameSize < Mtu
    BY FragmentsAssumption
<1>3. n * Mtu \in Nat /\ (n + 1) * Mtu = n * Mtu + Mtu
    BY <1>2
<1>4. n # 0 => n * Mtu >= Mtu
  <2>1. ASSUME n # 0 PROVE n * Mtu = (n - 1) * Mtu + Mtu /\ (n - 1) * Mtu \in Nat
      BY <1>2, <2>1
  <2> QED
      BY <1>2, <2>1
<1>5. n >= F => n * Mtu >= F * Mtu
  <2>1. ASSUME n >= F PROVE n * Mtu = (n - F) * Mtu + F * Mtu /\ (n - F) * Mtu \in Nat /\ F * Mtu \in Nat
      BY <1>1, <1>2, <2>1
  <2> QED
      BY <1>1, <1>2, <2>1
<1>6. n < F => n * Mtu <= (F - 1) * Mtu
  <2>1. ASSUME n < F PROVE (F - 1) * Mtu = (F - 1 - n) * Mtu + n * Mtu /\ (F - 1 - n) * Mtu \in Nat
      BY <1>1, <1>2, <2>1
  <2> QED
      BY <1>1, <1>2, <1>3, <2>1
<1>7. Offset(size, n + 1) = (IF (n + 1) * Mtu - NameSize <= size THEN (n + 1) * Mtu - NameSize ELSE size)
    BY DEF Offset
<1>8. n # 0 => Offset(size, n) = (IF n * Mtu - NameSize <= size THEN n * Mtu - NameSize ELSE size)
    BY DEF Offset
<1>9. Offset(size, 0) = 0
    BY DEF Offset
<1>10. F * Mtu \in Nat /\ (F - 1) * Mtu \in Int
    BY <1>1, <1>2
<1>11. n < F => n * Mtu - NameSize < size
    BY <1>1, <1>2, <1>3, <1>6, <1>10
<1>12. n >= F => n * Mtu - NameSize >= size
    BY <1>1, <1>2, <1>3, <1>5, <1>10
<1>13. n >= F => n # 0
    BY <1>1
<1> DEFINE a == n * Mtu
           o == Offset(size, n)
           o1 == Offset(size, n + 1)
<1>14. a \in Nat /\ (n # 0 => a >= Mtu) /\ (n # 0 => o = IF a - NameSize <= size THEN a - NameSize ELSE size)
       /\ o1 = (IF a + Mtu - NameSize <= size THEN a + Mtu - NameSize ELSE size)
    BY <1>2, <1>3, <1>4, <1>7, <1>8
<1>15. n = 0 => o = 0
    BY <1>9
<1>16. (n >= F => a - NameSize >= size) /\ (n < F => a - NameSize < size)
    BY <1>11, <1>12
<1>17. (n = 0 => a = 0) /\ F = Fragments(size)
    BY <1>2 DEF F
<1> HIDE DEF a, o, o1
<1>18. /\ o \in 0..size /\ (a - NameSize >= 0 \/ n = 0) /\ o <= o1 /\ (n >= F => o = size)
       /\ n < F => a - NameSize < size
    BY <1>2, <1>13, <1>14, <1>15, <1>16
<1> QED
    BY <1>9, <1>17, <1>18 DEF a, o, o1

-----------------------------------------------------------------------------
(* The table.                                                              *)

\* The sum of natural numbers with and without one of them.
LEMMA SumLess ==
    ASSUME NEW S, IsFiniteSet(S), NEW w \in [S -> Nat]
    PROVE  /\ SumFunction(w) \in Nat
           /\ S = {} => SumFunction(w) = 0
           /\ \A a \in S : SumFunction(w) = w[a] + SumFunction([x \in S \ {a} |-> w[x]])
<1>1. SumFunction(w) = SumFunctionOnSet(w, S)
    BY DEF SumFunction
<1>2. ASSUME NEW a \in S
      PROVE  SumFunction([x \in S \ {a} |-> w[x]]) = SumFunctionOnSet(w, S \ {a})
  <2> DEFINE v == [x \in S \ {a} |-> w[x]]
  <2>1. SumFunction(v) = SumFunctionOnSet(v, S \ {a})
      BY DEF SumFunction
  <2>2. IsFiniteSet(S \ {a}) /\ \A x \in S \ {a} : w[x] \in Nat /\ v[x] = w[x]
      BY CardinalityLess
  <2> HIDE DEF v
  <2>3. SumFunctionOnSet(v, S \ {a}) = SumFunctionOnSet(w, S \ {a})
      BY <2>2, SumFacts
  <2> QED
      BY <2>1, <2>3 DEF v
<1>3. \A x \in S : w[x] \in Nat
    OBVIOUS
<1>4. /\ SumFunctionOnSet(w, S) \in Nat
      /\ S = {} => SumFunctionOnSet(w, S) = 0
      /\ \A a \in S : SumFunctionOnSet(w, S) = w[a] + SumFunctionOnSet(w, S \ {a})
    BY <1>3, SumFacts
<1> QED
    BY <1>1, <1>2, <1>4

\* The elements of a sequence without repetitions.
LEMMA InjectiveLength ==
    ASSUME NEW S, NEW s \in Seq(S), IsInjective(s)
    PROVE  IsFiniteSet(ToSet(s)) /\ Cardinality(ToSet(s)) = Len(s)
<1>1. DOMAIN s = 1..Len(s) /\ Len(s) \in Nat /\ s \in [1..Len(s) -> S]
    OBVIOUS
<1>2. ToSet(s) = {s[i] : i \in 1..Len(s)}
    BY <1>1 DEF ToSet
<1>3. \A i, j \in 1..Len(s) : s[i] = s[j] => i = j
    BY <1>1 DEF IsInjective
<1>4. s \in Bijection(1..Len(s), ToSet(s))
  <2>1. s \in [1..Len(s) -> ToSet(s)]
      BY <1>1, <1>2
  <2>2. s \in Injection(1..Len(s), ToSet(s))
      BY <1>1, <1>3, <2>1 DEF Injection, IsInjective
  <2>3. s \in Surjection(1..Len(s), ToSet(s))
      BY <1>2, <2>1 DEF Surjection
  <2> QED
      BY <2>2, <2>3 DEF Bijection
<1>5. ExistsBijection(1..Len(s), ToSet(s))
    BY <1>4 DEF ExistsBijection
<1> QED
    BY <1>1, <1>5, FS_NatBijection, FS_CountingElements

SizesOf(T) == [s \in DOMAIN T.buf |-> T.buf[s].size]

LEMMA TabledFacts ==
    ASSUME NEW T, Tabled(T)
    PROVE  /\ DOMAIN T.buf \subseteq Sources /\ T.buf \in [DOMAIN T.buf -> Buffer]
           /\ T.order \in Seq(Sources) /\ T.total \in Nat
           /\ IsFiniteSet(DOMAIN T.buf) /\ Cardinality(DOMAIN T.buf) \in Nat
           /\ Len(T.order) = Cardinality(DOMAIN T.buf)
           /\ SizesOf(T) \in [DOMAIN T.buf -> Nat]
           /\ \A s \in DOMAIN T.buf : T.buf[s].size \in Nat /\ T.buf[s].size <= T.total
           /\ DOMAIN T.buf = {} => T.total = 0
           /\ T = [buf |-> T.buf, order |-> T.order, total |-> T.total]
<1>1. T \in Table /\ IsInjective(T.order) /\ ToSet(T.order) = DOMAIN T.buf /\ T.total = SumFunction(SizesOf(T))
    BY DEF Tabled, SizesOf
<1>2. /\ T.buf \in UNION {[X -> Buffer] : X \in SUBSET Sources} /\ T.order \in Seq(Sources)
      /\ T = [buf |-> T.buf, order |-> T.order, total |-> T.total]
    BY <1>1 DEF Table
<1>3. PICK X \in SUBSET Sources : T.buf \in [X -> Buffer]
    BY <1>2
<1>4. DOMAIN T.buf = X /\ T.buf \in [DOMAIN T.buf -> Buffer]
    BY <1>3
<1>5. IsFiniteSet(DOMAIN T.buf) /\ Cardinality(DOMAIN T.buf) = Len(T.order) /\ Len(T.order) \in Nat
    BY <1>1, <1>2, InjectiveLength
<1>6. \A s \in DOMAIN T.buf : T.buf[s].size \in Nat
    BY <1>4 DEF Buffer
<1>7. SizesOf(T) \in [DOMAIN T.buf -> Nat]
    BY <1>6 DEF SizesOf
<1>8. /\ T.total \in Nat
      /\ DOMAIN T.buf = {} => T.total = 0
      /\ \A s \in DOMAIN T.buf : T.total = SizesOf(T)[s]
            + SumFunction([x \in DOMAIN T.buf \ {s} |-> SizesOf(T)[x]])
  <2> DEFINE D == DOMAIN T.buf
             w == SizesOf(T)
  <2>1. IsFiniteSet(D) /\ w \in [D -> Nat] /\ T.total = SumFunction(w)
      BY <1>1, <1>5, <1>7
  <2> HIDE DEF D, w
  <2>2. /\ SumFunction(w) \in Nat
        /\ D = {} => SumFunction(w) = 0
        /\ \A s \in D : SumFunction(w) = w[s] + SumFunction([x \in D \ {s} |-> w[x]])
      BY <2>1, SumLess
  <2> QED
      BY <2>1, <2>2 DEF D, w
<1>9. ASSUME NEW s \in DOMAIN T.buf PROVE T.buf[s].size <= T.total
  <2> DEFINE w == [x \in DOMAIN T.buf \ {s} |-> SizesOf(T)[x]]
  <2>1. IsFiniteSet(DOMAIN T.buf \ {s}) /\ w \in [DOMAIN T.buf \ {s} -> Nat]
      BY <1>5, <1>7, CardinalityLess
  <2>2. T.total = SizesOf(T)[s] + SumFunction(w)
      BY <1>8
  <2> HIDE DEF w
  <2>3. SumFunction(w) \in Nat
      BY <2>1, SumLess
  <2>4. SizesOf(T)[s] = T.buf[s].size /\ T.buf[s].size \in Nat
      BY <1>6 DEF SizesOf
  <2> QED
      BY <1>8, <2>2, <2>3, <2>4
<1> QED
    BY <1>2, <1>4, <1>3, <1>5, <1>6, <1>7, <1>8, <1>9

LEMMA RemovedFacts ==
    ASSUME NEW T, Tabled(T), NEW s \in DOMAIN T.buf
    PROVE  /\ Tabled(Removed(T, s))
           /\ Removed(T, s).buf = Restrict(T.buf, DOMAIN T.buf \ {s})
           /\ DOMAIN Removed(T, s).buf = DOMAIN T.buf \ {s}
           /\ Bounded(T) => Bounded(Removed(T, s))
<1> DEFINE U == Removed(T, s)
           X == DOMAIN T.buf
<1>1. /\ U = [buf |-> Restrict(T.buf, X \ {s}), order |-> RemoveFirst(T.order, s),
              total |-> T.total - T.buf[s].size]
      /\ U.buf = Restrict(T.buf, X \ {s}) /\ U.order = RemoveFirst(T.order, s)
      /\ U.total = T.total - T.buf[s].size
    BY DEF Removed
<1>2. /\ T \in Table /\ IsInjective(T.order) /\ ToSet(T.order) = X /\ T.total = SumFunction(SizesOf(T))
    BY DEF Tabled, SizesOf
<1>3. /\ X \subseteq Sources /\ T.buf \in [X -> Buffer]
      /\ T.order \in Seq(Sources) /\ T.total \in Nat
      /\ IsFiniteSet(X) /\ Cardinality(X) \in Nat
      /\ SizesOf(T) \in [X -> Nat]
      /\ \A x \in X : T.buf[x].size \in Nat /\ T.buf[x].size <= T.total
    BY TabledFacts
<1> HIDE DEF U
<1>4. /\ DOMAIN U.buf = X \ {s} /\ U.buf \in [X \ {s} -> Buffer]
      /\ \A x \in X \ {s} : U.buf[x] = T.buf[x]
    BY <1>1, <1>3 DEF Restrict
<1>5. U.order \in Seq(Sources) /\ IsInjective(U.order) /\ ToSet(U.order) = X \ {s}
    BY <1>1, <1>2, <1>3, RemoveFirstFacts
<1>6. SizesOf(U) = [x \in X \ {s} |-> SizesOf(T)[x]]
    BY <1>4 DEF SizesOf
<1>7. T.total = T.buf[s].size + SumFunction(SizesOf(U))
  <2>1. SumFunction(SizesOf(T)) = SizesOf(T)[s] + SumFunction([x \in X \ {s} |-> SizesOf(T)[x]])
    <3> DEFINE f == SizesOf(T)
    <3>1. IsFiniteSet(X) /\ f \in [X -> Nat] /\ s \in X
        BY <1>3
    <3> HIDE DEF f
    <3>2. SumFunction(f) = f[s] + SumFunction([x \in X \ {s} |-> f[x]])
        BY <3>1, SumLess
    <3> QED
        BY <3>2 DEF f
  <2>2. SizesOf(T)[s] = T.buf[s].size
      BY DEF SizesOf
  <2> QED
      BY <1>2, <1>6, <2>1, <2>2
<1>8. SumFunction(SizesOf(U)) \in Nat
  <2>1. IsFiniteSet(X \ {s}) /\ SizesOf(U) \in [X \ {s} -> Nat]
      BY <1>3, <1>6, CardinalityLess
  <2> QED
      BY <2>1, SumLess
<1>9. U.total = SumFunction(SizesOf(U)) /\ U.total \in Nat
    BY <1>1, <1>3, <1>7, <1>8
<1>10. Tabled(U)
  <2>1. U \in Table
    <3>1. U.buf \in UNION {[Y -> Buffer] : Y \in SUBSET Sources}
        BY <1>3, <1>4
    <3>2. U = [buf |-> U.buf, order |-> U.order, total |-> U.total]
        BY <1>1
    <3>3. U.order \in Seq(Sources) /\ U.total \in Int
        BY <1>5, <1>9
    <3> QED
        BY <3>1, <3>2, <3>3 DEF Table
  <2> QED
      BY <1>4, <1>5, <1>9, <2>1 DEF Tabled, SizesOf
<1>11. ASSUME Bounded(T) PROVE Bounded(U)
  <2>1. Cardinality(X \ {s}) = Cardinality(X) - 1
      BY <1>3, CardinalityLess
  <2>2. Cardinality(DOMAIN U.buf) <= MaxBufs + 1 /\ MaxTotal \in Nat
      BY <1>3, <1>4, <1>11, <2>1, FragmentsAssumption DEF Bounded
  <2>3. Room(U)
    <3>1. CASE T.total <= MaxTotal
        BY <1>1, <1>3, <2>2, <3>1 DEF Room
    <3>2. ASSUME NEW x \in X, T.total - T.buf[x].size <= MaxTotal PROVE Room(U)
      <4>1. CASE x = s
          BY <1>1, <3>2, <4>1 DEF Room
      <4>2. CASE x # s
        <5>1. x \in DOMAIN U.buf /\ U.buf[x].size = T.buf[x].size
            BY <1>4, <4>2
        <5>2. U.total - U.buf[x].size <= MaxTotal
            BY <1>1, <1>3, <2>2, <3>2, <5>1
        <5> QED
            BY <5>1, <5>2 DEF Room
      <4> QED
          BY <4>1, <4>2
    <3> QED
        BY <1>11, <3>1, <3>2 DEF Bounded, Room
  <2> QED
      BY <2>2, <2>3 DEF Bounded
<1> QED
    BY <1>1, <1>4, <1>10, <1>11 DEF U

\* U is what is left of T after the removal of some buffers.
Left(U, T) ==
    /\ Tabled(U) /\ DOMAIN U.buf \subseteq DOMAIN T.buf
    /\ \A x \in DOMAIN U.buf : U.buf[x] = T.buf[x]

LEMMA LeftRemoved ==
    ASSUME NEW T, NEW U, Left(U, T), NEW x \in DOMAIN U.buf
    PROVE  Left(Removed(U, x), T) /\ DOMAIN Removed(U, x).buf = DOMAIN U.buf \ {x}
<1>1. /\ Tabled(Removed(U, x)) /\ DOMAIN Removed(U, x).buf = DOMAIN U.buf \ {x}
      /\ Removed(U, x).buf = Restrict(U.buf, DOMAIN U.buf \ {x})
    BY RemovedFacts DEF Left
<1> QED
    BY <1>1 DEF Left, Restrict

\* The eviction loop, for a set of positions of the order that it goes through.
Evicting(f, T) ==
    f = [s \in SUBSET DOMAIN T.order |->
            IF s = {} THEN T
            ELSE IF Full(f[s \ {Max(s)}]) THEN Removed(f[s \ {Max(s)}], T.order[Max(s)])
                 ELSE f[s \ {Max(s)}]]

LEMMA EvictingExists ==
    ASSUME NEW T, Tabled(T)
    PROVE  \E f : Evicting(f, T)
<1> DEFINE D == DOMAIN T.order
           V == {U \in Table : Left(U, T)}
           c == [s \in SUBSET D |-> Max(s)]
           g == [p \in (SUBSET D) \X V |->
                    IF Full(p[2]) /\ T.order[c[p[1]]] \in DOMAIN p[2].buf
                    THEN Removed(p[2], T.order[c[p[1]]]) ELSE p[2]]
<1>1. /\ T \in Table /\ IsInjective(T.order) /\ ToSet(T.order) = DOMAIN T.buf
      /\ T.order \in Seq(Sources) /\ D = 1..Len(T.order) /\ Len(T.order) \in Nat
    BY TabledFacts DEF Tabled
<1>2. IsFiniteSet(D) /\ D \subseteq 0..Len(T.order)
    BY <1>1, FS_Interval
<1>3. T \in V
    BY <1>1 DEF Left
<1>4. \A s \in SUBSET D : s # {} => c[s] \in s
    BY <1>1, <1>2, MaxGreatest
<1>5. g \in [(SUBSET D) \X V -> V]
  <2>1. ASSUME NEW U \in V, NEW x \in DOMAIN U.buf PROVE Removed(U, x) \in V
    <3>1. Left(Removed(U, x), T)
        BY LeftRemoved
    <3> QED
        BY <3>1 DEF Left, Tabled
  <2> HIDE DEF D, V, c
  <2> QED
      BY <2>1
<1>6. PICK f : SolvesOn(f, D, V, T, c, g)
  <2> HIDE DEF D, V, c, g
  <2> QED
      BY <1>2, <1>3, <1>4, <1>5, SetRecursion
\* A buffer that the loop has not come to is still there.
<1> DEFINE N == {n \in Nat : \A s \in SUBSET D : Cardinality(s) = n =>
                    \A i \in D \ s : T.order[i] \in DOMAIN f[s].buf}
<1>7. \A s \in SUBSET D : /\ IsFiniteSet(s) /\ Cardinality(s) \in Nat /\ f[s] \in V
                          /\ s = {} => f[s] = T
                          /\ s # {} => f[s] = g[<<s, f[s \ {c[s]}]>>]
    BY <1>2, <1>6, FS_Subset, FS_CardinalityType DEF SolvesOn
<1>8. 0 \in N
  <2> SUFFICES ASSUME NEW s \in SUBSET D, Cardinality(s) = 0, NEW i \in D
               PROVE  T.order[i] \in DOMAIN f[s].buf
      OBVIOUS
  <2>1. s = {}
      BY <1>7, FS_EmptySet
  <2> QED
      BY <1>1, <1>7, <2>1 DEF ToSet
<1> HIDE DEF c, V
<1>9. ASSUME NEW s \in SUBSET D, s # {}, Cardinality(s \ {c[s]}) \in N
      PROVE  /\ T.order[c[s]] \in DOMAIN f[s \ {c[s]}].buf
             /\ f[s] = IF Full(f[s \ {c[s]}]) THEN Removed(f[s \ {c[s]}], T.order[c[s]])
                       ELSE f[s \ {c[s]}]
             /\ \A i \in D \ s : T.order[i] \in DOMAIN f[s].buf
  <2> DEFINE r == s \ {c[s]}
  <2>1. c[s] \in s /\ r \in SUBSET D /\ f[r] \in V
      BY <1>4, <1>7, <1>9
  <2>2. \A i \in D \ r : T.order[i] \in DOMAIN f[r].buf
      BY <1>9, <2>1
  <2>3. T.order[c[s]] \in DOMAIN f[r].buf
      BY <2>1, <2>2
  <2>4. <<s, f[r]>> \in (SUBSET D) \X V
      BY <2>1
  <2>5. f[s] = IF Full(f[r]) THEN Removed(f[r], T.order[c[s]]) ELSE f[r]
    <3>1. f[s] = g[<<s, f[r]>>]
        BY <1>7, <1>9
    <3> QED
        BY <2>3, <2>4, <3>1
  <2>6. Left(f[r], T)
      BY <2>1 DEF V
  <2>7. ASSUME NEW i \in D \ s PROVE T.order[i] \in DOMAIN f[s].buf
    <3>1. T.order[i] \in DOMAIN f[r].buf /\ T.order[i] # T.order[c[s]]
        BY <1>1, <2>1, <2>2, <2>7 DEF IsInjective
    <3>2. DOMAIN Removed(f[r], T.order[c[s]]).buf = DOMAIN f[r].buf \ {T.order[c[s]]}
        BY <2>3, <2>6, LeftRemoved
    <3> QED
        BY <2>5, <3>1, <3>2
  <2> QED
      BY <2>3, <2>5, <2>7
<1>10. ASSUME NEW n \in Nat, n \in N PROVE n + 1 \in N
  <2> SUFFICES ASSUME NEW s \in SUBSET D, Cardinality(s) = n + 1
               PROVE  \A i \in D \ s : T.order[i] \in DOMAIN f[s].buf
      OBVIOUS
  <2>1. s # {}
      BY FS_EmptySet
  <2>2. c[s] \in s
      BY <1>4, <2>1
  <2>3. Cardinality(s \ {c[s]}) = n
    <3>1. IsFiniteSet(s)
        BY <1>7
    <3>2. Cardinality(s \ {c[s]}) = Cardinality(s) - 1
        BY <2>2, <3>1, CardinalityLess
    <3> QED
        BY <3>2
  <2> HIDE DEF N
  <2> QED
      BY <1>9, <1>10, <2>1, <2>3
<1>11. \A n \in Nat : n \in N
  <2> HIDE DEF N
  <2> QED
      BY <1>8, <1>10, NatSetInduction
<1>12. ASSUME NEW s \in SUBSET D
       PROVE  f[s] = IF s = {} THEN T
                     ELSE IF Full(f[s \ {c[s]}]) THEN Removed(f[s \ {c[s]}], T.order[c[s]])
                          ELSE f[s \ {c[s]}]
  <2>1. CASE s = {}
      BY <1>7, <2>1
  <2>2. CASE s # {}
    <3>1. Cardinality(s \ {c[s]}) \in N
      <4>1. s \ {c[s]} \in SUBSET D
          BY <1>4, <2>2
      <4> HIDE DEF N
      <4> QED
          BY <1>7, <1>11, <4>1
    <3> HIDE DEF N
    <3> QED
        BY <1>9, <2>2, <3>1
  <2> QED
      BY <2>1, <2>2
<1>13. \A s \in SUBSET D : c[s] = Max(s)
    BY DEF c
<1>14. f = [s \in SUBSET D |-> f[s]]
    BY <1>6 DEF SolvesOn
<1>15. Evicting(f, T)
    BY <1>12, <1>13, <1>14 DEF Evicting
<1> QED
    BY <1>15

LEMMA EvictedFacts ==
    ASSUME NEW T, Tabled(T)
    PROVE  Left(Evicted(T), T) /\ ~Full(Evicted(T))
<1> DEFINE D == DOMAIN T.order
           L == Len(T.order)
           f == CHOOSE f : Evicting(f, T)
<1>1. /\ T \in Table /\ IsInjective(T.order) /\ ToSet(T.order) = DOMAIN T.buf
      /\ T.order \in Seq(Sources) /\ D = 1..L /\ L \in Nat
    BY TabledFacts DEF Tabled
<1>2. Evicted(T) = f[D]
    BY DEF Evicted, FoldLeft, MapThenFoldSet, Evicting
<1>3. Evicting(f, T)
    BY EvictingExists
<1> HIDE DEF f
\* The first k buffers of the order have had their turn.
<1> DEFINE P(k) == /\ Left(f[1..k], T)
                   /\ \A i \in k + 1..L : T.order[i] \in DOMAIN f[1..k].buf
                   /\ Full(f[1..k]) => \A i \in 1..k : T.order[i] \notin DOMAIN f[1..k].buf
           N == {k \in Nat : k <= L => P(k)}
<1>4. 0 \in N
  <2>1. f[1..0] = T
      BY <1>3 DEF Evicting
  <2> QED
      BY <1>1, <2>1 DEF Left, ToSet
<1>5. ASSUME NEW k \in Nat, k \in N PROVE k + 1 \in N
  <2> SUFFICES ASSUME k + 1 <= L PROVE P(k + 1)
      OBVIOUS
  <2> DEFINE x == T.order[k + 1]
             U == f[1..k]
             W == f[1..k + 1]
  <2>1. P(k)
      BY <1>1, <1>5
  <2>2. Max(1..k + 1) = k + 1
    <3>1. /\ k + 1 \in Nat /\ 1..k + 1 \in SUBSET (0..k + 1)
          /\ 1..k + 1 # {} /\ k + 1 \in 1..k + 1
        OBVIOUS
    <3>2. Max(1..k + 1) \in 1..k + 1 /\ k + 1 <= Max(1..k + 1)
        BY <3>1, MaxGreatest
    <3> QED
        BY <3>2
  <2>3. (1..k + 1) \ {k + 1} = 1..k
      OBVIOUS
  <2>4. 1..k + 1 \in SUBSET D /\ 1..k + 1 # {}
    <3>1. k + 1 \in Int /\ L \in Int /\ k + 1 <= L /\ 1 \in 1..k + 1
        BY <1>1
    <3>2. \A i \in 1..k + 1 : i \in 1..L
        BY <3>1
    <3> QED
        BY <1>1, <3>1, <3>2
  <2>5. W = IF Full(U) THEN Removed(U, x) ELSE U
    <3>1. W = IF Full(f[(1..k + 1) \ {Max(1..k + 1)}])
              THEN Removed(f[(1..k + 1) \ {Max(1..k + 1)}], T.order[Max(1..k + 1)])
              ELSE f[(1..k + 1) \ {Max(1..k + 1)}]
        BY <1>3, <2>4 DEF Evicting
    <3> QED
        BY <2>2, <2>3, <3>1
  <2>6. k + 1 \in k + 1..L /\ (\A i \in k + 1 + 1..L : i \in k + 1..L /\ i # k + 1 /\ i \in D) /\ k + 1 \in D
      BY <1>1
  <2>7. x \in DOMAIN U.buf /\ \A i \in k + 1 + 1..L : T.order[i] # x
      BY <1>1, <2>1, <2>6 DEF IsInjective
  <2>8. Left(Removed(U, x), T) /\ DOMAIN Removed(U, x).buf = DOMAIN U.buf \ {x}
      BY <2>1, <2>7, LeftRemoved
  <2>9. \A i \in 1..k + 1 : i \in 1..k \/ i = k + 1
      OBVIOUS
  <2>10. CASE Full(U)
    <3>1. W = Removed(U, x)
        BY <2>5, <2>10
    <3>2. \A i \in k + 1 + 1..L : T.order[i] \in DOMAIN W.buf
        BY <2>1, <2>6, <2>7, <2>8, <3>1
    <3>3. \A i \in 1..k + 1 : T.order[i] \notin DOMAIN W.buf
        BY <2>1, <2>8, <2>9, <2>10, <3>1
    <3> QED
        BY <2>8, <3>1, <3>2, <3>3
  <2>11. CASE ~Full(U)
    <3>1. W = U
        BY <2>5, <2>11
    <3> QED
        BY <2>1, <2>6, <2>11, <3>1
  <2> QED
      BY <2>10, <2>11
<1>6. P(L)
  <2>1. \A k \in Nat : k \in N
    <3> HIDE DEF N
    <3> QED
        BY <1>4, <1>5, NatSetInduction
  <2>2. L \in N /\ L <= L
      BY <1>1, <2>1
  <2> QED
      BY <2>2
<1>7. Left(f[D], T)
    BY <1>1, <1>6
<1>8. ASSUME Full(f[D]) PROVE FALSE
  <2>1. \A x \in ToSet(T.order) : x \notin DOMAIN f[D].buf
      BY <1>1, <1>6, <1>8 DEF ToSet
  <2>2. DOMAIN f[D].buf = {}
      BY <1>1, <1>7, <2>1 DEF Left
  <2>3. f[D].total = 0 /\ Cardinality(DOMAIN f[D].buf) = 0
      BY <1>7, <2>2, TabledFacts, FS_EmptySet DEF Left
  <2> QED
      BY <1>8, <2>3, FragmentsAssumption DEF Full
<1> QED
    BY <1>2, <1>7, <1>8

\* The table with a buffer more, or with another of the same size in its place.
LEMMA InsertedFacts ==
    ASSUME NEW T, Tabled(T), NEW s \in Sources, s \notin DOMAIN T.buf, NEW b \in Buffer
    PROVE  LET I == Inserted(T, s, b) IN
           /\ Tabled(I) /\ Bounded(I) /\ I.buf[s] = b /\ s \in DOMAIN I.buf
           /\ DOMAIN I.buf \ {s} \subseteq DOMAIN T.buf
           /\ \A x \in DOMAIN I.buf \ {s} : I.buf[x] = T.buf[x]
<1> DEFINE E == Evicted(T)
           I == Inserted(T, s, b)
           X == DOMAIN E.buf
<1>1. Left(E, T) /\ ~Full(E)
    BY EvictedFacts
<1>2. /\ Tabled(E) /\ X \subseteq DOMAIN T.buf /\ s \notin X
      /\ \A x \in X : E.buf[x] = T.buf[x]
    BY <1>1 DEF Left
<1>3. /\ E \in Table /\ IsInjective(E.order) /\ ToSet(E.order) = X /\ E.total = SumFunction(SizesOf(E))
    BY <1>2 DEF Tabled, SizesOf
<1>4. /\ X \subseteq Sources /\ E.buf \in [X -> Buffer]
      /\ E.order \in Seq(Sources) /\ E.total \in Nat
      /\ IsFiniteSet(X) /\ Cardinality(X) \in Nat
      /\ SizesOf(E) \in [X -> Nat]
    BY <1>2, TabledFacts
<1>5. /\ I = [buf |-> [x \in X \cup {s} |-> IF x = s THEN b ELSE E.buf[x]],
              order |-> Append(E.order, s), total |-> E.total + b.size]
      /\ I.buf = [x \in X \cup {s} |-> IF x = s THEN b ELSE E.buf[x]]
      /\ I.order = Append(E.order, s) /\ I.total = E.total + b.size
    BY DEF Inserted
<1> HIDE DEF I, E
<1>6. /\ DOMAIN I.buf = X \cup {s} /\ I.buf[s] = b /\ \A x \in X : I.buf[x] = E.buf[x]
      /\ I.buf \in [X \cup {s} -> Buffer] /\ b.size \in Nat
    BY <1>2, <1>4, <1>5 DEF Buffer
<1>7. I.order \in Seq(Sources) /\ IsInjective(I.order) /\ ToSet(I.order) = X \cup {s}
    BY <1>2, <1>3, <1>4, <1>5, AppendFacts, InjectiveAppend
<1>8. IsFiniteSet(X \cup {s}) /\ (X \cup {s}) \ {s} = X
    BY SMTT(30), <1>2, <1>4, FS_AddElement
<1>9. SizesOf(I) \in [X \cup {s} -> Nat] /\ SizesOf(I)[s] = b.size /\ SizesOf(E) = [x \in X |-> SizesOf(I)[x]]
  <2>1. SizesOf(I) = [x \in X \cup {s} |-> I.buf[x].size]
      BY <1>6 DEF SizesOf
  <2>2. SizesOf(E) = [x \in X |-> E.buf[x].size]
      BY DEF SizesOf
  <2>3. \A x \in X \cup {s} : I.buf[x].size \in Nat
    <3>1. \A c \in Buffer : c.size \in Nat
        BY DEF Buffer
    <3> QED
        BY <1>6, <3>1
  <2>4. SizesOf(I) \in [X \cup {s} -> Nat] /\ SizesOf(I)[s] = b.size
      BY <1>6, <2>1, <2>3
  <2>5. \A x \in X : E.buf[x].size = SizesOf(I)[x]
      BY <1>6, <2>1
  <2> QED
      BY <2>2, <2>4, <2>5
<1>10. I.total = SumFunction(SizesOf(I)) /\ I.total \in Nat
  <2>1. SumFunction(SizesOf(I)) = SizesOf(I)[s] + SumFunction([x \in (X \cup {s}) \ {s} |-> SizesOf(I)[x]])
      BY <1>8, <1>9, SumLess
  <2>2. SumFunction([x \in (X \cup {s}) \ {s} |-> SizesOf(I)[x]]) = SumFunction(SizesOf(E))
      BY <1>8, <1>9
  <2> DEFINE before_ == SumFunction(SizesOf(E))
             after_ == SumFunction(SizesOf(I))
  <2>3. after_ = b.size + before_
      BY <1>9, <2>1, <2>2
  <2>4. E.total = before_ /\ I.total = E.total + b.size /\ E.total \in Nat /\ b.size \in Nat
      BY <1>3, <1>4, <1>5, <1>6
  <2> HIDE DEF before_, after_
  <2>5. I.total = after_ /\ I.total \in Nat
      BY <2>3, <2>4
  <2> QED
      BY <2>5 DEF after_
<1>11. Tabled(I)
  <2>1. I \in Table
    <3>1. I.buf \in UNION {[Y -> Buffer] : Y \in SUBSET Sources}
      <4>1. X \cup {s} \in SUBSET Sources
          BY <1>4
      <4> QED
          BY <1>6, <4>1
    <3>2. I = [buf |-> I.buf, order |-> I.order, total |-> I.total]
        BY <1>5
    <3>3. I.order \in Seq(Sources) /\ I.total \in Int
        BY <1>7, <1>10
    <3> QED
        BY <3>1, <3>2, <3>3 DEF Table
  <2> QED
      BY <1>6, <1>7, <1>10, <2>1 DEF Tabled, SizesOf
<1>12. Bounded(I)
  <2>1. Cardinality(X) <= MaxBufs /\ E.total <= MaxTotal /\ MaxTotal \in Nat /\ MaxBufs \in Nat
      BY <1>1, <1>4, FragmentsAssumption DEF Full
  <2>2. Cardinality(X \cup {s}) = Cardinality(X) + 1
      BY <1>2, <1>4, FS_AddElement
  <2>3. I.total - I.buf[s].size <= MaxTotal
      BY <1>4, <1>5, <1>6, <2>1
  <2>4. Room(I)
      BY <1>6, <2>3 DEF Room
  <2> QED
      BY <1>4, <1>6, <2>1, <2>2, <2>4 DEF Bounded
<1> QED
    BY <1>2, <1>6, <1>11, <1>12 DEF I

Updated(T, s, c) == [T EXCEPT !.buf[s] = c, !.order = Append(RemoveFirst(@, s), s)]

LEMMA UpdatedFacts ==
    ASSUME NEW T, Tabled(T), NEW s \in DOMAIN T.buf, NEW c \in Buffer, c.size = T.buf[s].size
    PROVE  /\ Tabled(Updated(T, s, c))
           /\ Bounded(T) => Bounded(Updated(T, s, c))
           /\ Updated(T, s, c).buf = [T.buf EXCEPT ![s] = c]
<1> SUFFICES ASSUME NEW U, U = Updated(T, s, c)
             PROVE  /\ Tabled(U)
                    /\ Bounded(T) => Bounded(U)
                    /\ U.buf = [T.buf EXCEPT ![s] = c]
    OBVIOUS
<1> DEFINE X == DOMAIN T.buf
<1>1. /\ T \in Table /\ IsInjective(T.order) /\ ToSet(T.order) = X /\ T.total = SumFunction(SizesOf(T))
    BY DEF Tabled, SizesOf
<1>2. /\ X \subseteq Sources /\ T.buf \in [X -> Buffer] /\ T.order \in Seq(Sources) /\ T.total \in Nat
      /\ T = [buf |-> T.buf, order |-> T.order, total |-> T.total]
    BY TabledFacts
<1>3. /\ U = [buf |-> [T.buf EXCEPT ![s] = c], order |-> Append(RemoveFirst(T.order, s), s),
              total |-> T.total]
      /\ U.buf = [T.buf EXCEPT ![s] = c] /\ U.order = Append(RemoveFirst(T.order, s), s)
      /\ U.total = T.total
    BY <1>2 DEF Updated
<1>4. /\ U.buf \in [X -> Buffer] /\ DOMAIN U.buf = X
      /\ \A x \in X : U.buf[x].size = T.buf[x].size
    BY <1>2, <1>3
<1>5. /\ RemoveFirst(T.order, s) \in Seq(Sources) /\ IsInjective(RemoveFirst(T.order, s))
      /\ ToSet(RemoveFirst(T.order, s)) = X \ {s}
    BY <1>1, <1>2, RemoveFirstFacts
<1>6. U.order \in Seq(Sources) /\ IsInjective(U.order) /\ ToSet(U.order) = X
  <2> DEFINE r == RemoveFirst(T.order, s)
  <2>1. r \in Seq(Sources) /\ IsInjective(r) /\ ToSet(r) = X \ {s} /\ s \in Sources
      BY <1>2, <1>5
  <2> HIDE DEF r
  <2>2. Append(r, s) \in Seq(Sources) /\ ToSet(Append(r, s)) = ToSet(r) \cup {s}
      BY <2>1, AppendFacts
  <2>3. IsInjective(Append(r, s))
      BY <2>1, InjectiveAppend
  <2> QED
      BY <1>3, <2>1, <2>2, <2>3 DEF r
<1>7. SizesOf(U) = SizesOf(T)
    BY <1>4 DEF SizesOf
<1>8. Tabled(U)
  <2>1. U \in Table
    <3>1. U.buf \in UNION {[Y -> Buffer] : Y \in SUBSET Sources}
        BY <1>2, <1>4
    <3>2. U.total \in Int
        BY <1>2, <1>3
    <3> QED
        BY <1>3, <1>6, <3>1, <3>2 DEF Table
  <2> QED
      BY <1>1, <1>3, <1>4, <1>6, <1>7, <2>1 DEF Tabled, SizesOf
<1>9. Bounded(T) => Bounded(U)
    BY <1>3, <1>4 DEF Bounded, Room
<1> QED
    BY <1>3, <1>8, <1>9

-----------------------------------------------------------------------------
(* One datagram.                                                           *)

\* Bytes of the channel name in a fragment.
Prefix(d) == IF d.no = 0 THEN NameSize ELSE 0

LEMMA BodyFacts ==
    ASSUME NEW d \in Datagram
    PROVE  /\ DOMAIN Body(d) = 0..Prefix(d) + d.len - 1
           /\ Cardinality(DOMAIN Body(d)) = Prefix(d) + d.len
           /\ \A j \in 0..Prefix(d) + d.len - 1 : Body(d)[j] \in Byte
           /\ \A j \in Prefix(d)..Prefix(d) + d.len - 1 :
                Body(d)[j] = <<d.id, (IF d.no = 0 THEN 0 ELSE d.off) + j - Prefix(d)>>
<1>1. d.no \in Nat /\ d.len \in Nat /\ d.id \in Nat /\ d.off \in Nat /\ NameSize \in Nat
    BY FragmentsAssumption DEF Datagram
<1>2. Prefix(d) \in Nat
    BY <1>1 DEF Prefix
<1>3. Cardinality(0..Prefix(d) + d.len - 1) = Prefix(d) + d.len
  <2>1. Prefix(d) + d.len - 1 \in Int /\ 0 \in Int
      BY <1>1, <1>2
  <2>2. Cardinality(0..Prefix(d) + d.len - 1) =
          IF 0 > Prefix(d) + d.len - 1 THEN 0 ELSE (Prefix(d) + d.len - 1) - 0 + 1
      BY <2>1, FS_Interval
  <2> QED
      BY <1>1, <1>2, <2>2
<1>4. CASE d.no = 0
  <2>1. Prefix(d) = NameSize
      BY <1>4 DEF Prefix
  <2>2. Body(d) = [k \in 0..NameSize + d.len - 1 |->
                     IF k < NameSize THEN NameByte ELSE <<d.id, k - NameSize>>]
      BY <1>4 DEF Body
  <2>3. \A j \in 0..NameSize + d.len - 1 : Body(d)[j] \in Byte
      BY <1>1, <2>2 DEF NameByte, Byte
  <2>4. \A j \in NameSize..NameSize + d.len - 1 : Body(d)[j] = <<d.id, 0 + j - NameSize>>
    <3> SUFFICES ASSUME NEW j \in NameSize..NameSize + d.len - 1
                 PROVE  Body(d)[j] = <<d.id, 0 + j - NameSize>>
        OBVIOUS
    <3>1. j \in 0..NameSize + d.len - 1 /\ ~(j < NameSize) /\ j - NameSize = 0 + j - NameSize
        BY <1>1
    <3> QED
        BY <2>2, <3>1
  <2>5. DOMAIN Body(d) = 0..NameSize + d.len - 1
      BY <2>2
  <2> QED
      BY <1>3, <1>4, <2>1, <2>3, <2>4, <2>5
<1>5. CASE d.no # 0
  <2>1. Prefix(d) = 0
      BY <1>5 DEF Prefix
  <2>2. Body(d) = [k \in 0..d.len - 1 |-> <<d.id, d.off + k>>]
      BY <1>5 DEF Body
  <2>3. \A j \in 0..d.len - 1 : Body(d)[j] \in Byte
      BY <1>1, <2>2 DEF Byte
  <2>4. \A j \in 0..d.len - 1 : Body(d)[j] = <<d.id, d.off + j - 0>>
      BY <1>1, <2>2
  <2>5. DOMAIN Body(d) = 0..d.len - 1
      BY <2>2
  <2>6. Prefix(d) + d.len - 1 = d.len - 1 /\ (IF d.no = 0 THEN 0 ELSE d.off) = d.off
      BY <1>1, <1>5, <2>1
  <2>7. Cardinality(DOMAIN Body(d)) = Prefix(d) + d.len
      BY <1>3, <2>5, <2>6
  <2> QED
      BY <2>1, <2>3, <2>4, <2>5, <2>6, <2>7
<1> QED
    BY <1>4, <1>5

\* c is the buffer b with the fragment d more, whose bytes are in their place if
\* `exact`.
Plus(c, b, d, exact) ==
    /\ c \in Buffer
    /\ c.seq = b.seq /\ c.size = b.size /\ c.id = b.id
    /\ c.remaining = b.remaining - 1 /\ c.got = b.got \cup {d.no}
    /\ DOMAIN c.data = 0..b.size - 1
    /\ exact => \A k \in 0..b.size - 1 :
           c.data[k] = IF d.off <= k /\ k < d.off + d.len THEN <<d.id, k>> ELSE b.data[k]

LEMMA Shifted ==
    ASSUME NEW k \in Int, NEW start \in Int, NEW off \in Int, NEW n \in Int,
           NEW p \in Int, NEW l \in Int, p + l = start + n, off <= k, k < off + n
    PROVE  start + k - off \in start..p + l - 1
<1>1. start <= start + k - off /\ start + k - off \in Int
    OBVIOUS
<1>2. start + k - off <= p + l - 1 /\ p + l - 1 \in Int
    OBVIOUS
<1> QED
    BY <1>1, <1>2

LEMMA FilledFacts ==
    ASSUME NEW b \in Buffer, DOMAIN b.data = 0..b.size - 1, NEW d \in Datagram,
           d.no = 0 => d.off = 0, NEW start \in {0, NameSize}, start = NameSize => d.no = 0
    PROVE  Plus(Filled(b, d, start, Cardinality(DOMAIN Body(d)) - start), b, d, start = Prefix(d))
<1> DEFINE n == Cardinality(DOMAIN Body(d)) - start
           data == [k \in 0..b.size - 1 |->
                       IF d.off <= k /\ k < d.off + n THEN Body(d)[start + k - d.off] ELSE b.data[k]]
           c == Filled(b, d, start, n)
<1>1. /\ b.seq \in Nat /\ b.size \in Nat /\ b.remaining \in Int /\ b.id \in Nat
      /\ b.got \in SUBSET Nat /\ b.data \in [0..b.size - 1 -> Byte]
      /\ b = [seq |-> b.seq, size |-> b.size, remaining |-> b.remaining, data |-> b.data,
              id |-> b.id, got |-> b.got]
  <2>1. b.data \in Contents
      BY DEF Buffer
  <2>2. \A m \in Nat : b.data \in [0..m - 1 -> Byte] => b.data \in [DOMAIN b.data -> Byte]
      OBVIOUS
  <2>3. b.data \in [DOMAIN b.data -> Byte]
      BY <2>1, <2>2 DEF Contents
  <2> QED
      BY <2>3 DEF Buffer
<1>2. d.no \in Nat /\ d.len \in Nat /\ d.id \in Nat /\ d.off \in Nat /\ NameSize \in Nat /\ 0 < NameSize
    BY FragmentsAssumption DEF Datagram
<1>3. Prefix(d) \in Nat /\ start \in 0..Prefix(d) /\ n = Prefix(d) + d.len - start /\ n \in Nat
    BY <1>2, BodyFacts DEF Prefix
<1>4. c = [seq |-> b.seq, size |-> b.size, remaining |-> b.remaining - 1, data |-> data,
           id |-> b.id, got |-> b.got \cup {d.no}]
  <2>1. ASSUME NEW e, e = Filled(b, d, start, n)
        PROVE  e = [seq |-> b.seq, size |-> b.size, remaining |-> b.remaining - 1, data |-> data,
                    id |-> b.id, got |-> b.got \cup {d.no}]
      BY <1>1, <2>1 DEF Filled
  <2> HIDE DEF data
  <2> QED
      BY <2>1
<1>5. ASSUME NEW k \in 0..b.size - 1, d.off <= k, k < d.off + n
      PROVE  start + k - d.off \in start..Prefix(d) + d.len - 1
  <2>1. /\ k \in Int /\ start \in Int /\ d.off \in Int /\ n \in Int
        /\ Prefix(d) \in Int /\ d.len \in Int /\ Prefix(d) + d.len = start + n
      BY SMTT(30), <1>1, <1>2, <1>3
  <2> HIDE DEF n
  <2>2. d.off <= k /\ k < d.off + n
      BY <1>5
  <2> QED
      BY <2>1, <2>2, Shifted
<1> HIDE DEF n
<1>6. ASSUME NEW k \in 0..b.size - 1 PROVE data[k] \in Byte
  <2>1. CASE d.off <= k /\ k < d.off + n
    <3>1. start + k - d.off \in start..Prefix(d) + d.len - 1
        BY <1>5, <2>1
    <3>2. start \in Nat
        BY <1>3
    <3>3. start + k - d.off \in 0..Prefix(d) + d.len - 1
        BY <3>1, <3>2
    <3> QED
        BY <2>1, <3>3, BodyFacts
  <2>2. CASE ~(d.off <= k /\ k < d.off + n)
      BY <1>1, <2>2
  <2> QED
      BY <2>1, <2>2
<1>7. ASSUME start = Prefix(d), NEW k \in 0..b.size - 1
      PROVE  data[k] = IF d.off <= k /\ k < d.off + d.len THEN <<d.id, k>> ELSE b.data[k]
  <2>1. n = d.len
      BY <1>2, <1>3, <1>7
  <2>2. CASE d.off <= k /\ k < d.off + n
    <3>1. start + k - d.off \in Prefix(d)..Prefix(d) + d.len - 1
        BY <1>5, <1>7, <2>2
    <3>2. Body(d)[start + k - d.off] = <<d.id, (IF d.no = 0 THEN 0 ELSE d.off) + (start + k - d.off) - Prefix(d)>>
        BY <3>1, BodyFacts
    <3>3. (IF d.no = 0 THEN 0 ELSE d.off) + (start + k - d.off) - Prefix(d) = k
        BY <1>2, <1>3, <1>7
    <3> QED
        BY <2>1, <2>2, <3>2, <3>3
  <2>3. CASE ~(d.off <= k /\ k < d.off + n)
      BY <2>1, <2>3
  <2> QED
      BY <2>2, <2>3
<1>8. data \in [0..b.size - 1 -> Byte]
    BY <1>6
<1> HIDE DEF data, c
<1>9. c \in Buffer
  <2>1. data \in Contents
      BY <1>1, <1>8 DEF Contents
  <2>2. b.remaining - 1 \in Int /\ b.got \cup {d.no} \in SUBSET Nat
      BY <1>1, <1>2
  <2> QED
      BY <1>1, <1>4, <2>1, <2>2 DEF Buffer
<1>10. DOMAIN data = 0..b.size - 1
    BY <1>8
<1>11. Plus(c, b, d, start = Prefix(d))
    BY <1>4, <1>7, <1>9, <1>10 DEF Plus
<1> QED
    BY <1>11 DEF c, n

\* What storing d leaves: no buffer, a message more, or the buffer with d in it.
LEMMA StoreFacts ==
    ASSUME NEW T, Tabled(T), Bounded(T), NEW d \in Datagram, d.no = 0 => d.off = 0,
           d.src \in DOMAIN T.buf, DOMAIN T.buf[d.src].data = 0..T.buf[d.src].size - 1,
           NEW start \in {0, NameSize}, start = NameSize => d.no = 0, Store(T, d, start)
    PROVE  /\ Tabled(table') /\ Bounded(table')
           /\ \/ /\ delivered' = delivered /\ Left(table', T) /\ d.src \notin DOMAIN table'.buf
              \/ \E c :
                   /\ Plus(c, T.buf[d.src], d, start = Prefix(d))
                   /\ \/ /\ c.remaining = 0 /\ Left(table', T) /\ d.src \notin DOMAIN table'.buf
                         /\ delivered' = Append(delivered, [id |-> c.id, size |-> c.size, data |-> c.data])
                      \/ /\ c.remaining # 0 /\ delivered' = delivered
                         /\ table'.buf = [T.buf EXCEPT ![d.src] = c]
<1> DEFINE b == T.buf[d.src]
           n == Cardinality(DOMAIN Body(d)) - start
           c == Filled(b, d, start, n)
           R == Removed(T, d.src)
<1>1. T.buf \in [DOMAIN T.buf -> Buffer] /\ b \in Buffer
    BY TabledFacts
<1>2. Plus(c, b, d, start = Prefix(d))
    BY <1>1, FilledFacts
<1>3. /\ Tabled(R) /\ Bounded(R) /\ DOMAIN R.buf = DOMAIN T.buf \ {d.src}
      /\ R.buf = Restrict(T.buf, DOMAIN T.buf \ {d.src})
    BY RemovedFacts
<1>4. Left(R, T) /\ d.src \notin DOMAIN R.buf
    BY <1>3 DEF Left, Restrict
<1>5. \/ d.off + n > b.size /\ table' = R /\ delivered' = delivered
      \/ /\ c.remaining = 0 /\ table' = R
         /\ delivered' = Append(delivered, [id |-> c.id, size |-> c.size, data |-> c.data])
      \/ /\ c.remaining # 0 /\ delivered' = delivered
         /\ table' = [T EXCEPT !.buf[d.src] = c, !.order = Append(RemoveFirst(@, d.src), d.src)]
    BY DEF Store
<1> HIDE DEF n, c, R
<1>6. CASE d.off + n > b.size /\ table' = R /\ delivered' = delivered
    BY <1>3, <1>4, <1>6
<1>7. CASE /\ c.remaining = 0 /\ table' = R
           /\ delivered' = Append(delivered, [id |-> c.id, size |-> c.size, data |-> c.data])
    BY <1>2, <1>3, <1>4, <1>7
<1>8. CASE /\ c.remaining # 0 /\ delivered' = delivered
           /\ table' = [T EXCEPT !.buf[d.src] = c, !.order = Append(RemoveFirst(@, d.src), d.src)]
  <2>1. c \in Buffer /\ c.size = b.size
      BY <1>2 DEF Plus
  <2>2. LET U == Updated(T, d.src, c) IN Tabled(U) /\ Bounded(U) /\ U.buf = [T.buf EXCEPT ![d.src] = c]
      BY <2>1, UpdatedFacts
  <2>3. /\ Tabled(table') /\ Bounded(table')
        /\ table'.buf = [T.buf EXCEPT ![d.src] = c]
    <3>1. table' = Updated(T, d.src, c)
        BY <1>8 DEF Updated
    <3> QED
        BY <2>2, <3>1
  <2> QED
      BY <1>2, <1>8, <2>3
<1> QED
    BY <1>5, <1>6, <1>7, <1>8

\* A datagram leaves buffers away, or goes into the buffer of its source, which is
\* one for the same message or a new one.
Taken(d, b, exact) ==
    \E c :
        /\ Plus(c, b, d, exact)
        /\ \/ /\ c.remaining = 0 /\ Left(table', table) /\ d.src \notin DOMAIN table'.buf
              /\ delivered' = Append(delivered, [id |-> c.id, size |-> c.size, data |-> c.data])
           \/ /\ c.remaining # 0 /\ delivered' = delivered
              /\ d.src \in DOMAIN table'.buf /\ table'.buf[d.src] = c
              /\ DOMAIN table'.buf \ {d.src} \subseteq DOMAIN table.buf
              /\ \A x \in DOMAIN table'.buf \ {d.src} : table'.buf[x] = table.buf[x]
Outcome(d) ==
    \/ delivered' = delivered /\ Left(table', table)
    \/ d.no = 0 /\ Taken(d, NewBuffer(d), TRUE)
    \/ /\ d.src \in DOMAIN table.buf
       /\ table.buf[d.src].seq = d.seq /\ table.buf[d.src].size = d.size
       /\ Taken(d, table.buf[d.src], d.no # 0)

LEMMA FreshFacts ==
    ASSUME Tabled(table), Bounded(table), NEW d
    PROVE  /\ Left(Fresh(table, d), table) /\ Bounded(Fresh(table, d))
           /\ Holds(Fresh(table, d), d.src) =>
                /\ Fresh(table, d) = table
                /\ table.buf[d.src].seq = d.seq /\ table.buf[d.src].size = d.size
<1>1. CASE Stale(table, d)
  <2>1. d.src \in DOMAIN table.buf /\ Fresh(table, d) = Removed(table, d.src)
      BY <1>1 DEF Stale, Holds, Fresh
  <2>2. Left(table, table)
      BY DEF Left
  <2>3. /\ Left(Removed(table, d.src), table) /\ Bounded(Removed(table, d.src))
        /\ DOMAIN Removed(table, d.src).buf = DOMAIN table.buf \ {d.src}
      BY <2>1, <2>2, LeftRemoved, RemovedFacts
  <2> QED
      BY <2>1, <2>3 DEF Holds
<1>2. CASE ~Stale(table, d)
    BY <1>2 DEF Fresh, Stale, Left, Holds
<1> QED
    BY <1>1, <1>2

LEMMA NewBufferFacts ==
    ASSUME NEW d \in Datagram
    PROVE  /\ NewBuffer(d) \in Buffer
           /\ DOMAIN NewBuffer(d).data = 0..NewBuffer(d).size - 1
<1>1. d.size \in Nat /\ d.seq \in Nat /\ d.id \in Nat /\ d.count \in Nat
    BY DEF Datagram
<1>2. [k \in 0..d.size - 1 |-> Junk] \in Contents
    BY <1>1 DEF Contents, Byte, Junk
<1> QED
    BY <1>1, <1>2 DEF Buffer, NewBuffer

LEMMA RecvFacts ==
    ASSUME Tabled(table), Bounded(table), NEW d \in Datagram, d.no = 0 => d.off = 0,
           \A s \in DOMAIN table.buf : DOMAIN table.buf[s].data = 0..table.buf[s].size - 1,
           RecvFragment(d)
    PROVE  Tabled(table') /\ Bounded(table') /\ Outcome(d)
<1> DEFINE T == Fresh(table, d)
<1>1. /\ Left(T, table) /\ Bounded(T) /\ Tabled(T)
      /\ Holds(T, d.src) =>
           T = table /\ table.buf[d.src].seq = d.seq /\ table.buf[d.src].size = d.size
    BY FreshFacts DEF Left
<1>2. \/ table' = T /\ delivered' = delivered
      \/ Holds(T, d.src) /\ Store(T, d, 0)
      \/ ~Holds(T, d.src) /\ d.no = 0 /\ Store(Inserted(T, d.src, NewBuffer(d)), d, NameSize)
    BY DEF RecvFragment
<1>3. NameSize # 0 /\ Prefix(d) \in {0, NameSize} /\ (Prefix(d) = 0 <=> d.no # 0)
    BY FragmentsAssumption DEF Prefix
<1> HIDE DEF T
<1>4. CASE table' = T /\ delivered' = delivered
    BY <1>1, <1>4 DEF Outcome
<1>5. CASE Holds(T, d.src) /\ Store(T, d, 0)
  <2>1. /\ T = table /\ d.src \in DOMAIN table.buf
        /\ table.buf[d.src].seq = d.seq /\ table.buf[d.src].size = d.size
      BY <1>1, <1>5 DEF Holds
  <2>2. /\ Tabled(table') /\ Bounded(table')
        /\ \/ delivered' = delivered /\ Left(table', table) /\ d.src \notin DOMAIN table'.buf
           \/ \E c :
                /\ Plus(c, table.buf[d.src], d, 0 = Prefix(d))
                /\ \/ /\ c.remaining = 0 /\ Left(table', table) /\ d.src \notin DOMAIN table'.buf
                      /\ delivered' = Append(delivered, [id |-> c.id, size |-> c.size, data |-> c.data])
                   \/ /\ c.remaining # 0 /\ delivered' = delivered
                      /\ table'.buf = [table.buf EXCEPT ![d.src] = c]
      BY <1>3, <1>5, <2>1, StoreFacts
  <2>3. (0 = Prefix(d)) = (d.no # 0)
      BY <1>3
  <2>4. CASE delivered' = delivered /\ Left(table', table)
      BY <2>2, <2>4 DEF Outcome
  <2>5. ASSUME NEW c, Plus(c, table.buf[d.src], d, d.no # 0),
               \/ /\ c.remaining = 0 /\ Left(table', table) /\ d.src \notin DOMAIN table'.buf
                  /\ delivered' = Append(delivered, [id |-> c.id, size |-> c.size, data |-> c.data])
               \/ /\ c.remaining # 0 /\ delivered' = delivered
                  /\ table'.buf = [table.buf EXCEPT ![d.src] = c]
        PROVE  Outcome(d)
    <3>1. Taken(d, table.buf[d.src], d.no # 0)
        BY <2>1, <2>5 DEF Taken
    <3> QED
        BY <2>1, <3>1 DEF Outcome
  <2> QED
      BY <2>2, <2>3, <2>4, <2>5
<1>6. CASE ~Holds(T, d.src) /\ d.no = 0 /\ Store(Inserted(T, d.src, NewBuffer(d)), d, NameSize)
  <2> DEFINE b == NewBuffer(d)
             I == Inserted(T, d.src, b)
  <2>1. b \in Buffer /\ DOMAIN b.data = 0..b.size - 1 /\ d.src \in Sources
      BY NewBufferFacts DEF Datagram
  <2> HIDE DEF b
  <2>2. /\ Tabled(I) /\ Bounded(I) /\ I.buf[d.src] = b /\ d.src \in DOMAIN I.buf
        /\ DOMAIN I.buf \ {d.src} \subseteq DOMAIN T.buf
        /\ \A x \in DOMAIN I.buf \ {d.src} : I.buf[x] = T.buf[x]
      BY <1>1, <1>6, <2>1, InsertedFacts DEF Holds
  <2>3. /\ DOMAIN I.buf \ {d.src} \subseteq DOMAIN table.buf
        /\ \A x \in DOMAIN I.buf \ {d.src} : I.buf[x] = table.buf[x]
      BY <1>1, <2>2 DEF Left
  <2>4. Store(I, d, NameSize) /\ d.no = 0
      BY <1>6 DEF b
  <2> HIDE DEF I
  <2>5. /\ Tabled(table') /\ Bounded(table')
        /\ \/ delivered' = delivered /\ Left(table', I) /\ d.src \notin DOMAIN table'.buf
           \/ \E c :
                /\ Plus(c, I.buf[d.src], d, NameSize = Prefix(d))
                /\ \/ /\ c.remaining = 0 /\ Left(table', I) /\ d.src \notin DOMAIN table'.buf
                      /\ delivered' = Append(delivered, [id |-> c.id, size |-> c.size, data |-> c.data])
                   \/ /\ c.remaining # 0 /\ delivered' = delivered
                      /\ table'.buf = [I.buf EXCEPT ![d.src] = c]
      BY <2>1, <2>2, <2>4, StoreFacts
  <2>6. (NameSize = Prefix(d)) = TRUE
      BY <2>4 DEF Prefix
  <2>7. Left(table', I) /\ d.src \notin DOMAIN table'.buf => Left(table', table)
      BY <2>3 DEF Left
  <2>8. CASE delivered' = delivered /\ Left(table', I) /\ d.src \notin DOMAIN table'.buf
      BY <2>5, <2>7, <2>8 DEF Outcome
  <2>9. ASSUME NEW c, Plus(c, b, d, TRUE),
               \/ /\ c.remaining = 0 /\ Left(table', I) /\ d.src \notin DOMAIN table'.buf
                  /\ delivered' = Append(delivered, [id |-> c.id, size |-> c.size, data |-> c.data])
               \/ /\ c.remaining # 0 /\ delivered' = delivered
                  /\ table'.buf = [I.buf EXCEPT ![d.src] = c]
        PROVE  Outcome(d)
    <3>1. CASE /\ c.remaining = 0 /\ Left(table', I) /\ d.src \notin DOMAIN table'.buf
               /\ delivered' = Append(delivered, [id |-> c.id, size |-> c.size, data |-> c.data])
      <4>1. Taken(d, b, TRUE)
          BY <2>7, <2>9, <3>1 DEF Taken
      <4> QED
          BY <2>4, <4>1 DEF Outcome, b
    <3>2. CASE /\ c.remaining # 0 /\ delivered' = delivered
               /\ table'.buf = [I.buf EXCEPT ![d.src] = c]
      <4>1. /\ d.src \in DOMAIN table'.buf /\ table'.buf[d.src] = c
            /\ DOMAIN table'.buf \ {d.src} \subseteq DOMAIN table.buf
            /\ \A x \in DOMAIN table'.buf \ {d.src} : table'.buf[x] = table.buf[x]
        <5>1. DOMAIN table'.buf = DOMAIN I.buf
            BY <3>2
        <5>2. table'.buf[d.src] = c
            BY <2>2, <3>2
        <5>3. \A x \in DOMAIN I.buf \ {d.src} : table'.buf[x] = I.buf[x]
            BY <3>2
        <5> QED
            BY <2>2, <2>3, <5>1, <5>2, <5>3
      <4>2. Taken(d, b, TRUE)
          BY <2>9, <3>2, <4>1 DEF Taken
      <4> QED
          BY <2>4, <4>2 DEF Outcome, b
    <3> QED
        BY <2>9, <3>1, <3>2
  <2> QED
      BY <2>2, <2>5, <2>6, <2>8, <2>9
<1> QED
    BY <1>2, <1>4, <1>5, <1>6

\* Every byte of a message is in one of its fragments.
LEMMA Covered ==
    ASSUME NEW size \in Nat, NameSize + size >= Mtu, NEW k \in 0..size - 1
    PROVE  \E n \in 0..Fragments(size) - 1 : Offset(size, n) <= k /\ k < Offset(size, n + 1)
<1> DEFINE F == Fragments(size)
           S == {n \in Nat : k < Offset(size, n + 1)}
<1>1. F \in Nat \ {0}
    BY FragmentsFacts
<1>2. F - 1 \in S
  <2>1. F \in Nat /\ F - 1 \in Nat /\ F - 1 + 1 = F
      BY <1>1
  <2>2. Offset(size, F) = size
      BY <2>1, OffsetFacts
  <2> QED
      BY <2>1, <2>2
<1>3. PICK m \in S : \A n \in S : m <= n
  <2>1. S \in SUBSET Nat /\ S # {}
      BY <1>2
  <2> HIDE DEF S
  <2> QED
      BY <2>1, LeastElement
<1>4. m \in 0..F - 1
    BY <1>1, <1>2, <1>3
<1>5. Offset(size, m) <= k
  <2>1. CASE m = 0
      BY <2>1, OffsetFacts
  <2>2. CASE m # 0
    <3>1. m - 1 \in Nat /\ m - 1 \notin S /\ m - 1 + 1 = m
        BY <1>3, <2>2
    <3>2. Offset(size, m) \in Int
        BY OffsetFacts
    <3> QED
        BY <3>1, <3>2
  <2> QED
      BY <2>1, <2>2
<1> QED
    BY <1>4, <1>5

\* Another fragment in its place, and, when it was the last one, the whole message.
LEMMA PlusFilling ==
    ASSUME NEW d \in Datagram, Fragment(d), NEW b, NEW c, Plus(c, b, d, TRUE),
           b.id = d.id, b.size = d.size, Filling(b), d.no \notin b.got
    PROVE  /\ Filling(c) /\ c.remaining \in Nat
           /\ c.remaining = 0 => Exact(c)
<1> DEFINE size == d.size
           F == Fragments(size)
<1>1. /\ d.size \in Nat /\ NameSize + size >= Mtu /\ F \in Nat \ {0} /\ d.no \in Nat /\ d.no < F
      /\ d.off = Offset(size, d.no) /\ d.len = Offset(size, d.no + 1) - Offset(size, d.no)
    BY FragmentsFacts DEF Datagram, Fragment
<1>2. /\ c.size = size /\ c.id = d.id /\ c.remaining = b.remaining - 1
      /\ c.got = b.got \cup {d.no} /\ DOMAIN c.data = 0..size - 1
      /\ \A k \in 0..size - 1 :
           c.data[k] = IF d.off <= k /\ k < d.off + d.len THEN <<d.id, k>> ELSE b.data[k]
    BY DEF Plus
<1>3. /\ b.got \subseteq 0..F - 1 /\ b.remaining = F - Cardinality(b.got)
      /\ \A n \in b.got, k \in 0..size - 1 :
           Offset(size, n) <= k /\ k < Offset(size, n + 1) => b.data[k] = <<d.id, k>>
    BY DEF Filling
<1>4. d.off + d.len = Offset(size, d.no + 1) /\ Offset(size, d.no + 1) \in Nat
  <2>1. d.no + 1 \in Nat
      BY <1>1
  <2>2. Offset(size, d.no) \in 0..size /\ Offset(size, d.no + 1) \in 0..size
      BY <1>1, <2>1, OffsetFacts
  <2> QED
      BY <1>1, <2>2
<1>5. IsFiniteSet(0..F - 1) /\ Cardinality(0..F - 1) = F
  <2>1. F - 1 \in Int /\ 0 \in Int /\ ~(0 > F - 1) /\ F - 1 - 0 + 1 = F
      BY <1>1
  <2> HIDE DEF F
  <2> QED
      BY <2>1, FS_Interval
<1>6. /\ IsFiniteSet(b.got) /\ Cardinality(b.got) \in Nat
      /\ Cardinality(c.got) = Cardinality(b.got) + 1 /\ c.got \subseteq 0..F - 1
  <2>1. IsFiniteSet(b.got)
      BY <1>3, <1>5, FS_Subset
  <2>2. Cardinality(b.got) \in Nat
      BY <2>1, FS_CardinalityType
  <2>3. Cardinality(b.got \cup {d.no}) = Cardinality(b.got) + 1
      BY <2>1, FS_AddElement
  <2>4. d.no \in 0..F - 1
      BY <1>1
  <2> QED
      BY <1>2, <1>3, <2>1, <2>2, <2>3, <2>4
<1>7. IsFiniteSet(c.got) /\ Cardinality(c.got) <= F /\ (Cardinality(c.got) = F => c.got = 0..F - 1)
  <2> DEFINE I == 0..F - 1
             G == c.got
  <2>1. IsFiniteSet(I) /\ Cardinality(I) = F /\ G \subseteq I
      BY <1>5, <1>6
  <2> HIDE DEF I, G
  <2>2. IsFiniteSet(G) /\ Cardinality(G) <= Cardinality(I) /\ (Cardinality(I) = Cardinality(G) => I = G)
      BY <2>1, FS_Subset
  <2> QED
      BY <2>1, <2>2 DEF I, G
<1>8. c.remaining = F - Cardinality(c.got) /\ c.remaining \in Nat
    BY <1>1, <1>2, <1>3, <1>6, <1>7
<1>9. ASSUME NEW n \in c.got, NEW k \in 0..size - 1,
             Offset(size, n) <= k, k < Offset(size, n + 1)
      PROVE  c.data[k] = <<d.id, k>>
  <2>1. CASE n = d.no
    <3>1. d.off <= k /\ k < d.off + d.len
        BY <1>1, <1>4, <1>9, <2>1
    <3> QED
        BY <1>2, <3>1
  <2>2. CASE n # d.no
    <3>1. b.data[k] = <<d.id, k>>
        BY <1>2, <1>3, <1>9, <2>2
    <3> QED
        BY <1>2, <3>1
  <2> QED
      BY <2>1, <2>2
<1>10. Filling(c)
    BY <1>2, <1>6, <1>8, <1>9 DEF Filling
<1>11. ASSUME c.remaining = 0 PROVE Exact(c)
  <2>1. c.got = 0..F - 1
      BY <1>1, <1>6, <1>7, <1>8, <1>11
  <2>2. ASSUME NEW k \in 0..size - 1 PROVE c.data[k] = <<d.id, k>>
    <3>1. PICK n \in 0..F - 1 : Offset(size, n) <= k /\ k < Offset(size, n + 1)
        BY <1>1, Covered
    <3> QED
        BY <1>9, <2>1, <3>1
  <2>3. c.data = [k \in DOMAIN c.data |-> c.data[k]]
    <3>1. c \in Buffer
        BY DEF Plus
    <3>2. c.data \in Contents
        BY <3>1 DEF Buffer
    <3> QED
        BY <3>2 DEF Contents
  <2> QED
      BY <1>2, <2>2, <2>3 DEF Exact
<1> QED
    BY <1>8, <1>10, <1>11

-----------------------------------------------------------------------------
(* The receiver.                                                           *)

LEMMA DatagramFacts ==
    ASSUME IInv, NEW d \in wire
    PROVE  /\ d \in Datagram /\ Fragment(d) /\ HeadOf(d) \in Heads /\ d.id \in 1..published
           /\ d.no = 0 => d.off = 0
<1>1. d \in Datagram /\ Fragment(d)
    BY DEF IInv, Types, Datagrams
<1>2. HeadOf(d) \in Heads
    BY DEF Heads
<1>3. HeadOf(d).id \in 1..published
    BY <1>2 DEF IInv, Identified
<1>4. HeadOf(d).id = d.id
    BY DEF HeadOf
<1>5. Offset(d.size, 0) = 0
    BY DEF Offset
<1> QED
    BY <1>1, <1>2, <1>3, <1>4, <1>5 DEF Fragment

\* What the fields of datagrams and buffers say when they agree on a message.
LEMMA SameMessage ==
    ASSUME IInv, NEW d \in wire
    PROVE  /\ \A e \in wire : e.id = d.id /\ e.no = d.no => e = d
           /\ \A s \in DOMAIN table.buf : table.buf[s].id = d.id => s = d.src
           /\ d.src \in DOMAIN table.buf /\ table.buf[d.src].seq = d.seq =>
                table.buf[d.src].id = d.id /\ table.buf[d.src].size = d.size
<1>1. \A x, y \in Heads : x.id = y.id \/ (x.src = y.src /\ x.seq = y.seq) => x = y
    BY DEF IInv, Identified
<1>2. HeadOf(d) \in Heads /\ d \in Datagram /\ Fragment(d)
    BY DatagramFacts
<1>3. ASSUME NEW e \in wire, e.id = d.id, e.no = d.no PROVE e = d
  <2>1. HeadOf(e) \in Heads /\ e \in Datagram /\ Fragment(e)
      BY DatagramFacts
  <2>2. HeadOf(e) = HeadOf(d)
    <3>1. HeadOf(e).id = HeadOf(d).id
        BY <1>3 DEF HeadOf
    <3> QED
        BY <1>1, <1>2, <2>1, <3>1
  <2>3. e.src = d.src /\ e.seq = d.seq /\ e.size = d.size
      BY <2>2 DEF HeadOf
  <2>4. e.count = d.count /\ e.off = d.off /\ e.len = d.len
      BY <1>2, <1>3, <2>1, <2>3 DEF Fragment
  <2> QED
      BY <1>2, <1>3, <2>1, <2>3, <2>4 DEF Datagram
<1>4. ASSUME NEW s \in DOMAIN table.buf, table.buf[s].id = d.id PROVE s = d.src
  <2>1. BufHead(s) \in Heads
      BY DEF Heads
  <2>2. BufHead(s).id = HeadOf(d).id
      BY <1>4 DEF BufHead, HeadOf
  <2>3. BufHead(s) = HeadOf(d)
      BY <1>1, <1>2, <2>1, <2>2
  <2> QED
      BY <2>3 DEF BufHead, HeadOf
<1>5. ASSUME d.src \in DOMAIN table.buf, table.buf[d.src].seq = d.seq
      PROVE  table.buf[d.src].id = d.id /\ table.buf[d.src].size = d.size
  <2>1. BufHead(d.src) \in Heads
      BY <1>5 DEF Heads
  <2>2. BufHead(d.src).src = HeadOf(d).src /\ BufHead(d.src).seq = HeadOf(d).seq
      BY <1>5 DEF BufHead, HeadOf
  <2>3. BufHead(d.src) = HeadOf(d)
      BY <1>1, <1>2, <2>1, <2>2
  <2> QED
      BY <2>3 DEF BufHead, HeadOf
<1> QED
    BY <1>3, <1>4, <1>5

\* The receiver takes d from the wire or, when d is to arrive once more, notes it.
Arrives(d) ==
    /\ IInv /\ d \in wire /\ RecvFragment(d) /\ UNCHANGED senderVars
    /\ wire' \subseteq wire /\ twice \subseteq twice' /\ twice' \in SUBSET Nat
    /\ d.id \notin twice' => d \notin wire'

\* No fragment of c will arrive any more.
PassedOnce(c) ==
    /\ \A e \in wire' : e.id = c.id => e.no \notin c.got
    /\ \A t \in Threads : pub[t].id = c.id => \A n \in c.got : n < pub[t].no

\* A fragment that is stored gives a buffer with the head of the datagram; if no
\* datagram of the message arrives twice, it is one more of its fragments.
LEMMA TakenFacts ==
    ASSUME NEW d, Arrives(d), NEW b, NEW c,
           \/ d.no = 0 /\ b = NewBuffer(d) /\ Plus(c, b, d, TRUE)
           \/ /\ d.src \in DOMAIN table.buf /\ b = table.buf[d.src]
              /\ table.buf[d.src].seq = d.seq /\ table.buf[d.src].size = d.size
              /\ Plus(c, b, d, d.no # 0)
    PROVE  /\ c \in Buffer /\ c.seq = d.seq /\ c.size = d.size /\ c.id = d.id
           /\ DOMAIN c.data = 0..c.size - 1
           /\ d.id \notin twice' =>
                /\ Filling(c) /\ PassedOnce(c) /\ 0 \in c.got /\ c.remaining \in Nat
                /\ c.remaining = 0 => Exact(c)
<1>1. IInv /\ d \in wire /\ d \in Datagram /\ Fragment(d)
    BY DatagramFacts DEF Arrives
<1>2. /\ wire' \subseteq wire /\ twice \subseteq twice' /\ UNCHANGED pub
      /\ d.id \notin twice' => d \notin wire'
    BY DEF Arrives, senderVars
<1>3. CASE d.no = 0 /\ b = NewBuffer(d) /\ Plus(c, b, d, TRUE)
  <2>1. /\ b.id = d.id /\ b.size = d.size /\ b.seq = d.seq /\ b.got = {}
        /\ b.remaining = Fragments(d.size)
      BY <1>1, <1>3 DEF NewBuffer, Fragment
  <2>2. Filling(b)
    <3>1. Cardinality(b.got) = 0 /\ d.size \in Nat /\ Fragments(d.size) \in Nat
        BY <1>1, <2>1, FS_EmptySet, FragmentsFacts DEF Fragment, Datagram
    <3> QED
        BY <2>1, <3>1 DEF Filling
  <2>3. /\ Filling(c) /\ c.remaining \in Nat
        /\ c.remaining = 0 => Exact(c)
      BY <1>1, <1>3, <2>1, <2>2, PlusFilling
  <2>4. /\ c \in Buffer /\ c.seq = d.seq /\ c.size = d.size /\ c.id = d.id
        /\ c.got = {0} /\ DOMAIN c.data = 0..c.size - 1
      BY <1>3, <2>1 DEF Plus
  <2>5. ASSUME d.id \notin twice' PROVE PassedOnce(c)
    <3>1. \A e \in wire' : e.id = d.id => e.no # 0
        BY <1>1, <1>2, <1>3, <2>5, SameMessage
    <3>2. \A t \in Threads : pub[t].id = d.id => 0 < pub[t].no
        BY <1>1, <1>3 DEF IInv, Datagrams
    <3> QED
        BY <2>4, <3>1, <3>2 DEF PassedOnce
  <2> QED
      BY <2>3, <2>4, <2>5
<1>4. CASE /\ d.src \in DOMAIN table.buf /\ b = table.buf[d.src]
           /\ table.buf[d.src].seq = d.seq /\ table.buf[d.src].size = d.size
           /\ Plus(c, b, d, d.no # 0)
  <2>1. b.id = d.id /\ b.seq = d.seq /\ b.size = d.size
      BY <1>1, <1>4, SameMessage
  <2>2. /\ c \in Buffer /\ c.seq = d.seq /\ c.size = d.size /\ c.id = d.id
        /\ c.got = b.got \cup {d.no} /\ DOMAIN c.data = 0..c.size - 1
      BY <1>4, <2>1 DEF Plus
  <2>3. ASSUME d.id \notin twice'
        PROVE  /\ Filling(c) /\ PassedOnce(c) /\ 0 \in c.got /\ c.remaining \in Nat
               /\ c.remaining = 0 => Exact(c)
    <3>1. Stored(b)
        BY <1>1, <1>2, <1>4, <2>1, <2>3 DEF IInv, Buffers
    <3>2. Filling(b) /\ Passed(b) /\ 0 \in b.got
        BY <3>1 DEF Stored
    <3>3. d.no \notin b.got
        BY <1>1, <2>1, <3>2 DEF Passed
    <3>4. Plus(c, b, d, TRUE)
      <4>1. d.no # 0
          BY <3>2, <3>3
      <4> QED
          BY <1>4, <4>1
    <3>5. /\ Filling(c) /\ c.remaining \in Nat
          /\ c.remaining = 0 => Exact(c)
        BY <1>1, <2>1, <3>2, <3>3, <3>4, PlusFilling
    <3>6. \A e \in wire' : e.id = d.id => e.no \notin c.got
      <4>1. \A e \in wire' : e.id = d.id => e.no # d.no
          BY <1>1, <1>2, <2>3, SameMessage
      <4>2. \A e \in wire' : e.id = d.id => e.no \notin b.got
          BY <1>2, <2>1, <3>2 DEF Passed
      <4> QED
          BY <2>2, <4>1, <4>2
    <3>7. \A t \in Threads : pub[t].id = d.id => \A n \in c.got : n < pub[t].no
      <4>1. \A t \in Threads : pub[t].id = d.id => d.no < pub[t].no
          BY <1>1 DEF IInv, Datagrams
      <4>2. \A t \in Threads : pub[t].id = d.id => \A n \in b.got : n < pub[t].no
          BY <2>1, <3>2 DEF Passed
      <4> QED
          BY <2>2, <4>1, <4>2
    <3>8. PassedOnce(c)
        BY <2>2, <3>6, <3>7 DEF PassedOnce
    <3> QED
        BY <2>2, <3>2, <3>5, <3>8
  <2> QED
      BY <2>2, <2>3
<1> QED
    BY <1>3, <1>4

\* d is in the buffer c, and no message with its id has been completed before.
Kept(c, d) ==
    /\ c \in Buffer /\ c.seq = d.seq /\ c.size = d.size /\ c.id = d.id
    /\ DOMAIN c.data = 0..c.size - 1
    /\ d.id \notin twice' =>
         /\ Filling(c) /\ PassedOnce(c) /\ 0 \in c.got /\ c.remaining \in Nat
         /\ c.remaining = 0 => Exact(c)
    /\ \A i \in 1..Len(delivered) :
         delivered[i].id \notin twice' => delivered[i].id # d.id

LEMMA Effect ==
    ASSUME NEW d, Arrives(d)
    PROVE  /\ Tabled(table)' /\ Bounded(table)'
           /\ \/ delivered' = delivered /\ Left(table', table)
              \/ \E c :
                   /\ Kept(c, d)
                   /\ \/ /\ c.remaining = 0 /\ Left(table', table) /\ d.src \notin DOMAIN table'.buf
                         /\ delivered' = Append(delivered, [id |-> c.id, size |-> c.size, data |-> c.data])
                      \/ /\ c.remaining # 0 /\ delivered' = delivered
                         /\ d.src \in DOMAIN table'.buf /\ table'.buf[d.src] = c
                         /\ DOMAIN table'.buf \ {d.src} \subseteq DOMAIN table.buf
                         /\ \A x \in DOMAIN table'.buf \ {d.src} : table'.buf[x] = table.buf[x]
<1>1. /\ IInv /\ d \in wire /\ d \in Datagram /\ RecvFragment(d) /\ twice \subseteq twice'
      /\ d.no = 0 => d.off = 0
    BY DatagramFacts DEF Arrives
<1>2. Tabled(table') /\ Bounded(table') /\ Outcome(d)
  <2>1. \A s \in DOMAIN table.buf : DOMAIN table.buf[s].data = 0..table.buf[s].size - 1
      BY <1>1 DEF IInv, Buffers
  <2>2. Tabled(table) /\ Bounded(table)
      BY <1>1 DEF IInv
  <2> QED
      BY <1>1, <2>1, <2>2, RecvFacts
<1>3. Tabled(table)' /\ Bounded(table)'
    BY <1>2 DEF Tabled, Bounded, Room
<1>4. ASSUME NEW i \in 1..Len(delivered), delivered[i].id \notin twice'
      PROVE  /\ \A e \in wire : e.id = delivered[i].id => e.no # 0
             /\ \A s \in DOMAIN table.buf : table.buf[s].id # delivered[i].id
  <2>1. Complete(i)
      BY <1>1, <1>4 DEF IInv, Deliveries
  <2> QED
      BY <2>1 DEF Complete
<1>5. ASSUME d.no = 0, Taken(d, NewBuffer(d), TRUE)
      PROVE  \E c :
               /\ Kept(c, d)
               /\ \/ /\ c.remaining = 0 /\ Left(table', table) /\ d.src \notin DOMAIN table'.buf
                     /\ delivered' = Append(delivered, [id |-> c.id, size |-> c.size, data |-> c.data])
                  \/ /\ c.remaining # 0 /\ delivered' = delivered
                     /\ d.src \in DOMAIN table'.buf /\ table'.buf[d.src] = c
                     /\ DOMAIN table'.buf \ {d.src} \subseteq DOMAIN table.buf
                     /\ \A x \in DOMAIN table'.buf \ {d.src} : table'.buf[x] = table.buf[x]
  <2>1. \A c : Plus(c, NewBuffer(d), d, TRUE) => Kept(c, d)
    <3> SUFFICES ASSUME NEW c, Plus(c, NewBuffer(d), d, TRUE) PROVE Kept(c, d)
        OBVIOUS
    <3>1. /\ c \in Buffer /\ c.seq = d.seq /\ c.size = d.size /\ c.id = d.id
          /\ DOMAIN c.data = 0..c.size - 1
          /\ d.id \notin twice' =>
               /\ Filling(c) /\ PassedOnce(c) /\ 0 \in c.got /\ c.remaining \in Nat
               /\ c.remaining = 0 => Exact(c)
        BY <1>5, TakenFacts
    <3>2. \A i \in 1..Len(delivered) : delivered[i].id \notin twice' => delivered[i].id # d.id
        BY <1>1, <1>4, <1>5
    <3> QED
        BY <3>1, <3>2 DEF Kept
  <2> QED
      BY <1>5, <2>1 DEF Taken
<1>6. ASSUME d.src \in DOMAIN table.buf,
             table.buf[d.src].seq = d.seq, table.buf[d.src].size = d.size,
             Taken(d, table.buf[d.src], d.no # 0)
      PROVE  \E c :
               /\ Kept(c, d)
               /\ \/ /\ c.remaining = 0 /\ Left(table', table) /\ d.src \notin DOMAIN table'.buf
                     /\ delivered' = Append(delivered, [id |-> c.id, size |-> c.size, data |-> c.data])
                  \/ /\ c.remaining # 0 /\ delivered' = delivered
                     /\ d.src \in DOMAIN table'.buf /\ table'.buf[d.src] = c
                     /\ DOMAIN table'.buf \ {d.src} \subseteq DOMAIN table.buf
                     /\ \A x \in DOMAIN table'.buf \ {d.src} : table'.buf[x] = table.buf[x]
  <2>1. \A c : Plus(c, table.buf[d.src], d, d.no # 0) => Kept(c, d)
    <3> SUFFICES ASSUME NEW c, Plus(c, table.buf[d.src], d, d.no # 0) PROVE Kept(c, d)
        OBVIOUS
    <3>1. /\ c \in Buffer /\ c.seq = d.seq /\ c.size = d.size /\ c.id = d.id
          /\ DOMAIN c.data = 0..c.size - 1
          /\ d.id \notin twice' =>
               /\ Filling(c) /\ PassedOnce(c) /\ 0 \in c.got /\ c.remaining \in Nat
               /\ c.remaining = 0 => Exact(c)
        BY <1>6, TakenFacts
    <3>2. table.buf[d.src].id = d.id
        BY <1>1, <1>6, SameMessage
    <3>3. \A i \in 1..Len(delivered) : delivered[i].id \notin twice' => delivered[i].id # d.id
        BY <1>4, <1>6, <3>2
    <3> QED
        BY <3>1, <3>3 DEF Kept
  <2> QED
      BY <1>6, <2>1 DEF Taken
<1> QED
    BY <1>2, <1>3, <1>5, <1>6 DEF Outcome

LEMMA ReceivedInv ==
    ASSUME NEW d, Arrives(d)
    PROVE  IInv'
<1>1. /\ IInv /\ d \in wire /\ d \in Datagram /\ HeadOf(d) \in Heads /\ d.id \in 1..published
    BY DatagramFacts DEF Arrives
<1>2. /\ wire' \subseteq wire /\ twice \subseteq twice' /\ twice' \in SUBSET Nat
      /\ UNCHANGED <<lock, seqno, pub, published>>
    BY DEF Arrives, senderVars
<1>3. /\ Tabled(table)' /\ Bounded(table)'
      /\ \/ delivered' = delivered /\ Left(table', table)
         \/ \E c :
              /\ Kept(c, d)
              /\ \/ /\ c.remaining = 0 /\ Left(table', table) /\ d.src \notin DOMAIN table'.buf
                    /\ delivered' = Append(delivered, [id |-> c.id, size |-> c.size, data |-> c.data])
                 \/ /\ c.remaining # 0 /\ delivered' = delivered
                    /\ d.src \in DOMAIN table'.buf /\ table'.buf[d.src] = c
                    /\ DOMAIN table'.buf \ {d.src} \subseteq DOMAIN table.buf
                    /\ \A x \in DOMAIN table'.buf \ {d.src} : table'.buf[x] = table.buf[x]
    BY Effect
\* A buffer of the new table is one of the old table or has the head of d.
<1>4. \A s \in DOMAIN table'.buf :
         \/ s \in DOMAIN table.buf /\ table'.buf[s] = table.buf[s]
         \/ /\ s = d.src /\ Kept(table'.buf[s], d) /\ table'.buf[s].remaining # 0
            /\ delivered' = delivered
    BY <1>3 DEF Left
<1>5. \/ delivered' = delivered
      \/ \E c : /\ Kept(c, d) /\ c.remaining = 0
                /\ Left(table', table) /\ d.src \notin DOMAIN table'.buf
                /\ delivered' = Append(delivered, [id |-> c.id, size |-> c.size, data |-> c.data])
    BY <1>3
<1>6. Types'
  <2>1. delivered' \in Seq(Message)
    <3>1. ASSUME NEW c, Kept(c, d)
          PROVE  [id |-> c.id, size |-> c.size, data |-> c.data] \in Message
        BY <3>1 DEF Kept, Buffer, Message
    <3>2. delivered \in Seq(Message)
        BY <1>1 DEF IInv, Types
    <3>3. ASSUME NEW c, Kept(c, d),
                 delivered' = Append(delivered, [id |-> c.id, size |-> c.size, data |-> c.data])
          PROVE  delivered' \in Seq(Message)
        BY <3>1, <3>2, <3>3, AppendFacts
    <3> QED
        BY <1>5, <3>2, <3>3
  <2>2. table' \in Table
      BY <1>3 DEF Tabled
  <2> QED
      BY <1>1, <1>2, <2>1, <2>2 DEF IInv, Types
<1>7. Senders'
    BY <1>1, <1>2 DEF IInv, Senders
<1>8. Heads' \subseteq Heads
  <2>1. ASSUME NEW s \in DOMAIN table'.buf PROVE BufHead(s)' \in Heads
    <3>1. CASE s \in DOMAIN table.buf /\ table'.buf[s] = table.buf[s]
      <4>1. BufHead(s)' = BufHead(s)
          BY <3>1 DEF BufHead
      <4> QED
          BY <3>1, <4>1 DEF Heads
    <3>2. CASE s = d.src /\ Kept(table'.buf[s], d)
      <4>1. BufHead(s)' = HeadOf(d)
          BY <3>2 DEF BufHead, HeadOf, Kept
      <4> QED
          BY <1>1, <4>1
    <3> QED
        BY <1>4, <3>1, <3>2
  <2>2. \A t \in Threads : PubHead(t)' = PubHead(t)
      BY <1>2 DEF PubHead
  <2>3. {PubHead(t) : t \in {u \in Threads : pub[u].id # 0}}' \subseteq Heads
      BY <1>2, <2>2 DEF Heads
  <2>4. \A e \in wire' : HeadOf(e) \in Heads
      BY <1>2 DEF Heads
  <2> QED
      BY <2>1, <2>3, <2>4 DEF Heads
<1>9. Identified'
    BY <1>1, <1>2, <1>8 DEF IInv, Identified
<1>10. Datagrams'
    BY <1>1, <1>2 DEF IInv, Datagrams
<1>11. Buffers'
  <2> SUFFICES ASSUME NEW s \in DOMAIN table'.buf
               PROVE  /\ DOMAIN table'.buf[s].data = 0..table'.buf[s].size - 1
                      /\ table'.buf[s].id \notin twice' => Stored(table.buf[s])'
      BY DEF Buffers
  <2>1. CASE s \in DOMAIN table.buf /\ table'.buf[s] = table.buf[s]
    <3>1. /\ DOMAIN table.buf[s].data = 0..table.buf[s].size - 1
          /\ table.buf[s].id \notin twice => Stored(table.buf[s])
        BY <1>1, <2>1 DEF IInv, Buffers
    <3>2. ASSUME Stored(table.buf[s]) PROVE Stored(table.buf[s])'
      <4>1. Passed(table.buf[s])'
          BY <1>2, <2>1, <3>2 DEF Stored, Passed
      <4>2. Filling(table.buf[s])'
          BY <2>1, <3>2 DEF Stored, Filling
      <4> QED
          BY <2>1, <3>2, <4>1, <4>2 DEF Stored
    <3> QED
        BY <1>2, <2>1, <3>1, <3>2
  <2>2. CASE s = d.src /\ Kept(table'.buf[s], d) /\ table'.buf[s].remaining # 0
    <3>1. /\ DOMAIN table'.buf[s].data = 0..table'.buf[s].size - 1 /\ table'.buf[s].id = d.id
          /\ d.id \notin twice' =>
                /\ Filling(table'.buf[s]) /\ 0 \in table'.buf[s].got /\ table'.buf[s].remaining \in Nat
        BY <2>2 DEF Kept
    <3>2. d.id \notin twice' => Passed(table.buf[s])'
        BY <1>2, <2>2 DEF Kept, PassedOnce, Passed
    <3>3. d.id \notin twice' => Stored(table.buf[s])'
      <4>1. Filling(table'.buf[s]) <=> Filling(table.buf[s])'
          BY DEF Filling
      <4> QED
          BY <2>2, <3>1, <3>2, <4>1 DEF Stored
    <3> QED
        BY <3>1, <3>3
  <2> QED
      BY <1>4, <2>1, <2>2
<1>12. Deliveries'
  <2>1. delivered \in Seq(Message) /\ Len(delivered) \in Nat
      BY <1>1 DEF IInv, Types
\* Completed before.
  <2>2. ASSUME NEW i \in 1..Len(delivered), delivered[i].id \notin twice'
        PROVE  /\ Complete(i) /\ delivered[i].id \in 1..published
               /\ \A e \in wire' : e.id = delivered[i].id => e.no # 0
               /\ \A t \in Threads : pub'[t].id = delivered[i].id => pub'[t].no # 0
               /\ \A s \in DOMAIN table'.buf : table'.buf[s].id # delivered[i].id
    <3>1. Complete(i) /\ delivered[i].id \in 1..published
        BY <1>1, <1>2, <2>2 DEF IInv, Deliveries
    <3>2. \A s \in DOMAIN table'.buf : table'.buf[s].id # delivered[i].id
        BY <1>4, <2>2, <3>1 DEF Complete, Kept
    <3> QED
        BY <1>2, <3>1, <3>2 DEF Complete
  <2>3. CASE delivered' = delivered
    <3> SUFFICES ASSUME NEW i \in 1..Len(delivered)
                 PROVE  /\ delivered[i].id \in 1..published
                        /\ delivered[i].id \notin twice' => Complete(i)'
        BY <1>2, <2>3 DEF Deliveries
    <3>1. delivered[i].id \notin twice' => Complete(i)'
        BY <2>2, <2>3 DEF Complete
    <3>2. delivered[i].id \in 1..published
        BY <1>1 DEF IInv, Deliveries
    <3> QED
        BY <3>1, <3>2
  <2>4. ASSUME NEW c, Kept(c, d), c.remaining = 0, Left(table', table), d.src \notin DOMAIN table'.buf,
               delivered' = Append(delivered, [id |-> c.id, size |-> c.size, data |-> c.data])
        PROVE  Deliveries'
    <3> DEFINE m == [id |-> c.id, size |-> c.size, data |-> c.data]
               L == Len(delivered)
    <3>1. m \in Message /\ m.id = d.id
        BY <2>4 DEF Kept, Buffer, Message
    <3>2. /\ Len(delivered') = L + 1 /\ delivered'[L + 1] = m
          /\ \A i \in 1..L : delivered'[i] = delivered[i]
        BY <2>1, <2>4, <3>1, AppendFacts
    <3>3. \A i \in 1..L + 1 : i \in 1..L \/ i = L + 1
        BY <2>1
    <3>4. ASSUME NEW i \in 1..L
          PROVE  /\ delivered'[i].id \in 1..published'
                 /\ delivered'[i].id \notin twice' => Complete(i)'
      <4>1. delivered[i].id \in 1..published
          BY <1>1 DEF IInv, Deliveries
      <4>2. ASSUME delivered[i].id \notin twice' PROVE Complete(i)'
        <5>1. delivered[i].id # d.id
            BY <2>4, <4>2 DEF Kept
        <5>2. \A j \in 1..L + 1 : delivered'[j].id = delivered[i].id => j = i
            BY <2>2, <3>1, <3>2, <3>3, <4>2, <5>1 DEF Complete
        <5> QED
            BY <2>2, <3>2, <4>2, <5>2 DEF Complete
      <4> QED
          BY <1>2, <3>2, <4>1, <4>2
    <3>5. ASSUME NEW i \in 1..L + 1, i = L + 1
          PROVE  /\ delivered'[i].id \in 1..published'
                 /\ delivered'[i].id \notin twice' => Complete(i)'
      <4>1. delivered'[i] = m /\ Len(delivered') = L + 1 /\ m.id = d.id
          BY <3>1, <3>2, <3>5
      <4>2. ASSUME d.id \notin twice' PROVE Complete(i)'
        <5>1. m.data = [k \in 0..m.size - 1 |-> <<m.id, k>>]
            BY <2>4, <4>2 DEF Kept, Exact
        <5>2. \A j \in 1..L + 1 : delivered'[j].id = d.id => j = i
            BY <2>4, <3>2, <3>3, <3>5, <4>2 DEF Kept
        <5>3. \A e \in wire' : e.id = d.id => e.no # 0
            BY <2>4, <4>2 DEF Kept, PassedOnce
        <5>4. \A t \in Threads : pub'[t].id = d.id => pub'[t].no # 0
            BY <1>2, <2>4, <4>2 DEF Kept, PassedOnce
        <5>5. \A s \in DOMAIN table'.buf : table'.buf[s].id # d.id
            BY <1>1, <2>4, SameMessage DEF Left
        <5> HIDE DEF m
        <5>6. /\ delivered'[i].data = [k \in 0..delivered'[i].size - 1 |-> <<delivered'[i].id, k>>]
              /\ delivered'[i].id = d.id
            BY <4>1, <5>1
        <5> QED
            BY <4>1, <5>2, <5>3, <5>4, <5>5, <5>6 DEF Complete, Exact
      <4> QED
          BY <1>1, <1>2, <4>1, <4>2
    <3>6. \A i \in 1..L + 1 : /\ delivered'[i].id \in 1..published'
                              /\ delivered'[i].id \notin twice' => Complete(i)'
      <4> SUFFICES ASSUME NEW i \in 1..L + 1
                   PROVE  /\ delivered'[i].id \in 1..published'
                          /\ delivered'[i].id \notin twice' => Complete(i)'
          OBVIOUS
      <4>1. CASE i \in 1..L
          BY <3>4, <4>1
      <4>2. CASE i = L + 1
          BY <3>5, <4>2
      <4> QED
          BY <3>3, <4>1, <4>2
    <3>7. Len(delivered') = L + 1
        BY <3>2
    <3> QED
        BY <3>6, <3>7 DEF Deliveries
  <2> QED
      BY <1>5, <2>3, <2>4
<1> QED
    BY <1>3, <1>6, <1>7, <1>9, <1>10, <1>11, <1>12 DEF IInv

-----------------------------------------------------------------------------
(* The senders.                                                            *)

LEMMA NextLengthFacts ==
    ASSUME NEW p \in Progress, NameSize + p.size >= Mtu, p.no < Fragments(p.size),
           p.off = Offset(p.size, p.no)
    PROVE  /\ NextLength(p) = Offset(p.size, p.no + 1) - Offset(p.size, p.no)
           /\ NextLength(p) \in Nat
           /\ Offset(p.size, p.no + 1) = p.off + NextLength(p)
<1>1. /\ p.size \in Nat /\ p.no \in Nat /\ p.no + 1 \in Nat
      /\ Mtu \in Nat /\ NameSize \in Nat /\ NameSize < Mtu
    BY FragmentsAssumption DEF Progress
<1>2. /\ Offset(p.size, p.no) \in 0..p.size /\ Offset(p.size, p.no + 1) \in 0..p.size
      /\ Offset(p.size, p.no) <= Offset(p.size, p.no + 1)
      /\ p.no * Mtu - NameSize < p.size
    BY <1>1, OffsetFacts
<1>3. (p.no + 1) * Mtu = p.no * Mtu + Mtu /\ p.no * Mtu \in Nat
    BY <1>1
<1>4. Offset(p.size, p.no + 1) =
        IF p.no * Mtu + Mtu - NameSize <= p.size THEN p.no * Mtu + Mtu - NameSize ELSE p.size
  <2>1. p.no + 1 # 0
      BY <1>1
  <2>2. Offset(p.size, p.no + 1) =
          IF (p.no + 1) * Mtu - NameSize <= p.size THEN (p.no + 1) * Mtu - NameSize ELSE p.size
      BY <2>1 DEF Offset
  <2> QED
      BY <1>1, <1>3, <2>2
<1>5. NextLength(p) = Offset(p.size, p.no + 1) - Offset(p.size, p.no)
  <2>1. CASE p.no = 0
    <3>1. Offset(p.size, p.no) = 0 /\ p.no * Mtu = 0 /\ NextLength(p) = Mtu - NameSize
        BY <1>1, <2>1 DEF Offset, NextLength
    <3> QED
        BY <1>1, <1>4, <3>1
  <2>2. CASE p.no # 0
    <3> DEFINE a == p.no * Mtu
    <3>1. Offset(p.size, p.no) = a - NameSize /\ a \in Nat
        BY <1>2, <1>1, <1>3, <2>2 DEF Offset
    <3>2. NextLength(p) = IF Mtu <= p.size - p.off THEN Mtu ELSE p.size - p.off
        BY <2>2 DEF NextLength
    <3>3. Offset(p.size, p.no + 1) = IF a + Mtu - NameSize <= p.size THEN a + Mtu - NameSize ELSE p.size
        BY <1>4
    <3> HIDE DEF a
    <3> QED
        BY <1>1, <3>1, <3>2, <3>3
  <2> QED
      BY <2>1, <2>2
<1> QED
    BY <1>2, <1>5

LEMMA HeadFacts ==
    ASSUME IInv
    PROVE  /\ \A t \in Threads : pub[t].id # 0 =>
                PubHead(t) \in Heads /\ pub[t].id \in 1..published
           /\ \A s \in DOMAIN table.buf : table.buf[s].id \in 1..published
           /\ \A d \in wire : d.id \in 1..published
           /\ \A t, u \in Threads : pub[t].id # 0 /\ pub[u].id # 0 /\ SourceOf[t] = SourceOf[u] => t = u
           /\ \A t, u \in Threads : pub[t].id # 0 /\ pub[u].id = pub[t].id => t = u
<1>1. ASSUME NEW t \in Threads, pub[t].id # 0
      PROVE  PubHead(t) \in Heads /\ pub[t].id \in 1..published /\ lock[SourceOf[t]] = t
  <2>1. PubHead(t) \in Heads
      BY <1>1 DEF Heads
  <2>2. PubHead(t).id \in 1..published
      BY <2>1 DEF IInv, Identified
  <2> QED
      BY <1>1, <2>1, <2>2 DEF PubHead, IInv, Senders
<1>2. ASSUME NEW s \in DOMAIN table.buf PROVE table.buf[s].id \in 1..published
  <2>1. BufHead(s) \in Heads
      BY DEF Heads
  <2>2. BufHead(s).id \in 1..published
      BY <2>1 DEF IInv, Identified
  <2> QED
      BY <2>2 DEF BufHead
<1>3. ASSUME NEW t \in Threads, NEW u \in Threads, pub[t].id # 0, pub[u].id = pub[t].id PROVE t = u
  <2>1. PubHead(t) \in Heads /\ PubHead(u) \in Heads
      BY <1>1, <1>3
  <2>2. PubHead(t).id = PubHead(u).id
      BY <1>3 DEF PubHead
  <2>3. PubHead(t) = PubHead(u)
      BY <2>1, <2>2 DEF IInv, Identified
  <2>4. SourceOf[t] = SourceOf[u]
      BY <2>3 DEF PubHead
  <2> QED
      BY <1>1, <1>3, <2>4
<1> QED
    BY <1>1, <1>2, <1>3, DatagramFacts

\* What a step of the senders keeps of the receiver: the messages published before
\* go on only, and what is new on the wire is the fragment its sender is at.
LEMMA SenderInv ==
    ASSUME IInv, Types', Senders', Identified', UNCHANGED <<table, delivered, twice>>,
           published <= published', wire \subseteq wire',
           \A u \in Threads : pub'[u].id \in 1..published =>
               pub'[u].id = pub[u].id /\ pub[u].no <= pub'[u].no,
           \A e \in wire' \ wire :
               /\ Fragment(e)
               /\ \E t \in Threads : pub[t].id = e.id /\ pub[t].no = e.no
               /\ \A u \in Threads : pub'[u].id = e.id => e.no < pub'[u].no
    PROVE  IInv'
<1>1. /\ \A s \in DOMAIN table.buf : table.buf[s].id \in 1..published
      /\ \A d \in wire : d.id \in 1..published
      /\ published \in Nat /\ published' \in Nat
    BY HeadFacts DEF IInv, Types
<1>2. \A t \in Threads : pub[t].no \in Nat /\ pub'[t].no \in Nat
    BY DEF IInv, Types, Progress
<1>3. Datagrams'
  <2> SUFFICES ASSUME NEW d \in wire'
               PROVE  Fragment(d) /\ \A t \in Threads : pub'[t].id = d.id => d.no < pub'[t].no
      BY DEF Datagrams
  <2>1. CASE d \in wire
    <3>1. /\ Fragment(d) /\ \A t \in Threads : pub[t].id = d.id => d.no < pub[t].no
          /\ d.no \in Nat
        BY <2>1, DatagramFacts DEF IInv, Datagrams, Datagram
    <3>2. ASSUME NEW t \in Threads, pub'[t].id = d.id PROVE d.no < pub'[t].no
        BY <1>1, <1>2, <2>1, <3>1, <3>2
    <3> QED
        BY <3>1, <3>2
  <2>2. CASE d \notin wire
      BY <2>2
  <2> QED
      BY <2>1, <2>2
<1>4. Buffers'
  <2>1. ASSUME NEW b \in Buffer, Passed(b), b.id \in 1..published PROVE Passed(b)'
    <3>1. ASSUME NEW d \in wire', d.id = b.id PROVE d.no \notin b.got
      <4>1. CASE d \in wire
          BY <2>1, <3>1, <4>1 DEF Passed
      <4>2. CASE d \notin wire
        <5>1. PICK t \in Threads : pub[t].id = d.id /\ pub[t].no = d.no
            BY <4>2
        <5>2. \A n \in b.got : n < pub[t].no
            BY <2>1, <3>1, <5>1 DEF Passed
        <5> QED
            BY <1>2, <5>1, <5>2
      <4> QED
          BY <4>1, <4>2
    <3>2. ASSUME NEW t \in Threads, pub'[t].id = b.id, NEW n \in b.got PROVE n < pub'[t].no
      <4>1. pub[t].id = b.id /\ pub[t].no <= pub'[t].no
          BY <2>1, <3>2
      <4>2. n < pub[t].no /\ n \in Nat
          BY <2>1, <4>1 DEF Passed, Buffer
      <4> QED
          BY <1>2, <4>1, <4>2
    <3> QED
        BY <3>1, <3>2 DEF Passed
  <2> SUFFICES ASSUME NEW s \in DOMAIN table.buf
               PROVE  /\ DOMAIN table.buf[s].data = 0..table.buf[s].size - 1
                      /\ table.buf[s].id \notin twice => Stored(table.buf[s])'
      BY DEF Buffers
  <2>2. /\ DOMAIN table.buf[s].data = 0..table.buf[s].size - 1
        /\ table.buf[s].id \notin twice => Stored(table.buf[s])
      BY DEF IInv, Buffers
  <2>3. table.buf[s] \in Buffer
    <3>1. Tabled(table)
        BY DEF IInv
    <3> QED
        BY <3>1, TabledFacts
  <2>4. ASSUME Stored(table.buf[s]) PROVE Stored(table.buf[s])'
    <3>1. PICK b \in Buffer : b = table.buf[s] /\ b = table'.buf[s]
        BY <2>3
    <3>2. Filling(b) /\ Passed(b) /\ b.remaining > 0 /\ 0 \in b.got
        BY <2>4, <3>1 DEF Stored
    <3>3. Passed(b)'
        BY <1>1, <2>1, <3>1, <3>2
    <3>4. Passed(table.buf[s])' /\ Filling(table.buf[s])'
        BY <3>1, <3>2, <3>3 DEF Passed, Filling
    <3> QED
        BY <3>1, <3>2, <3>4 DEF Stored
  <2> QED
      BY <2>2, <2>4
<1>5. Deliveries'
  <2> SUFFICES ASSUME NEW i \in 1..Len(delivered)
               PROVE  /\ delivered[i].id \in 1..published'
                      /\ delivered[i].id \notin twice => Complete(i)'
      BY DEF Deliveries
  <2>1. /\ delivered[i].id \in 1..published
        /\ delivered[i].id \notin twice => Complete(i)
      BY DEF IInv, Deliveries
  <2>2. ASSUME Complete(i) PROVE Complete(i)'
    <3>1. ASSUME NEW d \in wire', d.id = delivered[i].id PROVE d.no # 0
      <4>1. CASE d \in wire
          BY <2>2, <3>1, <4>1 DEF Complete
      <4>2. CASE d \notin wire
        <5>1. PICK t \in Threads : pub[t].id = d.id /\ pub[t].no = d.no
            BY <4>2
        <5> QED
            BY <2>2, <3>1, <5>1 DEF Complete
      <4> QED
          BY <4>1, <4>2
    <3>2. ASSUME NEW t \in Threads, pub'[t].id = delivered[i].id PROVE pub'[t].no # 0
      <4>1. pub[t].id = delivered[i].id /\ pub[t].no <= pub'[t].no
          BY <2>1, <3>2
      <4>2. pub[t].no # 0
          BY <2>2, <4>1 DEF Complete
      <4> QED
          BY <1>2, <4>1, <4>2
    <3> QED
        BY <2>2, <3>1, <3>2 DEF Complete, Exact
  <2> QED
      BY <1>1, <2>1, <2>2
<1>6. Tabled(table)' /\ Bounded(table)'
    BY DEF IInv, Tabled, Bounded, Room
<1> QED
    BY <1>3, <1>4, <1>5, <1>6 DEF IInv

LEMMA InitInv ==
    ASSUME Init
    PROVE  IInv
<1>1. /\ lock = [s \in Sources |-> NoThread] /\ seqno = [s \in Sources |-> 0]
      /\ pub = [t \in Threads |-> Idle] /\ published = 0 /\ wire = {} /\ delivered = <<>>
      /\ twice = {} /\ table = [buf |-> [s \in {} |-> 0], order |-> <<>>, total |-> 0]
    BY DEF Init
<1>2. \A t \in Threads : pub[t] = Idle /\ pub[t].id = 0
    BY <1>1 DEF Idle
<1>3. DOMAIN table.buf = {} /\ table.buf = [s \in {} |-> 0]
    BY <1>1
<1>4. Tabled(table) /\ Bounded(table)
  <2>1. table \in Table
    <3>1. [s \in {} |-> 0] \in [{} -> Buffer]
        OBVIOUS
    <3>2. [s \in {} |-> 0] \in UNION {[X -> Buffer] : X \in SUBSET Sources}
        BY <3>1
    <3>3. <<>> \in Seq(Sources) /\ 0 \in Int
        OBVIOUS
    <3> QED
        BY <1>1, <3>2, <3>3 DEF Table
  <2>2. table.order = <<>> /\ table.total = 0
      BY <1>1
  <2>3. IsInjective(table.order) /\ ToSet(table.order) = {}
      BY <2>2 DEF IsInjective, ToSet
  <2>4. SumFunction([s \in DOMAIN table.buf |-> table.buf[s].size]) = 0
    <3>1. IsFiniteSet({}) /\ [s \in {} |-> table.buf[s].size] \in [{} -> Nat]
        BY FS_EmptySet
    <3>2. SumFunction([s \in {} |-> table.buf[s].size]) = 0
        BY <3>1, SumLess
    <3> QED
        BY <1>3, <3>2
  <2>5. Cardinality(DOMAIN table.buf) = 0
      BY <1>3, FS_EmptySet
  <2> QED
      BY <1>3, <2>1, <2>2, <2>3, <2>4, <2>5, FragmentsAssumption DEF Tabled, Bounded, Room
<1>5. Heads = {}
    BY <1>1, <1>2, <1>3 DEF Heads
<1>6. Types
  <2>1. Idle \in Progress
      BY DEF Idle, Progress
  <2>2. table \in Table /\ delivered \in Seq(Message)
      BY <1>1, <1>4 DEF Tabled
  <2> QED
      BY <1>1, <2>1, <2>2 DEF Types
<1>7. Senders /\ Identified /\ Datagrams /\ Buffers /\ Deliveries
    BY <1>1, <1>2, <1>3, <1>5 DEF Senders, Identified, Datagrams, Buffers, Deliveries
<1> QED
    BY <1>4, <1>6, <1>7 DEF IInv

LEMMA HeadTypes ==
    ASSUME IInv, NEW x \in Heads
    PROVE  x.src \in Sources /\ x.seq \in Nat /\ x.id \in Nat
<1>1. ASSUME NEW d \in wire, x = HeadOf(d) PROVE x.src \in Sources /\ x.seq \in Nat /\ x.id \in Nat
    BY <1>1, DatagramFacts DEF HeadOf, Datagram
<1>2. ASSUME NEW s \in DOMAIN table.buf, x = BufHead(s)
      PROVE  x.src \in Sources /\ x.seq \in Nat /\ x.id \in Nat
  <2>1. Tabled(table)
      BY DEF IInv
  <2>2. s \in Sources /\ table.buf[s] \in Buffer
      BY <2>1, TabledFacts
  <2> QED
      BY <1>2, <2>2 DEF BufHead, Buffer
<1>3. ASSUME NEW t \in Threads, x = PubHead(t)
      PROVE  x.src \in Sources /\ x.seq \in Nat /\ x.id \in Nat
    BY <1>3, FragmentsAssumption DEF PubHead, IInv, Types, Progress
<1> QED
    BY <1>1, <1>2, <1>3 DEF Heads

LEMMA PublishShortInv ==
    ASSUME IInv, NEW t \in Threads, PublishShort(t)
    PROVE  IInv'
<1> DEFINE s == SourceOf[t]
<1>1. /\ pub[t] = Idle /\ lock[s] = NoThread /\ published' = published + 1
      /\ seqno' = [seqno EXCEPT ![s] = @ + 1]
      /\ UNCHANGED <<lock, pub, wire, table, delivered, twice>>
    BY DEF PublishShort
<1>2. s \in Sources /\ published \in Nat /\ seqno \in [Sources -> Nat]
    BY FragmentsAssumption DEF IInv, Types
<1>3. \A u \in Threads : pub[u].id # 0 => SourceOf[u] # s
    BY <1>1, FragmentsAssumption DEF IInv, Senders
<1>4. Types'
    BY <1>1, <1>2 DEF IInv, Types
<1>5. Senders'
    BY <1>1 DEF IInv, Senders
<1>6. Heads' = Heads
  <2>1. \A d \in wire : HeadOf(d)' = HeadOf(d)
      BY DEF HeadOf
  <2>2. \A x \in DOMAIN table.buf : BufHead(x)' = BufHead(x)
      BY <1>1 DEF BufHead
  <2>3. \A u \in Threads : pub[u].id # 0 => PubHead(u)' = PubHead(u)
    <3>1. ASSUME NEW u \in Threads, pub[u].id # 0 PROVE seqno'[SourceOf[u]] = seqno[SourceOf[u]]
        BY <1>1, <1>2, <1>3, <3>1, FragmentsAssumption
    <3> QED
        BY <1>1, <3>1 DEF PubHead
  <2> QED
      BY <1>1, <2>1, <2>2, <2>3 DEF Heads
<1>7. Identified'
  <2> SUFFICES ASSUME NEW x \in Heads
               PROVE  /\ x.id \in 1..published' /\ x.seq <= seqno'[x.src]
                      /\ x.seq = seqno'[x.src] =>
                           \E u \in Threads : pub[u].id = x.id /\ SourceOf[u] = x.src
      BY <1>1, <1>6 DEF IInv, Identified
  <2>1. /\ x.id \in 1..published /\ x.seq <= seqno[x.src]
        /\ x.seq = seqno[x.src] =>
             \E u \in Threads : pub[u].id = x.id /\ SourceOf[u] = x.src
      BY DEF IInv, Identified
  <2>2. x.src \in Sources /\ x.seq \in Nat
      BY HeadTypes
  <2>3. CASE x.src = s
      BY <1>1, <1>2, <2>1, <2>2, <2>3
  <2>4. CASE x.src # s
      BY <1>1, <1>2, <2>1, <2>2, <2>4
  <2> QED
      BY <2>3, <2>4
<1>8. \A u \in Threads : pub'[u].id = pub[u].id /\ pub[u].no <= pub'[u].no
    BY <1>1 DEF IInv, Types, Progress
<1> QED
    BY <1>1, <1>2, <1>4, <1>5, <1>7, <1>8, SenderInv

LEMMA BeginInv ==
    ASSUME IInv, NEW t \in Threads, Begin(t)
    PROVE  IInv'
<1> DEFINE s == SourceOf[t]
           id == published + 1
<1>1. /\ pub[t] = Idle /\ lock[s] = NoThread /\ published' = published + 1
      /\ lock' = [lock EXCEPT ![s] = t]
      /\ UNCHANGED <<seqno, wire, table, delivered, twice>>
    BY DEF Begin
<1>2. PICK size \in Sizes[t] :
        pub' = [pub EXCEPT ![t] = [Idle EXCEPT !.id = published + 1, !.size = size]]
    BY DEF Begin
<1>3. /\ s \in Sources /\ published \in Nat /\ seqno \in [Sources -> Nat]
      /\ lock \in [Sources -> Threads \cup {NoThread}] /\ pub \in [Threads -> Progress]
      /\ \A u \in Threads : SourceOf[u] \in Sources
      /\ size \in Nat /\ NameSize + size >= Mtu
    BY FragmentsAssumption DEF IInv, Types
<1>4. /\ pub'[t] = [id |-> id, size |-> size, no |-> 0, off |-> 0, ok |-> TRUE]
      /\ \A u \in Threads : u # t => pub'[u] = pub[u]
  <2>1. [Idle EXCEPT !.id = published + 1, !.size = size]
            = [id |-> id, size |-> size, no |-> 0, off |-> 0, ok |-> TRUE]
    <3>1. ASSUME NEW e, e = [Idle EXCEPT !.id = published + 1, !.size = size]
          PROVE  e = [id |-> id, size |-> size, no |-> 0, off |-> 0, ok |-> TRUE]
        BY <3>1 DEF Idle
    <3> QED
        BY <3>1
  <2> QED
      BY <1>2, <1>3, <2>1
<1>5. /\ pub'[t].id = id /\ pub'[t].size = size /\ pub'[t].no = 0 /\ pub'[t].off = 0
      /\ pub[t].id = 0
    BY <1>1, <1>4 DEF Idle
\* No thread is in lcm_udpm_publish on this lcm_t.
<1>6. \A u \in Threads : pub[u].id # 0 => SourceOf[u] # s /\ u # t
    BY <1>1, <1>5, FragmentsAssumption DEF IInv, Senders
<1>7. Types'
  <2>1. pub'[t] \in Progress
      BY <1>3, <1>4 DEF Progress
  <2>2. pub' \in [Threads -> Progress]
      BY <1>2, <1>3, <1>4, <2>1
  <2> QED
      BY <1>1, <1>3, <2>2 DEF IInv, Types
<1>8. Senders'
  <2> SUFFICES ASSUME NEW u \in Threads, pub'[u].id # 0
               PROVE  /\ lock'[SourceOf[u]] = u /\ NameSize + pub'[u].size >= Mtu
                      /\ pub'[u].no <= Fragments(pub'[u].size)
                      /\ pub'[u].off = Offset(pub'[u].size, pub'[u].no)
      BY DEF Senders
  <2>1. CASE u = t
    <3>1. Fragments(size) \in Nat /\ Offset(size, 0) = 0
        BY <1>3, FragmentsFacts, OffsetFacts
    <3> QED
        BY <1>1, <1>3, <1>5, <2>1, <3>1
  <2>2. CASE u # t
    <3>1. pub'[u] = pub[u] /\ pub[u].id # 0 /\ SourceOf[u] # s
        BY <1>4, <1>6, <2>2
    <3> QED
        BY <1>1, <1>3, <3>1 DEF IInv, Senders
  <2> QED
      BY <2>1, <2>2
<1> DEFINE h == [src |-> s, seq |-> seqno[s], id |-> id, size |-> size]
<1>9. Heads' \subseteq Heads \cup {h}
  <2>1. \A d \in wire : HeadOf(d)' = HeadOf(d)
      BY DEF HeadOf
  <2>2. \A x \in DOMAIN table.buf : BufHead(x)' = BufHead(x)
      BY <1>1 DEF BufHead
  <2>3. \A u \in Threads : pub'[u].id # 0 /\ u # t => PubHead(u)' = PubHead(u) /\ pub[u].id # 0
      BY <1>1, <1>4 DEF PubHead
  <2>4. PubHead(t)' = h
      BY <1>1, <1>5 DEF PubHead
  <2> HIDE DEF h
  <2> QED
      BY <1>1, <2>1, <2>2, <2>3, <2>4 DEF Heads
<1>10. ASSUME NEW x \in Heads
       PROVE  /\ x.id \in 1..published /\ x.seq <= seqno[x.src]
              /\ ~(x.src = s /\ x.seq = seqno[s])
              /\ x.seq = seqno[x.src] =>
                   \E u \in Threads : pub'[u].id = x.id /\ SourceOf[u] = x.src
  <2>1. /\ x.id \in 1..published /\ x.seq <= seqno[x.src]
        /\ x.seq = seqno[x.src] =>
             \E u \in Threads : pub[u].id = x.id /\ SourceOf[u] = x.src
      BY DEF IInv, Identified
  <2>2. ASSUME x.seq = seqno[x.src]
        PROVE  x.src # s /\ \E u \in Threads : pub'[u].id = x.id /\ SourceOf[u] = x.src
    <3>1. PICK u \in Threads : pub[u].id = x.id /\ SourceOf[u] = x.src
        BY <2>1, <2>2
    <3>2. pub[u].id # 0
        BY <1>3, <2>1, <3>1
    <3> QED
        BY <1>4, <1>6, <3>1, <3>2
  <2> QED
      BY <2>1, <2>2
<1>11. Identified'
  <2>1. h.id = published + 1 /\ h.src = s /\ h.seq = seqno[s]
      OBVIOUS
  <2> HIDE DEF h
  <2>2. \A x \in Heads' :
            /\ x.id \in 1..published' /\ x.seq <= seqno'[x.src]
            /\ x.seq = seqno'[x.src] =>
                 \E u \in Threads : pub'[u].id = x.id /\ SourceOf[u] = x.src
      BY <1>1, <1>3, <1>5, <1>9, <1>10, <2>1
  <2>3. \A x \in Heads : x.id # h.id /\ ~(x.src = h.src /\ x.seq = h.seq)
      BY <1>3, <1>10, <2>1
  <2>4. \A x, y \in Heads' : x.id = y.id \/ (x.src = y.src /\ x.seq = y.seq) => x = y
    <3>1. \A x, y \in Heads : x.id = y.id \/ (x.src = y.src /\ x.seq = y.seq) => x = y
        BY DEF IInv, Identified
    <3> QED
        BY <1>9, <2>3, <3>1
  <2> QED
      BY <2>2, <2>4 DEF Identified
<1>12. \A u \in Threads : pub'[u].id \in 1..published =>
           pub'[u].id = pub[u].id /\ pub[u].no <= pub'[u].no
    BY <1>3, <1>4, <1>5 DEF Progress
<1> QED
    BY <1>1, <1>3, <1>7, <1>8, <1>11, <1>12, SenderInv

LEMMA SendFragmentInv ==
    ASSUME IInv, NEW t \in Threads, SendFragment(t)
    PROVE  IInv'
<1> DEFINE s == SourceOf[t]
           p == pub[t]
           d == [src |-> s, seq |-> seqno[s], id |-> p.id, size |-> p.size, no |-> p.no,
                 count |-> Fragments(p.size), off |-> p.off, len |-> NextLength(p)]
<1>1. /\ p.id # 0 /\ p.no < Fragments(p.size)
      /\ UNCHANGED <<lock, seqno, published, table, delivered, twice>>
      /\ \/ /\ pub' = [pub EXCEPT ![t].no = @ + 1, ![t].off = @ + d.len]
            /\ wire' = wire \cup {d} \/ UNCHANGED wire
         \/ pub' = [pub EXCEPT ![t].ok = FALSE] /\ UNCHANGED wire
    BY DEF SendFragment, More
<1>2. /\ s \in Sources /\ published \in Nat /\ seqno[s] \in Nat
      /\ pub \in [Threads -> Progress] /\ p \in Progress
      /\ p.id \in Nat /\ p.size \in Nat /\ p.no \in Nat /\ p.off \in Nat
    BY FragmentsAssumption DEF IInv, Types, Progress
<1>3. /\ NameSize + p.size >= Mtu /\ p.off = Offset(p.size, p.no) /\ lock[s] = t
      /\ p.id \in 1..published
    BY <1>1, HeadFacts DEF IInv, Senders
<1>4. /\ NextLength(p) = Offset(p.size, p.no + 1) - Offset(p.size, p.no)
      /\ NextLength(p) \in Nat /\ Offset(p.size, p.no + 1) = p.off + NextLength(p)
      /\ Fragments(p.size) \in Nat
    BY <1>1, <1>2, <1>3, NextLengthFacts, FragmentsFacts
<1>5. /\ d \in Datagram /\ Fragment(d) /\ HeadOf(d) = PubHead(t)
      /\ d.id = p.id /\ d.no = p.no /\ d.len = NextLength(p)
  <2>1. /\ d.src = s /\ d.seq = seqno[s] /\ d.id = p.id /\ d.size = p.size /\ d.no = p.no
        /\ d.count = Fragments(p.size) /\ d.off = p.off /\ d.len = NextLength(p)
      OBVIOUS
  <2>2. d \in Datagram
      BY <1>2, <1>4 DEF Datagram
  <2> HIDE DEF d
  <2>3. Fragment(d)
      BY <1>1, <1>3, <1>4, <2>1 DEF Fragment
  <2>4. HeadOf(d) = PubHead(t)
      BY <2>1 DEF HeadOf, PubHead
  <2> QED
      BY <2>1, <2>2, <2>3, <2>4
<1> HIDE DEF d
\* The thread goes on by the fragment, or ends its loop.
<1>6. /\ \A u \in Threads : u # t => pub'[u] = pub[u]
      /\ pub'[t].id = p.id /\ pub'[t].size = p.size /\ pub' \in [Threads -> Progress]
      /\ \/ pub'[t].no = p.no + 1 /\ pub'[t].off = p.off + NextLength(p)
         \/ pub'[t].no = p.no /\ pub'[t].off = p.off /\ UNCHANGED wire
      /\ wire' = wire \cup {d} \/ UNCHANGED wire
  <2>1. CASE /\ pub' = [pub EXCEPT ![t].no = @ + 1, ![t].off = @ + d.len]
             /\ wire' = wire \cup {d} \/ UNCHANGED wire
    <3>1. /\ pub'[t].id = p.id /\ pub'[t].size = p.size /\ pub'[t] \in Progress
          /\ pub'[t].no = p.no + 1 /\ pub'[t].off = p.off + NextLength(p)
      <4>1. pub'[t] = [id |-> p.id, size |-> p.size, no |-> p.no + 1, off |-> p.off + NextLength(p),
                       ok |-> p.ok]
          BY <1>2, <1>5, <2>1 DEF Progress
      <4> QED
          BY <1>2, <1>4, <4>1 DEF Progress
    <3>2. DOMAIN pub' = Threads /\ (\A u \in Threads : u # t => pub'[u] = pub[u])
          /\ pub' = [u \in Threads |-> pub'[u]]
        BY <1>2, <2>1
    <3>3. pub' \in [Threads -> Progress]
        BY <1>2, <3>1, <3>2
    <3> QED
        BY <2>1, <3>1, <3>2, <3>3
  <2>2. CASE pub' = [pub EXCEPT ![t].ok = FALSE] /\ UNCHANGED wire
    <3>1. /\ pub'[t].id = p.id /\ pub'[t].size = p.size /\ pub'[t] \in Progress
          /\ pub'[t].no = p.no /\ pub'[t].off = p.off
      <4>1. pub'[t] = [id |-> p.id, size |-> p.size, no |-> p.no, off |-> p.off, ok |-> FALSE]
          BY <1>2, <2>2 DEF Progress
      <4> QED
          BY <1>2, <4>1 DEF Progress
    <3>2. DOMAIN pub' = Threads /\ (\A u \in Threads : u # t => pub'[u] = pub[u])
          /\ pub' = [u \in Threads |-> pub'[u]]
        BY <1>2, <2>2
    <3>3. pub' \in [Threads -> Progress]
        BY <1>2, <3>1, <3>2
    <3> QED
        BY <2>2, <3>1, <3>2, <3>3
  <2> QED
      BY <1>1, <2>1, <2>2
<1>7. Types'
    BY <1>1, <1>5, <1>6 DEF IInv, Types
<1>8. Senders'
  <2> SUFFICES ASSUME NEW u \in Threads, pub'[u].id # 0
               PROVE  /\ lock[SourceOf[u]] = u /\ NameSize + pub'[u].size >= Mtu
                      /\ pub'[u].no <= Fragments(pub'[u].size)
                      /\ pub'[u].off = Offset(pub'[u].size, pub'[u].no)
      BY <1>1 DEF Senders
  <2>1. CASE u = t
      BY <1>1, <1>2, <1>3, <1>4, <1>6, <2>1
  <2>2. CASE u # t
      BY <1>6, <2>2 DEF IInv, Senders
  <2> QED
      BY <2>1, <2>2
<1>9. Heads' \subseteq Heads
  <2>1. \A e : HeadOf(e)' = HeadOf(e)
      BY DEF HeadOf
  <2>2. \A x \in DOMAIN table.buf : BufHead(x)' = BufHead(x)
      BY <1>1 DEF BufHead
  <2>3. \A u \in Threads : PubHead(u)' = PubHead(u) /\ (pub'[u].id # 0 <=> pub[u].id # 0)
      BY <1>1, <1>6 DEF PubHead
  <2>4. \A e \in wire' : HeadOf(e) \in Heads
    <3>1. HeadOf(d) \in Heads
        BY <1>1, <1>5, HeadFacts
    <3> QED
        BY <1>6, <3>1 DEF Heads
  <2> QED
      BY <1>1, <2>1, <2>2, <2>3, <2>4 DEF Heads
<1>10. Identified'
  <2>1. \A u \in Threads : pub'[u].id = pub[u].id
      BY <1>6
  <2> QED
      BY <1>1, <1>9, <2>1 DEF IInv, Identified
<1>11. \A u \in Threads : pub'[u].id = pub[u].id /\ pub[u].no <= pub'[u].no
    BY <1>2, <1>6 DEF Progress
<1>12. ASSUME NEW e \in wire' \ wire
       PROVE  /\ Fragment(e)
              /\ \E u \in Threads : pub[u].id = e.id /\ pub[u].no = e.no
              /\ \A u \in Threads : pub'[u].id = e.id => e.no < pub'[u].no
  <2>1. e = d /\ pub'[t].no = p.no + 1
      BY <1>6, <1>12
  <2>2. ASSUME NEW u \in Threads, pub'[u].id = e.id PROVE e.no < pub'[u].no
    <3>1. u = t
        BY <1>1, <1>5, <1>11, <2>1, <2>2, HeadFacts
    <3> QED
        BY <1>2, <1>5, <2>1, <3>1
  <2> QED
      BY <1>5, <2>1, <2>2
<1>13. published <= published' /\ wire \subseteq wire'
    BY <1>1, <1>2, <1>6
<1> QED
    BY <1>1, <1>7, <1>8, <1>10, <1>11, <1>12, <1>13, SenderInv

LEMMA EndInv ==
    ASSUME IInv, NEW t \in Threads, End(t)
    PROVE  IInv'
<1> DEFINE s == SourceOf[t]
<1>1. /\ pub[t].id # 0 /\ seqno' = [seqno EXCEPT ![s] = @ + 1]
      /\ lock' = [lock EXCEPT ![s] = NoThread] /\ pub' = [pub EXCEPT ![t] = Idle]
      /\ UNCHANGED <<published, wire, table, delivered, twice>>
    BY DEF End
<1>2. /\ s \in Sources /\ published \in Nat /\ seqno \in [Sources -> Nat]
      /\ lock \in [Sources -> Threads \cup {NoThread}] /\ pub \in [Threads -> Progress]
      /\ Idle \in Progress /\ Idle.id = 0
    BY FragmentsAssumption DEF IInv, Types, Idle, Progress
<1>3. \A u \in Threads : u # t => pub'[u] = pub[u] /\ (pub[u].id # 0 => SourceOf[u] # s)
    BY <1>1, <1>2, HeadFacts
<1>4. pub'[t].id = 0
    BY <1>1, <1>2
<1>5. Types'
    BY <1>1, <1>2 DEF IInv, Types
<1>6. Senders'
  <2> SUFFICES ASSUME NEW u \in Threads, pub'[u].id # 0
               PROVE  /\ lock'[SourceOf[u]] = u /\ NameSize + pub'[u].size >= Mtu
                      /\ pub'[u].no <= Fragments(pub'[u].size)
                      /\ pub'[u].off = Offset(pub'[u].size, pub'[u].no)
      BY DEF Senders
  <2>1. pub'[u] = pub[u] /\ SourceOf[u] # s /\ SourceOf[u] \in Sources
      BY <1>3, <1>4, FragmentsAssumption
  <2> QED
      BY <1>1, <1>2, <2>1 DEF IInv, Senders
<1>7. Heads' \subseteq Heads
  <2>1. \A e : HeadOf(e)' = HeadOf(e)
      BY DEF HeadOf
  <2>2. \A x \in DOMAIN table.buf : BufHead(x)' = BufHead(x)
      BY <1>1 DEF BufHead
  <2>3. ASSUME NEW u \in Threads, pub'[u].id # 0 PROVE PubHead(u)' = PubHead(u) /\ pub[u].id # 0
    <3>1. pub'[u] = pub[u] /\ SourceOf[u] # s /\ SourceOf[u] \in Sources
        BY <1>3, <1>4, <2>3, FragmentsAssumption
    <3>2. seqno'[SourceOf[u]] = seqno[SourceOf[u]]
        BY <1>1, <1>2, <3>1
    <3> QED
        BY <2>3, <3>1, <3>2 DEF PubHead
  <2> QED
      BY <1>1, <2>1, <2>2, <2>3 DEF Heads
<1>8. Identified'
  <2>1. ASSUME NEW x \in Heads
        PROVE  /\ x.id \in 1..published' /\ x.seq <= seqno'[x.src]
               /\ x.seq = seqno'[x.src] =>
                    \E u \in Threads : pub'[u].id = x.id /\ SourceOf[u] = x.src
    <3>1. /\ x.id \in 1..published /\ x.seq <= seqno[x.src]
          /\ x.seq = seqno[x.src] =>
               \E u \in Threads : pub[u].id = x.id /\ SourceOf[u] = x.src
        BY DEF IInv, Identified
    <3>2. x.src \in Sources /\ x.seq \in Nat
        BY HeadTypes
    <3>3. CASE x.src = s
        BY <1>1, <1>2, <3>1, <3>2, <3>3
    <3>4. CASE x.src # s
      <4>1. seqno'[x.src] = seqno[x.src]
          BY <1>1, <1>2, <3>2, <3>4
      <4>2. \A u \in Threads : SourceOf[u] = x.src => pub'[u] = pub[u]
          BY <1>3, <3>4
      <4> QED
          BY <1>1, <3>1, <4>1, <4>2
    <3> QED
        BY <3>3, <3>4
  <2> QED
      BY <1>7, <2>1 DEF IInv, Identified
<1>9. \A u \in Threads : pub'[u].id \in 1..published =>
          pub'[u].id = pub[u].id /\ pub[u].no <= pub'[u].no
  <2>1. \A u \in Threads : pub[u].no \in Nat
      BY <1>2 DEF Progress
  <2> QED
      BY <1>2, <1>3, <1>4, <2>1
<1> QED
    BY <1>1, <1>2, <1>5, <1>6, <1>8, <1>9, SenderInv

-----------------------------------------------------------------------------
(* The theorems.                                                           *)

LEMMA SpecIInv == Spec => []IInv
<1>1. Init => IInv
    BY InitInv
<1>2. IInv /\ [Next]_vars => IInv'
  <2> SUFFICES ASSUME IInv, [Next]_vars PROVE IInv'
      OBVIOUS
  <2>1. ASSUME NEW d \in wire, RecvFragment(d), wire' = wire \ {d}, UNCHANGED <<senderVars, twice>>
        PROVE  IInv'
    <3>1. Arrives(d)
        BY <2>1 DEF Arrives, IInv, Types
    <3> QED
        BY <3>1, ReceivedInv
  <2>2. ASSUME NEW d \in wire, RecvFragment(d), twice' = twice \cup {d.id}, UNCHANGED <<senderVars, wire>>
        PROVE  IInv'
    <3>1. d.id \in Nat
        BY DatagramFacts DEF Datagram
    <3>2. Arrives(d)
        BY <2>2, <3>1 DEF Arrives, IInv, Types
    <3> QED
        BY <3>2, ReceivedInv
  <2>3. CASE UNCHANGED vars
    <3>1. /\ UNCHANGED <<lock, seqno, pub, published, wire, table, delivered, twice>>
        BY <2>3 DEF vars, senderVars
    <3>2. Heads' = Heads
        BY <3>1 DEF Heads, HeadOf, BufHead, PubHead
    <3>3. Types' /\ Senders' /\ Identified'
        BY <3>1, <3>2 DEF IInv, Types, Senders, Identified
    <3>4. /\ published <= published'
          /\ \A u \in Threads : pub[u].no <= pub'[u].no
        BY <3>1 DEF IInv, Types, Progress
    <3> QED
        BY <3>1, <3>3, <3>4, SenderInv
  <2> QED
      BY <2>1, <2>2, <2>3, PublishShortInv, BeginInv, SendFragmentInv, EndInv
      DEF Next, Publisher, Receive, ReceiveFirstOfTwo
<1> QED
    BY <1>1, <1>2, PTL DEF Spec

\* frag_bufs_total_size is the size of the buffers in the table and the limits are
\* exceeded by one buffer at most, for any number of sources and any limits; and
\* fragments_remaining is the number of fragments that are missing, of which a buffer
\* waits for one at least and has the first, as long as no datagram of its message
\* arrives twice.
THEOREM TableKept == Spec => []TableSound
<1>1. IInv => TableSound
  <2> SUFFICES ASSUME IInv PROVE TableSound
      OBVIOUS
  <2>1. Tabled(table) /\ Bounded(table)
      BY DEF IInv
  <2>2. Len(table.order) = Cardinality(DOMAIN table.buf)
      BY <2>1, TabledFacts
  <2>3. /\ Cardinality(DOMAIN table.buf) <= MaxBufs + 1
        /\ \/ table.total <= MaxTotal
           \/ \E s \in DOMAIN table.buf : table.total - table.buf[s].size <= MaxTotal
      BY <2>1 DEF Bounded, Room
  <2>4. /\ table.total = SumFunction([s \in DOMAIN table.buf |-> table.buf[s].size])
        /\ ToSet(table.order) = DOMAIN table.buf
      BY <2>1 DEF Tabled
  <2>5. Accounted
      BY DEF IInv, Buffers, Stored, Filling, Accounted
  <2> QED
      BY <2>2, <2>3, <2>4, <2>5 DEF TableSound
<1> QED
    BY <1>1, SpecIInv, PTL

\* A completed message of which no datagram arrived twice is the one that was
\* published, byte for byte, and was completed once: for any number of threads,
\* sources and messages, any sizes, and any order and loss of the datagrams.
THEOREM MessagesWhole == Spec => []Whole
<1>1. IInv => Whole
    BY DEF IInv, Deliveries, Complete, Exact, Whole
<1> QED
    BY <1>1, SpecIInv, PTL

-----------------------------------------------------------------------------
(* The queue inbufs_empty: what a struct's place may be, and that pointers *)
(* climb in the order in which the structs were enqueued.                  *)

Addresses == Bufs \cup {HeadField}

\* What the enqueues in progress, and those that the receiver's overlaps, add.
New == returned \cup ({el[t] : t \in Enqueuers} \ {NoBuf})

\* The structs that are not on any list: q->tail has not been moved to them.
Unlinked == inUse \cup {el[t] : t \in {u \in Enqueuers : step[u] \in {"load", "link", "move"}}}

QueueTypes ==
    /\ cell \in [Addresses -> Bufs \cup {NoBuf}] /\ tail \in Addresses
    /\ step \in [Enqueuers -> {"idle", "load", "link", "move", "clear", "done"}]
    /\ step["handler"] # "done"
    /\ el \in [Enqueuers -> Bufs \cup {NoBuf}]
    /\ inUse \subseteq Bufs /\ returned \subseteq Bufs
    /\ before \in [empty : SUBSET Bufs, stray : BOOLEAN]

\* A struct is in one place only.
Holding ==
    /\ \A t \in Enqueuers :
          IF step[t] = "idle" THEN el[t] = NoBuf ELSE el[t] \in Bufs \ (inUse \cup returned)
    /\ el["receiver"] = el["handler"] => el["receiver"] = NoBuf
    /\ returned \cap inUse = {}
    /\ step["receiver"] = "idle" => returned = {}
    /\ loc \in [Enqueuers -> Addresses \cup {NoBuf}]

\* A struct that is not on any list points nowhere, and nobody writes to it but
\* the one who enqueues it.
Untouched ==
    /\ \A b \in Unlinked : cell[b] = NoBuf
    /\ tail \notin Unlinked
    /\ \A t \in Enqueuers : step[t] = "link" => loc[t] \in Addresses \ Unlinked

\* Pointers, lost ones too, lead from what was enqueued earlier to what was
\* enqueued later, or to what is being enqueued: there is no cycle.
Rising(rank) ==
    /\ \A a \in Addresses : rank[a] <= rank[tail]
    /\ \A a \in Addresses : cell[a] # NoBuf =>
          rank[a] < rank[cell[a]] \/ \E t \in Enqueuers : step[t] = "move" /\ el[t] = cell[a]

Ranked == \E rank \in [Addresses -> Nat] : Rising(rank)

\* The pointers at the addresses A lead to N or nowhere.
OnlyTo(next, A, N) == \A p \in A : next[p] \in N \cup {NoBuf}

\* What is pointed to, but for the pointer at a.
Cut(next, a) == [next EXCEPT ![a] = NoBuf]

\* While enqueues are in progress: the address a is what q->tail was before.  The
\* list up to a is what it was, and only a and the new structs are written to.
Race(a) ==
    /\ before.empty \cap (inUse \cup New) = {} /\ a \notin inUse \cup New
    /\ before.stray <=> a \notin before.empty \cup {HeadField}
    /\ ReachBy(Cut(cell, a)) = before.empty
    /\ OnlyTo(cell, {a} \cup New, New)
    /\ tail \in {a} \cup New
    /\ \A t \in Enqueuers : step[t] = "link" => loc[t] \in {a} \cup New /\ (loc[t] # a => tail # a)
    /\ \A t \in Enqueuers : step[t] \in {"clear", "done"} => tail # a
    /\ tail # a \/ (\E t \in Enqueuers : step[t] = "move") => cell[a] # NoBuf

Listed == IF Quiet THEN Reach \cap inUse = {} ELSE \E a \in Addresses : Race(a)

QueueInv == QueueTypes /\ Holding /\ Untouched /\ Ranked /\ Listed

-----------------------------------------------------------------------------
(* What is reachable.                                                      *)

LEMMA ReachFacts ==
    ASSUME NEW c \in [Addresses -> Bufs \cup {NoBuf}]
    PROVE  /\ ReachBy(c) \in SUBSET Bufs /\ ClosedUnder(ReachBy(c), c)
           /\ \A S \in SUBSET Bufs : ClosedUnder(S, c) => ReachBy(c) \subseteq S
<1>1. HeadField \in Addresses /\ NoBuf \notin Bufs
    BY QueueAssumption DEF Addresses
<1>2. ASSUME c[HeadField] # NoBuf PROVE c[HeadField] \in ReachBy(c)
    BY <1>1, <1>2 DEF ReachBy, ClosedUnder
<1>3. ASSUME NEW b \in ReachBy(c), c[b] # NoBuf PROVE c[b] \in ReachBy(c)
    BY <1>1, <1>3 DEF ReachBy, ClosedUnder, Addresses
<1>4. ClosedUnder(ReachBy(c), c)
    BY <1>2, <1>3 DEF ClosedUnder
<1> QED
    BY <1>4 DEF ReachBy

\* Only what is reachable decides what is reachable.
LEMMA SameReach ==
    ASSUME NEW c \in [Addresses -> Bufs \cup {NoBuf}], NEW d \in [Addresses -> Bufs \cup {NoBuf}],
           \A a \in ReachBy(c) \cup {HeadField} : d[a] = c[a]
    PROVE  ReachBy(d) = ReachBy(c)
<1>1. /\ ReachBy(c) \in SUBSET Bufs /\ ClosedUnder(ReachBy(c), c)
      /\ \A S \in SUBSET Bufs : ClosedUnder(S, c) => ReachBy(c) \subseteq S
    BY ReachFacts
<1>2. /\ ReachBy(d) \in SUBSET Bufs /\ ClosedUnder(ReachBy(d), d)
      /\ \A S \in SUBSET Bufs : ClosedUnder(S, d) => ReachBy(d) \subseteq S
    BY ReachFacts
<1>3. ClosedUnder(ReachBy(c), d)
    BY <1>1 DEF ClosedUnder
<1>4. ReachBy(d) \subseteq ReachBy(c)
    BY <1>1, <1>2, <1>3
<1>5. ClosedUnder(ReachBy(d), c)
    BY <1>2, <1>4 DEF ClosedUnder
<1> QED
    BY <1>1, <1>2, <1>4, <1>5

\* Removing pointers makes no more reachable.
LEMMA LessReach ==
    ASSUME NEW c \in [Addresses -> Bufs \cup {NoBuf}], NEW a \in Addresses
    PROVE  ReachBy(Cut(c, a)) \subseteq ReachBy(c)
<1> DEFINE d == Cut(c, a)
<1>1. d \in [Addresses -> Bufs \cup {NoBuf}] /\ \A p \in Addresses : d[p] \in {c[p], NoBuf}
    BY DEF Cut
<1>2. ReachBy(c) \in SUBSET Bufs /\ ClosedUnder(ReachBy(c), c)
    BY ReachFacts
<1> HIDE DEF d
<1>3. ClosedUnder(ReachBy(c), d)
    BY <1>1, <1>2 DEF ClosedUnder, Addresses
<1> QED
    BY <1>1, <1>2, <1>3, ReachFacts DEF d

\* What the list is after a race: what it was, and some of the new structs, one at
\* least unless the tail was stray.
LEMMA AfterRace ==
    ASSUME NEW c \in [Addresses -> Bufs \cup {NoBuf}], NEW a \in Addresses, NEW N \in SUBSET Bufs,
           ReachBy(Cut(c, a)) \cap N = {}, a \notin N,
           OnlyTo(c, {a} \cup N, N)
    PROVE  /\ ReachBy(Cut(c, a)) \subseteq ReachBy(c) /\ ReachBy(c) \subseteq ReachBy(Cut(c, a)) \cup N
           /\ a \notin ReachBy(Cut(c, a)) \cup {HeadField} => ReachBy(c) = ReachBy(Cut(c, a))
           /\ a \in ReachBy(Cut(c, a)) \cup {HeadField} => c[a] \in ReachBy(c) \cup {NoBuf}
<1> DEFINE d == Cut(c, a)
           E == ReachBy(d)
<1>1. d \in [Addresses -> Bufs \cup {NoBuf}] /\ \A p \in Addresses : p # a => d[p] = c[p]
    BY DEF Cut
<1>2. E \in SUBSET Bufs /\ ClosedUnder(E, d)
  <2> HIDE DEF d
  <2> QED
      BY <1>1, ReachFacts
<1>3. E \subseteq ReachBy(c)
    BY LessReach
<1>4. /\ ReachBy(c) \in SUBSET Bufs /\ ClosedUnder(ReachBy(c), c)
      /\ \A S \in SUBSET Bufs : ClosedUnder(S, c) => ReachBy(c) \subseteq S
    BY ReachFacts
<1>5. ClosedUnder(E \cup N, c)
    BY <1>1, <1>2 DEF ClosedUnder, Addresses, OnlyTo
<1>6. a \notin E \cup {HeadField} => ClosedUnder(E, c)
    BY <1>1, <1>2 DEF ClosedUnder, Addresses
<1>7. a \in E \cup {HeadField} => c[a] \in ReachBy(c) \cup {NoBuf}
    BY <1>3, <1>4 DEF ClosedUnder
<1> QED
    BY <1>2, <1>3, <1>4, <1>5, <1>6, <1>7

\* Nothing comes after the tail when no enqueue is about to move it.
LEMMA TailEnds ==
    ASSUME QueueTypes, Ranked, \A t \in Enqueuers : step[t] # "move"
    PROVE  cell[tail] = NoBuf
<1>1. PICK rank \in [Addresses -> Nat] : Rising(rank)
    BY DEF Ranked
<1>2. ASSUME cell[tail] # NoBuf PROVE FALSE
  <2>1. cell[tail] \in Addresses /\ tail \in Addresses
      BY <1>2 DEF QueueTypes, Addresses
  <2>2. rank[tail] < rank[cell[tail]] /\ rank[cell[tail]] <= rank[tail]
      BY <1>1, <1>2, <2>1 DEF Rising
  <2> QED
      BY <2>1, <2>2
<1> QED
    BY <1>2

-----------------------------------------------------------------------------
(* Every step keeps the invariant.                                         *)

LEMMA KeepsTypes ==
    ASSUME QueueTypes, Holding, Untouched, [QueueNext]_listVars
    PROVE  QueueTypes'
<1> USE QueueAssumption DEF QueueTypes, Addresses, Enqueuers
<1>1. CASE Dequeue
    BY <1>1 DEF Dequeue
<1>2. ASSUME NEW t \in Enqueuers, Start(t) PROVE QueueTypes'
  <2>1. Reach \in SUBSET Bufs /\ Stray \in BOOLEAN
      BY DEF Reach, ReachBy, Stray
  <2> QED
      BY <1>2, <2>1 DEF Start
<1>3. ASSUME NEW t \in Enqueuers, Load(t) PROVE QueueTypes'
    BY <1>3 DEF Load
<1>4. ASSUME NEW t \in Enqueuers, Link(t) PROVE QueueTypes'
    BY <1>4 DEF Link, Untouched, Holding
<1>5. ASSUME NEW t \in Enqueuers, Move(t) PROVE QueueTypes'
    BY <1>5 DEF Move, Holding
<1>6. ASSUME NEW t \in Enqueuers, Clear(t) PROVE QueueTypes'
  <2>1. el[t] \in Bufs /\ cell' = [cell EXCEPT ![el[t]] = NoBuf]
      BY <1>6 DEF Clear, Holding
  <2>2. cell' \in [Addresses -> Bufs \cup {NoBuf}]
      BY <2>1
  <2>3. /\ step' \in [Enqueuers -> {"idle", "load", "link", "move", "clear", "done"}]
        /\ step'["handler"] # "done" /\ el' \in [Enqueuers -> Bufs \cup {NoBuf}]
        /\ returned' \in SUBSET Bufs
      BY <1>6, <2>1 DEF Clear
  <2> QED
      BY <1>6, <2>2, <2>3 DEF Clear
<1>7. CASE Rejoin
    BY <1>7 DEF Rejoin
<1>8. CASE UNCHANGED listVars
    BY <1>8 DEF listVars
<1> QED
    BY <1>1, <1>2, <1>3, <1>4, <1>5, <1>6, <1>7, <1>8 DEF QueueNext

LEMMA KeepsHolding ==
    ASSUME QueueTypes, Holding, [QueueNext]_listVars
    PROVE  Holding'
<1> USE QueueAssumption DEF QueueTypes, Holding, Addresses, Enqueuers
<1>1. CASE Dequeue
    BY <1>1 DEF Dequeue, MutexFree
<1>2. ASSUME NEW t \in Enqueuers, Start(t) PROVE Holding'
    BY <1>2 DEF Start
<1>3. ASSUME NEW t \in Enqueuers, Load(t) PROVE Holding'
    BY <1>3 DEF Load
<1>4. ASSUME NEW t \in Enqueuers, Link(t) PROVE Holding'
    BY <1>4 DEF Link
<1>5. ASSUME NEW t \in Enqueuers, Move(t) PROVE Holding'
    BY <1>5 DEF Move
<1>6. ASSUME NEW t \in Enqueuers, Clear(t) PROVE Holding'
    BY <1>6 DEF Clear
<1>7. CASE Rejoin
    BY <1>7 DEF Rejoin, MutexFree
<1>8. CASE UNCHANGED listVars
    BY <1>8 DEF listVars
<1> QED
    BY <1>1, <1>2, <1>3, <1>4, <1>5, <1>6, <1>7, <1>8 DEF QueueNext

LEMMA KeepsFresh ==
    ASSUME QueueTypes, Holding, Untouched, Ranked, [QueueNext]_listVars
    PROVE  Untouched'
<1> USE QueueAssumption DEF QueueTypes, Untouched, Unlinked, Addresses, Enqueuers
<1>1. CASE Dequeue
  <2>1. cell[tail] = NoBuf
      BY <1>1, TailEnds DEF Dequeue, MutexFree
  <2> QED
      BY <1>1, <2>1 DEF Dequeue, MutexFree
<1>2. ASSUME NEW t \in Enqueuers, Start(t) PROVE Untouched'
    BY <1>2 DEF Start, Holding
<1>3. ASSUME NEW t \in Enqueuers, Load(t) PROVE Untouched'
    BY <1>3 DEF Load, Holding
<1>4. ASSUME NEW t \in Enqueuers, Link(t) PROVE Untouched'
    BY <1>4 DEF Link, Holding
<1>5. ASSUME NEW t \in Enqueuers, Move(t) PROVE Untouched'
    BY <1>5 DEF Move, Holding
<1>6. ASSUME NEW t \in Enqueuers, Clear(t) PROVE Untouched'
    BY <1>6 DEF Clear, Holding
<1>7. CASE Rejoin
    BY <1>7 DEF Rejoin, MutexFree, Holding
<1>8. CASE UNCHANGED listVars
    BY <1>8 DEF listVars
<1> QED
    BY <1>1, <1>2, <1>3, <1>4, <1>5, <1>6, <1>7, <1>8 DEF QueueNext

LEMMA KeepsRanked ==
    ASSUME QueueTypes, Holding, Untouched, Ranked, [QueueNext]_listVars
    PROVE  Ranked'
<1> USE QueueAssumption DEF QueueTypes, Addresses, Enqueuers
<1>1. PICK rank \in [Addresses -> Nat] : Rising(rank)
    BY DEF Ranked
<1>2. CASE Dequeue
  <2>1. CASE tail' = tail
    <3>1. Rising(rank)'
        BY <1>1, <1>2, <2>1 DEF Dequeue, MutexFree, Rising
    <3> QED
        BY <3>1 DEF Ranked
  <2>2. CASE tail' # tail
    <3>1. PICK new \in [Addresses -> Nat] :
              new[HeadField] = rank[tail] + 1 /\ \A a \in Bufs : new[a] = rank[a]
      <4> WITNESS [rank EXCEPT ![HeadField] = rank[tail] + 1] \in [Addresses -> Nat]
      <4> QED
          OBVIOUS
    <3>2. tail' = HeadField /\ cell'[HeadField] = NoBuf
        BY <1>2, <2>2 DEF Dequeue
    <3>3. \A a \in Addresses : new[a] <= new[HeadField]
        BY <1>1, <3>1 DEF Rising
    <3>4. ASSUME NEW a \in Addresses, cell'[a] # NoBuf PROVE new[a] < new[cell'[a]]
      <4>1. a \in Bufs /\ cell'[a] = cell[a] /\ cell[a] \in Bufs
          BY <1>2, <3>2, <3>4 DEF Dequeue
      <4> QED
          BY <1>1, <1>2, <3>1, <3>4, <4>1 DEF Rising, Dequeue, MutexFree
    <3>5. Rising(new)'
        BY <3>2, <3>3, <3>4 DEF Rising
    <3> QED
        BY <3>1, <3>5 DEF Ranked
  <2> QED
      BY <2>1, <2>2
<1>3. ASSUME NEW t \in Enqueuers, Start(t) \/ Load(t) PROVE Ranked'
  <2>1. Rising(rank)'
      BY <1>1, <1>3 DEF Start, Load, Rising
  <2> QED
      BY <2>1 DEF Ranked
<1>4. ASSUME NEW t \in Enqueuers, Link(t) PROVE Ranked'
  <2>1. Rising(rank)'
      BY <1>1, <1>4 DEF Link, Rising, Holding, Untouched
  <2> QED
      BY <2>1 DEF Ranked
<1>5. ASSUME NEW t \in Enqueuers, Move(t) PROVE Ranked'
  <2> DEFINE b == el[t]
  <2>1. b \in Bufs /\ cell[b] = NoBuf
      BY <1>5 DEF Move, Untouched, Unlinked, Holding
  <2>2. PICK new \in [Addresses -> Nat] :
            new[b] = rank[tail] + 1 /\ \A a \in Addresses : a # b => new[a] = rank[a]
    <3> DEFINE new == [rank EXCEPT ![b] = rank[tail] + 1]
    <3>1. /\ new \in [Addresses -> Nat] /\ new[b] = rank[tail] + 1
          /\ \A a \in Addresses : a # b => new[a] = rank[a]
        BY <2>1
    <3> HIDE DEF new
    <3> QED
        BY <3>1
  <2>3. tail' = b /\ cell' = cell /\ el' = el
      BY <1>5 DEF Move
  <2>4. \A a \in Addresses : new[a] <= new[b]
      BY <1>1, <2>2 DEF Rising
  <2>5. ASSUME NEW a \in Addresses, cell[a] # NoBuf
        PROVE  new[a] < new[cell[a]] \/ \E u \in Enqueuers : step'[u] = "move" /\ el[u] = cell[a]
    <3>1. a # b /\ new[a] = rank[a] /\ cell[a] \in Bufs
        BY <2>1, <2>2, <2>5
    <3>2. CASE cell[a] = b
        BY <1>1, <2>2, <3>1, <3>2 DEF Rising
    <3>3. CASE cell[a] # b
        BY <1>1, <1>5, <2>2, <2>5, <3>1, <3>3 DEF Rising, Move
    <3> QED
        BY <3>2, <3>3
  <2>6. Rising(new)'
      BY <2>3, <2>4, <2>5 DEF Rising
  <2> QED
      BY <2>2, <2>6 DEF Ranked
<1>6. ASSUME NEW t \in Enqueuers, Clear(t) PROVE Ranked'
  <2>1. Rising(rank)'
      BY <1>1, <1>6 DEF Clear, Rising, Holding
  <2> QED
      BY <2>1 DEF Ranked
<1>7. CASE Rejoin
  <2>1. Rising(rank)'
      BY <1>1, <1>7 DEF Rejoin, Rising
  <2> QED
      BY <2>1 DEF Ranked
<1>8. CASE UNCHANGED listVars
  <2>1. Rising(rank)'
      BY <1>1, <1>8 DEF listVars, Rising
  <2> QED
      BY <2>1 DEF Ranked
<1> QED
    BY <1>2, <1>3, <1>4, <1>5, <1>6, <1>7, <1>8 DEF QueueNext

\* What the receiver takes is the first struct of the list, and the list is left
\* without it: nothing on the list points to it.
LEMMA TakesFirst ==
    ASSUME QueueTypes, Ranked, Dequeue
    PROVE  /\ cell[HeadField] \in Reach /\ Reach' = Reach \ {cell[HeadField]}
           /\ cell[cell[HeadField]] = NoBuf <=> Reach = {cell[HeadField]}
<1> USE QueueAssumption DEF QueueTypes, Addresses
<1> DEFINE b == cell[HeadField]
           After == {x \in Reach : x # b}
<1>1. PICK rank \in [Addresses -> Nat] : Rising(rank)
    BY DEF Ranked
<1>2. \A a \in Addresses : cell[a] # NoBuf => rank[a] < rank[cell[a]]
    BY <1>1 DEF Rising, Dequeue, MutexFree, Enqueuers
<1>3. /\ Reach \in SUBSET Bufs /\ ClosedUnder(Reach, cell)
      /\ \A S \in SUBSET Bufs : ClosedUnder(S, cell) => Reach \subseteq S
    BY ReachFacts DEF Reach
<1>4. b \in Bufs /\ b \in Reach
    BY <1>3 DEF Dequeue, ClosedUnder
<1>5. \A x \in Reach : x = b \/ rank[b] < rank[x]
  <2> DEFINE S == {x \in Reach : x = b \/ rank[b] < rank[x]}
  <2>1. ASSUME NEW x \in S, cell[x] # NoBuf PROVE cell[x] \in S
    <3>1. cell[x] \in Reach /\ rank[x] < rank[cell[x]]
        BY <1>2, <1>3, <2>1 DEF ClosedUnder
    <3> QED
        BY <1>3, <1>4, <3>1
  <2>2. ClosedUnder(S, cell) /\ S \in SUBSET Bufs
      BY <1>3, <1>4, <2>1 DEF ClosedUnder
  <2> QED
      BY <1>3, <2>2
<1>6. \A x \in Reach : cell[x] # b
    BY <1>2, <1>3, <1>4, <1>5
<1>7. cell' \in [Addresses -> Bufs \cup {NoBuf}] /\ cell'[HeadField] = cell[b] /\ cell'[b] = NoBuf
      /\ \A a \in Bufs : a # b => cell'[a] = cell[a]
    BY <1>4 DEF Dequeue
<1>8. /\ Reach' \in SUBSET Bufs /\ ClosedUnder(Reach', cell')
      /\ \A S \in SUBSET Bufs : ClosedUnder(S, cell') => Reach' \subseteq S
  <2>1. Reach' = ReachBy(cell')
      BY DEF Reach, ReachBy, ClosedUnder
  <2> QED
      BY <1>7, <2>1, ReachFacts
<1>9. ClosedUnder(After, cell')
    BY <1>3, <1>4, <1>6, <1>7 DEF ClosedUnder
<1>10. ClosedUnder(Reach' \cup {b}, cell)
    BY <1>4, <1>7, <1>8 DEF ClosedUnder
<1>11. Reach' = Reach \ {b}
    BY <1>3, <1>4, <1>8, <1>9, <1>10
<1>12. ASSUME cell[b] = NoBuf PROVE Reach = {b}
  <2>1. ClosedUnder({b}, cell)
      BY <1>4, <1>12 DEF ClosedUnder
  <2> QED
      BY <1>3, <1>4, <2>1
<1>13. ASSUME Reach = {b} PROVE cell[b] = NoBuf
    BY <1>3, <1>4, <1>6, <1>13 DEF ClosedUnder
<1> QED
    BY <1>4, <1>11, <1>12, <1>13

-----------------------------------------------------------------------------
(* What the list is when the last enqueue of a race ends.                  *)

\* The structs that were on the list, and some of those that were enqueued: one at
\* least unless the tail was stray.
LEMMA RaceEnds ==
    ASSUME QueueTypes, Holding, NEW a \in Addresses, Race(a),
           NEW t \in Enqueuers, step[t] \in {"clear", "done"},
           NEW c, c = cell \/ c = [cell EXCEPT ![el[t]] = NoBuf]
    PROVE  /\ before.empty \subseteq ReachBy(c) /\ ReachBy(c) \subseteq before.empty \cup New
           /\ before.stray => ReachBy(c) = before.empty
           /\ ~before.stray => ReachBy(c) \cap New # {}
<1> USE QueueAssumption DEF QueueTypes, Addresses, Enqueuers
<1>1. /\ el[t] \in New /\ a \notin New /\ New \in SUBSET Bufs /\ el[t] \in Bufs
      /\ before.empty \cap New = {}
    BY DEF New, Holding, Race
<1>2. c \in [Addresses -> Bufs \cup {NoBuf}] /\ c[a] = cell[a]
    BY <1>1
<1>3. OnlyTo(c, {a} \cup New, New)
    BY <1>1 DEF Race, OnlyTo
<1> DEFINE e == Cut(c, a)
<1>4. ReachBy(e) = before.empty
  <2> DEFINE d == Cut(cell, a)
  <2>1. ReachBy(d) = before.empty
      BY DEF Race
  <2>2. d \in [Addresses -> Bufs \cup {NoBuf}] /\ e \in [Addresses -> Bufs \cup {NoBuf}]
      BY <1>2 DEF Cut
  <2>3. \A p \in ReachBy(d) \cup {HeadField} : e[p] = d[p]
      BY <1>1, <2>1 DEF Cut
  <2> HIDE DEF d, e
  <2> QED
      BY <2>1, <2>2, <2>3, SameReach
<1>5. /\ before.empty \subseteq ReachBy(c) /\ ReachBy(c) \subseteq before.empty \cup New
      /\ a \notin before.empty \cup {HeadField} => ReachBy(c) = before.empty
      /\ a \in before.empty \cup {HeadField} => c[a] \in ReachBy(c) \cup {NoBuf}
  <2> HIDE DEF QueueTypes, Addresses, Enqueuers
  <2> QED
      BY <1>1, <1>2, <1>3, <1>4, AfterRace
<1>6. c[a] # NoBuf /\ c[a] \in New
    BY <1>1, <1>2, <1>3 DEF Race, OnlyTo
<1> QED
    BY <1>5, <1>6 DEF Race

LEMMA KeepsListed ==
    ASSUME QueueInv, [QueueNext]_listVars
    PROVE  Listed'
<1> USE QueueAssumption DEF QueueTypes, Addresses, Enqueuers
<1> QueueTypes /\ Holding /\ Untouched /\ Ranked /\ Listed
    BY DEF QueueInv
<1>1. CASE Dequeue
  <2>1. Quiet /\ Quiet'
      BY <1>1 DEF Dequeue, MutexFree, Quiet
  <2>2. Reach' \cap inUse' = {}
      BY <1>1, <2>1, TakesFirst DEF Listed, Dequeue
  <2> QED
      BY <2>1, <2>2 DEF Listed
<1>2. ASSUME NEW t \in Enqueuers, Start(t) PROVE Listed'
  <2>1. ~Quiet'
      BY <1>2 DEF Quiet, Start
  <2>2. PICK b \in inUse : el' = [el EXCEPT ![t] = b] /\ inUse' = inUse \ {b}
      BY <1>2 DEF Start
  <2>3. b \in Bufs /\ cell[b] = NoBuf /\ New' = New \cup {b} /\ New \in SUBSET Bufs
        /\ inUse' \cup New' = inUse \cup New
      BY <1>2, <2>2 DEF Start, Untouched, Unlinked, New, Holding
  <2>4. CASE Quiet
    <3>1. cell[tail] = NoBuf
        BY <2>4, TailEnds DEF Quiet
    <3>2. New = {} /\ New' = {b} /\ Reach \cap inUse = {} /\ tail \notin inUse
        BY <2>3, <2>4 DEF New, Quiet, Holding, Listed, Untouched, Unlinked
    <3>3. before' = [empty |-> Reach, stray |-> Stray] /\ cell' = cell /\ tail' = tail
        BY <1>2, <2>4 DEF Start
    <3>4. Cut(cell, tail) = cell
        BY <3>1 DEF Cut
    <3>5. step' = [step EXCEPT ![t] = "load"] /\ \A u \in Enqueuers : step'[u] \in {"idle", "load"}
        BY <1>2, <2>4 DEF Start, Quiet
    <3>6. \E a \in Addresses : Race(a)'
      <4> PICK a \in Addresses : a = tail
          OBVIOUS
      <4>1. /\ before'.empty \cap (inUse' \cup New') = {} /\ a \notin inUse' \cup New'
            /\ before'.stray <=> a \notin before'.empty \cup {HeadField}
          BY <2>3, <3>1, <3>2, <3>3 DEF Stray
      <4>2. ReachBy(Cut(cell', a)) = before'.empty
          BY <3>3, <3>4 DEF Reach
      <4>3. OnlyTo(cell', {a} \cup New', New')
          BY <2>3, <3>1, <3>2, <3>3 DEF OnlyTo
      <4>4. Race(a)'
          BY <3>3, <3>5, <4>1, <4>2, <4>3 DEF Race
      <4> QED
          BY <4>4
    <3> QED
        BY <2>1, <3>6 DEF Listed
  <2>5. CASE ~Quiet
    <3>1. PICK a \in Addresses : Race(a)
        BY <2>5 DEF Listed
    <3>2. Race(a)'
        BY <1>2, <2>3, <2>5, <3>1 DEF Start, Race, OnlyTo, Cut
    <3> QED
        BY <2>1, <3>2 DEF Listed
  <2> QED
      BY <2>4, <2>5
<1>3. ASSUME NEW t \in Enqueuers, Load(t) PROVE Listed'
  <2>1. ~Quiet /\ ~Quiet' /\ New' = New
      BY <1>3 DEF Quiet, Load, New
  <2>2. PICK a \in Addresses : Race(a)
      BY <2>1 DEF Listed
  <2>3. Race(a)'
      BY <1>3, <2>1, <2>2 DEF Load, Race, Holding, OnlyTo, Cut
  <2> QED
      BY <2>1, <2>3 DEF Listed
<1>4. ASSUME NEW t \in Enqueuers, Link(t) PROVE Listed'
  <2>1. ~Quiet /\ ~Quiet' /\ New' = New /\ el[t] \in New /\ el[t] \in Bufs /\ New \in SUBSET Bufs
      BY <1>4 DEF Quiet, Link, New, Holding
  <2>2. PICK a \in Addresses : Race(a)
      BY <2>1 DEF Listed
  <2>3. loc[t] \in {a} \cup New /\ loc[t] \in Addresses /\ cell' = [cell EXCEPT ![loc[t]] = el[t]]
      BY <1>4, <2>2 DEF Link, Race, Untouched
  <2>4. ReachBy(Cut(cell', a)) = before.empty
    <3> DEFINE d == Cut(cell, a)
               e == Cut(cell', a)
    <3>1. ReachBy(d) = before.empty
        BY <2>2 DEF Race
    <3>2. d \in [Addresses -> Bufs \cup {NoBuf}] /\ e \in [Addresses -> Bufs \cup {NoBuf}]
        BY <2>1, <2>3 DEF Cut
    <3>3. \A p \in ReachBy(d) \cup {HeadField} : e[p] = d[p]
        BY <2>1, <2>2, <2>3, <3>1 DEF Race, Cut
    <3>4. ReachBy(e) = before.empty
      <4> HIDE DEF d, e
      <4> QED
          BY <3>1, <3>2, <3>3, SameReach
    <3> QED
        BY <3>4
  <2>5. cell'[a] # NoBuf
      BY <1>4, <2>1, <2>2, <2>3 DEF Link, Race
  <2>6. OnlyTo(cell', {a} \cup New, New)
      BY <2>1, <2>2, <2>3 DEF Race, OnlyTo
  <2>7. Race(a)'
      BY <1>4, <2>1, <2>2, <2>4, <2>5, <2>6 DEF Link, Race
  <2> QED
      BY <2>1, <2>7 DEF Listed
<1>5. ASSUME NEW t \in Enqueuers, Move(t) PROVE Listed'
  <2>1. ~Quiet /\ ~Quiet' /\ New' = New /\ el[t] \in New
      BY <1>5 DEF Quiet, Move, New, Holding
  <2>2. PICK a \in Addresses : Race(a)
      BY <2>1 DEF Listed
  <2>3. Race(a)'
      BY <1>5, <2>1, <2>2 DEF Move, Race, OnlyTo, Cut
  <2> QED
      BY <2>1, <2>3 DEF Listed
<1>6. ASSUME NEW t \in Enqueuers, Clear(t) PROVE Listed'
  <2>1. ~Quiet /\ step[t] = "clear"
      BY <1>6 DEF Quiet, Clear
  <2>2. PICK a \in Addresses : Race(a)
      BY <2>1 DEF Listed
  <2>3. el[t] \in New /\ el[t] \in Bufs /\ a \notin New /\ cell' = [cell EXCEPT ![el[t]] = NoBuf]
      BY <1>6, <2>2 DEF Clear, New, Holding, Race
  <2>4. CASE Quiet'
    <3>1. Reach' \subseteq before.empty \cup New
      <4>1. Reach' = ReachBy(cell')
          BY DEF Reach, ReachBy, ClosedUnder
      <4> QED
          BY <2>1, <2>2, <2>3, <4>1, RaceEnds
    <3>2. inUse' = inUse /\ New \cap inUse = {} /\ before.empty \cap inUse = {}
        BY <1>6, <2>2 DEF Clear, New, Holding, Race
    <3> QED
        BY <2>4, <3>1, <3>2 DEF Listed
  <2>5. CASE ~Quiet'
    <3>1. New' = New /\ inUse' = inUse /\ before' = before /\ tail' = tail
      <4>1. CASE t = "receiver"
          BY <1>6, <4>1 DEF Clear, New
      <4>2. CASE t = "handler"
          BY <1>6, <2>5, <4>2 DEF Clear, New, Quiet, Holding
      <4> QED
          BY <4>1, <4>2
    <3>2. ReachBy(Cut(cell', a)) = before.empty
      <4> DEFINE d == Cut(cell, a)
                 e == Cut(cell', a)
      <4>1. ReachBy(d) = before.empty
          BY <2>2 DEF Race
      <4>2. d \in [Addresses -> Bufs \cup {NoBuf}] /\ e \in [Addresses -> Bufs \cup {NoBuf}]
          BY <2>3 DEF Cut
      <4>3. \A p \in ReachBy(d) \cup {HeadField} : e[p] = d[p]
          BY <2>2, <2>3, <4>1 DEF Race, Cut
      <4>4. ReachBy(e) = before.empty
        <5> HIDE DEF d, e
        <5> QED
            BY <4>1, <4>2, <4>3, SameReach
      <4> QED
          BY <4>4
    <3>3. \A u \in Enqueuers :
              step'[u] \in {"link", "move"} => step[u] = step'[u] /\ loc'[u] = loc[u]
      <4>1. CASE t = "receiver"
          BY <1>6, <4>1 DEF Clear
      <4>2. CASE t = "handler"
          BY <1>6, <4>2 DEF Clear, Holding
      <4> QED
          BY <4>1, <4>2
    <3>4. OnlyTo(cell', {a} \cup New, New)
        BY <2>2, <2>3 DEF Race, OnlyTo
    <3>5. tail # a /\ cell'[a] = cell[a]
        BY <2>1, <2>2, <2>3 DEF Race
    <3>6. Race(a)'
        BY <2>2, <3>1, <3>2, <3>3, <3>4, <3>5 DEF Race
    <3> QED
        BY <2>5, <3>6 DEF Listed
  <2> QED
      BY <2>4, <2>5
<1>7. CASE Rejoin
  <2>1. ~Quiet /\ Quiet' /\ step["receiver"] = "done" /\ cell' = cell /\ inUse' = inUse
      BY <1>7 DEF Quiet, Rejoin, MutexFree
  <2>2. PICK a \in Addresses : Race(a)
      BY <2>1 DEF Listed
  <2>3. Reach' \subseteq before.empty \cup New
    <3>1. Reach' = ReachBy(cell)
        BY <2>1 DEF Reach, ReachBy, ClosedUnder
    <3> QED
        BY <2>1, <2>2, <3>1, RaceEnds
  <2>4. New \cap inUse = {} /\ before.empty \cap inUse = {}
      BY <2>2 DEF New, Holding, Race
  <2> QED
      BY <2>1, <2>3, <2>4 DEF Listed
<1>8. CASE UNCHANGED listVars
    BY <1>8 DEF listVars, Listed, Quiet, Reach, ReachBy, ClosedUnder, Race, New, OnlyTo, Cut
<1> QED
    BY <1>1, <1>2, <1>3, <1>4, <1>5, <1>6, <1>7, <1>8 DEF QueueNext

-----------------------------------------------------------------------------
(* The queue when it is made: lcm_buf_enqueue of every struct in turn.     *)

LEMMA QueueIsMade == QueueInit => QueueInv /\ Reach = Bufs /\ ~Stray
<1> SUFFICES ASSUME QueueInit PROVE QueueInv /\ Reach = Bufs /\ ~Stray
    OBVIOUS
<1> USE QueueAssumption
<1> DEFINE N == Cardinality(Bufs)
<1>1. N \in Nat /\ N > 0
    BY FS_CardinalityType, FS_EmptySet
<1> HIDE DEF N
<1>2. PICK order \in [1..N -> Bufs] :
        /\ \A i, j \in 1..N : order[i] = order[j] => i = j
        /\ \A b \in Bufs : \E i \in 1..N : order[i] = b
        /\ cell = [a \in Bufs \cup {HeadField} |->
                     IF a = HeadField THEN order[1]
                     ELSE LET i == CHOOSE i \in DOMAIN order : order[i] = a
                          IN  IF i = N THEN NoBuf ELSE order[i + 1]]
        /\ tail = order[N]
    BY <1>1 DEF QueueInit, N, Bijection, Injection, Surjection, IsInjective
<1>3. /\ step = [t \in Enqueuers |-> "idle"] /\ el = [t \in Enqueuers |-> NoBuf]
      /\ loc = [t \in Enqueuers |-> NoBuf] /\ inUse = {} /\ returned = {}
      /\ before = [empty |-> Bufs, stray |-> FALSE]
    BY DEF QueueInit
<1> DEFINE place == [b \in Bufs |-> CHOOSE i \in 1..N : order[i] = b]
<1>4. /\ \A b \in Bufs : place[b] \in 1..N /\ order[place[b]] = b
      /\ \A i \in 1..N : place[order[i]] = i
    BY <1>2
<1>5. /\ cell[HeadField] = order[1]
      /\ \A b \in Bufs : cell[b] = IF place[b] = N THEN NoBuf ELSE order[place[b] + 1]
      /\ DOMAIN cell = Addresses /\ cell = [a \in Addresses |-> cell[a]]
    BY <1>2 DEF Addresses
<1> HIDE DEF place
<1>6. cell \in [Addresses -> Bufs \cup {NoBuf}]
  <2>1. \A a \in Addresses : cell[a] \in Bufs \cup {NoBuf}
      BY <1>1, <1>4, <1>5 DEF Addresses
  <2> QED
      BY <1>5, <2>1
<1>7. tail \in Bufs /\ place[tail] = N /\ cell[tail] = NoBuf
    BY <1>1, <1>2, <1>4, <1>5
<1>8. QueueTypes /\ Holding /\ Untouched
    BY <1>3, <1>6, <1>7 DEF QueueTypes, Holding, Untouched, Unlinked, Addresses, Enqueuers
<1>9. Ranked
  <2> DEFINE new == [a \in Addresses |-> IF a = HeadField THEN 0 ELSE place[a]]
  <2>1. /\ new \in [Addresses -> Nat] /\ new[HeadField] = 0 /\ new[tail] = N
        /\ \A b \in Bufs : new[b] = place[b]
      BY <1>4, <1>7 DEF Addresses
  <2>2. PICK rank \in [Addresses -> Nat] : /\ rank[HeadField] = 0 /\ rank[tail] = N
                                          /\ \A b \in Bufs : rank[b] = place[b]
    <3> HIDE DEF new
    <3> QED
        BY <2>1
  <2>3. \A a \in Addresses : rank[a] <= rank[tail]
      BY <1>1, <1>4, <2>2 DEF Addresses
  <2>4. ASSUME NEW a \in Addresses, cell[a] # NoBuf PROVE rank[a] < rank[cell[a]]
    <3>1. CASE a = HeadField
      <4>1. cell[a] \in Bufs /\ place[cell[a]] = 1
          BY <1>1, <1>2, <1>4, <1>5, <3>1
      <4> QED
          BY <2>2, <3>1, <4>1
    <3>2. CASE a \in Bufs
      <4>1. place[a] \in 1..N /\ place[a] # N /\ cell[a] = order[place[a] + 1]
          BY <1>4, <1>5, <2>4, <3>2
      <4>2. place[a] + 1 \in 1..N
          BY <1>1, <4>1
      <4>3. cell[a] \in Bufs /\ place[cell[a]] = place[a] + 1
          BY <1>2, <1>4, <4>1, <4>2
      <4> QED
          BY <2>2, <3>2, <4>1, <4>3
    <3> QED
        BY <3>1, <3>2 DEF Addresses
  <2>5. Rising(rank)
      BY <2>3, <2>4 DEF Rising
  <2> QED
      BY <2>5 DEF Ranked
<1>10. Reach = Bufs
  <2> DEFINE S == {n \in Nat : n < N => order[n + 1] \in Reach}
  <2>1. Reach \in SUBSET Bufs /\ ClosedUnder(Reach, cell)
      BY <1>6, ReachFacts DEF Reach
  <2>2. 0 \in S
      BY <1>1, <1>2, <1>5, <2>1 DEF ClosedUnder
  <2>3. ASSUME NEW n \in Nat, n \in S PROVE n + 1 \in S
    <3> SUFFICES ASSUME n + 1 < N PROVE order[(n + 1) + 1] \in Reach
        OBVIOUS
    <3> DEFINE b == order[n + 1]
    <3>1. b \in Reach /\ b \in Bufs /\ place[b] = n + 1 /\ n + 1 # N /\ (n + 1) + 1 \in 1..N
        BY <1>1, <1>2, <1>4, <2>3
    <3>2. cell[b] = order[(n + 1) + 1] /\ order[(n + 1) + 1] \in Bufs
        BY SMTT(30), <1>2, <1>5, <3>1
    <3> QED
        BY <2>1, <3>1, <3>2 DEF ClosedUnder
  <2>4. \A n \in Nat : n \in S
    <3> HIDE DEF S
    <3> QED
        BY <2>2, <2>3, NatSetInduction
  <2>5. ASSUME NEW b \in Bufs PROVE b \in Reach
    <3>1. place[b] \in 1..N /\ order[place[b]] = b
        BY <1>4
    <3>2. place[b] - 1 \in Nat /\ place[b] - 1 < N /\ (place[b] - 1) + 1 = place[b]
        BY <1>1, <3>1
    <3>3. order[(place[b] - 1) + 1] \in Reach
        BY <2>4, <3>2
    <3> QED
        BY <3>1, <3>2, <3>3
  <2> QED
      BY <2>1, <2>5
<1>11. Listed /\ ~Stray
    BY <1>3, <1>7, <1>10 DEF Listed, Quiet, Stray
<1> QED
    BY <1>8, <1>9, <1>10, <1>11 DEF QueueInv

-----------------------------------------------------------------------------
(* Every step of the pointers is a step of the pool, or none.              *)

LEMMA DequeueIsGet ==
    ASSUME QueueInv, Dequeue
    PROVE  Pool!PoolNext
<1> USE QueueAssumption DEF QueueTypes, Addresses, Enqueuers
<1> QueueTypes /\ Holding /\ Ranked
    BY DEF QueueInv
<1> DEFINE b == cell[HeadField]
<1>1. /\ step["receiver"] = "idle" /\ step["handler"] = "idle" /\ Quiet /\ Quiet'
      /\ el["receiver"] = NoBuf /\ cell[HeadField] # NoBuf
    BY DEF Dequeue, MutexFree, Quiet, Holding
<1>2. b \in Reach /\ Reach' = Reach \ {b} /\ (cell[b] = NoBuf <=> Reach = {b}) /\ b \in Bufs
    BY <1>1, TakesFirst
<1>3. cell[tail] = NoBuf
    BY <1>1, TailEnds
<1>4. Stray' = (Stray /\ Reach # {b})
  <2>1. CASE cell[b] = NoBuf
      BY <1>2, <2>1 DEF Dequeue, Stray
  <2>2. CASE cell[b] # NoBuf
    <3>1. tail' = tail /\ tail # b /\ tail # HeadField /\ cell'[tail] = NoBuf
        BY <1>1, <1>2, <1>3, <2>2 DEF Dequeue
    <3> QED
        BY <1>2, <1>3, <2>2, <3>1 DEF Stray
  <2> QED
      BY <2>1, <2>2
<1>5. Empty = Reach /\ Empty' = Reach' /\ StrayTail = Stray /\ StrayTail' = Stray'
    BY <1>1 DEF Empty, StrayTail
<1>6. Out = inUse /\ Out' = inUse \cup {b} /\ el' = el /\ returned' = returned
    BY <1>1 DEF Out, Dequeue
<1>7. Pool!Get(b)
    BY <1>1, <1>2, <1>4, <1>5 DEF Pool!Get
<1> QED
    BY <1>2, <1>5, <1>6, <1>7 DEF Pool!PoolNext

LEMMA StartIsBeginPut ==
    ASSUME QueueInv, NEW t \in Enqueuers, Start(t)
    PROVE  [Pool!PoolNext]_(Pool!poolVars)
<1> USE QueueAssumption DEF QueueTypes, Enqueuers
<1> QueueTypes /\ Holding
    BY DEF QueueInv
<1>1. PICK b \in inUse : el' = [el EXCEPT ![t] = b] /\ inUse' = inUse \ {b}
    BY DEF Start
<1>2. Empty' = Empty /\ StrayTail' = StrayTail /\ returned' = returned
    BY DEF Start, Quiet, Empty, StrayTail
<1>3. CASE t = "handler"
  <2>1. Out' = Out /\ el'["receiver"] = el["receiver"]
      BY <1>1, <1>3 DEF Start, Out
  <2> QED
      BY <1>2, <2>1 DEF Pool!poolVars
<1>4. CASE t = "receiver"
  <2>1. b \in Out /\ Out' = Out \ {b} /\ el["receiver"] = NoBuf /\ el'["receiver"] = b
      BY <1>1, <1>4 DEF Start, Out, Holding
  <2> QED
      BY <1>2, <2>1 DEF Pool!PoolNext, Pool!BeginPut
<1> QED
    BY <1>3, <1>4

LEMMA PoolStutters ==
    ASSUME QueueInv, NEW t \in Enqueuers,
           Load(t) \/ Link(t) \/ Move(t) \/ (Clear(t) /\ t = "receiver")
    PROVE  UNCHANGED Pool!poolVars
<1> USE DEF QueueTypes, Enqueuers
<1> QueueTypes
    BY DEF QueueInv
<1>1. /\ ~Quiet /\ ~Quiet' /\ before' = before /\ el' = el /\ inUse' = inUse
      /\ returned' = returned /\ (step["handler"] = "idle" <=> step'["handler"] = "idle")
    BY DEF Quiet, Load, Link, Move, Clear
<1> QED
    BY <1>1 DEF Pool!poolVars, Empty, StrayTail, Out

LEMMA ClearIsReturn ==
    ASSUME QueueInv, Clear("handler")
    PROVE  Pool!PoolNext
<1> USE QueueAssumption DEF QueueTypes, Addresses, Enqueuers
<1> QueueTypes /\ Holding /\ Listed
    BY DEF QueueInv
<1> DEFINE b == el["handler"]
<1>1. /\ ~Quiet /\ step["handler"] = "clear" /\ b \in Bufs \ inUse
      /\ cell' = [cell EXCEPT ![b] = NoBuf] /\ tail' = tail
      /\ el'["receiver"] = el["receiver"] /\ step'["receiver"] = step["receiver"]
      /\ step'["handler"] = "idle" /\ inUse' = inUse /\ before' = before
    BY DEF Clear, Quiet, Holding
<1>2. b \in Out /\ Out' = Out \ {b}
    BY <1>1 DEF Out
<1>3. Empty = before.empty /\ StrayTail = before.stray
    BY <1>1 DEF Empty, StrayTail
<1>4. CASE step["receiver"] = "idle"
  <2>1. PICK a \in Addresses : Race(a)
      BY <1>1 DEF Listed
  <2>2. Quiet' /\ New = {b} /\ returned = {} /\ returned' = {} /\ el["receiver"] = NoBuf
      BY <1>1, <1>4 DEF Quiet, New, Holding, Clear
  <2>3. /\ before.empty \subseteq Reach' /\ Reach' \subseteq before.empty \cup {b}
        /\ before.stray => Reach' = before.empty
        /\ ~before.stray => b \in Reach'
    <3>1. Reach' = ReachBy(cell')
        BY DEF Reach, ReachBy, ClosedUnder
    <3>2. /\ before.empty \subseteq ReachBy(cell') /\ ReachBy(cell') \subseteq before.empty \cup New
          /\ before.stray => ReachBy(cell') = before.empty
          /\ ~before.stray => ReachBy(cell') \cap New # {}
        BY <1>1, <2>1, RaceEnds
    <3> QED
        BY <2>2, <3>1, <3>2
  <2>4. tail = b /\ cell'[b] = NoBuf /\ b \notin before.empty
      BY <1>1, <2>1, <2>2 DEF Race
  <2>5. Empty' = Reach' /\ StrayTail' = Stray'
      BY <2>2 DEF Empty, StrayTail
  <2>6. Empty' = IF before.stray THEN before.empty ELSE before.empty \cup {b}
      BY <2>3, <2>5
  <2>7. StrayTail' = StrayTail
      BY <1>1, <1>3, <2>3, <2>4, <2>5 DEF Stray
  <2>8. Pool!Return(b)
      BY <1>1, <1>3, <2>2, <2>6, <2>7 DEF Pool!Return, Pool!Enqueued
  <2> QED
      BY <1>2, <2>8 DEF Pool!PoolNext
<1>5. CASE step["receiver"] # "idle"
  <2>1. ~Quiet' /\ returned' = returned \cup {b} /\ el["receiver"] # NoBuf
      BY <1>1, <1>5 DEF Quiet, Clear, Holding
  <2>2. Empty' = Empty /\ StrayTail' = StrayTail
      BY <1>1, <1>3, <2>1 DEF Empty, StrayTail
  <2>3. Pool!Return(b)
      BY <1>1, <2>1, <2>2 DEF Pool!Return
  <2> QED
      BY <1>2, <2>3 DEF Pool!PoolNext
<1> QED
    BY <1>4, <1>5

LEMMA RejoinIsEndPut ==
    ASSUME QueueInv, Rejoin
    PROVE  Pool!PoolNext
<1> USE QueueAssumption DEF QueueTypes, Addresses, Enqueuers
<1> QueueTypes /\ Holding /\ Ranked /\ Listed
    BY DEF QueueInv
<1> DEFINE p == el["receiver"]
<1>1. /\ ~Quiet /\ Quiet' /\ step["receiver"] = "done" /\ step["handler"] = "idle"
      /\ cell' = cell /\ tail' = tail /\ inUse' = inUse /\ returned' = {}
      /\ p \in Bufs /\ el'["receiver"] = NoBuf /\ step'["handler"] = "idle"
    BY DEF Quiet, Rejoin, MutexFree, Holding
<1>2. New = returned \cup {p}
    BY <1>1 DEF New, Holding
<1>3. PICK a \in Addresses : Race(a)
    BY <1>1 DEF Listed
<1>4. /\ before.empty \subseteq Reach' /\ Reach' \subseteq before.empty \cup New
      /\ before.stray => Reach' = before.empty
      /\ ~before.stray => Reach' \cap New # {}
  <2>1. Reach' = ReachBy(cell)
      BY <1>1 DEF Reach, ReachBy, ClosedUnder
  <2>2. /\ before.empty \subseteq ReachBy(cell) /\ ReachBy(cell) \subseteq before.empty \cup New
        /\ before.stray => ReachBy(cell) = before.empty
        /\ ~before.stray => ReachBy(cell) \cap New # {}
      BY <1>1, <1>3, RaceEnds
  <2> QED
      BY <2>1, <2>2
<1>5. cell[tail] = NoBuf /\ tail \in New /\ before.empty \cap New = {} /\ New \in SUBSET Bufs
  <2>1. cell[tail] = NoBuf
      BY <1>1, TailEnds
  <2> QED
      BY <1>1, <1>2, <1>3, <2>1 DEF Race
<1>6. /\ Empty = before.empty /\ StrayTail = before.stray /\ Empty' = Reach'
      /\ StrayTail' = (tail \notin Reach') /\ Out' = Out
    BY <1>1, <1>5 DEF Empty, StrayTail, Stray, Out
<1>7. Pool!EndPut
  <2>1. CASE before.stray
      BY <1>1, <1>4, <1>5, <1>6, <2>1 DEF Pool!EndPut, Pool!Enqueued
  <2>2. CASE ~before.stray /\ New \subseteq Reach'
    <3>1. Reach' = before.empty \cup New /\ tail \in Reach'
        BY <1>4, <1>5, <2>2
    <3> QED
        BY <1>1, <1>2, <1>6, <2>2, <3>1 DEF Pool!EndPut, Pool!Enqueued
  <2>3. CASE ~before.stray /\ ~(New \subseteq Reach')
    <3> DEFINE kept == Reach' \cap New
    <3>1. /\ kept \in SUBSET (returned \cup {p}) /\ kept # {} /\ kept # returned \cup {p}
          /\ Reach' = before.empty \cup kept /\ returned # {}
        BY <1>2, <1>4, <2>3
    <3>2. StrayTail' \in BOOLEAN
        BY <1>6
    <3> HIDE DEF kept
    <3> QED
        BY <1>1, <1>6, <2>3, <3>1, <3>2 DEF Pool!EndPut
  <2> QED
      BY <2>1, <2>2, <2>3
<1> QED
    BY <1>6, <1>7 DEF Pool!PoolNext

\* The pointer operations of lcm_buf_enqueue and lcm_buf_dequeue, the two
\* enqueues interleaved in every order, do what the pool allows: no struct is on
\* the list twice or while it is in use, and the structs that a race loses are
\* those of the race, never one that was on the list before.
THEOREM QueueIsPool == QueueSpec => ImplementsPool
<1>1. QueueInit => QueueInv /\ Pool!PoolInit
  <2> SUFFICES ASSUME QueueInit PROVE Pool!PoolInit
      BY QueueIsMade
  <2>1. Quiet /\ inUse = {} /\ returned = {} /\ el["receiver"] = NoBuf /\ step["handler"] = "idle"
      BY DEF QueueInit, Quiet, Enqueuers
  <2> QED
      BY <2>1, QueueIsMade DEF Pool!PoolInit, Empty, StrayTail, Out
<1>2. QueueInv /\ [QueueNext]_listVars => QueueInv'
    BY KeepsTypes, KeepsHolding, KeepsFresh, KeepsRanked, KeepsListed DEF QueueInv
<1>3. QueueInv /\ [QueueNext]_listVars => [Pool!PoolNext]_(Pool!poolVars)
  <2> SUFFICES ASSUME QueueInv, [QueueNext]_listVars PROVE [Pool!PoolNext]_(Pool!poolVars)
      OBVIOUS
  <2>1. CASE Dequeue
      BY <2>1, DequeueIsGet
  <2>2. CASE Rejoin
      BY <2>2, RejoinIsEndPut
  <2>3. ASSUME NEW t \in Enqueuers, Start(t) \/ Load(t) \/ Link(t) \/ Move(t) \/ Clear(t)
        PROVE  [Pool!PoolNext]_(Pool!poolVars)
      BY <2>3, StartIsBeginPut, PoolStutters, ClearIsReturn DEF Enqueuers
  <2>4. CASE UNCHANGED listVars
      BY <2>4 DEF listVars, Pool!poolVars, Empty, StrayTail, Out, Quiet, Reach, ReachBy, ClosedUnder, Stray
  <2> QED
      BY <2>1, <2>2, <2>3, <2>4 DEF QueueNext
<1> QED
    BY <1>1, <1>2, <1>3, PTL DEF QueueSpec, ImplementsPool, Pool!PoolSpec
=============================================================================
