-------------------------- MODULE LcmRingbuf_proofs --------------------------
(***************************************************************************)
(* What the ring buffer guarantees for every Size, Alignment, header and   *)
(* request length: RingSpec implies that live records stay inside the      *)
(* array and never overlap.  Disjoint is not inductive: after a free at    *)
(* the head nothing in it says that the records climb from the new head to *)
(* the tail.  Rotation says so, and names where the list wraps.            *)
(***************************************************************************)
EXTENDS LcmRingbuf, SequenceTheorems, TLAPS

RingIInv == RingTypeOK /\ InBounds /\ Rotation

\* Rounding up keeps a length positive: a record is never empty, not even
\* for a request of 0 bytes (ringbuffer.c:103-104).
LEMMA RoundedPositive ==
    ASSUME NEW len \in Nat
    PROVE  Rounded(len) \in Nat \ {0}
<1> DEFINE q == (len + RecHeader + Alignment - 1) \div Alignment
<1>1. RecHeader \in Nat \ {0} /\ Alignment \in Nat \ {0}
  BY HeaderAssumption
<1>2. q \in Nat /\ q >= 1
  BY <1>1, SMTT(30)
<1>3. q * Alignment \in Nat /\ q * Alignment >= 1
  <2> HIDE DEF q
  <2> QED BY <1>1, <1>2, SMTT(30)
<1> QED BY <1>3 DEF Rounded

\* A record placed where Placed allows keeps the ring in order.
LEMMA AllocPreserves ==
    ASSUME RingIInv, NEW n \in Nat \ {0}, AllocRounded(n)
    PROVE  RingIInv'
<1>1. PICK p \in Places(n) : /\ recs' = Append(recs, [pos |-> p, len |-> n])
                            /\ used' = used + n
  BY DEF AllocRounded
<1> DEFINE new == [pos |-> p, len |-> n]
           L == Len(recs)
<1>2. Placed(p, n)
  BY DEF Places
<1>3. /\ recs \in Seq(Record) /\ used \in Int
      /\ L \in Nat
      /\ \A i \in 1..L : recs[i] \in Record
  BY DEF RingIInv, RingTypeOK
<1>4. p \in Nat /\ new \in Record
  <2>1. CASE recs = <<>>
    BY <2>1, <1>2 DEF Placed, Record
  <2>2. CASE recs # <<>>
    <3>1. End(Tail1) \in Nat
      BY <2>2, <1>3 DEF Tail1, End, Record
    <3> QED BY <2>2, <3>1, <1>2 DEF Placed, Record
  <2> QED BY <2>1, <2>2
<1>5. /\ recs' \in Seq(Record)
      /\ Len(recs') = L + 1
      /\ \A i \in 1..L : recs'[i] = recs[i]
      /\ recs'[L + 1] = new
  BY <1>1, <1>3, <1>4
<1>6. RingTypeOK'
  BY <1>1, <1>3, <1>5 DEF RingTypeOK
<1> HIDE DEF new, L
<1>7. Size \in Nat /\ n \in Nat /\ n > 0
  BY SizeAssumption
<1>8. PICK w \in 0..L :
        /\ \A i, j \in 1..L :
              i < j /\ (j <= w \/ w < i) => End(recs[i]) <= recs[j].pos
        /\ \A i, j \in 1..L :
              i <= w /\ w < j => End(recs[j]) <= recs[i].pos
  BY DEF RingIInv, Rotation, L
<1>9. new.pos = p /\ new.len = n
  BY DEF new
<1>10. \A i \in 1..L : /\ recs[i].pos \in Nat /\ recs[i].len \in Nat
                       /\ recs[i].len > 0
                       /\ recs[i].pos + recs[i].len <= Size
  BY <1>3 DEF RingIInv, InBounds, Record, End, L
<1>11. L = 0 <=> recs = <<>>
  BY <1>3 DEF L
\* From here on the records count only through their two ends.
<1>12. /\ \A i \in 1..L : /\ recs[i].pos \in Nat /\ End(recs[i]) \in Nat
                         /\ recs[i].pos < End(recs[i])
                         /\ End(recs[i]) <= Size
                         /\ recs'[i].pos = recs[i].pos
                         /\ End(recs'[i]) = End(recs[i])
       /\ recs'[L + 1].pos = p
       /\ End(recs'[L + 1]) = p + n
  BY SMTT(30), <1>5, <1>9, <1>10 DEF End
<1>13. \A i \in 1..(L + 1) : i \in 1..L \/ i = L + 1
  BY <1>3 DEF L
<1>14. L \in Nat /\ Len(recs') = L + 1
  BY <1>3, <1>5 DEF L
\* Where the new record lies: after the tail and, once wrapped, below the head.
<1>15. /\ p + n <= Size
       /\ L = 0 => p = 0
       /\ L > 0 => \/ /\ recs[1].pos > recs[L].pos
                      /\ p = End(recs[L])
                      /\ p + n <= recs[1].pos
                   \/ /\ recs[1].pos <= recs[L].pos
                      /\ p = End(recs[L])
                   \/ /\ recs[1].pos <= recs[L].pos
                      /\ p = 0 /\ n < recs[1].pos
  <2>1. CASE L = 0
    BY <2>1, <1>2, <1>3, <1>7, <1>11 DEF Placed
  <2>2. CASE L > 0
    <3>1. recs # <<>> /\ 1 \in 1..L /\ L \in 1..L
      BY <2>2, <1>14, <1>11
    <3>2. Head1 = recs[1] /\ Tail1 = recs[L]
      BY DEF Head1, Tail1, L
    <3> QED BY <3>1, <3>2, <1>2, <1>4, <1>7, <1>12 DEF Placed
  <2> QED BY <2>1, <2>2, <1>14
<1>16. InBounds'
  BY <1>12, <1>13, <1>14, <1>15 DEF InBounds
<1>17. Rotation'
  <2>1. CASE L = 0
    BY <2>1, <1>14 DEF Rotation
  <2>2. CASE L > 0 /\ recs[1].pos > recs[L].pos
    <3>1. 0 < w /\ w < L
      <4>1. 1 \in 1..L /\ L \in 1..L /\ L # 1
        BY <2>2, <1>12, <1>14
      <4>2. ~(End(recs[1]) <= recs[L].pos)
        BY <4>1, <2>2, <1>12
      <4>3. ~(L <= w \/ w < 1)
        BY <4>1, <4>2, <1>8, <1>14
      <4> QED BY <4>3, <1>14
    <3>2. \A i \in 1..L : w < i => End(recs[i]) <= End(recs[L])
      <4> TAKE i \in 1..L
      <4>1. CASE i = L
        BY <4>1, <1>12
      <4>2. CASE i < L
        BY <4>2, <1>8, <1>12, <1>14, <2>2
      <4> QED BY <4>1, <4>2, <1>14
    <3>3. \A i \in 1..L : i <= w => recs[1].pos <= recs[i].pos
      <4> TAKE i \in 1..L
      <4>1. CASE i = 1
        BY <4>1, <1>12
      <4>2. CASE i > 1 /\ i <= w
        <5>1. 1 \in 1..L /\ 1 < i
          BY <4>2, <1>14
        <5>2. End(recs[1]) <= recs[i].pos
          BY <4>2, <5>1, <1>8
        <5> QED BY <5>1, <5>2, <1>12
      <4> QED BY <4>1, <4>2, <1>14
    <3>4. /\ p = End(recs[L]) /\ p + n <= recs[1].pos
          /\ p \in Int /\ recs[1].pos \in Int
      <4>1. 1 \in 1..L /\ L \in 1..L
        BY <2>2, <1>14
      <4>2. recs[1].pos \in Nat /\ recs[L].pos \in Nat /\ End(recs[L]) \in Nat
        BY <4>1, <1>12
      <4>3. ~(recs[1].pos <= recs[L].pos)
        BY <4>2, <2>2
      <4>4. p = End(recs[L]) /\ p + n <= recs[1].pos
        BY <4>3, <1>15, <2>2
      <4> QED BY <4>2, <4>4
    <3>5. \A i, j \in 1..L + 1 :
            i < j /\ (j <= w \/ w < i) => End(recs'[i]) <= recs'[j].pos
      <4> TAKE i, j \in 1..L + 1
      <4> HAVE i < j /\ (j <= w \/ w < i)
      <4>1. i \in 1..L
        BY <1>14
      <4>2. CASE j \in 1..L
        <5>1. End(recs[i]) <= recs[j].pos
          BY <4>1, <4>2, <1>8
        <5> QED BY <4>1, <4>2, <5>1, <1>12
      <4>3. CASE j = L + 1
        <5>1. w < i
          BY <4>3, <3>1, <1>14
        <5>2. End(recs[i]) <= End(recs[L]) /\ End(recs[L]) = p
          BY <4>1, <5>1, <3>2, <3>4
        <5>3. End(recs'[i]) = End(recs[i]) /\ recs'[j].pos = p
          BY <4>1, <4>3, <1>12
        <5> QED BY <5>2, <5>3
      <4> QED BY <4>2, <4>3, <1>13
    <3>6. \A i, j \in 1..L + 1 :
            i <= w /\ w < j => End(recs'[j]) <= recs'[i].pos
      <4> TAKE i, j \in 1..L + 1
      <4> HAVE i <= w /\ w < j
      <4>1. i \in 1..L
        BY <1>14
      <4>2. CASE j \in 1..L
        <5>1. End(recs[j]) <= recs[i].pos
          BY <4>1, <4>2, <1>8
        <5> QED BY <4>1, <4>2, <5>1, <1>12
      <4>3. CASE j = L + 1
        <5>1. recs[1].pos <= recs[i].pos /\ 1 \in 1..L
          BY <4>1, <3>1, <3>3, <1>14
        <5>2. End(recs'[j]) = p + n /\ recs'[i].pos = recs[i].pos
          BY <4>1, <4>3, <1>12
        <5>3. p + n \in Int /\ recs[i].pos \in Int
          BY <4>1, <3>4, <1>4, <1>12
        <5> QED BY <5>1, <5>2, <5>3, <3>4
      <4> QED BY <4>2, <4>3, <1>13
    <3>7. w \in 0..Len(recs')
      BY <1>14
    <3> QED BY <3>5, <3>6, <3>7, <1>14 DEF Rotation
  <2>3. CASE L > 0 /\ recs[1].pos <= recs[L].pos
    <3>1. \A i, j \in 1..L : i < j => End(recs[i]) <= recs[j].pos
      <4>1. w = 0 \/ w = L
        <5>1. 1 \in 1..L /\ L \in 1..L
          BY <2>3, <1>14
        <5>2. ~(End(recs[L]) <= recs[1].pos)
          BY <5>1, <1>12, <2>3
        <5>3. ~(1 <= w /\ w < L)
          BY <5>1, <5>2, <1>8
        <5> QED BY <5>3, <1>14
      <4> QED BY <4>1, <1>14, <1>8
    <3>2. \A i \in 1..L : /\ End(recs[i]) <= End(recs[L])
                         /\ recs[1].pos <= recs[i].pos
      <4> TAKE i \in 1..L
      <4>1. 1 \in 1..L /\ L \in 1..L /\ 1 <= i /\ i <= L
        BY <1>14
      <4>2. i = L \/ End(recs[i]) <= recs[L].pos
        BY <4>1, <3>1
      <4>3. i = 1 \/ End(recs[1]) <= recs[i].pos
        BY <4>1, <3>1
      <4> QED BY <4>1, <4>2, <4>3, <1>12
    <3>3. CASE p = End(recs[L])
      <4>1. \A i, j \in 1..L + 1 : i < j => End(recs'[i]) <= recs'[j].pos
        <5> TAKE i, j \in 1..L + 1
        <5> HAVE i < j
        <5>1. i \in 1..L
          BY <1>14
        <5> QED BY <5>1, <3>1, <3>2, <3>3, <1>12, <1>13
      <4>2. L + 1 \in 0..Len(recs')
        BY <1>14
      <4> QED BY <4>1, <4>2, <1>14 DEF Rotation
    <3>4. CASE p = 0 /\ n < recs[1].pos
      <4>1. \A i, j \in 1..L + 1 :
              i < j /\ (j <= L \/ L < i) => End(recs'[i]) <= recs'[j].pos
        <5> TAKE i, j \in 1..L + 1
        <5> HAVE i < j /\ (j <= L \/ L < i)
        <5>1. i \in 1..L /\ j \in 1..L
          BY <1>14
        <5> QED BY <5>1, <3>1, <1>12
      <4>2. \A i, j \in 1..L + 1 :
              i <= L /\ L < j => End(recs'[j]) <= recs'[i].pos
        <5> TAKE i, j \in 1..L + 1
        <5> HAVE i <= L /\ L < j
        <5>1. i \in 1..L /\ j = L + 1
          BY <1>14
        <5>2. n < recs[i].pos
          BY <5>1, <3>2, <3>4, <2>3, <1>7, <1>12, <1>14
        <5> QED BY <5>1, <5>2, <3>4, <1>7, <1>12
      <4>3. L \in 0..Len(recs')
        BY <1>14
      <4> QED BY <4>1, <4>2, <4>3, <1>14 DEF Rotation
    <3> QED BY <2>3, <3>3, <3>4, <1>15
  <2>4. (recs[1].pos \in Nat /\ recs[L].pos \in Nat) \/ L = 0
    BY <1>12, <1>14
  <2> QED BY <2>1, <2>2, <2>3, <2>4, <1>14
<1> QED BY <1>6, <1>16, <1>17 DEF RingIInv

\* Cutting the newest record shorter leaves every other byte where it was.
LEMMA ShrinkPreserves ==
    ASSUME RingIInv, NEW p, NEW n \in Nat \ {0}, ShrinkRounded(p, n)
    PROVE  RingIInv'
<1> DEFINE L == Len(recs)
<1>1. /\ recs \in Seq(Record) /\ used \in Int /\ L \in Nat /\ L > 0
      /\ \A i \in 1..L : recs[i] \in Record
  BY DEF RingIInv, RingTypeOK, ShrinkRounded, CanShrink
<1>2. /\ recs' = [recs EXCEPT ![L] = [recs[L] EXCEPT !.len = n]]
      /\ n <= recs[L].len
      /\ used' = used - (recs[L].len - n)
  BY DEF ShrinkRounded, CanShrink, Tail1
<1>3. [recs[L] EXCEPT !.len = n] \in Record
  <2>1. recs[L] \in Record
    BY <1>1
  <2> HIDE DEF L
  <2> QED BY <2>1 DEF Record
<1>4. recs' \in Seq(Record) /\ Len(recs') = L
  BY <1>1, <1>2, <1>3
<1>5. \A i \in 1..L : /\ recs[i].pos \in Nat
                      /\ End(recs[i]) \in Nat
                      /\ recs'[i].pos = recs[i].pos
                      /\ End(recs'[i]) \in Nat
                      /\ End(recs'[i]) <= End(recs[i])
  <2> TAKE i \in 1..L
  <2>1. CASE i = L
    BY <2>1, <1>1, <1>2 DEF End, Record
  <2>2. CASE i # L
    BY SMTT(30), <2>2, <1>1, <1>2 DEF End, Record
  <2> QED BY <2>1, <2>2
<1>6. RingTypeOK'
  <2>1. recs[L].len \in Nat
    BY <1>1 DEF Record
  <2> QED BY <2>1, <1>1, <1>2, <1>4 DEF RingTypeOK
<1> HIDE DEF L
<1>7. InBounds'
  <2>1. \A i \in 1..L : End(recs[i]) <= Size
    BY DEF RingIInv, InBounds, L
  <2> QED BY <2>1, <1>4, <1>5, SizeAssumption DEF InBounds
<1>8. Rotation'
  <2>1. PICK w \in 0..L :
          /\ \A i, j \in 1..L :
                i < j /\ (j <= w \/ w < i) => End(recs[i]) <= recs[j].pos
          /\ \A i, j \in 1..L :
                i <= w /\ w < j => End(recs[j]) <= recs[i].pos
    BY DEF RingIInv, Rotation, L
  <2>2. \A i, j \in 1..L :
          i < j /\ (j <= w \/ w < i) => End(recs'[i]) <= recs'[j].pos
    BY <2>1, <1>5
  <2>3. \A i, j \in 1..L :
          i <= w /\ w < j => End(recs'[j]) <= recs'[i].pos
    BY <2>1, <1>5
  <2> QED BY <2>2, <2>3, <1>4 DEF Rotation
<1> QED BY <1>6, <1>7, <1>8 DEF RingIInv

\* Freeing at either end leaves a shorter list in the same order.
LEMMA DeallocPreserves ==
    ASSUME RingIInv, NEW p, Dealloc(p)
    PROVE  RingIInv'
<1> DEFINE L == Len(recs)
<1>1. /\ recs \in Seq(Record) /\ used \in Int /\ L \in Nat /\ L > 0
      /\ \A i \in 1..L : recs[i] \in Record /\ recs[i].len \in Nat
  <2>1. recs \in Seq(Record) /\ used \in Int /\ recs # <<>>
    BY DEF RingIInv, RingTypeOK, Dealloc, CanDealloc
  <2>2. \A i \in 1..L : recs[i] \in Record
    BY <2>1
  <2> QED BY <2>1, <2>2 DEF Record
<1>2. PICK w \in 0..L :
        /\ \A i, j \in 1..L :
              i < j /\ (j <= w \/ w < i) => End(recs[i]) <= recs[j].pos
        /\ \A i, j \in 1..L :
              i <= w /\ w < j => End(recs[j]) <= recs[i].pos
  BY DEF RingIInv, Rotation
<1>3. \A i \in 1..L : End(recs[i]) <= Size
  BY DEF RingIInv, InBounds
<1>4. CASE p = Head1.pos
  <2>1. recs' = Tail(recs) /\ used' = used - Head1.len
    BY <1>4 DEF Dealloc
  <2>2. /\ recs' \in Seq(Record) /\ Len(recs') = L - 1
        /\ \A i \in 1..(L - 1) : recs'[i] = recs[i + 1]
    BY <1>1, <2>1
  <2>3. RingTypeOK'
    BY <1>1, <2>1, <2>2 DEF RingTypeOK, Head1
  <2> HIDE DEF L
  <2>4. \A i \in 1..(L - 1) : i + 1 \in 1..L
    BY <1>1
  <2>5. InBounds'
    BY <1>3, <2>2, <2>4 DEF InBounds
  <2>6. PICK v \in 0..(L - 1) : v = w - 1 \/ (v = 0 /\ w = 0)
    <3>1. L \in Nat /\ L > 0 /\ w \in 0..L
      BY <1>1
    <3>2. CASE w = 0
      BY <3>1, <3>2
    <3>3. CASE w # 0
      <4>1. w - 1 \in 0..(L - 1)
        BY <3>1, <3>3
      <4> QED BY <4>1
    <3> QED BY <3>2, <3>3
  <2>7. \A i, j \in 1..(L - 1) :
          i < j /\ (j <= v \/ v < i) => End(recs'[i]) <= recs'[j].pos
    <3> TAKE i, j \in 1..(L - 1)
    <3> HAVE i < j /\ (j <= v \/ v < i)
    <3>1. i + 1 < j + 1 /\ (j + 1 <= w \/ w < i + 1)
      BY <2>6, <1>1
    <3> QED BY <3>1, <1>2, <2>2, <2>4
  <2>8. \A i, j \in 1..(L - 1) :
          i <= v /\ v < j => End(recs'[j]) <= recs'[i].pos
    <3> TAKE i, j \in 1..(L - 1)
    <3> HAVE i <= v /\ v < j
    <3>1. i + 1 <= w /\ w < j + 1
      BY <2>6, <1>1
    <3> QED BY <3>1, <1>2, <2>2, <2>4
  <2>9. Rotation'
    BY <2>2, <2>6, <2>7, <2>8 DEF Rotation
  <2> QED BY <2>3, <2>5, <2>9 DEF RingIInv
<1>5. CASE p # Head1.pos
  <2>1. recs' = SubSeq(recs, 1, L - 1) /\ used' = used - Tail1.len
    BY <1>5 DEF Dealloc
  <2>2. /\ recs' \in Seq(Record) /\ Len(recs') = L - 1
        /\ \A i \in 1..(L - 1) : recs'[i] = recs[i]
    <3>1. 1 \in Int /\ L - 1 \in Int /\ \A i \in 1..(L - 1) : recs[i] \in Record
      BY <1>1
    <3>2. /\ SubSeq(recs, 1, L - 1) \in Seq(Record)
          /\ Len(SubSeq(recs, 1, L - 1)) = IF 1 <= L - 1 THEN L - 1 - 1 + 1 ELSE 0
          /\ \A i \in 1..(L - 1 - 1 + 1) : SubSeq(recs, 1, L - 1)[i] = recs[1 + i - 1]
      <4> DEFINE m == 1
                 k == L - 1
      <4>1. m \in Int /\ k \in Int /\ \A i \in m..k : recs[i] \in Record
        BY <3>1
      <4> HIDE DEF m, k
      <4>2. /\ SubSeq(recs, m, k) \in Seq(Record)
            /\ Len(SubSeq(recs, m, k)) = IF m <= k THEN k - m + 1 ELSE 0
            /\ \A i \in 1..(k - m + 1) : SubSeq(recs, m, k)[i] = recs[m + i - 1]
        BY <4>1, SubSeqProperties
      <4> QED BY <4>2 DEF m, k
    <3> HIDE DEF L
    <3>3. \A i \in 1..(L - 1) : 1 + i - 1 = i /\ i \in 1..(L - 1 - 1 + 1)
      BY <1>1
    <3> QED BY <1>1, <2>1, <3>2, <3>3
  <2>3. RingTypeOK'
    BY <1>1, <2>1, <2>2 DEF RingTypeOK, Tail1
  <2> HIDE DEF L
  <2>4. \A i \in 1..(L - 1) : i \in 1..L
    BY <1>1
  <2>5. InBounds'
    BY <1>3, <2>2, <2>4 DEF InBounds
  <2>6. PICK v \in 0..(L - 1) : v = w \/ (v = w - 1 /\ w = L)
    BY <1>1
  <2>7. \A i, j \in 1..(L - 1) :
          i < j /\ (j <= v \/ v < i) => End(recs'[i]) <= recs'[j].pos
    <3> TAKE i, j \in 1..(L - 1)
    <3> HAVE i < j /\ (j <= v \/ v < i)
    <3>1. j <= w \/ w < i
      BY <2>6, <1>1
    <3> QED BY <3>1, <1>2, <2>2, <2>4
  <2>8. \A i, j \in 1..(L - 1) :
          i <= v /\ v < j => End(recs'[j]) <= recs'[i].pos
    <3> TAKE i, j \in 1..(L - 1)
    <3> HAVE i <= v /\ v < j
    <3>1. i <= w /\ w < j
      BY <2>6, <1>1
    <3> QED BY <3>1, <1>2, <2>2, <2>4
  <2>9. Rotation'
    BY <2>2, <2>6, <2>7, <2>8 DEF Rotation
  <2> QED BY <2>3, <2>5, <2>9 DEF RingIInv
<1> QED BY <1>4, <1>5

\* In an ordered ring no two records share a byte.
LEMMA RotationDisjoint ==
    ASSUME RingIInv
    PROVE  Disjoint
<1>1. PICK w \in 0..Len(recs) :
        /\ \A i, j \in 1..Len(recs) :
              i < j /\ (j <= w \/ w < i) => End(recs[i]) <= recs[j].pos
        /\ \A i, j \in 1..Len(recs) :
              i <= w /\ w < j => End(recs[j]) <= recs[i].pos
  BY DEF RingIInv, Rotation
<1>2. \A i, j \in 1..Len(recs) :
        i < j => \/ End(recs[i]) <= recs[j].pos
                 \/ End(recs[j]) <= recs[i].pos
  BY <1>1
<1> QED BY <1>2 DEF Disjoint

\* Every step of the ring keeps the invariant (used by the receive path,
\* whose steps are ring steps or leave the ring alone).
LEMMA RingStepPreserves ==
    ASSUME RingIInv, [RingNext]_ringVars
    PROVE  RingIInv'
<1>1. CASE \E len \in Lens : Alloc(len)
  <2>1. PICK len \in Lens : AllocRounded(Rounded(len))
    BY <1>1 DEF Alloc
  <2>2. Rounded(len) \in Nat \ {0}
    BY RoundedPositive, LensAssumption
  <2> QED BY <2>1, <2>2, AllocPreserves
<1>2. CASE \E p \in 0..Size, len \in Lens : ShrinkLast(p, len)
  <2>1. PICK p \in 0..Size, len \in Lens : ShrinkRounded(p, Rounded(len))
    BY <1>2 DEF ShrinkLast
  <2>2. Rounded(len) \in Nat \ {0}
    BY RoundedPositive, LensAssumption
  <2> QED BY <2>1, <2>2, ShrinkPreserves
<1>3. CASE \E p \in 0..Size : Dealloc(p)
  BY <1>3, DeallocPreserves
<1>4. CASE UNCHANGED ringVars
  BY <1>4 DEF ringVars, RingIInv, RingTypeOK, InBounds, Rotation
<1> QED BY <1>1, <1>2, <1>3, <1>4 DEF RingNext

\* Whatever the array's size, the alignment and the requests, no caller is
\* ever given bytes outside the array or bytes of another live record.
THEOREM RingSafe == RingSpec => [](InBounds /\ Disjoint)
<1>1. RingInit => RingIInv
  <2> SUFFICES ASSUME RingInit PROVE RingIInv
    OBVIOUS
  <2>1. Len(recs) = 0 /\ recs \in Seq(Record) /\ used \in Int
    BY DEF RingInit
  <2> QED BY <2>1 DEF RingIInv, RingTypeOK, InBounds, Rotation
<1>2. RingIInv /\ [RingNext]_ringVars => RingIInv'
  BY RingStepPreserves
<1>3. RingIInv => InBounds /\ Disjoint
  BY RotationDisjoint DEF RingIInv
<1> QED BY <1>1, <1>2, <1>3, PTL DEF RingSpec

=============================================================================
