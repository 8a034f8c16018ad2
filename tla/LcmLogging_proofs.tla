-------------------------- MODULE LcmLogging_proofs --------------------------
(***************************************************************************)
(* The logger and the player for any messages, limits, names, speeds and   *)
(* clocks.  IInv says what the queue holds and may hold, where the one     *)
(* announcement between two calls of lcm_handle is, and that none is made  *)
(* before its time.                                                        *)
(*                                                                         *)
(* For what is played back there are two more invariants.  RecordInv: the  *)
(* messages accepted are those written, the one in hand and those queued.  *)
(* ReplayInv: the events in the file begin at known places, one behind the *)
(* other, and what the player has read is what lay at them.                *)
(*                                                                         *)
(* For a seek in a clean log, whatever order its times are in: what the    *)
(* bisection has met at the right end of its bracket is never early, and   *)
(* the room in the bracket becomes smaller, so that it ends.               *)
(***************************************************************************)
EXTENDS LcmLogging, Induction, SequenceTheorems, TLAPS

-----------------------------------------------------------------------------
(* Reading a log.                                                           *)

LEMMA FieldType ==
    ASSUME NEW f \in Seq(Nat), NEW p \in Int, p >= 1
    PROVE  Field(f, p) \in Nat /\ Field64(f, p) \in Nat
<1>1. Radix \in Nat
    BY EventLogAssumption
<1>2. \A k \in 1..Len(f) : f[k] \in Nat
    BY ElementOfSeq
<1>3. Len(f) \in Nat
    OBVIOUS
<1>4. CASE p < Len(f)
  <2>1. p \in 1..Len(f) /\ p + 1 \in 1..Len(f)
      BY <1>3, <1>4
  <2>2. f[p] * Radix \in Nat /\ f[p + 1] \in Nat
      BY <1>1, <1>2, <2>1
  <2> QED
      BY <1>2, <1>4, <2>1, <2>2 DEF Field, Field64
<1>5. CASE ~(p < Len(f))
    BY <1>2, <1>3, <1>5 DEF Field, Field64
<1> QED
    BY <1>4, <1>5

\* What is read of any file of words is an event, the end, or a crash.
LEMMA ReadNextType ==
    ASSUME NEW f \in Seq(Nat), NEW pos \in Nat
    PROVE  LET r == ReadNext(f, pos) IN
           /\ r.kind \in {"eof", "crash", "event"} /\ r.pos \in Nat
           /\ r.kind = "event" => r.event \in Event
<1> DEFINE ms == Magics(f, pos)
           p == Min(ms)
           ch == Field(f, p + 5)
           dl == Field(f, p + 6)
           body == p + 6 + ch
<1>0. Len(f) \in Nat
    OBVIOUS
<1>1. CASE ms = {}
    BY <1>0, <1>1 DEF ReadNext
<1>2. CASE ms # {}
  <2>1. ms \in SUBSET Nat /\ \A k \in ms : k >= 1 /\ k <= Len(f)
      BY <1>0 DEF Magics
  <2>2. p \in ms /\ p \in Nat /\ p >= 1
    <3> HIDE DEF ms
    <3> QED
        BY <1>2, <2>1, MinLeast
  <2> HIDE DEF ms, p
  <2>3. ch \in Nat /\ dl \in Nat /\ Field64(f, p + 1) \in Nat /\ Field64(f, p + 3) \in Nat
      BY <2>2, FieldType
  <2> HIDE DEF ch, dl
  <2>4. body \in Nat /\ body + dl \in Nat /\ body >= p + 6
      BY <2>2, <2>3
  <2>5. CASE ch = Magic \/ ch >= ChannelLimit
      BY <1>2, <2>2, <2>5 DEF ReadNext, ms, p, ch
  <2>6. CASE ch # Magic /\ ~(ch >= ChannelLimit) /\ ch > 0 /\ body > Len(f)
      BY <1>0, <1>2, <2>2, <2>6 DEF ReadNext, ms, p, ch
  <2>7. CASE /\ ch # Magic /\ ~(ch >= ChannelLimit) /\ ~(ch > 0 /\ body > Len(f))
             /\ dl = Magic
      BY <1>2, <2>2, <2>7 DEF ReadNext, ms, p, ch, dl
  <2>8. CASE /\ ch # Magic /\ ~(ch >= ChannelLimit) /\ ~(ch > 0 /\ body > Len(f))
             /\ dl # Magic /\ dl > 0 /\ body + dl > Len(f)
      BY <1>0, <1>2, <2>2, <2>8 DEF ReadNext, ms, p, ch, dl
  <2>9. CASE /\ ch # Magic /\ ~(ch >= ChannelLimit) /\ ~(ch > 0 /\ body > Len(f))
             /\ dl # Magic /\ ~(dl > 0 /\ body + dl > Len(f))
    <3> DEFINE e == [timestamp |-> Field64(f, p + 3),
                     channel |-> SubSeq(f, p + 7, body),
                     data |-> SubSeq(f, body + 1, body + dl)]
               q == Min({body + dl, Len(f)})
    <3>1. ReadNext(f, pos) = [kind |-> "event", pos |-> q,
                              num |-> Field64(f, p + 1), event |-> e]
        BY <1>2, <2>9 DEF ReadNext, ms, p, ch, dl
    <3>2. SubSeq(f, p + 7, body) \in Seq(Nat) /\ SubSeq(f, body + 1, body + dl) \in Seq(Nat)
      <4>1. \A i \in p + 7..body : f[i] \in Nat
        <5> TAKE i \in p + 7..body
        <5>1. i \in 1..Len(f)
            BY <1>0, <2>2, <2>3, <2>4, <2>9
        <5> QED
            BY <5>1, ElementOfSeq
      <4>2. \A i \in body + 1..body + dl : f[i] \in Nat
        <5> TAKE i \in body + 1..body + dl
        <5>1. i \in 1..Len(f)
            BY <1>0, <2>2, <2>3, <2>4, <2>9
        <5> QED
            BY <5>1, ElementOfSeq
      <4> QED
          BY <2>2, <2>4, <4>1, <4>2, SubSeqProperties
    <3>3. q \in Nat
      <4>1. {body + dl, Len(f)} \in SUBSET Nat /\ {body + dl, Len(f)} # {}
          BY <1>0, <2>4
      <4> HIDE DEF body
      <4>2. q \in {body + dl, Len(f)}
          BY <4>1, MinLeast
      <4> QED
          BY <4>1, <4>2
    <3>4. e.channel \in Channels
      <4>1. Len(SubSeq(f, p + 7, body)) = ch
        <5>1. \A i \in p + 7..body : f[i] \in Nat
          <6> TAKE i \in p + 7..body
          <6>1. i \in 1..Len(f)
              BY <1>0, <2>2, <2>3, <2>4, <2>9
          <6> QED
              BY <6>1, ElementOfSeq
        <5>2. Len(SubSeq(f, p + 7, body)) = IF p + 7 <= body THEN body - (p + 7) + 1 ELSE 0
            BY <2>2, <2>4, <5>1, SubSeqProperties
        <5> QED
            BY <2>2, <2>3, <2>4, <5>2
      <4>2. ch < ChannelLimit
          BY <2>3, <2>9, EventLogAssumption
      <4> QED
          BY <3>2, <4>1, <4>2 DEF Channels
    <3>5. e \in Event
        BY <2>3, <3>2, <3>4 DEF Event
    <3> HIDE DEF e, q
    <3> QED
        BY <3>1, <3>3, <3>5
  <2> QED
      BY <2>5, <2>6, <2>7, <2>8, <2>9
<1> QED
    BY <1>1, <1>2

LEMMA HighLow ==
    ASSUME NEW v \in Nat
    PROVE  High(v) * Radix + Low(v) = v /\ High(v) \in Nat /\ Low(v) \in Nat
<1>1. Radix \in Nat \ {0}
    BY EventLogAssumption
<1> QED
    BY <1>1 DEF High, Low

LEMMA ConcatFacts ==
    ASSUME NEW s \in Seq(Nat), NEW t \in Seq(Nat)
    PROVE  /\ s \o t \in Seq(Nat) /\ Len(s \o t) = Len(s) + Len(t)
           /\ \A k \in 1..Len(s) : (s \o t)[k] = s[k]
           /\ \A k \in 1..Len(t) : (s \o t)[Len(s) + k] = t[k]
<1>1. /\ s \o t \in Seq(Nat) /\ Len(s \o t) = Len(s) + Len(t)
      /\ \A i \in 1..Len(s) + Len(t) : (s \o t)[i] = IF i <= Len(s) THEN s[i] ELSE t[i - Len(s)]
    BY ConcatProperties
<1>2. Len(s) \in Nat /\ Len(t) \in Nat
    OBVIOUS
<1>3. ASSUME NEW k \in 1..Len(s) PROVE (s \o t)[k] = s[k]
    BY <1>1, <1>2
<1>4. ASSUME NEW k \in 1..Len(t) PROVE (s \o t)[Len(s) + k] = t[k]
  <2>1. Len(s) + k \in 1..Len(s) + Len(t) /\ ~(Len(s) + k <= Len(s)) /\ Len(s) + k - Len(s) = k
      BY <1>2
  <2> QED
      BY <1>1, <2>1
<1> QED
    BY <1>1, <1>3, <1>4

LEMMA EventWordsFacts ==
    ASSUME NEW n \in Nat, NEW e \in Event
    PROVE  LET w == EventWords(n, e) IN
           /\ w \in Seq(Nat) /\ Len(w) = 7 + Len(e.channel) + Len(e.data)
           /\ w[1] = Magic /\ w[4] = High(e.timestamp) /\ w[5] = Low(e.timestamp)
           /\ w[6] = Len(e.channel) /\ w[7] = Len(e.data)
           /\ \A k \in 1..Len(e.channel) : w[7 + k] = e.channel[k]
           /\ \A k \in 1..Len(e.data) : w[7 + Len(e.channel) + k] = e.data[k]
<1>1. Magic \in Nat
    BY EventLogAssumption
<1>2. e.timestamp \in Nat /\ e.channel \in Seq(Nat) /\ e.data \in Seq(Nat)
    BY DEF Event, Channels
<1>3. PICK c \in Seq(Nat), d \in Seq(Nat) : c = e.channel /\ d = e.data
    BY <1>2
<1>4. PICK a \in Nat, b \in Nat, x \in Nat, y \in Nat :
        a = High(n) /\ b = Low(n) /\ x = High(e.timestamp) /\ y = Low(e.timestamp)
    BY <1>2, HighLow
<1> DEFINE h == <<Magic, a, b, x, y, Len(c), Len(d)>>
<1>5. h \in Seq(Nat)
    BY <1>1
<1>6. /\ Len(h) = 7 /\ h[1] = Magic /\ h[4] = x /\ h[5] = y /\ h[6] = Len(c) /\ h[7] = Len(d)
    OBVIOUS
<1> HIDE DEF h
<1>7. /\ h \o c \in Seq(Nat) /\ Len(h \o c) = 7 + Len(c)
      /\ \A k \in 1..7 : (h \o c)[k] = h[k]
      /\ \A k \in 1..Len(c) : (h \o c)[7 + k] = c[k]
  <2>1. /\ h \o c \in Seq(Nat) /\ Len(h \o c) = Len(h) + Len(c)
        /\ \A k \in 1..Len(h) : (h \o c)[k] = h[k]
        /\ \A k \in 1..Len(c) : (h \o c)[Len(h) + k] = c[k]
      BY <1>5, ConcatFacts
  <2> QED
      BY <1>6, <2>1
<1>8. PICK g \in Seq(Nat) : g = h \o c
    BY <1>7
<1>9. /\ g \o d \in Seq(Nat) /\ Len(g \o d) = 7 + Len(c) + Len(d)
      /\ \A k \in 1..7 + Len(c) : (g \o d)[k] = g[k]
      /\ \A k \in 1..Len(d) : (g \o d)[7 + Len(c) + k] = d[k]
  <2>1. /\ g \o d \in Seq(Nat) /\ Len(g \o d) = Len(g) + Len(d)
        /\ \A k \in 1..Len(g) : (g \o d)[k] = g[k]
        /\ \A k \in 1..Len(d) : (g \o d)[Len(g) + k] = d[k]
      BY ConcatFacts
  <2>2. Len(g) = 7 + Len(c)
      BY <1>7, <1>8
  <2> QED
      BY <2>1, <2>2
<1>10. EventWords(n, e) = g \o d
    BY <1>3, <1>4, <1>8 DEF EventWords, h
<1>11. PICK w \in Seq(Nat) : w = g \o d
    BY <1>9
<1>12. /\ \A k \in 1..7 : w[k] = h[k]
       /\ \A k \in 1..Len(c) : w[7 + k] = c[k]
  <2>1. Len(c) \in Nat
      OBVIOUS
  <2>2. \A k \in 1..7 : k \in 1..7 + Len(c)
      BY <2>1
  <2>3. \A k \in 1..Len(c) : 7 + k \in 1..7 + Len(c)
      BY <2>1
  <2> QED
      BY <1>7, <1>8, <1>9, <1>11, <2>2, <2>3
<1>13. w[1] = h[1] /\ w[4] = h[4] /\ w[5] = h[5] /\ w[6] = h[6] /\ w[7] = h[7]
    BY <1>12
<1> QED
    BY <1>3, <1>4, <1>6, <1>9, <1>10, <1>11, <1>12, <1>13

LEMMA SliceIs ==
    ASSUME NEW f \in Seq(Nat), NEW m \in Nat, NEW s \in Seq(Nat),
           \A k \in 1..Len(s) : f[m + k] = s[k]
    PROVE  SubSeq(f, m + 1, m + Len(s)) = s
<1>1. Len(s) \in Nat /\ \A k \in 1..Len(s) : s[k] \in Nat
    BY ElementOfSeq
<1>2. \A i \in m + 1..m + Len(s) : f[i] \in Nat
  <2> TAKE i \in m + 1..m + Len(s)
  <2>1. i - m \in 1..Len(s) /\ m + (i - m) = i
      BY <1>1
  <2> QED
      BY <1>1, <2>1
<1>3. /\ SubSeq(f, m + 1, m + Len(s)) \in Seq(Nat)
      /\ Len(SubSeq(f, m + 1, m + Len(s))) = Len(s)
      /\ \A k \in 1..Len(s) : SubSeq(f, m + 1, m + Len(s))[k] = f[m + k]
  <2> DEFINE a == m + 1
             b == m + Len(s)
  <2>1. /\ SubSeq(f, a, b) \in Seq(Nat)
        /\ Len(SubSeq(f, a, b)) = IF a <= b THEN b - a + 1 ELSE 0
        /\ \A i \in 1..b - a + 1 : SubSeq(f, a, b)[i] = f[a + i - 1]
      BY <1>1, <1>2, SubSeqProperties
  <2>2. b - a + 1 = Len(s) /\ (a <= b \/ Len(s) = 0) /\ \A k \in 1..Len(s) : a + k - 1 = m + k
      BY <1>1
  <2> HIDE DEF a, b
  <2> QED
      BY <2>1, <2>2 DEF a, b
<1> QED
    BY <1>3, SeqEqual

LEMMA ReadEnd ==
    ASSUME NEW f \in Seq(Nat), NEW pos \in Nat, pos >= Len(f)
    PROVE  ReadNext(f, pos).kind = "eof"
<1>1. Magics(f, pos) = {}
    BY DEF Magics
<1> QED
    BY <1>1 DEF ReadNext

\* What is read where an event lies that ends before next.
Reads(f, pos, next, e) ==
  LET r == ReadNext(f, pos) IN
  /\ next <= Len(f) => r.kind # "eof" /\ (r.kind = "event" => r.event = e /\ r.pos = next)
  /\ next > Len(f) /\ r.kind = "event" =>
       r.pos = Len(f) /\ r.event.channel = <<>> /\ r.event.data = <<>>

\* The words of an event, or the part of them that is left.
Lies(f, pos, t, c, d) ==
  /\ f[pos + 1] = Magic
  /\ pos + 5 <= Len(f) => f[pos + 4] = High(t) /\ f[pos + 5] = Low(t)
  /\ pos + 6 <= Len(f) => f[pos + 6] = Len(c)
  /\ pos + 7 <= Len(f) => f[pos + 7] = Len(d)
  /\ pos + 7 + Len(c) + Len(d) <= Len(f) =>
       /\ \A k \in 1..Len(c) : f[pos + 7 + k] = c[k]
       /\ \A k \in 1..Len(d) : f[pos + 7 + Len(c) + k] = d[k]

LEMMA ReadWords ==
    ASSUME NEW f \in Seq(Nat), NEW pos \in Nat, NEW t \in Nat,
           NEW c \in Seq(Nat), NEW d \in Seq(Nat), NEW next \in Nat,
           pos < Len(f), next = pos + 7 + Len(c) + Len(d),
           Lies(f, pos, t, c, d)
    PROVE  Reads(f, pos, next, [timestamp |-> t, channel |-> c, data |-> d])
<1> DEFINE r == ReadNext(f, pos)
           ms == Magics(f, pos)
           ch == Field(f, pos + 6)
           dl == Field(f, pos + 7)
           body == pos + 7 + ch
           ev == [timestamp |-> Field64(f, pos + 4),
                  channel |-> SubSeq(f, pos + 8, body),
                  data |-> SubSeq(f, body + 1, body + dl)]
           q == Min({body + dl, Len(f)})
           A == ch > 0 /\ body > Len(f)
           B == dl > 0 /\ body + dl > Len(f)
<1>1. Len(f) \in Nat /\ Len(c) \in Nat /\ Len(d) \in Nat
    OBVIOUS
<1> USE DEF Lies
<1>2. ms # {} /\ Min(ms) = pos + 1
  <2>1. pos + 1 \in ms /\ ms \in SUBSET Nat /\ \A k \in ms : pos + 1 <= k
      BY <1>1 DEF Magics
  <2> HIDE DEF ms
  <2>2. Min(ms) \in ms /\ Min(ms) <= pos + 1
      BY <2>1, MinLeast
  <2>3. Min(ms) \in Nat /\ pos + 1 <= Min(ms)
      BY <2>1, <2>2
  <2> QED
      BY <2>1, <2>2, <2>3
<1>3. /\ ch = IF pos + 6 <= Len(f) THEN Len(c) ELSE 0
      /\ dl = IF pos + 7 <= Len(f) THEN Len(d) ELSE 0
    BY DEF Field
<1>4. /\ r.kind = "event" => ~A /\ ~B /\ r.event = ev /\ r.pos = q
      /\ ~A /\ ~B => r.kind # "eof"
  <2> DEFINE R == [kind |-> "event", pos |-> q, num |-> Field64(f, pos + 2), event |-> ev]
             C == [kind |-> "crash", pos |-> pos]
             E == [kind |-> "eof", pos |-> Len(f)]
  <2>1. /\ pos + 1 + 1 = pos + 2 /\ pos + 1 + 3 = pos + 4 /\ pos + 1 + 5 = pos + 6
        /\ pos + 1 + 6 = pos + 7 /\ pos + 1 + 7 = pos + 8
      OBVIOUS
  <2>2. r = CASE ch = Magic \/ ch >= ChannelLimit -> C
              [] A -> E
              [] dl = Magic -> C
              [] B -> E
              [] OTHER -> R
      BY <1>2, <2>1 DEF ReadNext
  <2>3. R.kind = "event" /\ R.pos = q /\ R.event = ev /\ C.kind = "crash" /\ E.kind = "eof"
      OBVIOUS
  <2> HIDE DEF r, ch, dl, A, B, C, E, R, ev, q
  <2>4. r = C \/ ((A \/ B) /\ r = E) \/ (~A /\ ~B /\ r = R)
      BY <2>2
  <2> QED
      BY <2>3, <2>4
<1> HIDE DEF r, ms, ch, dl
<1>5. ASSUME next <= Len(f)
      PROVE  /\ r.kind # "eof"
             /\ r.kind = "event" =>
                  r.pos = next /\ r.event = [timestamp |-> t, channel |-> c, data |-> d]
  <2>0. pos + 7 <= Len(f) /\ pos + 6 <= Len(f)
      BY <1>1, <1>5
  <2>1. ch = Len(c) /\ dl = Len(d) /\ body = pos + 7 + Len(c) /\ body + dl = next
    <3>1. ch = Len(c) /\ dl = Len(d)
        BY <1>3, <2>0
    <3> QED
        BY <1>1, <3>1
  <2>2. ~A /\ ~B
      BY SMTT(30), <1>1, <1>5, <2>1
  <2>3. q = next
    <3>1. {next, Len(f)} \in SUBSET Nat /\ {next, Len(f)} # {}
        BY <1>1
    <3>2. Min({next, Len(f)}) \in {next, Len(f)} /\ Min({next, Len(f)}) <= next
        BY <3>1, MinLeast
    <3>3. Min({next, Len(f)}) = next
        BY <1>1, <1>5, <3>2
    <3> QED
        BY <2>1, <3>3
  <2>4. Field64(f, pos + 4) = t
    <3>1. pos + 4 < Len(f) /\ pos + 5 <= Len(f) /\ pos + 4 + 1 = pos + 5
        BY SMTT(30), <1>1, <1>5
    <3>2. High(t) * Radix + Low(t) = t
        BY HighLow
    <3> QED
        BY <3>1, <3>2 DEF Field64
  <2>5. SubSeq(f, pos + 8, body) = c
    <3>1. SubSeq(f, (pos + 7) + 1, (pos + 7) + Len(c)) = c
      <4>1. pos + 7 \in Nat /\ \A k \in 1..Len(c) : f[(pos + 7) + k] = c[k]
        <5>1. \A k \in 1..Len(c) : f[pos + 7 + k] = c[k]
            BY <1>5
        <5>2. pos + 7 \in Nat
            OBVIOUS
        <5> QED
            BY <5>1, <5>2
      <4> QED
          BY <4>1, SliceIs
    <3>2. (pos + 7) + 1 = pos + 8
        OBVIOUS
    <3> QED
        BY <2>1, <3>1, <3>2
  <2>6. SubSeq(f, body + 1, body + dl) = d
    <3>1. SubSeq(f, (pos + 7 + Len(c)) + 1, (pos + 7 + Len(c)) + Len(d)) = d
        BY <1>1, <1>5, SliceIs
    <3> QED
        BY <2>1, <3>1
  <2>7. ev = [timestamp |-> t, channel |-> c, data |-> d]
      BY <2>4, <2>5, <2>6
  <2> HIDE DEF A, B, ev, q
  <2> QED
      BY <1>4, <2>2, <2>3, <2>7
<1>6. ASSUME next > Len(f), r.kind = "event"
      PROVE  r.pos = Len(f) /\ r.event.channel = <<>> /\ r.event.data = <<>>
  <2>1. ~A /\ ~B /\ r.event = ev /\ r.pos = q
      BY <1>4, <1>6
  <2>2. ch = 0 /\ dl = 0
    <3>0. ch \in Nat /\ dl \in Nat /\ body \in Nat /\ body + dl \in Nat
      <4>1. ch \in Nat /\ dl \in Nat
          BY <1>1, <1>3
      <4> QED
          BY <4>1
    <3>1. ch > 0 => body <= Len(f)
        BY <1>1, <2>1, <3>0
    <3>2. dl > 0 => body + dl <= Len(f)
        BY <1>1, <2>1, <3>0
    <3>3. CASE pos + 7 <= Len(f)
      <4>1. ch = Len(c) /\ dl = Len(d)
          BY <1>1, <1>3, <3>3
      <4>2. ~(dl > 0)
          BY <1>1, <1>6, <3>2, <4>1
      <4>3. ~(ch > 0)
          BY <1>1, <1>6, <3>1, <4>1, <4>2
      <4> QED
          BY <1>1, <4>1, <4>2, <4>3
    <3>4. CASE ~(pos + 7 <= Len(f))
      <4>1. dl = 0
          BY <1>3, <3>4
      <4>2. ch \in Nat
          BY <1>1, <1>3
      <4>3. ~(ch > 0)
          BY <1>1, <3>1, <3>4, <4>2
      <4> QED
          BY <4>1, <4>2, <4>3
    <3> QED
        BY <3>3, <3>4
  <2>3. pos + 7 >= Len(f) /\ body = pos + 7 /\ body + dl = pos + 7
    <3>1. body = pos + 7 /\ body + dl = pos + 7
        BY <2>2
    <3>2. ~(pos + 7 < Len(f))
      <4> SUFFICES ASSUME pos + 7 < Len(f) PROVE FALSE
          BY <1>1
      <4>1. Len(c) = 0 /\ Len(d) = 0
          BY <1>1, <1>3, <2>2
      <4> QED
          BY <1>1, <1>6, <4>1
    <3> QED
        BY <1>1, <3>1, <3>2
  <2>4. q = Len(f)
    <3>1. {pos + 7, Len(f)} \in SUBSET Nat /\ {pos + 7, Len(f)} # {}
        BY <1>1
    <3>2. Min({pos + 7, Len(f)}) \in {pos + 7, Len(f)} /\ Min({pos + 7, Len(f)}) <= Len(f)
        BY <3>1, MinLeast
    <3>3. Min({pos + 7, Len(f)}) = Len(f)
        BY <1>1, <2>3, <3>2
    <3> QED
        BY <2>3, <3>3
  <2>5. SubSeq(f, pos + 8, pos + 7) = <<>>
      BY SubSeqEmpty
  <2>6. ev.channel = <<>> /\ ev.data = <<>>
      BY SMTT(30), <2>3, <2>5
  <2> HIDE DEF A, B, ev, q
  <2> QED
      BY <2>1, <2>4, <2>6
<1> QED
    BY <1>5, <1>6 DEF r, Reads

\* Reading where an event lies, or the part of it that is left.
LEMMA ReadThere ==
    ASSUME NEW f \in Seq(Nat), NEW pos \in Nat, NEW n \in Nat, NEW e \in Event,
           NEW w, w = EventWords(n, e),
           \A k \in 1..Len(w) : pos + k <= Len(f) => f[pos + k] = w[k]
    PROVE  Reads(f, pos, pos + Len(w), e)
<1> DEFINE c == e.channel
           d == e.data
           t == e.timestamp
           next == pos + Len(w)
<1>1. /\ c \in Seq(Nat) /\ d \in Seq(Nat) /\ t \in Nat
      /\ e = [timestamp |-> t, channel |-> c, data |-> d]
    BY DEF Event, Channels
<1>2. /\ Len(w) = 7 + Len(c) + Len(d)
      /\ w[1] = Magic /\ w[4] = High(t) /\ w[5] = Low(t) /\ w[6] = Len(c) /\ w[7] = Len(d)
      /\ \A k \in 1..Len(c) : w[7 + k] = c[k]
      /\ \A k \in 1..Len(d) : w[7 + Len(c) + k] = d[k]
    BY EventWordsFacts
<1> HIDE DEF c, d, t
<1>3. Len(f) \in Nat /\ Len(c) \in Nat /\ Len(d) \in Nat /\ Len(w) \in Nat
    BY <1>1, <1>2
<1>4. CASE pos >= Len(f)
  <2>1. ReadNext(f, pos).kind = "eof"
      BY <1>4, ReadEnd
  <2>2. ~(next <= Len(f))
      BY <1>2, <1>3, <1>4
  <2> QED
      BY <2>1, <2>2 DEF Reads
<1>5. CASE pos < Len(f)
  <2>1. next \in Nat /\ next = pos + 7 + Len(c) + Len(d)
    <3>1. next = pos + (7 + Len(c) + Len(d))
        BY <1>2
    <3> QED
        BY <1>3, <3>1
  <2>2. \A k \in 1..7 : pos + k <= Len(f) => f[pos + k] = w[k]
    <3>1. \A k \in 1..7 : k \in 1..Len(w)
        BY <1>2, <1>3
    <3> QED
        BY <3>1
  <2>3. /\ f[pos + 1] = Magic
        /\ pos + 5 <= Len(f) => f[pos + 4] = High(t) /\ f[pos + 5] = Low(t)
        /\ pos + 6 <= Len(f) => f[pos + 6] = Len(c)
        /\ pos + 7 <= Len(f) => f[pos + 7] = Len(d)
    <3>1. pos + 1 <= Len(f) /\ (pos + 5 <= Len(f) => pos + 4 <= Len(f))
        BY <1>3, <1>5
    <3>2. /\ f[pos + 1] = w[1]
          /\ pos + 4 <= Len(f) => f[pos + 4] = w[4]
          /\ pos + 5 <= Len(f) => f[pos + 5] = w[5]
          /\ pos + 6 <= Len(f) => f[pos + 6] = w[6]
          /\ pos + 7 <= Len(f) => f[pos + 7] = w[7]
        BY <2>2, <3>1
    <3> QED
        BY <1>2, <3>1, <3>2
  <2>4. ASSUME next <= Len(f)
        PROVE  /\ \A k \in 1..Len(c) : f[pos + 7 + k] = c[k]
               /\ \A k \in 1..Len(d) : f[pos + 7 + Len(c) + k] = d[k]
    <3>1. ASSUME NEW k \in 1..Len(c) PROVE f[pos + 7 + k] = c[k]
      <4>1. 7 + k \in 1..Len(w) /\ pos + (7 + k) <= Len(f) /\ pos + (7 + k) = pos + 7 + k
          BY SMTT(30), <1>2, <1>3, <2>4
      <4> QED
          BY <1>2, <4>1
    <3>2. ASSUME NEW k \in 1..Len(d) PROVE f[pos + 7 + Len(c) + k] = d[k]
      <4>1. /\ 7 + Len(c) + k \in 1..Len(w) /\ pos + (7 + Len(c) + k) <= Len(f)
            /\ pos + (7 + Len(c) + k) = pos + 7 + Len(c) + k
          BY <1>2, <1>3, <2>4
      <4> QED
          BY <1>2, <4>1
    <3> QED
        BY <3>1, <3>2
  <2> HIDE DEF next
  <2>5. Lies(f, pos, t, c, d)
      BY <2>1, <2>3, <2>4 DEF Lies
  <2> QED
      BY <1>1, <1>5, <2>1, <2>5, ReadWords DEF next
<1> QED
    BY <1>3, <1>4, <1>5

-----------------------------------------------------------------------------
(* The player.                                                              *)

Entry == [event : Event, due : Int, at : Nat]

PlayerTypes ==
  /\ player \in {"closed", "failed", "idle", "dispatch", "crashed", "joining", "destroyed"}
  /\ player \in {"idle", "dispatch"} => speed \in Nat
  /\ filepos \in Nat /\ clock \in Nat /\ handletime \in Nat /\ notify_pipe \in Nat
  /\ next_clock_time \in Int /\ abstime \in Int /\ timer_pipe \in Seq(Int)
  /\ event \in Event \cup {None} /\ interrupted \in BOOLEAN
  /\ timer \in {"none", "read", "sleep", "exited"}
  /\ played \in Seq(Entry)

\* The announcements of the next event, wherever they are.
Tokens == notify_pipe + Len(timer_pipe) + (IF timer = "sleep" THEN 1 ELSE 0)

\* An announcement on its way carries the time the event is due, and one in
\* notify_pipe came when that time had come.
Announced ==
  /\ handletime <= clock
  /\ player \in {"closed", "failed"} =>
       /\ notify_pipe = 0 /\ timer_pipe = <<>> /\ timer = "none"
       /\ next_clock_time = Player!UnknownTime /\ ~interrupted
  /\ player \in {"idle", "dispatch"} =>
       /\ timer \in {"read", "sleep"}
       /\ \A k \in 1..Len(timer_pipe) : timer_pipe[k] = next_clock_time /\ timer_pipe[k] >= 0
       /\ timer = "sleep" => abstime = next_clock_time /\ abstime >= 0
  /\ player = "idle" =>
       /\ Tokens = 1 \/ (interrupted /\ Tokens = 0)
       /\ event # None /\ notify_pipe > 0 => clock >= next_clock_time
  /\ player = "dispatch" => Tokens = 0 /\ event # None
  /\ \A i \in 1..Len(played) : played[i].at >= played[i].due

PlayerIInv == file \in Seq(Nat) /\ PlayerTypes /\ Announced

LEMMA TailFacts ==
    ASSUME NEW S, NEW s \in Seq(S), s # <<>>
    PROVE  /\ Tail(s) \in Seq(S) /\ Head(s) \in S /\ Head(s) = s[1]
           /\ Len(s) \in Nat \ {0} /\ Len(Tail(s)) = Len(s) - 1 /\ 1 \in 1..Len(s)
           /\ \A i \in 1..Len(s) - 1 : Tail(s)[i] = s[i + 1]
OBVIOUS

\* The player reads as the log does.
LEMMA PlayerReads ==
    ASSUME NEW f, NEW pos
    PROVE  Player!ReadNext(f, pos) = ReadNext(f, pos)
BY DEF ReadNext, Magics, Field, Field64, Min,
       Player!ReadNext, Player!Magics, Player!Field, Player!Field64, Player!Min

LEMMA LoadedType ==
    ASSUME file \in Seq(Nat), NEW pos \in Nat, NEW e, Player!Loaded(e, pos)
    PROVE  e \in Event \cup {None} /\ Player!ReadNext(file, pos).pos \in Nat
<1>1. /\ ReadNext(file, pos).kind \in {"eof", "crash", "event"}
      /\ ReadNext(file, pos).kind = "event" => ReadNext(file, pos).event \in Event
      /\ ReadNext(file, pos).pos \in Nat
    BY ReadNextType
<1> QED
    BY <1>1, PlayerReads DEF Player!Loaded

LEMMA CreateInv ==
    ASSUME PlayerIInv, Player!Create
    PROVE  PlayerIInv'
<1> USE DEF PlayerIInv
<1>1. /\ player = "closed" /\ file' = file /\ event' \in Event \cup {None} /\ filepos' \in Nat
      /\ speed' \in Nat
      /\ UNCHANGED <<next_clock_time, handletime, timer_pipe, abstime, clock, interrupted, played>>
    BY LoadedType, PlayerAssumption DEF Player!Create
<1>2. CASE event' = None
  <2>1. player' = "failed" /\ UNCHANGED <<timer, notify_pipe>>
      BY <1>2 DEF Player!Create
  <2> QED
      BY <1>1, <2>1 DEF PlayerTypes, Announced
<1>3. CASE event' # None
  <2>1. player' = "idle" /\ timer' = "read" /\ notify_pipe' = 1
      BY <1>3 DEF Player!Create
  <2>2. Tokens' = 1
      BY <1>1, <2>1 DEF Announced, Tokens
  <2>3. next_clock_time = -1 /\ clock >= -1 /\ handletime = handletime
      BY <1>1 DEF Announced, PlayerTypes, Player!UnknownTime
  <2>4. PlayerTypes'
      BY <1>1, <2>1 DEF PlayerTypes
  <2>5. handletime <= clock
      BY <1>1 DEF Announced
  <2> QED
      BY <1>1, <2>1, <2>2, <2>3, <2>4, <2>5 DEF Announced, PlayerTypes
<1> QED
    BY <1>2, <1>3

LEMMA HandleInv ==
    ASSUME PlayerIInv, Player!Handle
    PROVE  PlayerIInv'
<1> USE DEF PlayerIInv
<1> DEFINE new == [event |-> event, due |-> next_clock_time', at |-> clock]
<1>1. /\ player = "idle" /\ event # None /\ notify_pipe > 0 /\ player' = "dispatch"
      /\ notify_pipe' = notify_pipe - 1 /\ handletime' = clock
      /\ next_clock_time' = IF next_clock_time < 0 THEN clock ELSE next_clock_time
      /\ played' = Append(played, new)
      /\ UNCHANGED <<file, speed, filepos, event, timer_pipe, timer, abstime, clock, interrupted>>
    BY DEF Player!Handle
<1>2. /\ next_clock_time' \in Int /\ next_clock_time' <= clock
      /\ notify_pipe' \in Nat /\ event \in Event
    BY <1>1 DEF Announced, PlayerTypes
<1>3. new \in Entry /\ new.at >= new.due
    BY <1>2 DEF Entry, PlayerTypes
<1>4. /\ played' \in Seq(Entry) /\ Len(played') = Len(played) + 1 /\ Len(played) \in Nat
      /\ \A i \in 1..Len(played) : played'[i] = played[i]
      /\ played'[Len(played) + 1] = new
    BY <1>1, <1>3, AppendFacts DEF PlayerTypes
<1> HIDE DEF new
<1>5. \A i \in 1..Len(played') : played'[i].at >= played'[i].due
    BY <1>3, <1>4 DEF Announced
<1>6. Tokens = 1 /\ Tokens' = 0 /\ timer_pipe = <<>> /\ timer # "sleep"
    BY <1>1 DEF Announced, Tokens, PlayerTypes
<1>7. PlayerTypes'
    BY <1>1, <1>2, <1>4 DEF PlayerTypes
<1> QED
    BY <1>1, <1>2, <1>5, <1>6, <1>7 DEF Announced, PlayerTypes

LEMMA LoadNextInv ==
    ASSUME PlayerIInv, Player!LoadNext
    PROVE  PlayerIInv'
<1> USE DEF PlayerIInv
<1>1. /\ player = "dispatch" /\ player' = "idle" /\ event' \in Event \cup {None}
      /\ filepos' \in Nat
      /\ UNCHANGED <<file, speed, handletime, timer, abstime, clock, interrupted, played>>
    BY LoadedType DEF Player!LoadNext, PlayerTypes
<1>2. notify_pipe = 0 /\ timer_pipe = <<>> /\ timer = "read" /\ event \in Event
    BY <1>1 DEF Announced, Tokens, PlayerTypes
<1>3. CASE event' = None
  <2>1. notify_pipe' = 1 /\ UNCHANGED <<next_clock_time, timer_pipe>>
      BY <1>2, <1>3 DEF Player!LoadNext
  <2>2. Tokens' = 1
      BY <1>1, <1>2, <2>1 DEF Tokens
  <2> QED
      BY <1>1, <1>2, <1>3, <2>1, <2>2 DEF Announced, PlayerTypes
<1>4. CASE event' # None
  <2>1. /\ next_clock_time' = Player!NextClockTime(event.timestamp, event'.timestamp)
        /\ Player!Announce(next_clock_time')
      BY <1>4 DEF Player!LoadNext
  <2>2. next_clock_time' \in Int
    <3>1. event.timestamp \in Nat /\ event'.timestamp \in Nat
        BY <1>1, <1>2, <1>4 DEF Event
    <3>2. speed \in Nat /\ next_clock_time \in Int /\ handletime \in Int
        BY <1>1 DEF PlayerTypes
    <3>3. PICK n \in Int : n = next_clock_time * speed + event'.timestamp - event.timestamp
        BY <3>1, <3>2
    <3>4. speed > 0 => Player!Truncated(n) \in Int
        BY <3>2 DEF Player!Truncated
    <3> QED
        BY <2>1, <3>2, <3>3, <3>4 DEF Player!NextClockTime
  <2>3. clock \in Nat /\ handletime \in Nat /\ handletime <= clock
      BY <1>1 DEF Announced, PlayerTypes
  <2>4. CASE next_clock_time' > handletime
    <3>1. timer_pipe' = <<next_clock_time'>> /\ notify_pipe' = 0
        BY <1>2, <2>1, <2>4 DEF Player!Announce
    <3>2. /\ timer_pipe' \in Seq(Int) /\ Len(timer_pipe') = 1
          /\ timer_pipe'[1] = next_clock_time' /\ next_clock_time' >= 0
        BY <2>2, <2>3, <2>4, <3>1
    <3>3. Tokens' = 1
        BY <1>1, <1>2, <3>1, <3>2 DEF Tokens
    <3> QED
        BY <1>1, <1>2, <2>2, <2>3, <3>1, <3>2, <3>3 DEF Announced, PlayerTypes
  <2>5. CASE ~(next_clock_time' > handletime)
    <3>1. timer_pipe' = <<>> /\ notify_pipe' = 1 /\ next_clock_time' <= clock
        BY <1>2, <2>1, <2>2, <2>3, <2>5 DEF Player!Announce
    <3>2. Tokens' = 1
        BY <1>1, <1>2, <3>1 DEF Tokens
    <3> QED
        BY <1>1, <1>2, <2>2, <2>3, <3>1, <3>2 DEF Announced, PlayerTypes
  <2> QED
      BY <2>4, <2>5
<1> QED
    BY <1>3, <1>4

\* The application gives up: nothing is promised of the announcements then.
LEMMA EndingInv ==
    ASSUME PlayerIInv, Player!LoadFaults \/ Player!Destroy \/ Player!Join
    PROVE  PlayerIInv'
<1> USE DEF PlayerIInv
<1>1. /\ UNCHANGED <<file, speed, filepos, event, next_clock_time, handletime, notify_pipe,
                     abstime, clock, interrupted, played>>
      /\ player' \in {"crashed", "joining", "destroyed"}
      /\ timer' \in {"none", timer} /\ timer_pipe' \in {timer_pipe, Append(timer_pipe, Player!Abort)}
    BY DEF Player!LoadFaults, Player!Destroy, Player!Join
<1>2. timer_pipe' \in Seq(Int)
  <2>1. timer_pipe \in Seq(Int) /\ Player!Abort \in Int
      BY DEF PlayerTypes, Player!Abort
  <2>2. Append(timer_pipe, Player!Abort) \in Seq(Int)
      BY <2>1
  <2> QED
      BY <1>1, <2>1, <2>2
<1>3. PlayerTypes'
    BY <1>1, <1>2 DEF PlayerTypes
<1> QED
    BY <1>1, <1>3 DEF Announced

\* The timer's thread moves an announcement on, or drops it when it is interrupted.
LEMMA TimerInv ==
    ASSUME PlayerIInv, Player!Timer \/ Player!TimerInterrupted
    PROVE  PlayerIInv'
<1> USE DEF PlayerIInv
<1>1. UNCHANGED <<file, player, speed, filepos, event, next_clock_time, handletime, clock, played>>
    BY DEF Player!Timer, Player!TimerRead, Player!TimerExpires, Player!TimerAborted,
           Player!TimerInterrupted
<1>2. CASE Player!TimerRead
  <2>1. /\ timer = "read" /\ timer_pipe # <<>> /\ timer_pipe' = Tail(timer_pipe)
        /\ abstime' = Head(timer_pipe) /\ UNCHANGED interrupted
        /\ \/ abstime' < 0 /\ timer' = "exited" /\ UNCHANGED notify_pipe
           \/ 0 <= abstime' /\ clock < abstime' /\ timer' = "sleep" /\ UNCHANGED notify_pipe
           \/ /\ 0 <= abstime' /\ abstime' <= clock /\ timer' = "read"
              /\ notify_pipe' = notify_pipe + 1
      BY <1>2 DEF Player!TimerRead
  <2>2. /\ timer_pipe' \in Seq(Int) /\ abstime' \in Int /\ Len(timer_pipe) \in Nat \ {0}
        /\ Len(timer_pipe') = Len(timer_pipe) - 1 /\ abstime' = timer_pipe[1]
        /\ 1 \in 1..Len(timer_pipe)
        /\ \A k \in 1..Len(timer_pipe') : timer_pipe'[k] = timer_pipe[k + 1]
      BY <2>1, TailFacts DEF PlayerTypes
  <2>3. \A k \in 1..Len(timer_pipe') : k + 1 \in 1..Len(timer_pipe)
      BY <2>2
  <2>4. PlayerTypes'
      BY <1>1, <2>1, <2>2 DEF PlayerTypes
  <2>5. CASE player \in {"idle", "dispatch"}
    <3>1. abstime' = next_clock_time /\ abstime' >= 0 /\ clock \in Nat /\ next_clock_time \in Int
        BY <2>2, <2>5 DEF Announced, PlayerTypes
    <3>2. Tokens' = Tokens
        BY <2>1, <2>2, <3>1 DEF Tokens, PlayerTypes
    <3>3. timer' = "sleep" \/ (timer' = "read" /\ clock >= next_clock_time)
        BY <2>1, <3>1
    <3>4. notify_pipe' = notify_pipe \/ clock >= next_clock_time
        BY <2>1, <3>1
    <3> QED
        BY <1>1, <2>1, <2>2, <2>3, <2>4, <2>5, <3>1, <3>2, <3>3, <3>4 DEF Announced
  <2>6. CASE player \notin {"idle", "dispatch"}
      BY <1>1, <2>1, <2>2, <2>4, <2>6 DEF Announced
  <2> QED
      BY <2>5, <2>6
<1>3. CASE Player!TimerExpires
  <2>1. /\ timer = "sleep" /\ clock >= abstime /\ notify_pipe' = notify_pipe + 1 /\ timer' = "read"
        /\ UNCHANGED <<timer_pipe, abstime, interrupted>>
      BY <1>3 DEF Player!TimerExpires
  <2>2. Tokens' = Tokens
      BY <2>1 DEF Tokens, PlayerTypes
  <2>3. PlayerTypes'
      BY <1>1, <2>1 DEF PlayerTypes
  <2> QED
      BY <1>1, <2>1, <2>2, <2>3 DEF Announced
<1>4. CASE Player!TimerAborted
  <2>1. /\ timer = "sleep" /\ timer_pipe # <<>> /\ timer' = "read"
        /\ UNCHANGED <<timer_pipe, abstime, interrupted, notify_pipe>>
      BY <1>4 DEF Player!TimerAborted
  <2>2. Tokens >= 2
    <3>1. Len(timer_pipe) \in Nat \ {0}
        BY <2>1, TailFacts DEF PlayerTypes
    <3> QED
        BY <2>1, <3>1 DEF Tokens, PlayerTypes
  <2>3. player \notin {"idle", "dispatch"}
      BY <2>2 DEF Announced
  <2> QED
      BY <1>1, <2>1, <2>3 DEF Announced, PlayerTypes
<1>5. CASE Player!TimerInterrupted
  <2>1. /\ timer = "sleep" /\ timer' = "read" /\ interrupted' = TRUE
        /\ UNCHANGED <<timer_pipe, abstime, notify_pipe>>
      BY <1>5 DEF Player!TimerInterrupted
  <2>2. Tokens' = Tokens - 1 /\ Tokens' \in Nat
      BY <2>1 DEF Tokens, PlayerTypes
  <2>3. PlayerTypes'
      BY <1>1, <2>1 DEF PlayerTypes
  <2> QED
      BY <1>1, <2>1, <2>2, <2>3 DEF Announced
<1> QED
    BY <1>2, <1>3, <1>4, <1>5 DEF Player!Timer

LEMMA TickInv ==
    ASSUME PlayerIInv, Player!Tick
    PROVE  PlayerIInv'
<1>1. /\ clock' = clock + 1
      /\ UNCHANGED <<file, player, speed, filepos, event, next_clock_time, handletime, notify_pipe,
                     timer_pipe, timer, abstime, interrupted, played>>
    BY DEF Player!Tick
<1>2. PlayerTypes'
    BY <1>1 DEF PlayerIInv, PlayerTypes
<1>3. Tokens' = Tokens
    BY <1>1 DEF Tokens
<1> QED
    BY <1>1, <1>2, <1>3 DEF PlayerIInv, PlayerTypes, Announced

LEMMA PlayerStep ==
    ASSUME PlayerIInv, Player!PlayerNext
    PROVE  PlayerIInv'
BY CreateInv, HandleInv, LoadNextInv, EndingInv, TimerInv, TickInv
DEF Player!PlayerNext, Player!Application

\* The recording adds words to the file and leaves the player alone.
LEMMA PlayerIdles ==
    ASSUME PlayerIInv, file' \in Seq(Nat), UNCHANGED playerVars
    PROVE  PlayerIInv'
<1>1. Tokens' = Tokens
    BY DEF playerVars, Tokens
<1> QED
    BY <1>1 DEF playerVars, PlayerIInv, PlayerTypes, Announced

LEMMA PlayerInitInv ==
    ASSUME Player!PlayerInit, file \in Seq(Nat)
    PROVE  PlayerIInv
<1>1. Tokens = 0 /\ Len(played) = 0
    BY DEF Player!PlayerInit, Tokens
<1>2. PlayerTypes
  <2>1. <<>> \in Seq(Int) /\ <<>> \in Seq(Entry) /\ -1 \in Int
      OBVIOUS
  <2>2. next_clock_time \in Int
      BY <2>1 DEF Player!PlayerInit, Player!UnknownTime
  <2>3. event \in Event \cup {None} /\ interrupted \in BOOLEAN
      BY DEF Player!PlayerInit
  <2>4. timer_pipe \in Seq(Int) /\ played \in Seq(Entry)
      BY <2>1 DEF Player!PlayerInit
  <2>5. /\ player = "closed" /\ timer = "none" /\ filepos = 0 /\ clock \in Nat
        /\ handletime = 0 /\ notify_pipe = 0 /\ abstime = 0
      BY PlayerAssumption DEF Player!PlayerInit
  <2> QED
      BY <2>2, <2>3, <2>4, <2>5 DEF PlayerTypes
<1>3. Announced
    BY <1>1, PlayerAssumption DEF Player!PlayerInit, Announced
<1> QED
    BY <1>2, <1>3 DEF PlayerIInv

-----------------------------------------------------------------------------
(* The write queue.                                                         *)

Weight(e) == IF e = Flag THEN 0 ELSE Size(e)

LEMMA WeightType ==
    ASSUME NEW e \in Event \cup {Flag}
    PROVE  /\ Weight(e) \in Nat
           /\ e \in Event => Weight(e) = Size(e) /\ Size(e) \in Nat
<1>1. e \in Event => e # Flag /\ Len(e.channel) \in Nat /\ Len(e.data) \in Nat
    BY LoggerAssumption DEF Event, Channels
<1>2. EventSize \in Nat
    BY LoggerAssumption
<1>3. e \in Event => Weight(e) = Size(e)
    BY <1>1 DEF Weight
<1>4. ASSUME e \in Event PROVE Size(e) \in Nat
  <2>1. PICK c \in Nat, d \in Nat : c = Len(e.channel) /\ d = Len(e.data)
      BY <1>1, <1>4
  <2>2. EventSize + c + d \in Nat
      BY <1>2
  <2> QED
      BY <2>1, <2>2 DEF Size
<1>5. e = Flag => Weight(e) = 0
    BY DEF Weight
<1> QED
    BY <1>3, <1>4, <1>5

LEMMA SizesSum ==
    ASSUME NEW s \in Seq(Event \cup {Flag})
    PROVE  LET w == [k \in 1..Len(s) |-> Weight(s[k])] IN
           /\ Sizes(s) = SumFunctionOnSet(w, 1..Len(s))
           /\ \A k \in 1..Len(s) : w[k] \in Nat /\ w[k] = Weight(s[k])
           /\ IsFiniteSet(1..Len(s)) /\ Len(s) \in Nat
<1> DEFINE w == [k \in 1..Len(s) |-> Weight(s[k])]
<1>1. DOMAIN s = 1..Len(s) /\ Len(s) \in Nat
    OBVIOUS
<1>2. \A k \in 1..Len(s) : w[k] \in Nat /\ w[k] = Weight(s[k])
    BY ElementOfSeq, WeightType
<1>3. Sizes(s) = SumFunction(w)
    BY <1>1 DEF Sizes, Weight
<1>4. IsFiniteSet(1..Len(s))
    BY <1>1, FS_Interval
<1> QED
    BY <1>1, <1>2, <1>3, <1>4 DEF SumFunction

LEMMA SizesEmpty ==
    ASSUME NEW s, s = <<>>
    PROVE  Sizes(s) = 0
<1> DEFINE w == [k \in 1..Len(s) |-> Weight(s[k])]
<1>1. s \in Seq(Event \cup {Flag}) /\ 1..Len(s) = {}
    OBVIOUS
<1>2. Sizes(s) = SumFunctionOnSet(w, 1..Len(s))
    BY <1>1, SizesSum
<1>3. IsFiniteSet({}) /\ \A x \in {} : w[x] \in Nat
    BY FS_EmptySet
<1> HIDE DEF w
<1>4. SumFunctionOnSet(w, {}) = 0
    BY <1>3, SumFacts
<1> QED
    BY <1>1, <1>2, <1>4

LEMMA SizesAppend ==
    ASSUME NEW s \in Seq(Event \cup {Flag}), NEW e \in Event \cup {Flag}
    PROVE  /\ Sizes(Append(s, e)) = Sizes(s) + Weight(e) /\ Sizes(s) \in Nat
<1> DEFINE t == Append(s, e)
           v == [k \in 1..Len(s) |-> Weight(s[k])]
           w == [k \in 1..Len(t) |-> Weight(t[k])]
           n == Len(s) + 1
<1>1. /\ t \in Seq(Event \cup {Flag}) /\ Len(t) = n /\ Len(s) \in Nat /\ t[n] = e
      /\ \A k \in 1..Len(s) : t[k] = s[k]
    BY AppendFacts
<1>2. /\ Sizes(s) = SumFunctionOnSet(v, 1..Len(s))
      /\ \A k \in 1..Len(s) : v[k] \in Nat /\ v[k] = Weight(s[k])
      /\ IsFiniteSet(1..Len(s))
    BY SizesSum
<1>3. /\ Sizes(t) = SumFunctionOnSet(w, 1..n)
      /\ \A k \in 1..n : w[k] \in Nat /\ w[k] = Weight(t[k])
      /\ IsFiniteSet(1..n)
  <2> HIDE DEF t
  <2> QED
      BY <1>1, SizesSum
<1> HIDE DEF t, v, w
<1>4. n \in 1..n /\ (1..n) \ {n} = 1..Len(s) /\ 1..Len(s) \subseteq 1..n
    BY <1>1
<1>5. SumFunctionOnSet(w, 1..n) = w[n] + SumFunctionOnSet(w, (1..n) \ {n})
  <2> HIDE DEF n
  <2> QED
      BY <1>3, <1>4, SumFacts
<1>6. SumFunctionOnSet(v, 1..Len(s)) = SumFunctionOnSet(w, 1..Len(s))
  <2>1. \A k \in 1..Len(s) : w[k] = v[k]
      BY <1>1, <1>2, <1>3, <1>4
  <2> QED
      BY <1>2, <2>1, SumFacts
<1>7. SumFunctionOnSet(v, 1..Len(s)) \in Nat /\ w[n] = Weight(e) /\ Weight(e) \in Nat
  <2>1. SumFunctionOnSet(v, 1..Len(s)) \in Nat
      BY <1>2, SumFacts
  <2> QED
      BY <1>1, <1>3, <1>4, <2>1, WeightType
<1>8. Sizes(s) \in Nat
    BY <1>2, <1>7
<1>9. Sizes(t) = w[n] + SumFunctionOnSet(w, 1..Len(s))
    BY <1>3, <1>4, <1>5
<1>10. Sizes(t) = Weight(e) + Sizes(s)
    BY <1>2, <1>6, <1>7, <1>9
<1> QED
    BY <1>7, <1>8, <1>10 DEF t

LEMMA SizesTail ==
    ASSUME NEW s \in Seq(Event \cup {Flag}), s # <<>>
    PROVE  Sizes(s) = Weight(Head(s)) + Sizes(Tail(s)) /\ Sizes(Tail(s)) \in Nat
<1> DEFINE t == Tail(s)
           w == [k \in 1..Len(s) |-> Weight(s[k])]
           v == [k \in 1..Len(t) |-> Weight(t[k])]
<1>1. /\ t \in Seq(Event \cup {Flag}) /\ Len(s) = Len(t) + 1 /\ Len(t) \in Nat
      /\ Head(s) = s[1] /\ 1 \in 1..Len(s)
      /\ \A k \in 1..Len(t) : t[k] = s[k + 1]
    BY TailFacts
<1>2. /\ Sizes(s) = SumFunctionOnSet(w, 1..Len(s))
      /\ \A k \in 1..Len(s) : w[k] \in Nat /\ w[k] = Weight(s[k])
    BY SizesSum
<1>3. /\ Sizes(t) = SumFunctionOnSet(v, 1..Len(t))
      /\ \A k \in 1..Len(t) : v[k] \in Nat /\ v[k] = Weight(t[k])
      /\ IsFiniteSet(1..Len(t))
  <2> HIDE DEF t
  <2> QED
      BY <1>1, SizesSum
<1> HIDE DEF t, v, w
<1>4. \A k \in 1..Len(t) : k + 1 \in 1..Len(s) /\ v[k] = w[k + 1]
    BY <1>1, <1>2, <1>3
<1>5. SumFunctionOnSet(w, 1..Len(t) + 1) = w[1] + SumFunctionOnSet(v, 1..Len(t))
  <2>1. \A k \in 1..Len(t) + 1 : w[k] \in Nat
      BY <1>1, <1>2
  <2> QED
      BY <1>1, <1>4, <2>1, SumOfTail
<1>6. SumFunctionOnSet(v, 1..Len(t)) \in Nat
    BY <1>3, SumFacts
<1> QED
    BY <1>1, <1>2, <1>3, <1>5, <1>6 DEF t


-----------------------------------------------------------------------------
(* The logger.                                                              *)

LoggerTypes ==
  /\ mainpc \in {"choosing", "opening", "loop", "queueing", "stopping", "waking", "joining",
                 "done", "dead"}
  /\ arrived \in Nat /\ eventcount \in Nat /\ write_queue_size \in Int
  /\ le \in Event \cup {None} /\ (le # None <=> mainpc = "queueing")
  /\ write_queue \in Seq(Event \cup {Flag}) /\ write_thread_exit_flag \in BOOLEAN
  /\ writer \in {"pop", "check", "write", "exited"}
  /\ writer = "check" => msg \in Event \cup {Flag}
  /\ writer = "write" => msg \in Event
  /\ file \in Seq(Nat)

\* Bytes on their way into the queue, and on their way out of it.
Entering == IF le # None THEN Size(le) ELSE 0
Leaving == IF writer = "check" THEN Size(msg) ELSE 0

\* The flag is set before it is pushed; until then the thread meets events only.
QueueHolds ==
  /\ mainpc \in {"choosing", "opening"} =>
       /\ write_queue = <<>> /\ write_queue_size = 0 /\ ~write_thread_exit_flag /\ writer = "pop"
  /\ Running => (write_thread_exit_flag <=> mainpc \in {"waking", "joining"})
  /\ Running /\ ~write_thread_exit_flag =>
       /\ \A k \in 1..Len(write_queue) : write_queue[k] \in Event
       /\ writer = "check" => msg \in Event
       /\ write_queue_size = Sizes(write_queue) + Entering + Leaving
       /\ write_queue_size <= MaxQueueSize

LoggerIInv == LoggerTypes /\ QueueHolds

IInv == LoggerIInv /\ PlayerIInv

LEMMA StartInv ==
    ASSUME LoggerIInv, ChooseName \/ OtherCreates \/ OpenLog
    PROVE  LoggerIInv'
<1> USE DEF LoggerIInv
<1>1. UNCHANGED <<arrived, le, queueVars, writer, msg, accepted, dropped, logVars>>
    BY DEF ChooseName, OtherCreates, OpenLog
<1>2. LoggerTypes' /\ (mainpc \in {"choosing", "opening"} /\ mainpc' \in {"opening", "loop", "done"})
    BY <1>1 DEF ChooseName, OtherCreates, OpenLog, LoggerTypes, queueVars, logVars
<1>3. Entering' = 0 /\ Leaving' = 0 /\ Sizes(write_queue') = 0
  <2>1. le' = None /\ write_queue' = <<>> /\ writer' = "pop"
      BY <1>1, <1>2 DEF queueVars, LoggerTypes, QueueHolds
  <2> QED
      BY <2>1, SizesEmpty DEF Entering, Leaving
<1>4. QueueHolds'
  <2>1. /\ write_queue' = <<>> /\ write_queue_size' = 0 /\ ~write_thread_exit_flag'
        /\ writer' = "pop" /\ MaxQueueSize \in Nat
      BY <1>1, <1>2, LoggerAssumption DEF QueueHolds, queueVars
  <2>2. \A k \in 1..Len(write_queue') : FALSE
      BY <2>1
  <2> QED
      BY <1>2, <1>3, <2>1, <2>2 DEF QueueHolds, Running
<1> QED
    BY <1>2, <1>4

LEMMA MessagesInv ==
    ASSUME LoggerIInv, Messages
    PROVE  LoggerIInv'
<1> USE DEF LoggerIInv
<1>1. PICK a \in Arrivals : Handle(a[1], a[2], a[3])
    BY DEF Messages
<1>2. PICK c \in Channels, d \in Seq(Nat), u \in Nat : c = a[1] /\ d = a[2] /\ u = a[3]
    BY LoggerAssumption
<1> DEFINE e == [timestamp |-> u, channel |-> c, data |-> d]
<1>3. /\ mainpc = "loop" /\ arrived' = arrived + 1
      /\ UNCHANGED <<startVars, write_queue, write_thread_exit_flag, writer, msg, accepted, logVars>>
    BY <1>1 DEF Handle
<1>4. e \in Event /\ Weight(e) = Size(e) /\ Size(e) \in Nat
  <2>1. e \in Event
      BY DEF Event
  <2> HIDE DEF e
  <2> QED
      BY <2>1, WeightType
<1>5. \/ UNCHANGED <<mainpc, le, write_queue_size>>
      \/ /\ Size(e) + write_queue_size <= MaxQueueSize
         /\ write_queue_size' = Size(e) + write_queue_size /\ le' = e /\ mainpc' = "queueing"
  <2>1. \/ UNCHANGED <<mainpc, le, write_queue_size>>
        \/ /\ ~(Size(e) + write_queue_size > MaxQueueSize)
           /\ write_queue_size' = Size(e) + write_queue_size /\ le' = e /\ mainpc' = "queueing"
      BY <1>1, <1>2 DEF Handle
  <2> HIDE DEF e
  <2> QED
      BY <1>4, <2>1, LoggerAssumption DEF LoggerTypes
<1> HIDE DEF e
<1>6. None \notin Event
    BY LoggerAssumption
<1>7. LoggerTypes'
    BY <1>3, <1>4, <1>5, <1>6 DEF LoggerTypes, logVars
<1>8. Sizes(write_queue) \in Nat /\ Leaving \in Int
  <2>1. Sizes(write_queue) \in Nat
      BY <1>4, SizesAppend DEF LoggerTypes
  <2>2. writer = "check" => Size(msg) \in Nat
      BY <1>3, WeightType DEF LoggerTypes, QueueHolds, Running
  <2> QED
      BY <2>1, <2>2 DEF Leaving
<1>9. Leaving' = Leaving /\ Sizes(write_queue') = Sizes(write_queue) /\ Entering = 0
    BY <1>3 DEF Leaving, Entering, LoggerTypes
<1>10. write_queue_size' = write_queue_size + Entering' /\ write_queue_size' <= MaxQueueSize
  <2>1. CASE UNCHANGED <<mainpc, le, write_queue_size>>
      BY <1>3, <1>9, <2>1 DEF Entering, LoggerTypes, QueueHolds, Running
  <2>2. CASE ~UNCHANGED <<mainpc, le, write_queue_size>>
    <3>1. Entering' = Size(e)
        BY <1>4, <1>5, <1>6, <2>2 DEF Entering
    <3> QED
        BY <1>4, <1>5, <2>2, <3>1 DEF LoggerTypes
  <2> QED
      BY <2>1, <2>2
<1>11. QueueHolds'
  <2>1. /\ ~write_thread_exit_flag /\ mainpc' \in {"loop", "queueing"}
        /\ write_queue_size = Sizes(write_queue) + Leaving
      BY <1>3, <1>5, <1>8, <1>9 DEF QueueHolds, Running
  <2>2. write_queue_size' = Sizes(write_queue') + Entering' + Leaving'
    <3>1. Entering' \in Int
        BY <1>4, <1>5, <1>9, <1>6 DEF Entering
    <3> QED
        BY <1>8, <1>9, <1>10, <2>1, <3>1
  <2> QED
      BY <1>3, <1>10, <2>1, <2>2 DEF QueueHolds, Running
<1> QED
    BY <1>7, <1>11

\* The event moves from the one hand into the queue.
LEMMA PushInv ==
    ASSUME LoggerIInv, Push
    PROVE  LoggerIInv'
<1> USE DEF LoggerIInv
<1>1. /\ mainpc = "queueing" /\ mainpc' = "loop" /\ le' = None /\ write_queue' = Append(write_queue, le)
      /\ UNCHANGED <<startVars, arrived, write_queue_size, write_thread_exit_flag, writer, msg, logVars>>
    BY DEF Push
<1>2. PICK e \in Event : e = le /\ e # None
    BY <1>1 DEF LoggerTypes
<1>3. Weight(e) = Size(e) /\ Size(e) \in Nat
    BY WeightType
<1>4. /\ Sizes(write_queue') = Sizes(write_queue) + Size(e) /\ Sizes(write_queue) \in Nat
      /\ write_queue' \in Seq(Event \cup {Flag})
      /\ Len(write_queue') = Len(write_queue) + 1 /\ Len(write_queue) \in Nat
      /\ \A k \in 1..Len(write_queue) : write_queue'[k] = write_queue[k]
      /\ write_queue'[Len(write_queue) + 1] = e
  <2>1. write_queue \in Seq(Event \cup {Flag}) /\ e \in Event \cup {Flag}
      BY DEF LoggerTypes
  <2>2. write_queue' = Append(write_queue, e)
      BY <1>1, <1>2
  <2>3. /\ Sizes(Append(write_queue, e)) = Sizes(write_queue) + Weight(e)
        /\ Sizes(write_queue) \in Nat
      BY <2>1, SizesAppend
  <2> QED
      BY <1>3, <2>1, <2>2, <2>3, AppendFacts
<1>5. LoggerTypes'
    BY <1>1, <1>2, <1>4 DEF LoggerTypes, logVars
<1>6. Entering = Size(e) /\ Entering' = 0 /\ Leaving' = Leaving
    BY <1>1, <1>2 DEF Entering, Leaving
<1>7. /\ ~write_thread_exit_flag
      /\ \A k \in 1..Len(write_queue) : write_queue[k] \in Event
      /\ writer = "check" => msg \in Event
      /\ write_queue_size = Sizes(write_queue) + Entering + Leaving
      /\ write_queue_size <= MaxQueueSize
    BY <1>1 DEF QueueHolds, Running
<1>8. Leaving \in Int
  <2>1. writer = "check" => Size(msg) \in Nat
      BY <1>7, WeightType
  <2> QED
      BY <2>1 DEF Leaving
<1>9. write_queue_size' = Sizes(write_queue') + Entering' + Leaving'
    BY <1>1, <1>3, <1>4, <1>6, <1>7, <1>8
<1>10. \A k \in 1..Len(write_queue') : write_queue'[k] \in Event
  <2> TAKE k \in 1..Len(write_queue')
  <2>1. k \in 1..Len(write_queue) \/ k = Len(write_queue) + 1
      BY <1>4
  <2> QED
      BY <1>4, <1>7, <2>1
<1>11. QueueHolds'
    BY <1>1, <1>7, <1>9, <1>10 DEF QueueHolds, Running
<1> QED
    BY <1>5, <1>11

\* main ends the loop, sets the flag and pushes it.
LEMMA StoppingInv ==
    ASSUME LoggerIInv, QuitOnSignal \/ QuitOnError \/ SetExitFlag \/ PushExitFlag
    PROVE  LoggerIInv'
<1> USE DEF LoggerIInv
<1>1. /\ UNCHANGED <<startVars, arrived, le, write_queue_size, writer, msg, accepted, dropped, logVars>>
      /\ mainpc \in {"loop", "stopping", "waking"} /\ mainpc' \in {"stopping", "waking", "joining"}
    BY DEF QuitOnSignal, QuitOnError, SetExitFlag, PushExitFlag, queueVars
<1>2. /\ write_queue' \in Seq(Event \cup {Flag}) /\ write_thread_exit_flag' \in BOOLEAN
      /\ write_thread_exit_flag' <=> mainpc' \in {"waking", "joining"}
      /\ ~write_thread_exit_flag' => write_queue' = write_queue /\ ~write_thread_exit_flag
  <2>1. Append(write_queue, Flag) \in Seq(Event \cup {Flag})
      BY AppendFacts DEF LoggerTypes
  <2>2. write_thread_exit_flag <=> mainpc = "waking"
      BY <1>1 DEF QueueHolds, Running
  <2>3. CASE QuitOnSignal \/ QuitOnError
      BY <1>1, <2>2, <2>3 DEF QuitOnSignal, QuitOnError, queueVars, LoggerTypes
  <2>4. CASE SetExitFlag
      BY <2>4 DEF SetExitFlag, LoggerTypes
  <2>5. CASE PushExitFlag
      BY <1>1, <2>1, <2>2, <2>5 DEF PushExitFlag
  <2> QED
      BY <2>3, <2>4, <2>5
<1>3. LoggerTypes'
    BY <1>1, <1>2 DEF LoggerTypes, logVars
<1>4. Entering' = Entering /\ Leaving' = Leaving
    BY <1>1 DEF Entering, Leaving
<1>5. QueueHolds'
    BY <1>1, <1>2, <1>4 DEF QueueHolds, Running
<1> QED
    BY <1>3, <1>5

LEMMA PopInv ==
    ASSUME LoggerIInv, Pop
    PROVE  LoggerIInv'
<1> USE DEF LoggerIInv
<1>1. /\ Running /\ writer = "pop" /\ writer' = "check" /\ write_queue # <<>>
      /\ msg' = Head(write_queue) /\ write_queue' = Tail(write_queue)
      /\ UNCHANGED <<mainpc, startVars, arrived, le, write_queue_size, write_thread_exit_flag, logVars>>
    BY DEF Pop, mainVars
<1>2. /\ write_queue' \in Seq(Event \cup {Flag}) /\ msg' \in Event \cup {Flag}
      /\ msg' = write_queue[1] /\ 1 \in 1..Len(write_queue) /\ Len(write_queue) \in Nat
      /\ Len(write_queue') = Len(write_queue) - 1
      /\ \A i \in 1..Len(write_queue) - 1 : write_queue'[i] = write_queue[i + 1]
    BY <1>1, TailFacts DEF LoggerTypes
<1>3. LoggerTypes'
    BY <1>1, <1>2 DEF LoggerTypes, logVars
<1>4. write_thread_exit_flag => QueueHolds'
    BY <1>1 DEF QueueHolds, Running
<1>5. ASSUME ~write_thread_exit_flag PROVE QueueHolds'
  <2>1. /\ \A k \in 1..Len(write_queue) : write_queue[k] \in Event
        /\ write_queue_size = Sizes(write_queue) + Entering + Leaving
        /\ write_queue_size <= MaxQueueSize
      BY <1>1, <1>5 DEF QueueHolds
  <2>2. msg' \in Event /\ \A k \in 1..Len(write_queue') : write_queue'[k] \in Event
      BY <1>2, <2>1
  <2>3. /\ Sizes(write_queue) = Weight(msg') + Sizes(write_queue') /\ Sizes(write_queue') \in Nat
        /\ Weight(msg') = Size(msg') /\ Size(msg') \in Nat
    <3>1. PICK m \in Event : m = msg'
        BY <2>2
    <3>2. Weight(m) = Size(m) /\ Size(m) \in Nat
        BY WeightType
    <3>3. /\ Sizes(write_queue) = Weight(Head(write_queue)) + Sizes(Tail(write_queue))
          /\ Sizes(Tail(write_queue)) \in Nat
        BY <1>1, SizesTail DEF LoggerTypes
    <3> QED
        BY <1>1, <3>1, <3>2, <3>3
  <2>4. Entering' = Entering /\ Leaving = 0 /\ Leaving' = Size(msg')
      BY <1>1 DEF Entering, Leaving
  <2>5. Entering \in Int
    <3>1. le # None => Size(le) \in Nat
        BY WeightType DEF LoggerTypes
    <3> QED
        BY <3>1 DEF Entering
  <2>6. write_queue_size' = Sizes(write_queue') + Entering' + Leaving'
      BY <1>1, <2>1, <2>3, <2>4, <2>5
  <2> QED
      BY <1>1, <1>5, <2>1, <2>2, <2>6 DEF QueueHolds, Running
<1> QED
    BY <1>3, <1>4, <1>5

LEMMA CheckInv ==
    ASSUME LoggerIInv, Check
    PROVE  LoggerIInv'
<1> USE DEF LoggerIInv
<1>1. /\ Running /\ writer = "check"
      /\ UNCHANGED <<mainpc, startVars, arrived, le, write_queue, write_thread_exit_flag, msg, logVars>>
    BY DEF Check, mainVars
<1>2. CASE write_thread_exit_flag
  <2>1. writer' = "exited" /\ UNCHANGED write_queue_size
      BY <1>2 DEF Check
  <2> QED
      BY <1>1, <1>2, <2>1 DEF LoggerTypes, QueueHolds, Running, logVars
<1>3. CASE ~write_thread_exit_flag
  <2>1. writer' = "write" /\ write_queue_size' = write_queue_size - Size(msg)
      BY <1>3 DEF Check
  <2>2. /\ \A k \in 1..Len(write_queue) : write_queue[k] \in Event
        /\ msg \in Event /\ write_queue_size = Sizes(write_queue) + Entering + Leaving
        /\ write_queue_size <= MaxQueueSize /\ write_queue_size \in Int
      BY <1>1, <1>3 DEF QueueHolds, LoggerTypes
  <2>3. Size(msg) \in Nat
      BY <2>2, WeightType
  <2>4. Entering \in Int /\ Sizes(write_queue) \in Nat
    <3>1. le # None => Size(le) \in Nat
        BY WeightType DEF LoggerTypes
    <3>2. Sizes(write_queue) \in Nat
        BY <2>2, SizesAppend DEF LoggerTypes
    <3> QED
        BY <3>1, <3>2 DEF Entering
  <2>5. Entering' = Entering /\ Leaving = Size(msg) /\ Leaving' = 0
      BY <1>1, <2>1 DEF Entering, Leaving
  <2>6. /\ write_queue_size' = Sizes(write_queue) + Entering' + Leaving'
        /\ write_queue_size' \in Int /\ write_queue_size' <= MaxQueueSize
      BY <2>1, <2>2, <2>3, <2>4, <2>5, LoggerAssumption
  <2>7. LoggerTypes'
      BY <1>1, <2>1, <2>2, <2>6 DEF LoggerTypes, logVars
  <2>8. QueueHolds'
      BY <1>1, <1>3, <2>1, <2>2, <2>6 DEF QueueHolds, Running
  <2> QED
      BY <2>7, <2>8
<1> QED
    BY <1>2, <1>3

\* The process ends, from wherever it is.
LEMMA EndInv ==
    ASSUME LoggerIInv, NEW how \in {"done", "dead"}, ProcessEnds(how),
           file' \in Seq(Nat), eventcount' = eventcount
    PROVE  LoggerIInv'
<1>1. /\ mainpc' = how /\ writer' = "exited" /\ le' = None /\ arrived' = 0
      /\ write_queue' = <<>> /\ write_queue_size' = 0 /\ write_thread_exit_flag' = FALSE
    BY DEF ProcessEnds
<1>2. write_queue' \in Seq(Event \cup {Flag}) /\ eventcount' \in Nat
    BY <1>1 DEF LoggerIInv, LoggerTypes
<1>3. LoggerTypes'
  <2>1. write_thread_exit_flag' \in BOOLEAN
      BY <1>1
  <2>2. mainpc' \in {"done", "dead"} /\ writer' = "exited" /\ le' = None /\ arrived' = 0
        /\ write_queue_size' = 0
      BY <1>1
  <2> QED
      BY <1>2, <2>1, <2>2 DEF LoggerTypes
<1>4. QueueHolds'
    BY <1>1 DEF QueueHolds, Running
<1> QED
    BY <1>3, <1>4 DEF LoggerIInv

\* The thread is back at the queue, with more words in the file or not.
LEMMA WrittenInv ==
    ASSUME LoggerIInv, Running, writer = "write", writer' = "pop",
           file' \in Seq(Nat), eventcount' \in Nat,
           UNCHANGED <<mainVars, arrived, le, queueVars>>
    PROVE  LoggerIInv'
<1>1. Entering' = Entering /\ Leaving' = Leaving
    BY DEF Entering, Leaving
<1>2. UNCHANGED <<mainpc, write_queue, write_queue_size, write_thread_exit_flag>>
    BY DEF mainVars, queueVars
<1>3. LoggerTypes'
    BY <1>2 DEF LoggerIInv, LoggerTypes
<1>4. QueueHolds'
    BY <1>1, <1>2 DEF LoggerIInv, QueueHolds, Running
<1> QED
    BY <1>3, <1>4 DEF LoggerIInv

LEMMA PrefixType ==
    ASSUME NEW f \in Seq(Nat), NEW n \in 0..Len(f)
    PROVE  SubSeq(f, 1, n) \in Seq(Nat)
<1>1. \A i \in 1..n : f[i] \in Nat
    BY ElementOfSeq
<1> QED
    BY <1>1, SubSeqProperties

LEMMA Longer ==
    ASSUME NEW f \in Seq(Nat), NEW x \in Seq(Nat), NEW g, g = f \o x
    PROVE  Len(f) <= Len(g) /\ \A k \in 1..Len(f) : g[k] = f[k]
<1>1. Len(f \o x) = Len(f) + Len(x) /\ \A k \in 1..Len(f) : (f \o x)[k] = f[k]
    BY ConcatFacts
<1>2. Len(f) \in Nat /\ Len(x) \in Nat
    OBVIOUS
<1>3. Len(f) <= Len(f) + Len(x)
    BY <1>2
<1> QED
    BY <1>1, <1>3

LEMMA WordsInv ==
    ASSUME LoggerIInv, Join \/ Write \/ WriteFails \/ Killed
    PROVE  LoggerIInv' /\ file' \in Seq(Nat)
<1>1. file \in Seq(Nat) /\ eventcount \in Nat
    BY DEF LoggerIInv, LoggerTypes
<1>2. CASE Join
  <2>1. ProcessEnds("done") /\ file' = file /\ eventcount' = eventcount
      BY <1>2 DEF Join, logVars
  <2> QED
      BY <1>1, <2>1, EndInv
<1>3. CASE Killed
  <2>1. PICK n \in 0..Len(file) : file' = SubSeq(file, 1, n)
      BY <1>3 DEF Killed
  <2>2. file' \in Seq(Nat)
      BY <1>1, <2>1, PrefixType
  <2>3. ProcessEnds("dead") /\ eventcount' = eventcount
      BY <1>3 DEF Killed
  <2> QED
      BY <2>2, <2>3, EndInv
<1>4. writer = "write" => msg \in Event
    BY DEF LoggerIInv, LoggerTypes
<1>5. CASE Write
  <2>1. /\ Running /\ writer = "write" /\ writer' = "pop" /\ eventcount' = eventcount + 1
        /\ file' = file \o EventWords(eventcount, msg)
        /\ UNCHANGED <<mainVars, arrived, le, queueVars>>
      BY <1>5 DEF Write
  <2>2. EventWords(eventcount, msg) \in Seq(Nat)
      BY <1>1, <1>4, <2>1, EventWordsFacts
  <2>3. file' \in Seq(Nat) /\ eventcount' \in Nat
      BY <1>1, <2>1, <2>2, ConcatProperties
  <2> QED
      BY <2>1, <2>3, WrittenInv
<1>6. CASE WriteFails
  <2>1. Running /\ writer = "write"
      BY <1>6 DEF WriteFails
  <2>2. EventWords(eventcount, msg) \in Seq(Nat)
      BY <1>1, <1>4, <2>1, EventWordsFacts
  <2>3. PICK n \in 0..Len(EventWords(eventcount, msg)) - 1 :
          file' = file \o SubSeq(EventWords(eventcount, msg), 1, n)
      BY <1>6 DEF WriteFails
  <2>4. file' \in Seq(Nat)
    <3>1. n \in 0..Len(EventWords(eventcount, msg))
        BY <2>2
    <3>2. SubSeq(EventWords(eventcount, msg), 1, n) \in Seq(Nat)
        BY <2>2, <3>1, PrefixType
    <3> QED
        BY <1>1, <2>3, <3>2, ConcatProperties
  <2>5. \/ ProcessEnds("dead") /\ eventcount' = eventcount
        \/ writer' = "pop" /\ UNCHANGED <<mainVars, arrived, le, queueVars, eventcount>>
      BY <1>6 DEF WriteFails
  <2>6. CASE ProcessEnds("dead") /\ eventcount' = eventcount
      BY <2>4, <2>6, EndInv
  <2>7. CASE writer' = "pop" /\ UNCHANGED <<mainVars, arrived, le, queueVars, eventcount>>
      BY <1>1, <2>1, <2>4, <2>7, WrittenInv
  <2> QED
      BY <2>5, <2>6, <2>7
<1> QED
    BY <1>2, <1>3, <1>5, <1>6

-----------------------------------------------------------------------------
(* The log's way.                                                           *)

LEMMA InitInv == Init => IInv
<1> SUFFICES ASSUME Init PROVE IInv
    OBVIOUS
<1> USE DEF Init, LoggerInit
<1>1. write_queue \in Seq(Event \cup {Flag}) /\ file \in Seq(Nat)
    OBVIOUS
<1>2. LoggerTypes
  <2>1. write_thread_exit_flag \in BOOLEAN
      OBVIOUS
  <2>2. /\ mainpc = "choosing" /\ le = None /\ writer = "pop"
        /\ arrived = 0 /\ eventcount = 0 /\ write_queue_size = 0
      OBVIOUS
  <2> HIDE DEF Init, LoggerInit
  <2> QED
      BY <1>1, <2>1, <2>2 DEF LoggerTypes
<1>3. QueueHolds
    BY DEF QueueHolds, Running
<1>4. PlayerIInv
    BY <1>1, PlayerInitInv
<1> QED
    BY <1>2, <1>3, <1>4 DEF IInv, LoggerIInv

LEMMA StepInv == IInv /\ [Next]_vars => IInv'
<1> SUFFICES ASSUME IInv, [Next]_vars PROVE IInv'
    OBVIOUS
<1>1. LoggerIInv /\ PlayerIInv /\ file \in Seq(Nat)
    BY DEF IInv, LoggerIInv, LoggerTypes
<1>2. ASSUME UNCHANGED <<mainVars, arrived, le, queueVars, writer, msg, accepted, dropped,
                         eventcount, torn>>, UNCHANGED file
      PROVE  LoggerIInv'
  <2>1. UNCHANGED <<mainpc, arrived, le, write_queue, write_queue_size,
                    write_thread_exit_flag, writer, msg, eventcount, file>>
      BY <1>2 DEF mainVars, queueVars
  <2>2. Entering' = Entering /\ Leaving' = Leaving
      BY <2>1 DEF Entering, Leaving
  <2>3. LoggerTypes'
      BY <1>1, <2>1 DEF LoggerIInv, LoggerTypes
  <2>4. QueueHolds'
      BY <1>1, <2>1, <2>2 DEF LoggerIInv, QueueHolds, Running
  <2> QED
      BY <2>3, <2>4 DEF LoggerIInv
<1>3. CASE Record
  <2>1. LoggerNext /\ UNCHANGED playerVars
      BY <1>3 DEF Record
  <2>2. CASE Join \/ Write \/ WriteFails \/ Killed
      BY <1>1, <2>1, <2>2, WordsInv, PlayerIdles DEF IInv
  <2>3. ASSUME \/ ChooseName \/ OtherCreates \/ OpenLog \/ Messages \/ Push \/ QuitOnSignal
               \/ QuitOnError \/ SetExitFlag \/ PushExitFlag \/ Pop \/ Check
        PROVE  IInv'
    <3>1. LoggerIInv'
        BY <1>1, <2>3, StartInv, MessagesInv, PushInv, StoppingInv, PopInv, CheckInv
    <3>2. file' \in Seq(Nat)
        BY <3>1 DEF LoggerIInv, LoggerTypes
    <3> QED
        BY <1>1, <2>1, <3>1, <3>2, PlayerIdles DEF IInv
  <2> QED
      BY <2>1, <2>2, <2>3 DEF LoggerNext, Main, Writer
<1>4. CASE PlayOn(Player!PlayerNext)
  <2>1. Player!PlayerNext
      BY <1>4 DEF PlayOn
  <2>2. UNCHANGED file
      BY <2>1 DEF Player!PlayerNext, Player!Application, Player!Create, Player!Handle,
         Player!LoadNext, Player!LoadFaults, Player!Destroy, Player!Join, Player!Timer,
         Player!TimerRead, Player!TimerExpires, Player!TimerAborted, Player!TimerInterrupted,
         Player!Tick
  <2>3. LoggerIInv'
      BY <1>2, <1>4, <2>2 DEF PlayOn
  <2> QED
      BY <1>1, <2>1, <2>3, PlayerStep DEF IInv
<1>5. CASE UNCHANGED vars
  <2>1. UNCHANGED <<mainVars, arrived, le, queueVars, writer, msg, accepted, dropped, eventcount,
                    torn, file, playerVars>>
      BY <1>5 DEF vars, loggerVars, logVars
  <2> QED
      BY <1>1, <1>2, <2>1, PlayerIdles DEF IInv
<1> QED
    BY <1>3, <1>4, <1>5 DEF Next

LEMMA SpecInv == Spec => []IInv
    BY InitInv, StepInv, PTL DEF Spec

\* write_queue_size is always the size of what is queued and on its way in or
\* out, and within the limit, for any messages and any limit
\* (lcm_logger.c:99, 169, 188).
THEOREM QueueAccounted == Spec => []Accounted
<1>1. IInv => Accounted
    BY DEF IInv, LoggerIInv, QueueHolds, Accounted, Entering, Leaving
<1> QED
    BY <1>1, SpecInv, PTL

\* Between two calls of lcm_handle there is exactly one announcement, and in
\* the callbacks none, for any log, however damaged, any speeds and any clock
\* (lcm_file.c:211, 247, 264).
THEOREM OneAnnouncement == Spec => []OneToken
<1>1. IInv => OneToken
    BY DEF IInv, PlayerIInv, Announced, Tokens, OneToken
<1> QED
    BY <1>1, SpecInv, PTL

\* No event is dispatched, or announced, before it is due.
THEOREM PlayedWhenDue == Spec => []NeverEarly
<1>1. IInv => NeverEarly
  <2> SUFFICES ASSUME IInv PROVE NeverEarly
      OBVIOUS
  <2>1. DOMAIN played = 1..Len(played)
      BY DEF IInv, PlayerIInv, PlayerTypes
  <2> QED
      BY <2>1 DEF IInv, PlayerIInv, Announced, NeverEarly
<1> QED
    BY <1>1, SpecInv, PTL

-----------------------------------------------------------------------------
(* What is in the file, and what is read of it.                             *)

\* The events that lie whole, one after the other, from the start of the file.
Written == IF torn = None THEN eventcount ELSE torn
Words(i) == EventWords(i - 1, accepted[i])

RecordTypes ==
  /\ accepted \in Seq(Event) /\ torn \in Nat \cup {None}
  /\ Written \in Nat /\ Written <= Len(accepted)

\* Up to the first failed write, and until the flag is set, what was pushed is
\* written, in the thread's hands, or in the queue, in this order.
Held == IF writer = "pop" THEN 0 ELSE 1
Queued ==
  /\ mainpc \in {"choosing", "opening"} => accepted = <<>> /\ eventcount = 0 /\ torn = None
  /\ Running /\ torn = None =>
       /\ writer = "write" => eventcount < Len(accepted) /\ msg = accepted[eventcount + 1]
       /\ ~write_thread_exit_flag =>
            /\ writer # "exited" /\ Len(accepted) = eventcount + Held + Len(write_queue)
            /\ writer = "check" => msg = accepted[eventcount + 1]
            /\ \A k \in 1..Len(write_queue) : write_queue[k] = accepted[eventcount + Held + k]

\* Event i starts behind st[i] words, as far as the file reaches: only a process
\* that died leaves it short.
Laid(st) ==
  /\ st \in [1..Written + 1 -> Nat] /\ st[1] = 0
  /\ \A i \in 1..Written :
       /\ st[i + 1] = st[i] + Len(Words(i)) /\ st[i + 1] <= st[Written + 1]
       /\ \A k \in 1..Len(Words(i)) : st[i] + k <= Len(file) => file[st[i] + k] = Words(i)[k]
  /\ mainpc # "dead" => st[Written + 1] <= Len(file)
  /\ torn = None => Len(file) <= st[Written + 1]

Unread == player = "closed" /\ played = <<>> /\ filepos = 0 /\ event = None

\* The player has loaded event j: a whole one, one cut short, behind which
\* nothing is left, or one that lies behind a failed write.
CutEvent(e) == mainpc = "dead" /\ e.channel = <<>> /\ e.data = <<>>
Got(st, j, e, pos) ==
  \/ j \in 0..Written /\ pos = st[j + 1] /\ (j > 0 => e = accepted[j])
  \/ j \in 1..Written /\ pos = Len(file) /\ CutEvent(e)
  \/ torn # None /\ j > Written

Reading(st) ==
  /\ player # "closed"
  /\ torn = None => Len(played) <= Written
  /\ \A i \in 1..Len(played) : i <= Written =>
       \/ played[i].event = accepted[i]
       \/ i = Len(played) /\ CutEvent(played[i].event) /\ ~(player = "idle" /\ event # None)
  /\ player = "idle" /\ event # None => Got(st, Len(played) + 1, event, filepos)
  /\ player = "dispatch" =>
       /\ Len(played) >= 1 /\ played[Len(played)].event = event
       /\ Got(st, Len(played), event, filepos)
  /\ player = "idle" /\ event = None /\ mainpc = "done" /\ torn = None => Len(played) = Written

RecordInv == RecordTypes /\ Queued
ReplayInv == \E st : Laid(st) /\ (Unread \/ (Recorded /\ Reading(st)))

LEMMA WrittenKept ==
    ASSUME eventcount' = eventcount, torn' = torn
    PROVE  Written' = Written
BY DEF Written

\* The logger starts, or handles a message without pushing it, or quits.
LEMMA RecordKept ==
    ASSUME RecordInv, UNCHANGED <<accepted, torn, eventcount, write_queue, writer, msg>>,
           write_thread_exit_flag => write_thread_exit_flag',
           Running' => Running, mainpc' \in {"choosing", "opening"} => mainpc \in {"choosing", "opening"}
    PROVE  RecordInv'
<1>1. Written' = Written /\ Held' = Held
    BY DEF Written, Held
<1>2. RecordTypes'
    BY <1>1 DEF RecordInv, RecordTypes
<1>3. Queued'
    BY <1>1 DEF RecordInv, Queued
<1> QED
    BY <1>2, <1>3 DEF RecordInv

LEMMA RecordQuiet ==
    ASSUME LoggerIInv, RecordInv,
           ChooseName \/ OtherCreates \/ OpenLog \/ Messages \/ QuitOnSignal \/ QuitOnError \/ SetExitFlag
    PROVE  RecordInv'
<1>1. CASE ChooseName \/ OtherCreates
    BY <1>1, RecordKept DEF ChooseName, OtherCreates, Running, queueVars, logVars
<1>2. CASE OpenLog
  <2>1. /\ accepted = <<>> /\ eventcount = 0 /\ torn = None /\ write_queue = <<>> /\ writer = "pop"
        /\ UNCHANGED <<accepted, torn, eventcount, write_queue, writer, msg>> /\ mainpc' = "loop"
      BY <1>2 DEF OpenLog, RecordInv, Queued, LoggerIInv, QueueHolds, queueVars, logVars
  <2>2. Held' = 0 /\ Len(write_queue') = 0 /\ Len(accepted') = 0
      BY <2>1 DEF Held
  <2>3. Written' = Written
      BY <2>1, WrittenKept
  <2>4. RecordTypes'
      BY <2>1, <2>3 DEF RecordInv, RecordTypes
  <2>5. Queued'
      BY <2>1, <2>2 DEF Queued
  <2> QED
      BY <2>4, <2>5 DEF RecordInv
<1>3. CASE Messages
  <2>1. PICK a \in Arrivals : Handle(a[1], a[2], a[3])
      BY <1>3 DEF Messages
  <2>2. /\ mainpc = "loop" /\ mainpc' \in {"loop", "queueing"}
        /\ UNCHANGED <<accepted, torn, eventcount, write_queue, writer, msg, write_thread_exit_flag>>
      BY <2>1 DEF Handle, logVars
  <2> QED
      BY <2>2, RecordKept DEF Running
<1>4. CASE QuitOnSignal \/ QuitOnError
    BY <1>4, RecordKept DEF QuitOnSignal, QuitOnError, Running, queueVars, logVars
<1>5. CASE SetExitFlag
    BY <1>5, RecordKept DEF SetExitFlag, Running, logVars
<1> QED
    BY <1>1, <1>2, <1>3, <1>4, <1>5

LEMMA RecordPush ==
    ASSUME LoggerIInv, RecordInv, Push
    PROVE  /\ RecordInv' /\ \A i \in 1..Written : accepted'[i] = accepted[i]
<1>1. /\ mainpc = "queueing" /\ mainpc' = "loop" /\ write_queue' = Append(write_queue, le)
      /\ accepted' = Append(accepted, le)
      /\ UNCHANGED <<torn, eventcount, writer, msg, write_thread_exit_flag>>
    BY DEF Push, logVars
<1>2. PICK e \in Event : e = le
    BY <1>1 DEF LoggerIInv, LoggerTypes
<1>3. /\ accepted \in Seq(Event) /\ accepted' \in Seq(Event)
      /\ Len(accepted') = Len(accepted) + 1 /\ Len(accepted) \in Nat
      /\ \A i \in 1..Len(accepted) : accepted'[i] = accepted[i]
      /\ accepted'[Len(accepted) + 1] = e
    BY <1>1, <1>2, AppendFacts DEF RecordInv, RecordTypes
<1>4. /\ Len(write_queue') = Len(write_queue) + 1 /\ Len(write_queue) \in Nat
      /\ \A i \in 1..Len(write_queue) : write_queue'[i] = write_queue[i]
      /\ write_queue'[Len(write_queue) + 1] = e
    BY <1>1, <1>2, AppendFacts DEF LoggerIInv, LoggerTypes
<1>5. Written' = Written /\ Held' = Held /\ Held \in {0, 1} /\ Written \in Nat
    BY <1>1 DEF Written, Held, RecordInv, RecordTypes
<1>6. RecordTypes'
    BY <1>1, <1>3, <1>5 DEF RecordInv, RecordTypes
<1>7. \A i \in 1..Written : accepted'[i] = accepted[i]
    BY <1>3, <1>5 DEF RecordInv, RecordTypes
<1>8. Queued'
  <2> SUFFICES ASSUME torn = None
               PROVE  /\ writer = "write" => eventcount < Len(accepted') /\ msg = accepted'[eventcount + 1]
                      /\ ~write_thread_exit_flag =>
                           /\ writer # "exited"
                           /\ Len(accepted') = eventcount + Held + Len(write_queue')
                           /\ writer = "check" => msg = accepted'[eventcount + 1]
                           /\ \A k \in 1..Len(write_queue') :
                                write_queue'[k] = accepted'[eventcount + Held + k]
      BY <1>1, <1>5 DEF Queued
  <2>1. eventcount \in Nat
      BY DEF LoggerIInv, LoggerTypes
  <2>2. /\ writer = "write" => eventcount < Len(accepted) /\ msg = accepted[eventcount + 1]
        /\ ~write_thread_exit_flag =>
             /\ writer # "exited" /\ Len(accepted) = eventcount + Held + Len(write_queue)
             /\ writer = "check" => msg = accepted[eventcount + 1]
             /\ \A k \in 1..Len(write_queue) : write_queue[k] = accepted[eventcount + Held + k]
      BY <1>1 DEF RecordInv, Queued, Running
  <2>3. ASSUME writer = "write"
        PROVE  eventcount < Len(accepted') /\ msg = accepted'[eventcount + 1]
    <3>1. eventcount + 1 \in 1..Len(accepted)
        BY <1>3, <2>1, <2>2, <2>3
    <3> QED
        BY <1>3, <2>1, <2>2, <2>3, <3>1
  <2>4. ASSUME ~write_thread_exit_flag
        PROVE  /\ Len(accepted') = eventcount + Held + Len(write_queue')
               /\ writer = "check" => msg = accepted'[eventcount + 1]
               /\ \A k \in 1..Len(write_queue') : write_queue'[k] = accepted'[eventcount + Held + k]
    <3>1. Len(accepted) = eventcount + Held + Len(write_queue)
        BY <2>2, <2>4
    <3>2. Len(accepted') = eventcount + Held + Len(write_queue')
        BY <1>3, <1>4, <1>5, <2>1, <3>1
    <3>3. ASSUME writer = "check" PROVE msg = accepted'[eventcount + 1]
      <4>1. Held = 1
          BY <3>3 DEF Held
      <4>2. eventcount + 1 \in 1..Len(accepted)
          BY <1>4, <2>1, <3>1, <4>1
      <4> QED
          BY <1>3, <2>2, <2>4, <3>3, <4>2
    <3>4. ASSUME NEW k \in 1..Len(write_queue') PROVE write_queue'[k] = accepted'[eventcount + Held + k]
      <4>1. CASE k \in 1..Len(write_queue)
        <5>1. eventcount + Held + k \in 1..Len(accepted)
            BY <1>4, <1>5, <2>1, <3>1, <4>1
        <5> QED
            BY <1>3, <1>4, <2>2, <2>4, <4>1, <5>1
      <4>2. CASE k = Len(write_queue) + 1
        <5>1. eventcount + Held + k = Len(accepted) + 1
            BY <1>4, <1>5, <2>1, <3>1, <4>2
        <5> QED
            BY <1>3, <1>4, <4>2, <5>1
      <4> QED
          BY <1>4, <4>1, <4>2
    <3> QED
        BY <3>2, <3>3, <3>4
  <2> QED
      BY <2>2, <2>3, <2>4
<1> QED
    BY <1>6, <1>7, <1>8 DEF RecordInv

LEMMA RecordPushFlag ==
    ASSUME LoggerIInv, RecordInv, PushExitFlag
    PROVE  RecordInv'
<1>1. /\ mainpc = "waking" /\ mainpc' = "joining" /\ write_thread_exit_flag /\ write_thread_exit_flag'
      /\ UNCHANGED <<accepted, torn, eventcount, writer, msg>>
    BY DEF PushExitFlag, LoggerIInv, QueueHolds, Running, logVars
<1>2. RecordTypes'
    BY <1>1, WrittenKept DEF RecordInv, RecordTypes
<1> QED
    BY <1>1, <1>2 DEF RecordInv, Queued, Running

LEMMA RecordPop ==
    ASSUME LoggerIInv, RecordInv, Pop
    PROVE  RecordInv'
<1>1. /\ Running /\ writer = "pop" /\ writer' = "check" /\ write_queue # <<>>
      /\ msg' = Head(write_queue) /\ write_queue' = Tail(write_queue)
      /\ UNCHANGED <<mainpc, accepted, torn, eventcount, write_thread_exit_flag>>
    BY DEF Pop, mainVars, logVars
<1>2. RecordTypes'
    BY <1>1, WrittenKept DEF RecordInv, RecordTypes
<1>3. Held = 0 /\ Held' = 1
    BY <1>1 DEF Held
<1>4. /\ msg' = write_queue[1] /\ 1 \in 1..Len(write_queue) /\ Len(write_queue) \in Nat
      /\ Len(write_queue') = Len(write_queue) - 1
      /\ \A i \in 1..Len(write_queue) - 1 : write_queue'[i] = write_queue[i + 1]
    BY <1>1, TailFacts DEF LoggerIInv, LoggerTypes
<1>5. Queued'
  <2> SUFFICES ASSUME torn = None, ~write_thread_exit_flag
               PROVE  /\ Len(accepted) = eventcount + 1 + Len(write_queue')
                      /\ msg' = accepted[eventcount + 1]
                      /\ \A k \in 1..Len(write_queue') : write_queue'[k] = accepted[eventcount + 1 + k]
      BY <1>1, <1>3 DEF Queued, Running
  <2>1. eventcount \in Nat
      BY DEF LoggerIInv, LoggerTypes
  <2>2. /\ Len(accepted) = eventcount + 0 + Len(write_queue)
        /\ \A k \in 1..Len(write_queue) : write_queue[k] = accepted[eventcount + 0 + k]
      BY <1>1, <1>3 DEF RecordInv, Queued
  <2>3. Len(accepted) = eventcount + 1 + Len(write_queue')
      BY <1>4, <2>1, <2>2
  <2>4. msg' = accepted[eventcount + 1]
      BY <1>4, <2>1, <2>2
  <2>5. ASSUME NEW k \in 1..Len(write_queue') PROVE write_queue'[k] = accepted[eventcount + 1 + k]
    <3>1. k + 1 \in 1..Len(write_queue) /\ eventcount + 0 + (k + 1) = eventcount + 1 + k
        BY <1>4, <2>1
    <3>2. write_queue'[k] = write_queue[k + 1]
        BY <1>4
    <3> QED
        BY <2>2, <3>1, <3>2
  <2> QED
      BY <2>3, <2>4, <2>5
<1> QED
    BY <1>2, <1>5 DEF RecordInv

LEMMA RecordCheck ==
    ASSUME LoggerIInv, RecordInv, Check
    PROVE  RecordInv'
<1>1. /\ Running /\ writer = "check" /\ Running'
      /\ mainpc' = mainpc
      /\ UNCHANGED <<accepted, torn, eventcount, write_queue, write_thread_exit_flag, msg>>
      /\ writer' = IF write_thread_exit_flag THEN "exited" ELSE "write"
    BY DEF Check, mainVars, logVars, Running
<1>2. RecordTypes'
    BY <1>1, WrittenKept DEF RecordInv, RecordTypes
<1>3. Held' = 1 /\ Held = 1
    BY <1>1 DEF Held
<1>4. CASE write_thread_exit_flag \/ torn # None
    BY <1>1, <1>2, <1>4 DEF RecordInv, Queued, Running
<1>5. CASE ~write_thread_exit_flag /\ torn = None
  <2>1. /\ Len(accepted) = eventcount + 1 + Len(write_queue)
        /\ msg = accepted[eventcount + 1]
        /\ \A k \in 1..Len(write_queue) : write_queue[k] = accepted[eventcount + 1 + k]
      BY <1>1, <1>3, <1>5 DEF RecordInv, Queued
  <2>2. eventcount \in Nat /\ Len(write_queue) \in Nat
      BY DEF LoggerIInv, LoggerTypes
  <2>3. eventcount < Len(accepted)
      BY <2>1, <2>2
  <2>4. Queued'
      BY <1>1, <1>3, <1>5, <2>1, <2>3 DEF Queued, Running
  <2> QED
      BY <1>2, <2>4 DEF RecordInv
<1> QED
    BY <1>4, <1>5

LEMMA RecordEnd ==
    ASSUME RecordInv, mainpc' \in {"done", "dead"}, accepted' = accepted,
           Written' = Written, torn' \in Nat \cup {None}
    PROVE  RecordInv'
<1>1. RecordTypes'
    BY DEF RecordInv, RecordTypes
<1>2. Queued'
    BY DEF Queued, Running
<1> QED
    BY <1>1, <1>2 DEF RecordInv

LEMMA RecordWrite ==
    ASSUME LoggerIInv, RecordInv, Write
    PROVE  /\ RecordInv'
           /\ torn = None => Written' = Written + 1 /\ msg = accepted[Written + 1]
           /\ torn # None => Written' = Written
<1>1. /\ Running /\ writer = "write" /\ writer' = "pop" /\ eventcount' = eventcount + 1
      /\ mainpc' = mainpc
      /\ UNCHANGED <<accepted, torn, write_queue, write_thread_exit_flag>>
    BY DEF Write, mainVars, queueVars
<1>2. Held = 1 /\ Held' = 0 /\ eventcount \in Nat
    BY <1>1 DEF Held, LoggerIInv, LoggerTypes
<1>3. CASE torn # None
  <2>1. Written' = Written
      BY <1>1, <1>3 DEF Written
  <2> QED
      BY <1>1, <1>3, <2>1 DEF RecordInv, RecordTypes, Queued, Running
<1>4. CASE torn = None
  <2>1. Written' = Written + 1 /\ Written = eventcount
      BY <1>1, <1>4 DEF Written
  <2>2. eventcount < Len(accepted) /\ msg = accepted[eventcount + 1]
      BY <1>1, <1>4 DEF RecordInv, Queued
  <2>3. RecordTypes'
    <3>1. Len(accepted) \in Nat
        BY DEF RecordInv, RecordTypes
    <3>2. eventcount + 1 \in Nat /\ eventcount + 1 <= Len(accepted)
        BY <1>2, <2>2, <3>1
    <3> QED
        BY <1>1, <2>1, <3>2 DEF RecordInv, RecordTypes
  <2>4. Queued'
    <3> SUFFICES ASSUME ~write_thread_exit_flag
                 PROVE  /\ Len(accepted) = eventcount' + 0 + Len(write_queue)
                        /\ \A k \in 1..Len(write_queue) :
                             write_queue[k] = accepted[eventcount' + 0 + k]
        BY <1>1, <1>2 DEF Queued, Running
    <3>1. /\ Len(accepted) = eventcount + 1 + Len(write_queue)
          /\ \A k \in 1..Len(write_queue) : write_queue[k] = accepted[eventcount + 1 + k]
        BY <1>1, <1>2, <1>4 DEF RecordInv, Queued
    <3>2. eventcount' + 0 = eventcount + 1
        BY <1>1, <1>2
    <3> QED
        BY <3>1, <3>2
  <2> QED
      BY <1>4, <2>1, <2>2, <2>3, <2>4 DEF RecordInv
<1> QED
    BY <1>3, <1>4

LEMMA RecordFails ==
    ASSUME LoggerIInv, RecordInv, WriteFails
    PROVE  RecordInv' /\ Written' = Written /\ accepted' = accepted /\ torn' # None
<1>1. /\ torn = None /\ torn' = eventcount /\ eventcount' = eventcount /\ accepted' = accepted
      /\ mainpc' = "dead" \/ (mainpc' = mainpc /\ Running)
    BY DEF WriteFails, ProcessEnds, mainVars
<1>2. eventcount \in Nat /\ torn' # None
    BY <1>1, LoggerAssumption DEF LoggerIInv, LoggerTypes
<1>3. Written' = Written
    BY <1>1, <1>2 DEF Written
<1>4. RecordTypes'
    BY <1>1, <1>2, <1>3 DEF RecordInv, RecordTypes
<1>5. Queued'
    BY <1>1, <1>2 DEF Queued, Running
<1> QED
    BY <1>1, <1>2, <1>3, <1>4, <1>5 DEF RecordInv

\* What lies in the file stays there while words are added behind it.
LEMMA LaidKept ==
    ASSUME NEW st, Laid(st), RecordTypes, file \in Seq(Nat), file' \in Seq(Nat),
           Written' = Written, \A i \in 1..Written : accepted'[i] = accepted[i],
           mainpc = "dead" => file' = file /\ mainpc' = "dead",
           Len(file) <= Len(file'), \A k \in 1..Len(file) : file'[k] = file[k],
           torn' = None => torn = None /\ Len(file') = Len(file)
    PROVE  Laid(st)'
<1>1. Len(file) \in Nat /\ Len(file') \in Nat /\ Written \in Nat
    BY DEF RecordTypes
<1>2. st \in [1..Written + 1 -> Nat] /\ st[1] = 0 /\ Written + 1 \in 1..Written + 1
    BY <1>1 DEF Laid
<1>3. st[Written + 1] \in Nat
    BY <1>2
<1>4. ASSUME NEW i \in 1..Written
      PROVE  /\ Words(i)' = Words(i) /\ Len(Words(i)) \in Nat
             /\ st[i + 1] = st[i] + Len(Words(i)) /\ st[i + 1] <= st[Written + 1]
             /\ \A k \in 1..Len(Words(i)) :
                  st[i] + k <= Len(file') => file'[st[i] + k] = Words(i)[k]
  <2>1. accepted[i] \in Event /\ i - 1 \in Nat
      BY <1>1, ElementOfSeq DEF RecordTypes
  <2>2. Words(i) \in Seq(Nat)
      BY <2>1, EventWordsFacts DEF Words
  <2>3. Words(i)' = Words(i)
      BY DEF Words
  <2>4. /\ st[i + 1] = st[i] + Len(Words(i)) /\ st[i + 1] <= st[Written + 1]
        /\ \A k \in 1..Len(Words(i)) : st[i] + k <= Len(file) => file[st[i] + k] = Words(i)[k]
      BY DEF Laid
  <2>5. st[i] \in Nat /\ Len(Words(i)) \in Nat
      BY <1>1, <1>2, <2>2
  <2>6. ASSUME NEW k \in 1..Len(Words(i)), st[i] + k <= Len(file')
        PROVE  file'[st[i] + k] = Words(i)[k]
    <3>1. st[i] + k <= Len(file)
      <4>1. CASE mainpc = "dead"
          BY <2>6, <4>1
      <4>2. CASE mainpc # "dead"
        <5>1. st[Written + 1] <= Len(file)
            BY <4>2 DEF Laid
        <5> QED
            BY <1>1, <1>3, <2>4, <2>5, <5>1
      <4> QED
          BY <4>1, <4>2
    <3>2. st[i] + k \in 1..Len(file)
        BY SMTT(30), <1>1, <2>5, <3>1
    <3> QED
        BY <2>4, <3>1, <3>2
  <2> QED
      BY <2>3, <2>4, <2>5, <2>6
<1>5. mainpc' # "dead" => st[Written + 1] <= Len(file')
  <2>1. mainpc' # "dead" => st[Written + 1] <= Len(file)
      BY DEF Laid
  <2> QED
      BY <1>1, <1>3, <2>1
<1>6. torn' = None => Len(file') <= st[Written + 1]
    BY DEF Laid
<1> QED
    BY <1>2, <1>4, <1>5, <1>6 DEF Laid

\* The process is killed with words that had not reached the file.
LEMMA LaidCut ==
    ASSUME NEW st, Laid(st), RecordTypes, file \in Seq(Nat), NEW n \in 0..Len(file),
           file' = SubSeq(file, 1, n), mainpc' = "dead", UNCHANGED <<accepted, torn, eventcount>>
    PROVE  Laid(st)'
<1>1. Len(file) \in Nat /\ Written \in Nat /\ Written' = Written
    BY WrittenKept DEF RecordTypes
<1>2. Len(file') = n /\ \A k \in 1..n : file'[k] = file[k]
    BY <1>1
<1>3. st \in [1..Written + 1 -> Nat] /\ st[1] = 0 /\ Written + 1 \in 1..Written + 1
    BY <1>1 DEF Laid
<1>4. st[Written + 1] \in Nat
    BY <1>3
<1>5. ASSUME NEW i \in 1..Written
      PROVE  /\ Words(i)' = Words(i)
             /\ st[i + 1] = st[i] + Len(Words(i)) /\ st[i + 1] <= st[Written + 1]
             /\ \A k \in 1..Len(Words(i)) :
                  st[i] + k <= Len(file') => file'[st[i] + k] = Words(i)[k]
  <2>1. Words(i)' = Words(i)
      BY DEF Words
  <2>2. /\ st[i + 1] = st[i] + Len(Words(i)) /\ st[i + 1] <= st[Written + 1]
        /\ \A k \in 1..Len(Words(i)) : st[i] + k <= Len(file) => file[st[i] + k] = Words(i)[k]
      BY DEF Laid
  <2>3. st[i] \in Nat
      BY <1>1, <1>3
  <2>4. ASSUME NEW k \in 1..Len(Words(i)), st[i] + k <= Len(file')
        PROVE  file'[st[i] + k] = Words(i)[k]
    <3>1. st[i] + k \in 1..n /\ st[i] + k <= Len(file)
        BY <1>1, <1>2, <2>3, <2>4
    <3> QED
        BY <1>2, <2>2, <3>1
  <2> QED
      BY <2>1, <2>2, <2>4
<1>6. torn' = None => Len(file') <= st[Written + 1]
  <2>1. torn' = None => Len(file) <= st[Written + 1]
      BY DEF Laid
  <2> QED
      BY <1>1, <1>2, <1>4, <2>1
<1> QED
    BY <1>1, <1>3, <1>5, <1>6 DEF Laid

\* One more event lies whole.
LEMMA LaidMore ==
    ASSUME NEW st, Laid(st), RecordTypes, RecordTypes', file \in Seq(Nat), mainpc # "dead", torn = None,
           Written' = Written + 1, accepted' = accepted, torn' = torn,
           file' = file \o Words(Written + 1)
    PROVE  \E st2 : Laid(st2)'
<1> DEFINE w == Written
           x == Words(w + 1)
<1>1. /\ Len(file) \in Nat /\ w \in Nat /\ w + 1 <= Len(accepted) /\ Len(accepted) \in Nat
      /\ st \in [1..w + 1 -> Nat] /\ st[1] = 0
  <2>1. Written \in Nat /\ Written' <= Len(accepted') /\ Len(accepted) \in Nat
      BY DEF RecordTypes
  <2> QED
      BY <2>1 DEF Laid
<1>2. x \in Seq(Nat)
  <2>1. w + 1 \in 1..Len(accepted) /\ (w + 1) - 1 \in Nat
      BY <1>1
  <2>2. accepted[w + 1] \in Event
      BY <1>1, <2>1, ElementOfSeq DEF RecordTypes
  <2> QED
      BY <2>1, <2>2, EventWordsFacts DEF Words
<1>3. st[w + 1] = Len(file)
  <2>1. st[w + 1] \in Nat
      BY <1>1
  <2>2. st[w + 1] <= Len(file) /\ Len(file) <= st[w + 1]
      BY DEF Laid
  <2> QED
      BY <1>1, <2>1, <2>2
<1> HIDE DEF x
<1>4. /\ file' \in Seq(Nat) /\ Len(file') = Len(file) + Len(x) /\ Len(x) \in Nat
      /\ \A k \in 1..Len(file) : file'[k] = file[k]
      /\ \A k \in 1..Len(x) : file'[Len(file) + k] = x[k]
  <2>1. file' = file \o x
      BY DEF x
  <2>2. /\ file \o x \in Seq(Nat) /\ Len(file \o x) = Len(file) + Len(x)
        /\ \A k \in 1..Len(file) : (file \o x)[k] = file[k]
        /\ \A k \in 1..Len(x) : (file \o x)[Len(file) + k] = x[k]
      BY <1>2, ConcatFacts
  <2>3. Len(x) \in Nat
      BY <1>2
  <2> QED
      BY <2>1, <2>2, <2>3, Zenon
<1>5. PICK st2 : /\ st2 \in [1..w + 2 -> Nat] /\ st2[1] = 0 /\ st2[w + 2] = Len(file')
                 /\ \A i \in 1..w + 1 : st2[i] = st[i]
  <2> DEFINE new == [i \in 1..w + 2 |-> IF i = w + 2 THEN st[w + 1] + Len(x) ELSE st[i]]
  <2>1. w + 2 \in 1..w + 2 /\ 1 \in 1..w + 2 /\ 1 # w + 2
      BY <1>1
  <2>2. \A i \in 1..w + 2 : i # w + 2 => i \in 1..w + 1
      BY <1>1
  <2>3. \A i \in 1..w + 1 : i \in 1..w + 2 /\ i # w + 2
      BY <1>1
  <2>4. st[w + 1] + Len(x) \in Nat
      BY <1>1, <1>3, <1>4
  <2>5. /\ new \in [1..w + 2 -> Nat] /\ new[1] = 0 /\ new[w + 2] = Len(file')
        /\ \A i \in 1..w + 1 : new[i] = st[i]
      BY <1>1, <1>3, <1>4, <2>1, <2>2, <2>3, <2>4
  <2> HIDE DEF new
  <2> QED
      BY <2>5
<1>6. ASSUME NEW i \in 1..w + 1
      PROVE  /\ Words(i)' = Words(i)
             /\ st2[i + 1] = st2[i] + Len(Words(i)) /\ st2[i + 1] <= st2[w + 2]
             /\ \A k \in 1..Len(Words(i)) :
                  st2[i] + k <= Len(file') => file'[st2[i] + k] = Words(i)[k]
  <2>1. Words(i)' = Words(i)
      BY DEF Words
  <2>2. CASE i \in 1..w
    <3>1. i + 1 \in 1..w + 1 /\ i \in 1..w + 1
        BY <1>1, <2>2
    <3>2. /\ st[i + 1] = st[i] + Len(Words(i)) /\ st[i + 1] <= st[w + 1]
          /\ \A k \in 1..Len(Words(i)) : st[i] + k <= Len(file) => file[st[i] + k] = Words(i)[k]
        BY <2>2 DEF Laid
    <3>3. st[i] \in Nat /\ st[i + 1] \in Nat /\ Len(Words(i)) \in Nat
      <4>1. accepted[i] \in Event /\ i - 1 \in Nat
          BY <1>1, <2>2, ElementOfSeq DEF RecordTypes
      <4>2. Words(i) \in Seq(Nat)
          BY <4>1, EventWordsFacts DEF Words
      <4> QED
          BY <1>1, <3>1, <4>2
    <3>4. st2[i + 1] <= st2[w + 2]
        BY SMTT(30), <1>1, <1>3, <1>4, <1>5, <3>1, <3>2, <3>3
    <3>5. ASSUME NEW k \in 1..Len(Words(i)) PROVE file'[st2[i] + k] = Words(i)[k]
      <4>1. st[i] + k \in 1..Len(file)
          BY SMTT(30), <1>1, <1>3, <3>2, <3>3
      <4>2. st2[i] = st[i]
          BY <1>5
      <4>3. file'[st[i] + k] = file[st[i] + k]
          BY <1>4, <4>1
      <4>4. file[st[i] + k] = Words(i)[k]
          BY <3>2, <4>1
      <4> QED
          BY <4>2, <4>3, <4>4, Zenon
    <3> QED
        BY <1>5, <2>1, <3>1, <3>2, <3>4, <3>5
  <2>3. CASE i = w + 1
    <3>0. i + 1 = w + 2 /\ w + 1 \in 1..w + 1
        BY <1>1, <2>3
    <3>1. st2[i] = Len(file) /\ st2[i + 1] = Len(file) + Len(x)
        BY <1>3, <1>4, <1>5, <2>3, <3>0
    <3>2. Words(i) = x
        BY <2>3 DEF x
    <3>3. st2[i + 1] <= st2[w + 2]
        BY <1>4, <1>5, <3>0, <3>1
    <3> QED
        BY <1>4, <2>1, <3>0, <3>1, <3>2, <3>3
  <2>4. i \in 1..w \/ i = w + 1
      BY <1>1
  <2> QED
      BY <2>2, <2>3, <2>4
<1>7. Written' = w + 1 /\ (w + 1) + 1 = w + 2 /\ st2[w + 2] <= Len(file') /\ Len(file') <= st2[w + 2]
  <2>1. Len(file') \in Nat
      BY <1>4
  <2> QED
      BY <1>1, <1>5, <2>1
<1>8. Laid(st2)'
  <2>1. Written' + 1 = w + 2
      BY <1>7
  <2>2. st2 \in [1..Written' + 1 -> Nat] /\ st2[1] = 0
      BY <1>5, <2>1
  <2>3. ASSUME NEW i \in 1..Written'
        PROVE  /\ Words(i)' = Words(i)
               /\ st2[i + 1] = st2[i] + Len(Words(i)) /\ st2[i + 1] <= st2[Written' + 1]
               /\ \A k \in 1..Len(Words(i)) :
                    st2[i] + k <= Len(file') => file'[st2[i] + k] = Words(i)[k]
    <3>1. i \in 1..w + 1
        BY <1>7
    <3> QED
        BY <1>6, <2>1, <3>1
  <2>4. st2[Written' + 1] <= Len(file') /\ Len(file') <= st2[Written' + 1]
      BY <1>7, <2>1
  <2>5. \A i \in 1..Written' :
          /\ st2[i + 1] = st2[i] + Len(EventWords(i - 1, accepted'[i]))
          /\ st2[i + 1] <= st2[Written' + 1]
          /\ \A k \in 1..Len(EventWords(i - 1, accepted'[i])) :
               st2[i] + k <= Len(file') => file'[st2[i] + k] = EventWords(i - 1, accepted'[i])[k]
      BY <2>3 DEF Words
  <2> QED
      BY <2>2, <2>4, <2>5 DEF Laid, Words
<1> QED
    BY <1>8

\* The recording keeps what lies in the file.
LEMMA RecordStep ==
    ASSUME LoggerIInv, LoggerIInv', RecordInv, NEW st, Laid(st), LoggerNext
    PROVE  RecordInv' /\ (\E s : Laid(s)') /\ ~Recorded
<1>1. /\ file \in Seq(Nat) /\ file' \in Seq(Nat) /\ RecordTypes /\ accepted \in Seq(Event)
      /\ eventcount \in Nat /\ (writer = "write" => msg \in Event)
    BY DEF LoggerIInv, LoggerTypes, RecordInv, RecordTypes
<1>2. ~Recorded
    BY DEF LoggerNext, Main, ChooseName, OpenLog, Push, SetExitFlag, PushExitFlag, Join,
       OtherCreates, Messages, Handle, QuitOnSignal, QuitOnError, Writer, Pop, Check, Write,
       WriteFails, Killed, Running, Recorded
<1>3. mainpc # "dead"
    BY <1>2 DEF Recorded
<1>4. ASSUME file' = file, Written' = Written, torn' = torn,
             \A i \in 1..Written : accepted'[i] = accepted[i]
      PROVE  \E s : Laid(s)'
  <2>1. Len(file) <= Len(file') /\ Len(file') = Len(file) /\ \A k \in 1..Len(file) : file'[k] = file[k]
      BY <1>1, <1>4
  <2>2. Laid(st)'
      BY <1>1, <1>3, <1>4, <2>1, LaidKept
  <2> QED
      BY <2>2
<1>5. CASE ChooseName \/ OtherCreates \/ OpenLog \/ Messages \/ QuitOnSignal \/ QuitOnError \/ SetExitFlag
  <2>1. RecordInv'
      BY <1>5, RecordQuiet
  <2>2. UNCHANGED <<file, eventcount, torn, accepted>>
      BY <1>5 DEF ChooseName, OtherCreates, OpenLog, Messages, Handle, QuitOnSignal, QuitOnError,
         SetExitFlag, logVars
  <2> QED
      BY <1>2, <1>4, <2>1, <2>2, WrittenKept
<1>6. CASE Push
  <2>1. UNCHANGED <<file, eventcount, torn>>
      BY <1>6 DEF Push, logVars
  <2> QED
      BY <1>2, <1>4, <1>6, <2>1, WrittenKept, RecordPush
<1>7. CASE PushExitFlag \/ Pop \/ Check
  <2>1. RecordInv'
      BY <1>7, RecordPushFlag, RecordPop, RecordCheck
  <2>2. UNCHANGED <<file, eventcount, torn, accepted>>
      BY <1>7 DEF PushExitFlag, Pop, Check, logVars
  <2> QED
      BY <1>2, <1>4, <2>1, <2>2, WrittenKept
<1>8. CASE Join
  <2>1. UNCHANGED <<file, eventcount, torn, accepted>> /\ mainpc' = "done"
      BY <1>8 DEF Join, ProcessEnds, logVars
  <2>2. RecordInv'
      BY <1>1, <2>1, WrittenKept, RecordEnd DEF RecordTypes
  <2> QED
      BY <1>2, <1>4, <2>1, <2>2, WrittenKept
<1>9. CASE Killed
  <2>1. UNCHANGED <<eventcount, torn, accepted>> /\ mainpc' = "dead"
      BY <1>9 DEF Killed, ProcessEnds
  <2>2. RecordInv'
      BY <1>1, <2>1, WrittenKept, RecordEnd DEF RecordTypes
  <2>3. PICK n \in 0..Len(file) : file' = SubSeq(file, 1, n)
      BY <1>9 DEF Killed
  <2>4. Laid(st)'
      BY <1>1, <2>1, <2>3, LaidCut
  <2> QED
      BY <1>2, <2>2, <2>4
<1>10. CASE Write
  <2>1. writer = "write" /\ file' = file \o EventWords(eventcount, msg) /\ UNCHANGED <<torn, accepted, mainpc>>
      BY <1>10 DEF Write, mainVars
  <2>2. EventWords(eventcount, msg) \in Seq(Nat)
      BY <1>1, <2>1, EventWordsFacts
  <2>3. /\ RecordInv'
        /\ torn = None => Written' = Written + 1 /\ msg = accepted[Written + 1]
        /\ torn # None => Written' = Written
      BY <1>10, RecordWrite
  <2>4. CASE torn = None
    <3>1. Words(Written + 1) = EventWords(eventcount, msg)
      <4>1. Written = eventcount /\ (eventcount + 1) - 1 = eventcount
          BY <1>1, <2>4 DEF Written
      <4> QED
          BY <2>3, <2>4, <4>1 DEF Words
    <3>2. \E s : Laid(s)'
      <4>1. RecordTypes'
          BY <2>3 DEF RecordInv
      <4> QED
          BY <1>1, <1>3, <2>1, <2>3, <2>4, <3>1, <4>1, LaidMore
    <3> QED
        BY <1>2, <2>3, <3>2
  <2>5. CASE torn # None
    <3>1. Len(file) <= Len(file') /\ \A k \in 1..Len(file) : file'[k] = file[k]
        BY <1>1, <2>1, <2>2, Longer
    <3>2. Laid(st)'
        BY <1>1, <1>3, <2>1, <2>3, <2>5, <3>1, LaidKept
    <3> QED
        BY <1>2, <2>3, <3>2
  <2> QED
      BY <2>4, <2>5
<1>11. CASE WriteFails
  <2>1. RecordInv' /\ Written' = Written /\ accepted' = accepted /\ torn' # None
      BY <1>11, RecordFails
  <2>2. writer = "write"
      BY <1>11 DEF WriteFails
  <2>3. EventWords(eventcount, msg) \in Seq(Nat)
      BY <1>1, <2>2, EventWordsFacts
  <2>4. PICK n \in 0..Len(EventWords(eventcount, msg)) - 1 :
          file' = file \o SubSeq(EventWords(eventcount, msg), 1, n)
      BY <1>11 DEF WriteFails
  <2>5. SubSeq(EventWords(eventcount, msg), 1, n) \in Seq(Nat)
    <3>1. n \in 0..Len(EventWords(eventcount, msg))
        BY <2>3
    <3> QED
        BY <2>3, <3>1, PrefixType
  <2>6. Len(file) <= Len(file') /\ \A k \in 1..Len(file) : file'[k] = file[k]
      BY <1>1, <2>4, <2>5, Longer
  <2>7. Laid(st)'
      BY <1>1, <1>3, <2>1, <2>6, LaidKept
  <2> QED
      BY <1>2, <2>1, <2>7
<1> QED
    BY <1>5, <1>6, <1>7, <1>8, <1>9, <1>10, <1>11 DEF LoggerNext, Main, Writer

\* Loading behind event j gives event j + 1, a cut one, one behind a failed
\* write, or none; and none in a clean log only behind the last.
LEMMA LoadAt ==
    ASSUME NEW st, Laid(st), RecordTypes, file \in Seq(Nat), Recorded,
           NEW j \in Nat, NEW e, NEW pos \in Nat, Got(st, j, e, pos),
           NEW f \in Event \cup {None}, Player!Loaded(f, pos),
           NEW next, next = ReadNext(file, pos).pos
    PROVE  /\ f # None => Got(st, j + 1, f, next) /\ (j \in 1..Written => e = accepted[j])
           /\ f = None /\ mainpc = "done" /\ torn = None => j = Written
<1>1. /\ Len(file) \in Nat /\ Written \in Nat /\ st \in [1..Written + 1 -> Nat]
      /\ Written <= Len(accepted) /\ Len(accepted) \in Nat
    BY DEF RecordTypes, Laid
<1> DEFINE r == ReadNext(file, pos)
<1>2. /\ f # None => r.kind = "event" /\ f = r.event
      /\ f = None => r.kind = "eof"
  <2>1. r.kind \in {"eof", "crash", "event"} /\ (r.kind = "event" => r.event \in Event)
      BY ReadNextType
  <2>2. /\ r.kind = "event" => f = r.event
        /\ r.kind = "eof" => f = None
        /\ r.kind # "crash"
      BY <2>1, PlayerReads DEF Player!Loaded
  <2> QED
      BY <2>1, <2>2, LoggerAssumption
<1> HIDE DEF r
<1>3. pos >= Len(file) => f = None
    BY <1>2, ReadEnd DEF r
<1>4. CASE j \in 0..Written - 1 /\ pos = st[j + 1] /\ (j > 0 => e = accepted[j])
  <2> DEFINE i == j + 1
             x == Words(i)
             a == accepted[i]
  <2>1. i \in 1..Written /\ i \in 1..Len(accepted) /\ i - 1 = j /\ i + 1 \in 1..Written + 1
      BY <1>1, <1>4
  <2>2. a \in Event /\ x = EventWords(j, a)
      BY <2>1, ElementOfSeq DEF RecordTypes, Words
  <2>3. /\ st[i + 1] = pos + Len(x) /\ st[i + 1] <= st[Written + 1]
        /\ \A k \in 1..Len(x) : pos + k <= Len(file) => file[pos + k] = x[k]
      BY <1>4, <2>1 DEF Laid
  <2> HIDE DEF x, a
  <2>4. Reads(file, pos, pos + Len(x), a)
      BY <2>2, <2>3, ReadThere
  <2>5. st[i + 1] \in Nat /\ st[Written + 1] \in Nat /\ Written + 1 \in 1..Written + 1
      BY <1>1, <2>1
  <2>6. CASE st[i + 1] <= Len(file)
    <3>1. r.kind # "eof" /\ (r.kind = "event" => r.event = a /\ r.pos = st[i + 1])
        BY <2>3, <2>4, <2>6 DEF Reads, r
    <3>2. f # None /\ f = a /\ next = st[i + 1]
        BY <1>2, <3>1 DEF r
    <3>3. i \in 0..Written /\ i = j + 1
        BY <1>1, <2>1
    <3>4. Got(st, i, f, next)
        BY <3>2, <3>3 DEF Got, a
    <3> QED
        BY <1>4, <3>2, <3>4
  <2>7. CASE st[i + 1] > Len(file)
    <3>1. r.kind = "event" => r.pos = Len(file) /\ r.event.channel = <<>> /\ r.event.data = <<>>
        BY <2>3, <2>4, <2>7 DEF Reads, r
    <3>2. mainpc = "dead"
      <4> SUFFICES ASSUME mainpc # "dead" PROVE FALSE
          OBVIOUS
      <4>1. st[Written + 1] <= Len(file)
          BY DEF Laid
      <4> QED
          BY <1>1, <2>3, <2>5, <2>7, <4>1
    <3>3. f # None => Got(st, i, f, next)
        BY <1>2, <2>1, <3>1, <3>2 DEF Got, CutEvent, r
    <3> QED
        BY <1>4, <3>2, <3>3
  <2> QED
      BY <1>1, <2>5, <2>6, <2>7
<1>5. CASE j = Written /\ pos = st[j + 1] /\ (j > 0 => e = accepted[j])
  <2>1. CASE torn = None
    <3>1. Len(file) <= st[Written + 1]
        BY <2>1 DEF Laid
    <3>2. f = None
        BY <1>1, <1>3, <1>5, <3>1
    <3> QED
        BY <1>5, <3>2
  <2>2. CASE torn # None
    <3>1. j + 1 > Written
        BY <1>1, <1>5
    <3> QED
        BY <1>5, <2>2, <3>1 DEF Got
  <2> QED
      BY <2>1, <2>2
<1>6. CASE j \in 1..Written /\ pos = Len(file) /\ CutEvent(e)
    BY <1>1, <1>3, <1>6 DEF CutEvent
<1>7. CASE torn # None /\ j > Written
  <2>1. j + 1 > Written /\ ~(j \in 1..Written)
      BY <1>1, <1>7
  <2> QED
      BY <1>7, <2>1 DEF Got
<1>8. j \in 0..Written => j \in 0..Written - 1 \/ j = Written
    BY <1>1
<1> QED
    BY <1>4, <1>5, <1>6, <1>7, <1>8 DEF Got

LEMMA LaidStays ==
    ASSUME NEW st, Laid(st), RecordInv, file \in Seq(Nat),
           UNCHANGED <<mainpc, file, accepted, torn, eventcount>>
    PROVE  Laid(st)' /\ Written' = Written
<1>1. Len(file) <= Len(file') /\ Len(file') = Len(file) /\ \A k \in 1..Len(file) : file'[k] = file[k]
    OBVIOUS
<1>2. Written' = Written
    BY WrittenKept
<1> QED
    BY <1>1, <1>2, LaidKept DEF RecordInv

\* Creating the player loads the first event.
LEMMA ReadingCreate ==
    ASSUME RecordInv, PlayerIInv, NEW st, Laid(st), Recorded, Unread, Player!Create,
           UNCHANGED <<mainpc, accepted, torn, eventcount>>
    PROVE  Reading(st)'
<1>1. /\ file' = file /\ Player!Loaded(event', 0) /\ filepos' = Player!ReadNext(file, 0).pos
      /\ played' = <<>> /\ player' = IF event' = None THEN "failed" ELSE "idle"
    BY DEF Player!Create, Unread
<1>2. Written' = Written /\ Written \in Nat /\ Len(played') = 0 /\ file \in Seq(Nat) /\ RecordTypes
    BY <1>1, WrittenKept DEF RecordInv, RecordTypes, PlayerIInv
<1>3. filepos' = ReadNext(file, 0).pos
    BY <1>1, PlayerReads
<1>4. event' # None => Got(st, 0 + 1, event', filepos')
  <2>1. event' \in Event \cup {None}
      BY <1>1, <1>2, LoadedType
  <2>2. st[0 + 1] = 0
      BY DEF Laid
  <2>3. Got(st, 0, None, 0)
      BY <1>2, <2>2 DEF Got
  <2> QED
      BY <1>1, <1>2, <1>3, <2>1, <2>3, LoadAt
<1>5. event' # None => (Got(st, Len(played) + 1, event, filepos))'
  <2>1. Len(played') + 1 = 0 + 1
      BY <1>2
  <2> QED
      BY <1>1, <1>2, <1>4, <2>1 DEF Got, CutEvent
<1>6. \A i \in 1..Len(played') : FALSE
    BY <1>2
<1> QED
    BY <1>1, <1>2, <1>5, <1>6 DEF Reading

\* The event that was loaded is dispatched.
LEMMA ReadingHandle ==
    ASSUME RecordInv, PlayerIInv, NEW st, Reading(st), Player!Handle,
           UNCHANGED <<mainpc, accepted, torn, eventcount>>
    PROVE  Reading(st)'
<1>1. PICK m, new :
        /\ m \in Nat /\ m = Len(played) /\ new.event = event /\ played' = Append(played, new)
        /\ player = "idle" /\ event # None /\ player' = "dispatch"
        /\ UNCHANGED <<file, filepos, event>>
  <2> DEFINE x == [event |-> event, due |-> next_clock_time', at |-> clock]
  <2>1. x.event = event /\ played' = Append(played, x)
      BY DEF Player!Handle
  <2>2. Len(played) \in Nat
      BY DEF PlayerIInv, PlayerTypes
  <2> HIDE DEF x
  <2> QED
      BY <2>1, <2>2 DEF Player!Handle
<1>2. /\ Len(played') = m + 1 /\ played'[m + 1] = new
      /\ \A i \in 1..m : played'[i] = played[i]
    BY <1>1 DEF PlayerIInv, PlayerTypes
<1>3. Written' = Written /\ Written \in Nat
    BY WrittenKept DEF RecordInv, RecordTypes
<1>4. /\ Got(st, m + 1, event, filepos)
      /\ \A i \in 1..m : i <= Written => played[i].event = accepted[i]
    BY <1>1 DEF Reading
<1>5. (Got(st, Len(played), event, filepos))'
    BY <1>1, <1>2, <1>3, <1>4 DEF Got, CutEvent
<1>6. torn' = None => m + 1 <= Written
    BY <1>1, <1>3, <1>4 DEF Got
<1>7. m + 1 <= Written => event = accepted[m + 1] \/ CutEvent(event)
    BY <1>1, <1>3, <1>4 DEF Got
<1>8. \A i \in 1..Len(played') : i <= Written' =>
        \/ played'[i].event = accepted'[i]
        \/ i = Len(played') /\ (CutEvent(played[i].event))'
  <2> TAKE i \in 1..Len(played')
  <2> HAVE i <= Written'
  <2>1. CASE i \in 1..m
      BY <1>2, <1>3, <1>4, <2>1
  <2>2. CASE i = m + 1
    <3>1. played'[i].event = event
        BY <1>1, <1>2, <2>2
    <3> QED
        BY <1>1, <1>2, <1>3, <1>7, <2>2, <3>1 DEF CutEvent
  <2> QED
      BY <1>1, <1>2, <2>1, <2>2
<1>9. Len(played') >= 1 /\ played'[Len(played')].event = event'
    BY <1>1, <1>2
<1> QED
    BY <1>1, <1>2, <1>3, <1>5, <1>6, <1>8, <1>9 DEF Reading, CutEvent

\* The next event is loaded, or there is none.
LEMMA ReadingLoad ==
    ASSUME RecordInv, PlayerIInv, NEW st, Laid(st), Recorded, Reading(st), Player!LoadNext,
           UNCHANGED <<mainpc, accepted, torn, eventcount>>
    PROVE  Reading(st)'
<1>1. PICK m \in Nat : m = Len(played)
    BY DEF PlayerIInv, PlayerTypes
<1>2. /\ player = "dispatch" /\ player' = "idle" /\ UNCHANGED <<file, played>>
      /\ Player!Loaded(event', filepos) /\ filepos' = Player!ReadNext(file, filepos).pos
    BY DEF Player!LoadNext
<1>3. /\ Written' = Written /\ Written \in Nat /\ RecordTypes /\ file \in Seq(Nat) /\ filepos \in Nat
      /\ m >= 1 /\ played[m].event = event /\ Got(st, m, event, filepos)
      /\ torn = None => m <= Written
    BY <1>1, <1>2, WrittenKept DEF RecordInv, RecordTypes, PlayerIInv, PlayerTypes, Reading
<1>4. event' \in Event \cup {None} /\ filepos' = ReadNext(file, filepos).pos
    BY <1>2, <1>3, LoadedType, PlayerReads
<1>5. /\ event' # None => Got(st, m + 1, event', filepos') /\ (m \in 1..Written => event = accepted[m])
      /\ event' = None /\ mainpc = "done" /\ torn = None => m = Written
    BY <1>2, <1>3, <1>4, LoadAt
<1>6. event' # None => (Got(st, Len(played) + 1, event, filepos))'
    BY <1>1, <1>2, <1>3, <1>5 DEF Got, CutEvent
<1>7. ASSUME NEW i \in 1..Len(played'), i <= Written'
      PROVE  \/ played'[i].event = accepted'[i]
             \/ i = Len(played') /\ CutEvent(played[i].event) /\ event' = None
  <2>1. CASE event' = None
      BY <1>1, <1>2, <1>3, <1>7, <2>1 DEF Reading
  <2>2. CASE event' # None
    <3>1. CASE i = m
        BY <1>1, <1>2, <1>3, <1>5, <1>7, <2>2, <3>1
    <3>2. CASE i # m
        BY <1>1, <1>2, <1>3, <1>7, <3>2 DEF Reading
    <3> QED
        BY <3>1, <3>2
  <2> QED
      BY <2>1, <2>2
<1> QED
    BY <1>1, <1>2, <1>3, <1>5, <1>6, <1>7 DEF Reading, CutEvent

\* Elsewhere nothing is loaded or dispatched.
LEMMA ReadingIdles ==
    ASSUME RecordInv, NEW st, Reading(st),
           UNCHANGED <<file, mainpc, accepted, torn, eventcount, played, event, filepos>>,
           player' = player \/ player' \in {"crashed", "joining", "destroyed"}
    PROVE  Reading(st)'
<1>1. Written' = Written
    BY WrittenKept
<1> QED
    BY <1>1 DEF Reading, Got, CutEvent

LEMMA ReplayStep == IInv /\ IInv' /\ RecordInv /\ ReplayInv /\ [Next]_vars => (RecordInv /\ ReplayInv)'
<1> SUFFICES ASSUME IInv, IInv', RecordInv, ReplayInv, [Next]_vars PROVE RecordInv' /\ ReplayInv'
    OBVIOUS
<1>1. PICK st : Laid(st) /\ (Unread \/ (Recorded /\ Reading(st)))
    BY DEF ReplayInv
<1>2. LoggerIInv /\ LoggerIInv' /\ PlayerIInv /\ file \in Seq(Nat)
    BY DEF IInv, PlayerIInv
<1>3. CASE Record
  <2>1. LoggerNext /\ UNCHANGED playerVars
      BY <1>3 DEF Record
  <2>2. RecordInv' /\ (\E s : Laid(s)') /\ ~Recorded
      BY <1>1, <1>2, <2>1, RecordStep
  <2>3. Unread'
      BY <1>1, <2>1, <2>2 DEF Unread, playerVars
  <2> QED
      BY <2>2, <2>3 DEF ReplayInv
<1>4. ASSUME UNCHANGED <<mainpc, file, accepted, torn, eventcount, mainVars, queueVars, writer, msg>>
      PROVE  RecordInv' /\ Laid(st)' /\ (Recorded => Recorded')
  <2>1. UNCHANGED <<mainpc, write_queue, write_thread_exit_flag>>
      BY <1>4 DEF queueVars
  <2>2. RecordInv'
      BY <1>4, <2>1, RecordKept DEF Running
  <2>3. Laid(st)'
      BY <1>1, <1>2, <1>4, LaidStays
  <2> QED
      BY <2>1, <2>2, <2>3 DEF Recorded
<1>5. CASE PlayOn(Player!PlayerNext)
  <2>1. /\ Player!PlayerNext /\ Recorded
        /\ UNCHANGED <<mainpc, accepted, torn, eventcount, mainVars, queueVars, writer, msg>>
      BY <1>5 DEF PlayOn, mainVars
  <2>2. UNCHANGED file
      BY <2>1 DEF Player!PlayerNext, Player!Application, Player!Create, Player!Handle,
         Player!LoadNext, Player!LoadFaults, Player!Destroy, Player!Join, Player!Timer,
         Player!TimerRead, Player!TimerExpires, Player!TimerAborted, Player!TimerInterrupted,
         Player!Tick
  <2>3. RecordInv' /\ Laid(st)' /\ Recorded'
      BY <1>4, <2>1, <2>2
  <2>4. CASE Unread
    <3>1. player = "closed" /\ timer = "none" /\ next_clock_time = Player!UnknownTime
        BY <1>2, <2>4 DEF Unread, PlayerIInv, Announced
    <3>2. CASE Player!Create
        BY <1>1, <1>2, <2>1, <2>3, <2>4, <3>2, ReadingCreate DEF ReplayInv
    <3>3. CASE ~Player!Create
      <4>1. Player!LoadFaults
          BY <2>1, <3>1, <3>3 DEF Player!PlayerNext, Player!Application, Player!Handle,
             Player!LoadNext, Player!Destroy, Player!Join, Player!Timer, Player!TimerRead,
             Player!TimerExpires, Player!TimerAborted, Player!TimerInterrupted, Player!Tick
      <4>2. player' = "crashed" /\ played' = <<>>
          BY <2>4, <4>1 DEF Player!LoadFaults, Unread
      <4>3. Written' \in Nat
          BY <2>3 DEF RecordInv, RecordTypes
      <4>4. Len(played') = 0 /\ \A i \in 1..Len(played') : FALSE
          BY <4>2
      <4>5. Reading(st)'
          BY <4>2, <4>3, <4>4 DEF Reading
      <4> QED
          BY <2>3, <4>5 DEF ReplayInv
    <3> QED
        BY <3>2, <3>3
  <2>5. CASE Recorded /\ Reading(st)
    <3>1. CASE Player!Handle
        BY <1>2, <2>1, <2>3, <2>5, <3>1, ReadingHandle DEF ReplayInv
    <3>2. CASE Player!LoadNext
        BY <1>1, <1>2, <2>1, <2>3, <2>5, <3>2, ReadingLoad DEF ReplayInv
    <3>3. CASE ~Player!Handle /\ ~Player!LoadNext
      <4>1. ~Player!Create
          BY <2>5 DEF Reading, Player!Create
      <4>2. /\ UNCHANGED <<played, event, filepos>>
            /\ player' = player \/ player' \in {"crashed", "joining", "destroyed"}
          BY <2>1, <3>3, <4>1 DEF Player!PlayerNext, Player!Application, Player!LoadFaults,
             Player!Destroy, Player!Join, Player!Timer, Player!TimerRead, Player!TimerExpires,
             Player!TimerAborted, Player!TimerInterrupted, Player!Tick
      <4> QED
          BY <2>1, <2>2, <2>3, <2>5, <4>2, ReadingIdles DEF ReplayInv
    <3> QED
        BY <3>1, <3>2, <3>3
  <2> QED
      BY <1>1, <2>4, <2>5
<1>6. CASE UNCHANGED vars
  <2>1. UNCHANGED <<mainpc, file, accepted, torn, eventcount, mainVars, queueVars, writer, msg>>
      BY <1>6 DEF vars, loggerVars, logVars, mainVars
  <2>2. UNCHANGED <<player, played, event, filepos>>
      BY <1>6 DEF vars, playerVars
  <2>3. RecordInv' /\ Laid(st)' /\ (Recorded => Recorded')
      BY <1>4, <2>1
  <2>4. Unread => Unread'
      BY <2>2 DEF Unread
  <2>5. Reading(st) => Reading(st)'
      BY <2>1, <2>2, ReadingIdles
  <2> QED
      BY <1>1, <2>3, <2>4, <2>5 DEF ReplayInv
<1> QED
    BY <1>3, <1>5, <1>6 DEF Next

LEMMA ReplayInit == Init => RecordInv /\ ReplayInv
<1> SUFFICES ASSUME Init PROVE RecordInv /\ ReplayInv
    OBVIOUS
<1>1. /\ accepted = <<>> /\ eventcount = 0 /\ torn = None /\ file = <<>> /\ mainpc = "choosing"
      /\ player = "closed" /\ played = <<>> /\ filepos = 0 /\ event = None
    BY DEF Init, LoggerInit, Player!PlayerInit
<1>2. Written = 0 /\ Len(accepted) = 0 /\ accepted \in Seq(Event) /\ Len(file) = 0
    BY <1>1 DEF Written
<1>3. RecordInv
    BY <1>1, <1>2 DEF RecordInv, RecordTypes, Queued, Running
<1>4. Unread
    BY <1>1 DEF Unread
<1> DEFINE st == [i \in 1..1 |-> 0]
<1>5. Laid(st)
  <2>1. st \in [1..Written + 1 -> Nat] /\ st[1] = 0 /\ st[Written + 1] = 0
      BY <1>2
  <2>2. \A i \in 1..Written : FALSE
      BY <1>2
  <2> HIDE DEF st
  <2> QED
      BY <1>2, <2>1, <2>2 DEF Laid
<1> QED
    BY <1>3, <1>4, <1>5 DEF ReplayInv

LEMMA ReplaySpec == Spec => [](RecordInv /\ ReplayInv)
<1>1. IInv /\ RecordInv /\ ReplayInv /\ [Next]_vars => (IInv /\ RecordInv /\ ReplayInv)'
    BY StepInv, ReplayStep
<1> QED
    BY InitInv, ReplayInit, <1>1, PTL DEF Spec

\* What is played back is what was recorded, in the order it was pushed, up to
\* the first failed write, for any messages, however the recording ended and
\* wherever in an event it was cut: read_next_event finds the events where
\* write_event put them (eventlog.c), and a cut header shows as one event
\* without channel and payload at the end, or not at all.  A clean log is
\* played to its last event.
THEOREM ReplayedAsRecorded == Spec => []Replayed
<1>1. RecordInv /\ ReplayInv /\ IInv => Replayed
  <2> SUFFICES ASSUME RecordInv, ReplayInv, IInv PROVE Replayed
      OBVIOUS
  <2> DEFINE whole == IF torn = None THEN Len(accepted) ELSE torn
  <2>1. PICK st : Laid(st) /\ (Unread \/ (Recorded /\ Reading(st)))
      BY DEF ReplayInv
  <2>2. /\ DOMAIN played = 1..Len(played) /\ Len(played) \in Nat /\ Written \in Nat
        /\ Written <= Len(accepted) /\ Len(accepted) \in Nat
        /\ torn = None => Written = eventcount
        /\ torn # None => Written = torn
      BY DEF IInv, PlayerIInv, PlayerTypes, RecordInv, RecordTypes, Written
  <2>3. CASE Unread
    <3>1. Len(played) = 0 /\ DOMAIN played = {} /\ player = "closed"
        BY <2>3 DEF Unread
    <3> QED
        BY <2>2, <3>1 DEF Replayed
  <2>4. CASE Reading(st)
    <3>1. torn = None => Len(played) <= Written
        BY <2>4 DEF Reading
    <3>2. torn = None => Len(played) <= Len(accepted)
        BY <2>2, <3>1
    <3>3. ASSUME NEW i \in DOMAIN played, i <= whole
          PROVE  played[i].event = accepted[i] \/ CutHeader(i)
      <4>1. i \in 1..Len(played) /\ i <= Written
          BY <2>2, <3>1, <3>3
      <4> QED
          BY <2>4, <4>1 DEF Reading, CutEvent, CutHeader
    <3>4. player = "idle" /\ event = None /\ mainpc = "done" /\ torn = None => Len(played) = eventcount
        BY <2>2, <2>4 DEF Reading
    <3> QED
        BY <3>2, <3>3, <3>4 DEF Replayed
  <2> QED
      BY <2>1, <2>3, <2>4
<1> QED
    BY <1>1, SpecInv, ReplaySpec, PTL

-----------------------------------------------------------------------------
(* Seeking in a log.                                                        *)

\* Events lie at st[1], st[2], ... in f, and the magic is nowhere but at their start.
Indexed(f, m, st, ts) ==
  /\ m \in Nat /\ \A i \in 1..m : st[i] \in Nat /\ ts[i] \in Nat
  /\ \A p \in 1..Len(f) : f[p] = Magic => \E i \in 1..m : p = st[i] + 1
  /\ \A i \in 1..m : EventTime(f, st[i]) = ts[i]
  /\ \A i \in 1..m : st[i] + 1 \in 1..Len(f) /\ f[st[i] + 1] = Magic

\* get_event_time finds the first magic behind pos, and the time behind it.
LEMMA NextEventFacts ==
    ASSUME NEW f \in Seq(Nat), NEW pos \in Nat, NEW at, at = NextEvent(f, pos), at # Failed
    PROVE  /\ at \in Nat /\ pos <= at /\ at + 5 <= Len(f) /\ at + 1 \in 1..Len(f) /\ f[at + 1] = Magic
           /\ \A q \in pos + 1..Len(f) : f[q] = Magic => at + 1 <= q
<1> DEFINE met == Magics(f, pos)
           p == Min(met)
<1>1. met # {} /\ ~(p + 4 > Len(f)) /\ at = p - 1
    BY DEF NextEvent
<1>2. Len(f) \in Nat
    OBVIOUS
<1>3. met \in SUBSET Nat /\ \A q \in met : q \in pos + 1..Len(f) /\ f[q] = Magic
    BY <1>2 DEF Magics
<1>7. \A q \in pos + 1..Len(f) : f[q] = Magic => q \in met
    BY DEF Magics
<1> HIDE DEF met
<1>4. p \in met /\ \A q \in met : p <= q
    BY <1>1, <1>3, MinLeast
<1> HIDE DEF p
<1>5. p \in Nat /\ pos + 1 <= p /\ p <= Len(f) /\ f[p] = Magic
    BY <1>2, <1>3, <1>4
<1>6. at + 1 = p
    BY <1>1, <1>5
<1> QED
    BY <1>1, <1>2, <1>4, <1>5, <1>6, <1>7

LEMMA Middle ==
    ASSUME NEW a \in Nat, NEW b \in Nat
    PROVE  LET m == (a + b + 1) \div 2 IN
           m \in Nat /\ (a < b => a < m /\ m <= b) /\ (a = b => m = a)
<1> DEFINE m == (a + b + 1) \div 2
<1>1. m \in Int /\ 2 * m <= a + b + 1 /\ a + b + 1 < 2 * m + 2
    OBVIOUS
<1> HIDE DEF m
<1>2. m \in Nat /\ (a < b => a < m /\ m <= b) /\ (a = b => m = a)
    BY <1>1
<1> QED
    BY <1>2 DEF m

\* The bracket of the bisection, its end, and the number that becomes smaller.
Brackets(n) == (0..n) \X (0..n) \X (-n..n)
MiddleOf(s) == (s[1] + s[2] + 1) \div 2
Over(f, t, s) ==
  LET at == NextEvent(f, MiddleOf(s)) IN
  \/ at = Failed \/ at > s[2] \/ at < s[1] \/ s[1] >= s[2] \/ at = s[3] \/ EventTime(f, at) = t
Further(f, t, s) ==
  LET at == NextEvent(f, MiddleOf(s)) IN Narrowed(s, at, EventTime(f, at) < t)
Room(s) == IF s[1] <= s[2] THEN 2 * (s[2] - s[1]) + (IF s[3] = s[2] THEN 0 ELSE 1) ELSE 0

\* A step of the bisection stays in the file, and the room becomes smaller: the
\* middle is behind the left end, and the right end is met once.
LEMMA BracketFacts ==
    ASSUME NEW f \in Seq(Nat), NEW t, NEW s \in Brackets(Len(f))
    PROVE  /\ Room(s) \in Nat /\ Room(s) < 2 * Len(f) + 2
           /\ ~Over(f, t, s) => /\ Further(f, t, s) \in Brackets(Len(f))
                                /\ Room(Further(f, t, s)) < Room(s)
<1> DEFINE n == Len(f)
           at == NextEvent(f, MiddleOf(s))
<1>1. PICK a \in 0..n, b \in 0..n, p \in -n..n : s = <<a, b, p>>
    BY DEF Brackets
<1>2. n \in Nat /\ s[1] = a /\ s[2] = b /\ s[3] = p
    BY <1>1
<1>3. a \in Nat /\ b \in Nat /\ p \in Int /\ a <= n /\ b <= n
    BY <1>2
<1>4. Room(s) = IF a <= b THEN 2 * (b - a) + (IF p = b THEN 0 ELSE 1) ELSE 0
    BY <1>2 DEF Room
<1>5. MiddleOf(s) = (a + b + 1) \div 2
    BY <1>2 DEF MiddleOf
<1> HIDE DEF n
<1>6. Room(s) \in Nat /\ Room(s) < 2 * n + 2
    BY <1>2, <1>3, <1>4
<1>7. ASSUME ~Over(f, t, s)
      PROVE  Further(f, t, s) \in Brackets(n) /\ Room(Further(f, t, s)) < Room(s)
  <2>1. at # Failed /\ ~(at > b) /\ ~(at < a) /\ ~(a >= b) /\ at # p
      BY <1>2, <1>7 DEF Over
  <2>2. MiddleOf(s) \in Nat /\ a < MiddleOf(s)
      BY <1>3, <1>5, <2>1, Middle
  <2>3. at \in Nat /\ MiddleOf(s) <= at
      BY <2>1, <2>2, NextEventFacts
  <2> HIDE DEF at
  <2>4. a < at /\ at <= b /\ a < b /\ at \in 0..n /\ at \in -n..n
      BY <1>2, <1>3, <2>1, <2>2, <2>3
  <2>5. CASE EventTime(f, at) < t
    <3>1. Further(f, t, s) = <<at, b, at>>
        BY <1>2, <2>5 DEF Further, Narrowed, at
    <3>2. Room(<<at, b, at>>) = IF at <= b THEN 2 * (b - at) + (IF at = b THEN 0 ELSE 1) ELSE 0
        BY DEF Room
    <3>3. Room(<<at, b, at>>) < Room(s)
        BY <1>3, <1>4, <2>3, <2>4, <3>2
    <3>4. <<at, b, at>> \in Brackets(n)
        BY <2>4 DEF Brackets
    <3> QED
        BY <3>1, <3>3, <3>4
  <2>6. CASE ~(EventTime(f, at) < t)
    <3>1. Further(f, t, s) = <<a, at, at>>
        BY <1>2, <2>6 DEF Further, Narrowed, at
    <3>2. Room(<<a, at, at>>) = IF a <= at THEN 2 * (at - a) + (IF at = at THEN 0 ELSE 1) ELSE 0
        BY DEF Room
    <3>3. Room(<<a, at, at>>) < Room(s)
        BY <1>3, <1>4, <2>1, <2>3, <2>4, <3>2
    <3>4. <<a, at, at>> \in Brackets(n)
        BY <2>4 DEF Brackets
    <3> QED
        BY <3>1, <3>3, <3>4
  <2> QED
      BY <2>5, <2>6
<1> QED
    BY <1>6, <1>7 DEF n

\* What SeekToTimestamp chooses.
Bisecting(B, f, t) ==
  B = [s \in Brackets(Len(f)) |->
         LET at == NextEvent(f, (s[1] + s[2] + 1) \div 2)
             cur_time == EventTime(f, at)
         IN IF at = Failed THEN Failed
            ELSE IF \/ at > s[2] \/ at < s[1] \/ s[1] >= s[2]
                    \/ at = s[3] \/ cur_time = t
            THEN at
            ELSE B[Narrowed(s, at, cur_time < t)]]

LEMMA BisectingLoops ==
    ASSUME NEW f \in Seq(Nat), NEW t, NEW B
    PROVE  Bisecting(B, f, t) <=>
             /\ B = [s \in Brackets(Len(f)) |-> B[s]]
             /\ \A s \in Brackets(Len(f)) :
                  B[s] = IF Over(f, t, s) THEN NextEvent(f, MiddleOf(s)) ELSE B[Further(f, t, s)]
<1> DEFINE D == Brackets(Len(f))
           Body(s) == LET at == NextEvent(f, (s[1] + s[2] + 1) \div 2)
                          cur_time == EventTime(f, at)
                      IN IF at = Failed THEN Failed
                         ELSE IF \/ at > s[2] \/ at < s[1] \/ s[1] >= s[2]
                                 \/ at = s[3] \/ cur_time = t
                         THEN at
                         ELSE B[Narrowed(s, at, cur_time < t)]
           Turn(s) == IF Over(f, t, s) THEN NextEvent(f, MiddleOf(s)) ELSE B[Further(f, t, s)]
<1>1. \A s : Body(s) = Turn(s)
    BY DEF Over, Further, MiddleOf
<1>2. Bisecting(B, f, t) <=> B = [s \in D |-> Body(s)]
    BY DEF Bisecting
<1> HIDE DEF D, Body, Turn
<1>3. B = [s \in D |-> Body(s)] <=> B = [s \in D |-> B[s]] /\ \A s \in D : B[s] = Turn(s)
    BY <1>1
<1> QED
    BY <1>2, <1>3 DEF D, Turn

\* The bisection ends.
LEMMA BisectionEnds ==
    ASSUME NEW f \in Seq(Nat), NEW t
    PROVE  \E B : Bisecting(B, f, t)
<1> DEFINE D == Brackets(Len(f))
           stop == {s \in D : Over(f, t, s)}
           out == [s \in D |-> NextEvent(f, MiddleOf(s))]
           next == [s \in D |-> Further(f, t, s)]
           mu == [s \in D |-> Room(s)]
           V == {NextEvent(f, MiddleOf(s)) : s \in D} \cup {0}
           N == 2 * Len(f) + 2
<1>1. \A s \in D : mu[s] = Room(s) /\ next[s] = Further(f, t, s) /\ out[s] = NextEvent(f, MiddleOf(s))
    OBVIOUS
<1>2. \A s \in D : s \in stop <=> Over(f, t, s)
    OBVIOUS
<1>3. N \in Nat
    OBVIOUS
<1>4. \A s \in D : out[s] \in V
    OBVIOUS
<1>5. 0 \in V
    OBVIOUS
<1> HIDE DEF mu, next, out, stop, V
<1>6. \A s \in D : mu[s] \in Nat /\ mu[s] < N
    BY <1>1, BracketFacts
<1>7. \A s \in D : s \notin stop => next[s] \in D /\ mu[next[s]] < mu[s]
    BY <1>1, <1>2, BracketFacts
<1> HIDE DEF D, N
<1>8. PICK B \in [D -> V] : Loops(B, D, stop, out, next)
    BY <1>3, <1>4, <1>5, <1>6, <1>7, LoopRecursion
<1>9. \A s \in D : B[s] = IF Over(f, t, s) THEN NextEvent(f, MiddleOf(s)) ELSE B[Further(f, t, s)]
    BY <1>1, <1>2, <1>8 DEF Loops
<1> QED
    BY <1>8, <1>9, BisectingLoops DEF D

\* A seek that succeeds ends at an event that is not before t: what the right end
\* of the bracket has met is none before t, and nothing lies behind the file's.
LEMMA SeekFinds ==
    ASSUME NEW f \in Seq(Nat), NEW m, NEW st, NEW ts, Indexed(f, m, st, ts), NEW t \in Nat,
           SeekToTimestamp(f, t) # Failed
    PROVE  \E i \in 1..m : SeekToTimestamp(f, t) = st[i] /\ ts[i] >= t
<1> DEFINE n == Len(f)
           D == Brackets(n)
           Late(x) == \E i \in 1..m : x = st[i] /\ ts[i] >= t
           Met(s) == /\ s[1] <= s[2] /\ (s[2] = n \/ Late(s[2]))
                     /\ s[3] \in {-n, s[1], s[2]}
           Q == {s \in D : Met(s)}
           stop == {s \in D : Over(f, t, s)}
           out == [s \in D |-> NextEvent(f, MiddleOf(s))]
           next == [s \in D |-> Further(f, t, s)]
           mu == [s \in D |-> Room(s)]
           G == {x \in Int : x = Failed \/ Late(x)}
           B == CHOOSE B : Bisecting(B, f, t)
<1>1. SeekToTimestamp(f, t) = B[<<0, n, -n>>]
    BY DEF SeekToTimestamp, Bisecting, Brackets
<1>2. Bisecting(B, f, t)
    BY BisectionEnds
<1> HIDE DEF B
<1>3. n \in Nat
    OBVIOUS
<1>4. \A s \in D : B[s] = IF Over(f, t, s) THEN NextEvent(f, MiddleOf(s)) ELSE B[Further(f, t, s)]
    BY <1>2, BisectingLoops
<1>5. \A s \in D : /\ mu[s] = Room(s) /\ next[s] = Further(f, t, s) /\ out[s] = NextEvent(f, MiddleOf(s))
                   /\ s \in stop <=> Over(f, t, s)
    OBVIOUS
<1> HIDE DEF mu, next, out, stop
<1>6. Loops(B, D, stop, out, next)
    BY <1>4, <1>5 DEF Loops
<1>7. ASSUME NEW x \in Nat, f[x + 1] = Magic, x + 1 \in 1..n
      PROVE  \E i \in 1..m : x = st[i] /\ EventTime(f, x) = ts[i]
  <2>1. PICK i \in 1..m : x + 1 = st[i] + 1
      BY <1>7 DEF Indexed
  <2>2. st[i] \in Nat /\ EventTime(f, st[i]) = ts[i]
      BY DEF Indexed
  <2>3. x = st[i]
      BY <2>1, <2>2
  <2> QED
      BY <2>2, <2>3
<1>8. ASSUME NEW s \in D, Met(s)
      PROVE  LET at == NextEvent(f, MiddleOf(s)) IN
             /\ at = Failed \/ (at \in Nat /\ at >= s[1] /\ (s[1] < s[2] => at > s[1]) /\ at < n
                                /\ \E i \in 1..m : at = st[i] /\ EventTime(f, at) = ts[i])
             /\ at \in Nat /\ at >= s[2] => Late(at)
             /\ s[1] \in Nat /\ s[2] \in Nat /\ s[3] \in Int
             /\ s = <<s[1], s[2], s[3]>>
  <2> DEFINE at == NextEvent(f, MiddleOf(s))
  <2>1. PICK a \in 0..n, b \in 0..n, p \in -n..n : s = <<a, b, p>>
      BY DEF Brackets
  <2>2. /\ s[1] = a /\ s[2] = b /\ s[3] = p /\ s = <<s[1], s[2], s[3]>>
        /\ a \in Nat /\ b \in Nat /\ p \in Int
      BY <2>1
  <2>3. a <= b /\ (b = n \/ Late(b))
      BY <1>8, <2>2
  <2>4. MiddleOf(s) = (a + b + 1) \div 2
      BY <2>2 DEF MiddleOf
  <2>5. MiddleOf(s) \in Nat /\ a <= MiddleOf(s) /\ MiddleOf(s) <= b /\ (a < b => a < MiddleOf(s))
      BY <2>2, <2>3, <2>4, Middle
  <2>6. CASE at = Failed
      BY <2>2, <2>6 DEF Failed
  <2>7. CASE at # Failed
    <3>1. /\ at \in Nat /\ MiddleOf(s) <= at /\ at + 5 <= n /\ at + 1 \in 1..n /\ f[at + 1] = Magic
          /\ \A q \in MiddleOf(s) + 1..n : f[q] = Magic => at + 1 <= q
        BY <2>5, <2>7, NextEventFacts
    <3> HIDE DEF at, n
    <3>2. PICK i \in 1..m : at = st[i] /\ EventTime(f, at) = ts[i]
        BY <1>7, <3>1
    <3>3. at >= a /\ (a < b => at > a) /\ at < n
        BY SMTT(30), <1>3, <2>2, <2>5, <3>1
    <3>4. ASSUME at >= b PROVE Late(at)
      <4>1. PICK j \in 1..m : b = st[j] /\ ts[j] >= t
          BY <1>3, <2>2, <2>3, <3>1, <3>3, <3>4
      <4>2. b + 1 \in 1..n /\ f[b + 1] = Magic
          BY <4>1 DEF Indexed, n
      <4>3. b + 1 \in MiddleOf(s) + 1..n
          BY <1>3, <2>2, <2>5, <4>2
      <4>4. at + 1 <= b + 1
          BY <3>1, <4>2, <4>3
      <4>5. at = b
          BY <2>2, <3>1, <3>4, <4>4
      <4> QED
          BY <4>1, <4>5
    <3> HIDE DEF Late
    <3> QED
        BY <2>2, <3>1, <3>2, <3>3, <3>4 DEF at, n
  <2> QED
      BY <2>6, <2>7
<1>9. \A s \in Q : s \in stop => out[s] \in G
  <2> SUFFICES ASSUME NEW s \in D, Met(s), Over(f, t, s)
               PROVE  NextEvent(f, MiddleOf(s)) \in G
      BY <1>5
  <2> DEFINE at == NextEvent(f, MiddleOf(s))
  <2>1. /\ at = Failed \/ (at \in Nat /\ at >= s[1] /\ (s[1] < s[2] => at > s[1]) /\ at < n
                          /\ \E i \in 1..m : at = st[i] /\ EventTime(f, at) = ts[i])
        /\ at \in Nat /\ at >= s[2] => Late(at)
        /\ s[1] \in Nat /\ s[2] \in Nat /\ s[3] \in Int
      BY <1>8
  <2>2. /\ s[1] <= s[2] /\ s[3] \in {-n, s[1], s[2]}
        /\ at = Failed \/ at > s[2] \/ at < s[1] \/ s[1] >= s[2] \/ at = s[3] \/ EventTime(f, at) = t
      BY DEF Over
  <2> HIDE DEF at
  <2> SUFFICES at \in G
      BY DEF at
  <2>3. CASE at = Failed
      BY <2>3 DEF Failed
  <2>4. CASE at # Failed /\ at >= s[2]
      BY <2>1, <2>4
  <2>5. CASE at # Failed /\ ~(at >= s[2])
    <3>1. PICK i \in 1..m : at = st[i] /\ EventTime(f, at) = ts[i]
        BY <2>1, <2>5
    <3>2. at \in Nat /\ at # s[3]
        BY SMTT(30), <1>3, <2>1, <2>2, <2>5
    <3>3. EventTime(f, at) = t
        BY SMTT(30), <2>1, <2>2, <2>5, <3>2
    <3>4. ts[i] >= t
        BY <3>1, <3>3
    <3>5. Late(at)
        BY <3>1, <3>4
    <3> QED
        BY <3>2, <3>5
  <2> QED
      BY <2>3, <2>4, <2>5
<1>10. \A s \in Q : s \notin stop => next[s] \in Q /\ mu[next[s]] < mu[s]
  <2> SUFFICES ASSUME NEW s \in D, Met(s), ~Over(f, t, s)
               PROVE  LET r == Further(f, t, s) IN r \in D /\ Met(r) /\ Room(r) < Room(s)
      BY <1>5
  <2> DEFINE at == NextEvent(f, MiddleOf(s))
  <2>1. Further(f, t, s) \in D /\ Room(Further(f, t, s)) < Room(s)
      BY BracketFacts
  <2>2. /\ at = Failed \/ (at \in Nat /\ \E i \in 1..m : at = st[i] /\ EventTime(f, at) = ts[i])
        /\ s[1] \in Nat /\ s[2] \in Nat
      BY <1>8
  <2>3. /\ at # Failed /\ ~(at > s[2]) /\ ~(at < s[1]) /\ EventTime(f, at) # t
        /\ s[2] = n \/ Late(s[2])
      BY DEF Over
  <2>4. Further(f, t, s) = IF EventTime(f, at) < t THEN <<at, s[2], at>> ELSE <<s[1], at, at>>
      BY DEF Further, Narrowed
  <2> HIDE DEF at
  <2>5. at \in Nat /\ s[1] <= at /\ at <= s[2]
      BY <2>2, <2>3
  <2>6. CASE EventTime(f, at) < t
    <3>1. Further(f, t, s) = <<at, s[2], at>>
        BY <2>4, <2>6
    <3>2. Met(<<at, s[2], at>>)
        BY <2>3, <2>5
    <3> QED
        BY <2>1, <3>1, <3>2
  <2>7. CASE ~(EventTime(f, at) < t)
    <3>1. Further(f, t, s) = <<s[1], at, at>>
        BY <2>4, <2>7
    <3>2. PICK i \in 1..m : at = st[i] /\ EventTime(f, at) = ts[i]
        BY <2>2, <2>3
    <3>3. ts[i] >= t
      <4>1. ts[i] \in Nat
          BY DEF Indexed
      <4> QED
          BY <2>7, <3>2, <4>1
    <3>4. Late(at)
        BY <3>2, <3>3
    <3>5. Met(<<s[1], at, at>>)
        BY <2>5, <3>4
    <3> QED
        BY <2>1, <3>1, <3>5
  <2> QED
      BY <2>6, <2>7
<1>11. \A s \in Q : mu[s] \in Nat
    BY <1>5, BracketFacts
<1>12. <<0, n, -n>> \in Q
    BY <1>3 DEF Brackets
<1> HIDE DEF Q, G, D
<1>13. Keeps(D, stop, out, next, mu, Q, G)
    BY <1>9, <1>10, <1>11 DEF Keeps, Q
<1>14. \A s \in Q : B[s] \in G
    BY <1>6, <1>13, LoopInvariant
<1>15. B[<<0, n, -n>>] \in G
    BY <1>12, <1>14
<1> QED
    BY <1>1, <1>15 DEF G

\* The words of an event whose lengths are not the magic.
Whole(f, pos, w) ==
  /\ pos + Len(w) <= Len(f) /\ \A k \in 1..Len(w) : f[pos + k] = w[k]
  /\ w[6] # Magic /\ w[7] # Magic

\* Where an event begins, that event is read.
LEMMA ReadsEvent ==
    ASSUME NEW f \in Seq(Nat), NEW pos \in Nat, NEW n \in Nat, NEW e \in Event,
           NEW w \in Seq(Nat), w = EventWords(n, e), Whole(f, pos, w)
    PROVE  ReadNext(f, pos).kind = "event" /\ ReadNext(f, pos).event = e
<1> USE DEF Whole
<1> DEFINE r == ReadNext(f, pos)
           ms == Magics(f, pos)
           p == Min(ms)
           body == p + 6 + Field(f, p + 5)
<1>1. Len(w) \in Nat /\ Len(w) >= 7 /\ w[1] = Magic
  <2>1. e.channel \in Seq(Nat) /\ e.data \in Seq(Nat)
      BY DEF Event, Channels
  <2>2. Len(e.channel) \in Nat /\ Len(e.data) \in Nat
      BY <2>1
  <2>3. /\ EventWords(n, e) \in Seq(Nat) /\ Len(EventWords(n, e)) = 7 + Len(e.channel) + Len(e.data)
        /\ EventWords(n, e)[1] = Magic
      BY EventWordsFacts
  <2>4. Len(w) = 7 + Len(e.channel) + Len(e.data)
      BY <2>3
  <2>5. PICK a \in Nat, b \in Nat : a = Len(e.channel) /\ b = Len(e.data)
      BY <2>2
  <2>6. Len(w) = 7 + a + b
      BY <2>4, <2>5
  <2>7. Len(w) \in Nat /\ Len(w) >= 7
      BY <2>6
  <2> QED
      BY <2>3, <2>7
<1>2. Len(f) \in Nat /\ pos + 7 <= Len(f) /\ pos + Len(w) <= Len(f)
    BY <1>1
<1>3. p = pos + 1
  <2>1. ms \in SUBSET Nat /\ \A q \in ms : pos + 1 <= q
      BY <1>2 DEF Magics
  <2>2. pos + 1 \in ms
    <3>1. f[pos + 1] = w[1]
      <4>1. 1 \in 1..Len(w)
          BY <1>1
      <4> QED
          BY <4>1
    <3>2. pos + 1 \in pos + 1..Len(f)
        BY <1>2
    <3> QED
        BY <1>1, <3>1, <3>2 DEF Magics
  <2> HIDE DEF ms
  <2>3. p \in ms /\ p <= pos + 1
      BY <2>1, <2>2, MinLeast
  <2> HIDE DEF p
  <2> QED
      BY <2>1, <2>3
<1>4. Field(f, p + 5) = w[6] /\ Field(f, p + 6) = w[7]
  <2> HIDE DEF p
  <2>1. p + 5 = pos + 6 /\ p + 6 = pos + 7 /\ pos + 6 <= Len(f) /\ pos + 7 <= Len(f)
      BY <1>2, <1>3
  <2>2. 6 \in 1..Len(w) /\ 7 \in 1..Len(w)
      BY <1>1
  <2>3. f[pos + 6] = w[6] /\ f[pos + 7] = w[7]
      BY <2>2
  <2> QED
      BY <2>1, <2>3 DEF Field
<1>5. r.kind # "crash"
  <2> DEFINE ch == Field(f, p + 5)
             dl == Field(f, p + 6)
             Eof == [kind |-> "eof", pos |-> Len(f)]
             Read == [kind |-> "event",
                      pos |-> Min({body + dl, Len(f)}),
                      num |-> Field64(f, p + 1),
                      event |-> [timestamp |-> Field64(f, p + 3),
                                 channel |-> SubSeq(f, p + 7, body),
                                 data |-> SubSeq(f, body + 1, body + dl)]]
             Crash == [kind |-> "crash", pos |-> pos]
  <2>1. ch # Magic /\ ~(ch >= ChannelLimit) /\ dl # Magic
    <3>1. Len(e.channel) \in Nat /\ Len(e.channel) < ChannelLimit /\ w[6] = Len(e.channel)
      <4>1. e.channel \in Seq(Nat) /\ Len(e.channel) < ChannelLimit
          BY DEF Event, Channels
      <4>2. w[6] = Len(e.channel)
          BY EventWordsFacts
      <4> QED
          BY <4>1, <4>2
    <3>2. Len(e.channel) = ch /\ w[7] = dl
        BY <1>4, <3>1
    <3> QED
        BY <1>4, <3>1, <3>2, EventLogAssumption
  <2>2. r = IF ms = {} THEN Eof
            ELSE CASE ch = Magic \/ ch >= ChannelLimit -> Crash
                   [] ch > 0 /\ body > Len(f) -> Eof
                   [] dl = Magic -> Crash
                   [] dl > 0 /\ body + dl > Len(f) -> Eof
                   [] OTHER -> Read
      BY DEF ReadNext
  <2>3. Eof.kind = "eof" /\ Read.kind = "event"
      OBVIOUS
  <2> HIDE DEF ms, p, ch, dl, body, Eof, Read, Crash, r
  <2>4. r = Eof \/ r = Read
      BY <2>1, <2>2
  <2> QED
      BY <2>3, <2>4
<1>6. Reads(f, pos, pos + Len(w), e)
    BY ReadThere
<1>7. r.kind \in {"eof", "crash", "event"}
    BY ReadNextType
<1> QED
    BY <1>2, <1>5, <1>6, <1>7 DEF Reads

\* Places that lie one behind the other: those before a place are not behind it,
\* and every position up to the last lies between two neighbours.
LEMMA PlacesAscend ==
    ASSUME NEW m \in Nat, NEW st, \A i \in 1..m + 1 : st[i] \in Nat,
           \A i \in 1..m : st[i] < st[i + 1]
    PROVE  \A j \in 1..m + 1 : \A i \in 1..j : st[i] <= st[j]
<1> DEFINE S == {j \in Nat : j \in 1..m + 1 => \A i \in 1..j : st[i] <= st[j]}
<1>1. 0 \in S
    OBVIOUS
<1>2. ASSUME NEW j \in Nat, j \in S PROVE j + 1 \in S
  <2> SUFFICES ASSUME j + 1 \in 1..m + 1, NEW i \in 1..j + 1 PROVE st[i] <= st[j + 1]
      OBVIOUS
  <2>1. CASE i = j + 1
      BY <2>1
  <2>2. CASE i # j + 1
    <3>1. j \in 1..m /\ i \in 1..j /\ j \in 1..m + 1 /\ i \in 1..m + 1
        BY <2>2
    <3>2. st[i] <= st[j] /\ st[j] < st[j + 1]
        BY <1>2, <3>1
    <3>3. st[i] \in Nat /\ st[j] \in Nat /\ st[j + 1] \in Nat
        BY <3>1
    <3> QED
        BY <3>2, <3>3
  <2> QED
      BY <2>1, <2>2
<1> HIDE DEF S
<1>3. \A j \in Nat : j \in S
    BY <1>1, <1>2, NatSetInduction
<1> QED
    BY <1>3 DEF S

LEMMA PlacesCover ==
    ASSUME NEW m \in Nat, NEW st, \A i \in 1..m + 1 : st[i] \in Nat, st[1] = 0,
           NEW p \in 1..st[m + 1]
    PROVE  \E i \in 1..m : st[i] < p /\ p <= st[i + 1]
<1> DEFINE T == {i \in 1..m + 1 : st[i] < p}
<1>1. T \in SUBSET (0..m + 1) /\ \A i \in T : i \in 1..m + 1 /\ st[i] < p
    OBVIOUS
<1>2. 1 \in T
    OBVIOUS
<1>3. \A i \in 1..m + 1 : i \notin T => ~(st[i] < p)
    OBVIOUS
<1> HIDE DEF T
<1>4. Max(T) \in T /\ \A k \in T : k <= Max(T)
  <2>1. m + 1 \in Nat /\ T # {}
      BY <1>2
  <2> QED
      BY <1>1, <2>1, MaxGreatest
<1>5. PICK i \in 1..m + 1 : i = Max(T) /\ st[i] < p /\ \A k \in T : k <= i
    BY <1>1, <1>4
<1>6. i \in 1..m
    BY <1>5
<1>7. i + 1 \in 1..m + 1 /\ i + 1 \notin T
    BY <1>5, <1>6
<1>8. st[i + 1] \in Nat /\ p \in Nat
    BY <1>7
<1>9. p <= st[i + 1]
    BY <1>3, <1>7, <1>8
<1> QED
    BY <1>5, <1>6, <1>9

LEMMA WordsOf ==
    ASSUME RecordTypes, NEW i \in 1..Written
    PROVE  /\ accepted[i] \in Event /\ accepted[i].timestamp \in Nat /\ i - 1 \in Nat
           /\ Words(i) \in Seq(Nat) /\ Len(Words(i)) \in Nat /\ Len(Words(i)) >= 7
           /\ Words(i)[1] = Magic
           /\ Words(i)[4] = High(accepted[i].timestamp) /\ Words(i)[5] = Low(accepted[i].timestamp)
<1>1. accepted[i] \in Event /\ i - 1 \in Nat
  <2>1. Written \in Nat /\ Written <= Len(accepted) /\ Len(accepted) \in Nat /\ accepted \in Seq(Event)
      BY DEF RecordTypes
  <2>2. i \in 1..Len(accepted) /\ i - 1 \in Nat
      BY <2>1
  <2> QED
      BY <2>1, <2>2, ElementOfSeq
<1>2. PICK e \in Event, n \in Nat : e = accepted[i] /\ n = i - 1
    BY <1>1
<1>3. e.timestamp \in Nat /\ e.channel \in Seq(Nat) /\ e.data \in Seq(Nat)
    BY DEF Event, Channels
<1>4. PICK a \in Nat, b \in Nat : a = Len(e.channel) /\ b = Len(e.data)
    BY <1>3
<1>5. PICK w : w = EventWords(n, e)
    OBVIOUS
<1>6. /\ w \in Seq(Nat) /\ Len(w) = 7 + a + b /\ w[1] = Magic
      /\ w[4] = High(e.timestamp) /\ w[5] = Low(e.timestamp)
    BY <1>4, <1>5, EventWordsFacts
<1>7. Len(w) \in Nat /\ Len(w) >= 7
    BY <1>6
<1>8. w = Words(i)
    BY <1>2, <1>5 DEF Words
<1> QED
    BY <1>1, <1>2, <1>3, <1>6, <1>7, <1>8

\* The events of a clean log are where Laid says, with the magic in front.
LEMMA CleanIndexed ==
    ASSUME RecordTypes, OnlyMarks, mainpc = "done", torn = None, file \in Seq(Nat),
           NEW st, Laid(st)
    PROVE  /\ Indexed(file, Written, st, [i \in 1..Written |-> accepted[i].timestamp])
           /\ \A i \in 1..Written : /\ st[i] \in Nat /\ st[i] + Len(Words(i)) <= Len(file)
                                    /\ \A k \in 1..Len(Words(i)) : file[st[i] + k] = Words(i)[k]
<1> DEFINE ts == [i \in 1..Written |-> accepted[i].timestamp]
           m == Written
<1>1. m \in Nat /\ Len(file) \in Nat /\ m = eventcount /\ m <= Len(accepted) /\ Len(accepted) \in Nat
    BY DEF RecordTypes, Written
<1>2. \A i \in 1..m + 1 : st[i] \in Nat
    BY DEF Laid
<1>3. st[1] = 0 /\ st[m + 1] <= Len(file) /\ Len(file) <= st[m + 1]
    BY DEF Laid
<1>4. m + 1 \in 1..m + 1
    BY <1>1
<1>5. st[m + 1] = Len(file)
    BY <1>1, <1>2, <1>3, <1>4
<1> HIDE DEF m, ts
<1>6. ASSUME NEW i \in 1..m
      PROVE  /\ i \in 1..Written /\ i \in 1..m + 1 /\ i + 1 \in 1..m + 1
             /\ st[i] \in Nat /\ st[i + 1] \in Nat
             /\ Len(Words(i)) \in Nat /\ Len(Words(i)) >= 7
             /\ st[i + 1] = st[i] + Len(Words(i)) /\ st[i + 1] <= Len(file)
  <2>1. i \in 1..Written /\ i \in 1..m + 1 /\ i + 1 \in 1..m + 1
      BY <1>1 DEF m
  <2>2. Len(Words(i)) \in Nat /\ Len(Words(i)) >= 7
      BY <2>1, WordsOf
  <2>3. st[i + 1] = st[i] + Len(Words(i)) /\ st[i + 1] <= st[m + 1]
      BY <2>1 DEF Laid, m
  <2> QED
      BY <1>2, <1>5, <2>1, <2>2, <2>3
<1>7. \A i \in 1..m : st[i] < st[i + 1]
  <2> TAKE i \in 1..m
  <2>1. st[i] \in Nat /\ Len(Words(i)) \in Nat /\ Len(Words(i)) >= 7 /\ st[i + 1] = st[i] + Len(Words(i))
      BY <1>6
  <2> QED
      BY <2>1
<1>8. ASSUME NEW i \in 1..m, NEW k \in 1..Len(Words(i))
      PROVE  file[st[i] + k] = Words(i)[k]
  <2>1. st[i] + k <= Len(file)
    <3>1. st[i] \in Nat /\ Len(Words(i)) \in Nat /\ st[i] + Len(Words(i)) <= Len(file)
        BY <1>6
    <3> QED
        BY <1>1, <3>1
  <2>2. i \in 1..Written
      BY <1>6
  <2> QED
      BY <2>1, <2>2 DEF Laid
<1>9. ASSUME NEW p \in 1..Len(file), file[p] = Magic
      PROVE  \E i \in 1..m : p = st[i] + 1
  <2>1. PICK i \in 1..m : st[i] < p /\ p <= st[i + 1]
      BY <1>1, <1>2, <1>3, <1>5, PlacesCover
  <2>2. /\ st[i] \in Nat /\ Len(Words(i)) \in Nat /\ st[i + 1] = st[i] + Len(Words(i))
      BY <1>6
  <2>3. PICK k \in 1..Len(Words(i)) : p = st[i] + k
    <3>1. p - st[i] \in 1..Len(Words(i)) /\ p = st[i] + (p - st[i])
        BY <2>1, <2>2
    <3> QED
        BY <3>1
  <2>4. Words(i)[k] = Magic
      BY <1>8, <1>9, <2>3
  <2>5. k = 1
    <3> SUFFICES ASSUME k # 1 PROVE FALSE
        OBVIOUS
    <3>1. k \in 2..Len(Words(i)) /\ i \in 1..eventcount
        BY <1>1, <2>2
    <3> QED
        BY <2>4, <3>1 DEF OnlyMarks, Words
  <2> QED
      BY <2>3, <2>5
<1>10. \A i \in 1..m : ts[i] = accepted[i].timestamp /\ ts[i] \in Nat
    BY <1>6, WordsOf DEF ts
<1>11. ASSUME NEW i \in 1..m
       PROVE  EventTime(file, st[i]) = ts[i]
  <2>1. /\ st[i] \in Nat /\ Len(Words(i)) \in Nat /\ Len(Words(i)) >= 7
        /\ st[i] + Len(Words(i)) <= Len(file) /\ i \in 1..Written
      BY <1>6
  <2>2. /\ accepted[i].timestamp \in Nat
        /\ Words(i)[4] = High(accepted[i].timestamp) /\ Words(i)[5] = Low(accepted[i].timestamp)
      BY <2>1, WordsOf
  <2>3. st[i] + 4 < Len(file) /\ st[i] + 4 + 1 = st[i] + 5 /\ 4 \in 1..Len(Words(i)) /\ 5 \in 1..Len(Words(i))
      BY SMTT(30), <1>1, <2>1
  <2>4. file[st[i] + 4] = Words(i)[4] /\ file[st[i] + 5] = Words(i)[5]
      BY <1>8, <2>3
  <2>5. Field64(file, st[i] + 4) = file[st[i] + 4] * Radix + file[st[i] + 5]
      BY <2>3 DEF Field64
  <2>6. Field64(file, st[i] + 4) = High(accepted[i].timestamp) * Radix + Low(accepted[i].timestamp)
      BY <2>2, <2>4, <2>5
  <2>7. Field64(file, st[i] + 4) = accepted[i].timestamp
      BY <2>2, <2>6, HighLow
  <2> QED
      BY <1>10, <2>7 DEF EventTime
<1>12. ASSUME NEW i \in 1..m
       PROVE  st[i] + 1 \in 1..Len(file) /\ file[st[i] + 1] = Magic
  <2>1. /\ i \in 1..Written /\ st[i] \in Nat /\ st[i + 1] \in Nat
        /\ Len(Words(i)) \in Nat /\ Len(Words(i)) >= 7
        /\ st[i + 1] = st[i] + Len(Words(i)) /\ st[i + 1] <= Len(file)
      BY <1>6
  <2>2. 1 \in 1..Len(Words(i)) /\ st[i] + 1 \in 1..Len(file)
      BY SMTT(30), <1>1, <2>1
  <2>3. file[st[i] + 1] = Words(i)[1]
      BY <1>8, <2>2
  <2> QED
      BY <2>1, <2>2, <2>3, WordsOf
<1>13. Indexed(file, m, st, ts)
    BY <1>1, <1>6, <1>9, <1>10, <1>11, <1>12 DEF Indexed
<1>14. ASSUME NEW i \in 1..m PROVE st[i] \in Nat /\ st[i] + Len(Words(i)) <= Len(file)
  <2>1. st[i] \in Nat /\ st[i + 1] = st[i] + Len(Words(i)) /\ st[i + 1] <= Len(file)
      BY <1>6
  <2> QED
      BY <2>1
<1> QED
    BY <1>8, <1>13, <1>14 DEF m, ts

\* A seek in a log that was recorded to its end, for any messages and any time
\* asked for, fails or ends at a recorded event that is not before that time, as
\* long as no event contains the magic and whatever order the times are in
\* (lcm_eventlog_seek_to_timestamp, eventlog.c:152-193): the bisection ends, since
\* its bracket becomes smaller or meets its right end, and what it has found at the
\* right end is never early.
THEOREM SeekLandsOnRecorded == Spec => []SeekLands
<1>1. RecordInv /\ ReplayInv /\ IInv => SeekLands
  <2> SUFFICES ASSUME RecordInv, ReplayInv, IInv, mainpc = "done", torn = None, OnlyMarks,
                      NEW t \in 0..MaxTime, SeekToTimestamp(file, t) # Failed
               PROVE  LET r == ReadNext(file, SeekToTimestamp(file, t)) IN
                      /\ r.kind = "event" /\ r.event.timestamp >= t
                      /\ \E i \in DOMAIN accepted : accepted[i] = r.event
      BY DEF SeekLands
  <2>1. RecordTypes /\ file \in Seq(Nat) /\ t \in Nat
      BY PlayerAssumption DEF RecordInv, IInv, PlayerIInv
  <2>2. PICK st : Laid(st)
      BY DEF ReplayInv
  <2> DEFINE ts == [i \in 1..Written |-> accepted[i].timestamp]
  <2>3. /\ Indexed(file, Written, st, ts)
        /\ \A i \in 1..Written : /\ st[i] \in Nat /\ st[i] + Len(Words(i)) <= Len(file)
                                 /\ \A k \in 1..Len(Words(i)) : file[st[i] + k] = Words(i)[k]
      BY <2>1, <2>2, CleanIndexed
  <2>4. \A i \in 1..Written : ts[i] = accepted[i].timestamp
      OBVIOUS
  <2> HIDE DEF ts
  <2>5. PICK i \in 1..Written : SeekToTimestamp(file, t) = st[i] /\ ts[i] >= t
      BY <2>1, <2>3, SeekFinds
  <2>6. /\ accepted[i] \in Event /\ i - 1 \in Nat /\ Words(i) \in Seq(Nat)
        /\ Len(Words(i)) \in Nat /\ Len(Words(i)) >= 7
      BY <2>1, WordsOf
  <2>7. Words(i)[6] # Magic /\ Words(i)[7] # Magic
    <3>1. i \in 1..eventcount
        BY DEF Written
    <3>2. 6 \in 2..Len(Words(i)) /\ 7 \in 2..Len(Words(i))
        BY <2>6
    <3> QED
        BY <3>1, <3>2 DEF OnlyMarks, Words
  <2>8. PICK pos \in Nat, n \in Nat, e \in Event, w \in Seq(Nat) :
          pos = st[i] /\ n = i - 1 /\ e = accepted[i] /\ w = Words(i)
      BY <2>3, <2>6
  <2>9. w = EventWords(n, e)
      BY <2>8 DEF Words
  <2>10. Whole(file, pos, w)
      BY <2>3, <2>7, <2>8 DEF Whole
  <2>11. ReadNext(file, pos).kind = "event" /\ ReadNext(file, pos).event = e
      BY <2>1, <2>9, <2>10, ReadsEvent
  <2>12. i \in DOMAIN accepted
    <3>1. accepted \in Seq(Event) /\ Written \in Nat /\ Written <= Len(accepted)
        BY <2>1 DEF RecordTypes
    <3>2. DOMAIN accepted = 1..Len(accepted) /\ Len(accepted) \in Nat
        BY <3>1
    <3> QED
        BY <3>1, <3>2
  <2> QED
      BY <2>4, <2>5, <2>8, <2>11, <2>12
<1> QED
    BY <1>1, SpecInv, ReplaySpec, PTL
=============================================================================
