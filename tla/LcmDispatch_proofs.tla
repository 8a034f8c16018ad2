-------------------------- MODULE LcmDispatch_proofs --------------------------
(***************************************************************************)
(* Subscriptions and dispatch for any channels, patterns, number of        *)
(* subscriptions and nesting: the two tables agree, and what the loops of  *)
(* lcm_dispatch_handlers reach and do not reach while subscriptions come   *)
(* and go.                                                                 *)
(***************************************************************************)
EXTENDS LcmDispatch, Induction, SequenceTheorems, TLAPS

-----------------------------------------------------------------------------
(* The invariant.                                                          *)

Registered == 1..made

Types ==
    /\ made \in 0..MaxSubs /\ broken \in BOOLEAN
    /\ all \in Seq(Subs) /\ IsInjective(all)
    /\ ToSet(all) \cup marked \cup freed \subseteq Registered
    /\ lists \in [Channels -> Array]
    /\ \A c \in Channels :
        /\ lists[c].len <= Len(lists[c].slots)
        /\ ToSet(lists[c].slots) \subseteq Registered
        /\ ~lists[c].known => lists[c].len = 0
    /\ disp \in Seq(Frame)

\* Every subscription made is in handlers_all, or has been unsubscribed and then
\* freed, at once or after the dispatch that has it scheduled.
Fates ==
    /\ Registered \subseteq ToSet(all) \cup marked \cup freed
    /\ ToSet(all) \cap (marked \cup freed) = {}

FrameSlots(f) == lists[f.chan].slots

\* A dispatch in progress: its loops stay within the slots written, and it had
\* every matching subscription that was there when it began.
InRange(f) ==
    /\ lists[f.chan].known
    /\ f.n = Len(f.todo) /\ f.at \in 1..f.n /\ f.n <= Len(FrameSlots(f))
    /\ f.upto <= made /\ f.called # <<>>
    /\ ToSet(f.todo) \subseteq 1..f.upto
    /\ \A h \in ToSet(all) : h <= f.upto /\ f.chan \in Matches[h] => h \in ToSet(f.todo)

\* While nothing it could reach is unsubscribed, the slots it reads are as they
\* were, and it has called the handlers up to where it is.
Undisturbed(f) ==
    ToSet(f.todo) \cup (f.upto + 1..made) \subseteq ToSet(all) =>
        /\ f.n <= lists[f.chan].len
        /\ \A j \in 1..f.n : FrameSlots(f)[j] = f.todo[j]
        /\ f.called = SubSeq(f.todo, 1, f.at)

\* While nothing is subscribed, a handler that is still there has been called or
\* is in a slot ahead, wherever removals have moved it.
Ahead(f) ==
    f.upto = made =>
        /\ lists[f.chan].len <= f.n
        /\ \A h \in ToSet(f.todo) \cap ToSet(all) :
            h \in ToSet(f.called) \/ \E j \in f.at + 1..f.n : FrameSlots(f)[j] = h

\* Only the innermost dispatch has had no other nested in it, and what it reads
\* is scheduled, so that unsubscribing only marks it.
Protected(k) ==
    disp[k].alone =>
        /\ k = Len(disp)
        /\ disp[k].upto = made =>
             \A j \in 1..disp[k].n : FrameSlots(disp[k])[j] \in scheduled \ freed

Frames ==
    \A k \in 1..Len(disp) :
        /\ InRange(disp[k]) /\ Undisturbed(disp[k]) /\ Ahead(disp[k])
        /\ Protected(k)

IInv == Types /\ Fates /\ ListsAgree /\ Frames

-----------------------------------------------------------------------------
(* What lcm_get_handlers finds.                                            *)

\* What lcm_get_handlers puts into a new array: the subscriptions that match.
LEMMA MatchingFacts ==
    ASSUME NEW c \in Channels, Types
    PROVE  /\ Matching(c) \in Seq(Subs) /\ IsInjective(Matching(c))
           /\ ToSet(Matching(c)) = {h \in ToSet(all) : c \in Matches[h]}
<1> DEFINE N == Len(all)
           F == CHOOSE f : f = [n \in 0..N |->
                    IF n = 0 THEN <<>>
                    ELSE IF c \in Matches[all[n]] THEN Append(f[n - 1], all[n]) ELSE f[n - 1]]
           g == [x \in Nat \X Seq(Subs) |->
                    IF x[1] \in 1..N /\ c \in Matches[all[x[1]]]
                    THEN Append(x[2], all[x[1]]) ELSE x[2]]
           Upto(n) == {h \in Subs : \E i \in 1..n : all[i] = h /\ c \in Matches[h]}
           S == {n \in Nat : n <= N => /\ F[n] \in Seq(Subs) /\ IsInjective(F[n])
                                        /\ ToSet(F[n]) = Upto(n)}
<1>1. /\ N \in Nat /\ \A i \in 1..N : all[i] \in Subs
      /\ DOMAIN all = 1..N /\ IsInjective(all)
    BY DEF Types
<1>2. F = [n \in 0..N |->
              IF n = 0 THEN <<>>
              ELSE IF c \in Matches[all[n]] THEN Append(F[n - 1], all[n]) ELSE F[n - 1]]
  <2>1. g \in [Nat \X Seq(Subs) -> Seq(Subs)]
      BY <1>1
  <2>2. PICK f : Solves(f, N, Seq(Subs), <<>>, g)
    <3>1. <<>> \in Seq(Subs) /\ N \in Nat
        BY <1>1
    <3> HIDE DEF g, N
    <3> QED
        BY <2>1, <3>1, Recursion
  <2>3. \A n \in 1..N :
            g[<<n, f[n - 1]>>] = IF c \in Matches[all[n]]
                                 THEN Append(f[n - 1], all[n]) ELSE f[n - 1]
    <3> SUFFICES ASSUME NEW n \in 1..N
                 PROVE  g[<<n, f[n - 1]>>] = IF c \in Matches[all[n]]
                                 THEN Append(f[n - 1], all[n]) ELSE f[n - 1]
        OBVIOUS
    <3>1. f[n - 1] \in Seq(Subs) /\ n \in Nat
        BY <1>1, <2>2 DEF Solves
    <3> QED
        BY <3>1
  <2>4. f = [n \in 0..N |->
              IF n = 0 THEN <<>>
              ELSE IF c \in Matches[all[n]] THEN Append(f[n - 1], all[n]) ELSE f[n - 1]]
    <3> HIDE DEF g, N
    <3>1. /\ \A n \in 1..N :
                f[n] = IF c \in Matches[all[n]] THEN Append(f[n - 1], all[n]) ELSE f[n - 1]
          /\ f[0] = <<>> /\ f = [n \in 0..N |-> f[n]]
        BY <2>2, <2>3 DEF Solves
    <3>2. \A n \in 0..N : n # 0 => n \in 1..N
      <4>1. N \in Nat
          BY <1>1
      <4> QED
          BY <4>1
    <3>3. \A n \in 0..N :
              f[n] = IF n = 0 THEN <<>>
                     ELSE IF c \in Matches[all[n]] THEN Append(f[n - 1], all[n]) ELSE f[n - 1]
        BY <3>1, <3>2
    <3> QED
        BY <3>1, <3>3
  <2> QED
      BY <2>4
<1> HIDE DEF F, g
<1>3. 0 \in S
  <2>1. F[0] = <<>>
      BY <1>1, <1>2
  <2>2. Upto(0) = {} /\ ToSet(<<>>) = {} /\ IsInjective(<<>>)
      BY DEF ToSet, IsInjective
  <2>3. <<>> \in Seq(Subs)
      OBVIOUS
  <2> HIDE DEF Upto
  <2> QED
      BY <2>1, <2>2, <2>3
<1>4. ASSUME NEW n \in Nat, n \in S PROVE n + 1 \in S
  <2> SUFFICES ASSUME n + 1 <= N
               PROVE  /\ F[n + 1] \in Seq(Subs) /\ IsInjective(F[n + 1])
                      /\ ToSet(F[n + 1]) = Upto(n + 1)
      OBVIOUS
  <2>1. /\ F[n] \in Seq(Subs) /\ IsInjective(F[n]) /\ ToSet(F[n]) = Upto(n)
        /\ n + 1 \in 1..N /\ all[n + 1] \in Subs
      BY <1>1, <1>4
  <2>2. F[n + 1] = IF c \in Matches[all[n + 1]] THEN Append(F[n], all[n + 1]) ELSE F[n]
    <3>1. n + 1 \in 0..N /\ n + 1 # 0 /\ (n + 1) - 1 = n
        BY <1>1
    <3> HIDE DEF N
    <3> QED
        BY <1>2, <3>1
  <2>3. \A i \in 1..n + 1 : i \in 1..n \/ i = n + 1
      OBVIOUS
  <2>4. 1..n \subseteq 1..n + 1 /\ n + 1 \in 1..n + 1
      OBVIOUS
  <2>5. CASE c \in Matches[all[n + 1]]
    <3>1. Upto(n + 1) = Upto(n) \cup {all[n + 1]}
        BY <2>1, <2>3, <2>4, <2>5
    <3>2. all[n + 1] \notin Upto(n)
      <4>1. \A i \in 1..n : i \in DOMAIN all /\ n + 1 \in DOMAIN all /\ i # n + 1
          BY <1>1, <2>1
      <4> QED
          BY <1>1, <4>1 DEF IsInjective
    <3> HIDE DEF Upto
    <3>3. F[n + 1] = Append(F[n], all[n + 1])
        BY <2>2, <2>5
    <3>4. F[n + 1] \in Seq(Subs) /\ ToSet(F[n + 1]) = Upto(n + 1)
      <4> HIDE DEF N, S
      <4>1. /\ Append(F[n], all[n + 1]) \in Seq(Subs)
            /\ ToSet(Append(F[n], all[n + 1])) = ToSet(F[n]) \cup {all[n + 1]}
          BY <2>1, AppendFacts
      <4> QED
          BY <2>1, <3>1, <3>3, <4>1
    <3>5. IsInjective(F[n + 1])
        BY <2>1, <3>2, <3>3, InjectiveAppend
    <3> QED
        BY <3>4, <3>5
  <2>6. CASE c \notin Matches[all[n + 1]]
    <3>1. Upto(n + 1) = Upto(n)
        BY <2>1, <2>3, <2>4, <2>6
    <3> QED
        BY <2>1, <2>2, <2>6, <3>1
  <2> QED
      BY <2>5, <2>6
<1>5. N \in S
  <2> HIDE DEF S
  <2> QED
      BY <1>1, <1>3, <1>4, NatSetInduction
<1>6. Matching(c) = F[N]
    BY DEF Matching, F
<1>7. Upto(N) = {h \in ToSet(all) : c \in Matches[h]}
    BY <1>1 DEF ToSet
<1> QED
    BY <1>1, <1>5, <1>6, <1>7

-----------------------------------------------------------------------------
(* A GPtrArray.                                                            *)

Sound(l) == l \in Array /\ l.len <= Len(l.slots)

LEMMA LiveFacts ==
    ASSUME NEW l, Sound(l)
    PROVE  /\ Live(l) \in Seq(Subs) /\ Len(Live(l)) = l.len /\ DOMAIN Live(l) = 1..l.len
           /\ \A i \in 1..l.len : Live(l)[i] = l.slots[i]
           /\ ToSet(Live(l)) = {l.slots[i] : i \in 1..l.len}
<1>1. /\ Live(l) \in Seq(Subs) /\ Len(Live(l)) = l.len /\ DOMAIN Live(l) = 1..l.len
      /\ \A i \in 1..l.len : Live(l)[i] = l.slots[i]
    BY DEF Live, Sound, Array
<1>2. ToSet(Live(l)) = {l.slots[i] : i \in 1..l.len}
    BY <1>1 DEF ToSet
<1> QED
    BY <1>1, <1>2

\* A new handler goes behind the live ones; what is in the slots up to there
\* stays.
LEMMA AddedFacts ==
    ASSUME NEW l, Sound(l), NEW h \in Subs
    PROVE  /\ Sound(Added(l, h)) /\ Added(l, h).known = l.known
           /\ Added(l, h).len = l.len + 1
           /\ Added(l, h).slots[l.len + 1] = h
           /\ \A i \in 1..Len(l.slots) : i # l.len + 1 => Added(l, h).slots[i] = l.slots[i]
           /\ Len(Added(l, h).slots) >= Len(l.slots)
           /\ ToSet(Added(l, h).slots) \subseteq ToSet(l.slots) \cup {h}
<1>1. l.slots \in Seq(Subs) /\ l.len \in Nat /\ l.known \in BOOLEAN /\ Len(l.slots) \in Nat
    BY DEF Sound, Array
<1>2. CASE l.len < Len(l.slots)
  <2> DEFINE t == [l.slots EXCEPT ![l.len + 1] = h]
  <2>1. t \in Seq(Subs) /\ Len(t) = Len(l.slots) /\ DOMAIN t = DOMAIN l.slots
      BY <1>1, <1>2
  <2>2. \A i \in 1..Len(l.slots) : t[i] = IF i = l.len + 1 THEN h ELSE l.slots[i]
      BY <1>1, <1>2
  <2>3. ToSet(t) \subseteq ToSet(l.slots) \cup {h}
      BY <1>1, <2>1, <2>2 DEF ToSet
  <2>4. Added(l, h) = [l EXCEPT !.len = l.len + 1, !.slots = t]
      BY <1>2 DEF Added, Sound, Array
  <2>5. /\ Added(l, h) \in Array /\ Added(l, h).slots = t
        /\ Added(l, h).len = l.len + 1 /\ Added(l, h).known = l.known
    <3> HIDE DEF t
    <3>1. l \in Array /\ l.len + 1 \in Nat
        BY <1>1 DEF Sound
    <3> DEFINE n == l.len + 1
    <3> HIDE DEF n
    <3>2. n \in Nat
        BY <3>1 DEF n
    <3>3. \A r : r = [l EXCEPT !.len = n, !.slots = t]
                => r \in Array /\ r.slots = t /\ r.len = n /\ r.known = l.known
        BY <2>1, <3>1, <3>2 DEF Array
    <3> QED
        BY <2>4, <3>3, Zenon DEF n
  <2> HIDE DEF t
  <2> QED
      BY <1>1, <1>2, <2>1, <2>2, <2>3, <2>5 DEF Sound
<1>3. CASE l.len = Len(l.slots)
  <2> DEFINE t == Append(l.slots, h)
  <2>1. /\ t \in Seq(Subs) /\ Len(t) = Len(l.slots) + 1
        /\ \A i \in 1..Len(l.slots) : t[i] = l.slots[i]
        /\ t[Len(l.slots) + 1] = h
        /\ ToSet(t) = ToSet(l.slots) \cup {h}
      BY <1>1, AppendFacts
  <2>2. Added(l, h) = [l EXCEPT !.len = l.len + 1, !.slots = t]
    <3>1. ~(l.len < Len(l.slots))
        BY <1>1, <1>3
    <3> QED
        BY <3>1 DEF Added, Sound, Array
  <2> HIDE DEF t
  <2>3. /\ Added(l, h) \in Array /\ Added(l, h).slots = t
        /\ Added(l, h).len = l.len + 1 /\ Added(l, h).known = l.known
    <3>1. l \in Array /\ l.len + 1 \in Nat
        BY <1>1 DEF Sound
    <3> DEFINE n == l.len + 1
    <3> HIDE DEF n
    <3>2. n \in Nat
        BY <3>1 DEF n
    <3>3. \A r : r = [l EXCEPT !.len = n, !.slots = t]
                => r \in Array /\ r.slots = t /\ r.len = n /\ r.known = l.known
        BY <2>1, <3>1, <3>2 DEF Array
    <3> QED
        BY <2>2, <3>3, Zenon DEF n
  <2> QED
      BY <1>1, <1>3, <2>1, <2>3 DEF Sound
<1> QED
    BY <1>1, <1>2, <1>3 DEF Sound

\* A removal changes one slot, where the removed handler was, and shortens the
\* array by one; all that remain are live still.
LEMMA RemovedFastFacts ==
    ASSUME NEW l, Sound(l), IsInjective(Live(l)), NEW h \in ToSet(Live(l))
    PROVE  /\ Sound(RemovedFast(l, h)) /\ RemovedFast(l, h).known = l.known
           /\ RemovedFast(l, h).len = l.len - 1
           /\ Len(RemovedFast(l, h).slots) = Len(l.slots)
           /\ \E i \in 1..l.len :
                /\ l.slots[i] = h
                /\ RemovedFast(l, h).slots = [l.slots EXCEPT ![i] = l.slots[l.len]]
           /\ IsInjective(Live(RemovedFast(l, h)))
           /\ ToSet(Live(RemovedFast(l, h))) = ToSet(Live(l)) \ {h}
<1> DEFINE I == {i \in 1..Len(l.slots) : l.slots[i] = h}
           i == Min(I)
           t == [l.slots EXCEPT ![i] = l.slots[l.len]]
           r == RemovedFast(l, h)
<1>1. l.slots \in Seq(Subs) /\ l.len \in Nat /\ l.known \in BOOLEAN /\ Len(l.slots) \in Nat
    BY DEF Sound, Array
<1>2. PICK j \in 1..l.len : l.slots[j] = h
    BY LiveFacts
<1>3. l.len <= Len(l.slots) /\ j \in 1..Len(l.slots)
    BY <1>1, <1>2 DEF Sound
<1>4. i \in 1..l.len /\ l.slots[i] = h
  <2>1. I \in SUBSET Nat /\ j \in I
      BY <1>2, <1>3
  <2>2. i \in I /\ i <= j
    <3> HIDE DEF I
    <3> QED
        BY <2>1, MinLeast
  <2> HIDE DEF i
  <2> QED
      BY <1>1, <1>2, <1>3, <2>2
<1>5. r = [l EXCEPT !.len = @ - 1, !.slots[i] = l.slots[l.len]]
  <2>1. Contains(Live(l), h)
      BY <1>2, LiveFacts DEF Contains
  <2>2. Slot(l, h) = i
      BY <1>2, <1>3 DEF Slot, SelectInSeq
  <2> HIDE DEF i
  <2> QED
      BY <2>1, <2>2 DEF RemovedFast
<1> HIDE DEF i, I
<1>6. /\ t \in Seq(Subs) /\ Len(t) = Len(l.slots)
      /\ \A k \in 1..Len(l.slots) : t[k] = IF k = i THEN l.slots[l.len] ELSE l.slots[k]
    BY <1>1, <1>3, <1>4
<1>7. r \in Array /\ r.slots = t /\ r.len = l.len - 1 /\ r.known = l.known
  <2>1. r = [known |-> l.known, slots |-> t, len |-> l.len - 1]
      BY <1>5 DEF Sound, Array
  <2> HIDE DEF r, t
  <2> QED
      BY <1>1, <1>4, <1>6, <2>1 DEF Array
<1> HIDE DEF r
<1>8. Sound(r)
    BY <1>1, <1>3, <1>6, <1>7 DEF Sound
<1>9. /\ DOMAIN Live(r) = 1..l.len - 1
      /\ \A k \in 1..l.len - 1 : Live(r)[k] = IF k = i THEN l.slots[l.len] ELSE l.slots[k]
      /\ ToSet(Live(r)) = {Live(r)[k] : k \in 1..l.len - 1}
  <2>1. /\ DOMAIN Live(r) = 1..r.len
        /\ \A k \in 1..r.len : Live(r)[k] = r.slots[k]
      BY <1>8, LiveFacts
  <2>2. \A k \in 1..l.len - 1 : k \in 1..Len(l.slots)
      BY <1>1, <1>3
  <2> HIDE DEF t
  <2> QED
      BY <1>6, <1>7, <2>1, <2>2 DEF ToSet
<1>10. \A k, m \in 1..l.len : l.slots[k] = l.slots[m] => k = m
    BY LiveFacts DEF IsInjective
<1>11. l.len \in 1..l.len
    BY <1>1, <1>4
<1>12. IsInjective(Live(r))
  <2> SUFFICES ASSUME NEW k \in 1..l.len - 1, NEW m \in 1..l.len - 1,
                      Live(r)[k] = Live(r)[m]
               PROVE  k = m
      BY <1>9 DEF IsInjective
  <2>1. k \in 1..l.len /\ m \in 1..l.len /\ k # l.len /\ m # l.len
      BY <1>1
  <2> QED
      BY <1>9, <1>10, <1>11, <2>1
<1>13. ASSUME NEW k \in 1..l.len - 1 PROVE Live(r)[k] \in ToSet(Live(l)) \ {h}
  <2>1. k \in 1..l.len /\ k # l.len
      BY <1>1
  <2>2. Live(r)[k] \in {l.slots[x] : x \in 1..l.len}
      BY <1>9, <1>11, <2>1
  <2>3. Live(r)[k] # h
      BY <1>4, <1>9, <1>10, <1>11, <2>1
  <2> QED
      BY <2>2, <2>3, LiveFacts
<1>14. ASSUME NEW x \in ToSet(Live(l)) \ {h} PROVE \E k \in 1..l.len - 1 : Live(r)[k] = x
  <2>1. PICK m \in 1..l.len : l.slots[m] = x /\ m # i
      BY <1>4, LiveFacts
  <2>2. CASE m = l.len
    <3>1. i \in 1..l.len - 1
        BY <1>1, <1>4, <2>1, <2>2
    <3> QED
        BY <1>9, <2>1, <2>2, <3>1
  <2>3. CASE m # l.len
    <3>1. m \in 1..l.len - 1
        BY <1>1, <2>3
    <3> QED
        BY <1>9, <2>1, <3>1
  <2> QED
      BY <2>2, <2>3
<1>15. ToSet(Live(r)) = ToSet(Live(l)) \ {h}
    BY <1>9, <1>13, <1>14
<1> QED
    BY <1>4, <1>6, <1>7, <1>8, <1>12, <1>15 DEF r

-----------------------------------------------------------------------------
(* The operations on the two tables.                                       *)

LEMMA TypeFacts ==
    ASSUME Types
    PROVE  /\ made \in Nat /\ Registered \subseteq Subs
           /\ \A c \in Channels : Sound(lists[c])
           /\ \A k \in 1..Len(disp) : disp[k] \in Frame /\ disp[k].chan \in Channels
           /\ Len(disp) \in Nat
<1>1. MaxSubs \in Nat
    BY DispatchAssumption
<1>2. made \in Nat /\ Registered \subseteq Subs
    BY <1>1 DEF Types, Registered, Subs
<1>3. \A c \in Channels : Sound(lists[c])
    BY DEF Types, Sound
<1>4. \A k \in 1..Len(disp) : disp[k] \in Frame
    BY DEF Types
<1> QED
    BY SMTT(30), <1>2, <1>3, <1>4 DEF Types, Frame

\* lcm_get_handlers: the array it returns is what the channel's array must be.
LEMMA GotFacts ==
    ASSUME Types, ListsAgree, NEW c \in Channels
    PROVE  /\ Sound(Got(c)) /\ Got(c).known
           /\ ToSet(Got(c).slots) \subseteq Registered
           /\ IsInjective(Live(Got(c)))
           /\ ToSet(Live(Got(c))) = {h \in ToSet(all) : c \in Matches[h]}
           /\ lists[c].known => Got(c) = lists[c]
<1>1. CASE lists[c].known
  <2>1. Got(c) = lists[c]
      BY <1>1 DEF Got
  <2> QED
      BY <1>1, <2>1, TypeFacts DEF Types, ListsAgree
<1>2. CASE ~lists[c].known
  <2> DEFINE s == Matching(c)
  <2>1. /\ s \in Seq(Subs) /\ IsInjective(s)
        /\ ToSet(s) = {h \in ToSet(all) : c \in Matches[h]}
      BY MatchingFacts
  <2> HIDE DEF s
  <2>2. Got(c) = [known |-> TRUE, slots |-> s, len |-> Len(s)]
      BY <1>2 DEF Got, s
  <2>3. /\ Got(c) \in Array /\ Got(c).slots = s /\ Got(c).len = Len(s) /\ Got(c).known
      BY <2>1, <2>2 DEF Array
  <2>4. Live(Got(c)) = s
      BY <2>1, <2>3 DEF Live
  <2>5. Sound(Got(c))
      BY <2>1, <2>3 DEF Sound
  <2>6. ToSet(s) \subseteq Registered
      BY <2>1 DEF Types
  <2> QED
      BY <1>2, <2>1, <2>3, <2>4, <2>5, <2>6
<1> QED
    BY <1>1, <1>2

\* The live slots of an array, in terms of the slots.
LEMMA AgreeFacts ==
    ASSUME NEW l, Sound(l), NEW S
    PROVE  /\ IsInjective(Live(l)) <=> \A i, j \in 1..l.len : l.slots[i] = l.slots[j] => i = j
           /\ ToSet(Live(l)) = S <=> {l.slots[i] : i \in 1..l.len} = S
BY LiveFacts DEF IsInjective

\* The loop of a dispatch stops at the first slot that is not marked.
LEMMA NextSlotFacts ==
    ASSUME Types, Frames, ~Quiet
    PROVE  /\ Len(disp) \in 1..Len(disp) /\ Top \in Frame
           /\ NextSlot \in Top.at + 1..Top.n + 1
           /\ NextSlot <= Top.n => TopSlots[NextSlot] \notin marked
           /\ \A k \in Top.at + 1..NextSlot - 1 : TopSlots[k] \in marked
<1>1. Len(disp) \in 1..Len(disp)
    BY DEF Types, Quiet
<1>2. Top \in Frame /\ Top.at \in 1..Top.n /\ Top.n \in Nat
    BY <1>1, TypeFacts DEF Frames, InRange, Top, Frame
<1> DEFINE T == {j \in Top.at + 1..Top.n + 1 : j <= Top.n => TopSlots[j] \notin marked}
<1>3. T \in SUBSET Nat /\ Top.n + 1 \in T
    BY <1>2
<1>4. PICK m \in T : \A k \in T : m <= k
    BY <1>3, LeastElement
<1>5. \A k \in Top.at + 1..m - 1 : TopSlots[k] \in marked
    BY <1>2, <1>3, <1>4
<1>6. \E j \in Top.at + 1..Limit + 1 :
        /\ j <= Limit => TopSlots[j] \notin marked
        /\ \A k \in Top.at + 1..j - 1 : TopSlots[k] \in marked
    BY <1>4, <1>5 DEF Limit
<1> QED
    BY <1>1, <1>2, <1>6 DEF NextSlot, Limit

-----------------------------------------------------------------------------
(* The invariant is inductive.                                             *)

LEMMA InitIInv == Init => IInv
<1> SUFFICES ASSUME Init PROVE IInv
    OBVIOUS
<1>1. <<>> \in Seq(Subs) /\ <<>> \in Seq(Frame) /\ ToSet(<<>>) = {} /\ IsInjective(<<>>)
    BY DEF ToSet, IsInjective
<1>2. \A c \in Channels :
        /\ lists[c] = [known |-> FALSE, slots |-> <<>>, len |-> 0]
        /\ lists[c] \in Array /\ lists[c].len = 0 /\ lists[c].slots = <<>> /\ ~lists[c].known
    BY <1>1 DEF Init, Array
<1>3. lists \in [Channels -> Array]
    BY <1>2 DEF Init
<1>4. made \in 0..MaxSubs /\ Registered = {}
    BY DispatchAssumption DEF Init, Registered
<1>5. Types
  <2>1. /\ all = <<>> /\ disp = <<>> /\ broken \in BOOLEAN /\ marked = {} /\ freed = {}
        /\ Len(<<>>) = 0
      BY DEF Init
  <2>2. \A c \in Channels :
          /\ lists[c].len <= Len(lists[c].slots)
          /\ ToSet(lists[c].slots) \subseteq Registered
          /\ ~lists[c].known => lists[c].len = 0
      BY <1>1, <1>2, <2>1
  <2> QED
      BY <1>1, <1>3, <1>4, <2>1, <2>2 DEF Types
<1>6. Fates
    BY <1>1, <1>4 DEF Fates, Init
<1>7. ListsAgree
    BY <1>2 DEF ListsAgree
<1>8. Frames
    BY DEF Frames, Init
<1> QED
    BY <1>5, <1>6, <1>7, <1>8 DEF IInv

\* A step that touches nothing the dispatches in progress rest on.
LEMMA SameFrames ==
    ASSUME Frames, disp' = disp, all' = all, made' = made,
           scheduled' = scheduled, freed' = freed,
           \A k \in 1..Len(disp) : lists'[disp[k].chan] = lists[disp[k].chan]
    PROVE  Frames'
<1> SUFFICES ASSUME NEW k \in 1..Len(disp)
             PROVE  (InRange(disp[k]) /\ Undisturbed(disp[k]) /\ Ahead(disp[k]) /\ Protected(k))'
    BY DEF Frames
<1>1. InRange(disp[k]) /\ Undisturbed(disp[k]) /\ Ahead(disp[k]) /\ Protected(k)
    BY DEF Frames
<1>2. FrameSlots(disp[k])' = FrameSlots(disp[k])
    BY DEF FrameSlots
<1>3. InRange(disp[k])'
    BY <1>1, <1>2 DEF InRange
<1>4. Undisturbed(disp[k])'
    BY <1>1, <1>2 DEF Undisturbed
<1>5. Ahead(disp[k])'
    BY <1>1, <1>2 DEF Ahead
<1>6. Protected(k)'
    BY <1>1, <1>2 DEF Protected
<1> QED
    BY <1>3, <1>4, <1>5, <1>6

LEMMA HasHandlersIInv ==
    ASSUME IInv, NEW c \in Channels, HasHandlers(c)
    PROVE  IInv'
<1> USE DEF IInv, HasHandlers
<1>1. /\ Sound(Got(c)) /\ Got(c).known
      /\ ToSet(Got(c).slots) \subseteq Registered
      /\ IsInjective(Live(Got(c)))
      /\ ToSet(Live(Got(c))) = {h \in ToSet(all) : c \in Matches[h]}
    BY GotFacts
<1>2. /\ \A d \in Channels : lists'[d] = IF d = c THEN Got(c) ELSE lists[d]
      /\ lists' \in [Channels -> Array]
    BY <1>1 DEF Types, Sound
<1>3. Types'
    BY <1>1, <1>2 DEF Types, Registered, Sound
<1>4. Fates'
    BY DEF Fates, Registered
<1>5. ListsAgree'
    BY <1>1, <1>2 DEF ListsAgree
<1>6. Frames'
  <2>1. \A k \in 1..Len(disp) : disp[k].chan \in Channels /\ disp[k].chan # c
      BY TypeFacts DEF Frames, InRange
  <2> QED
      BY <1>2, <2>1, SameFrames
<1> QED
    BY <1>3, <1>4, <1>5, <1>6

LEMMA SubscribeIInv ==
    ASSUME IInv, Subscribe
    PROVE  IInv'
<1> USE DEF IInv
<1> DEFINE h == made + 1
<1>1. /\ h \in Subs /\ made \in Nat /\ h \notin Registered
      /\ Registered' = Registered \cup {h} /\ made' = h /\ h \in 0..MaxSubs
    BY DispatchAssumption DEF Subscribe, Types, Registered, Subs
<1>2. /\ all' = Append(all, h) /\ h \notin ToSet(all)
      /\ all' \in Seq(Subs) /\ IsInjective(all') /\ ToSet(all') = ToSet(all) \cup {h}
  <2>1. all \in Seq(Subs) /\ IsInjective(all) /\ h \notin ToSet(all)
      BY <1>1 DEF Types
  <2>2. all' = Append(all, h)
      BY DEF Subscribe
  <2> HIDE DEF h
  <2> QED
      BY <1>1, <2>1, <2>2, AppendFacts, InjectiveAppend
<1>3. \A d \in Channels :
        lists'[d] = IF lists[d].known /\ d \in Matches[h] THEN Added(lists[d], h) ELSE lists[d]
    BY <1>1 DEF Subscribe
<1> HIDE DEF h
<1>4. ASSUME NEW d \in Channels
      PROVE  /\ Sound(lists'[d]) /\ lists'[d].known = lists[d].known
             /\ lists'[d].len = IF lists[d].known /\ d \in Matches[h]
                                THEN lists[d].len + 1 ELSE lists[d].len
             /\ lists[d].known /\ d \in Matches[h] => lists'[d].slots[lists[d].len + 1] = h
             /\ \A i \in 1..lists[d].len : lists'[d].slots[i] = lists[d].slots[i]
             /\ Len(lists'[d].slots) >= Len(lists[d].slots)
             /\ ToSet(lists'[d].slots) \subseteq ToSet(lists[d].slots) \cup {h}
  <2>1. Sound(lists[d])
      BY TypeFacts
  <2>2. lists[d].len \in Nat /\ Len(lists[d].slots) \in Nat /\ lists[d].len <= Len(lists[d].slots)
      BY <2>1 DEF Sound, Array
  <2>3. CASE lists[d].known /\ d \in Matches[h]
    <3>1. lists'[d] = Added(lists[d], h)
        BY <1>3, <2>3
    <3>2. \A i \in 1..lists[d].len : i \in 1..Len(lists[d].slots) /\ i # lists[d].len + 1
        BY <2>2
    <3> DEFINE l == lists[d]
               r == Added(l, h)
    <3>3. /\ Sound(r) /\ r.known = l.known /\ r.len = l.len + 1 /\ r.slots[l.len + 1] = h
          /\ \A i \in 1..Len(l.slots) : i # l.len + 1 => r.slots[i] = l.slots[i]
          /\ Len(r.slots) >= Len(l.slots) /\ ToSet(r.slots) \subseteq ToSet(l.slots) \cup {h}
        BY <1>1, <2>1, AddedFacts
    <3> HIDE DEF r
    <3>4. lists'[d] = r
        BY <3>1 DEF r
    <3> QED
        BY <2>3, <3>2, <3>3, <3>4
  <2>4. CASE ~(lists[d].known /\ d \in Matches[h])
      BY <1>3, <2>1, <2>2, <2>4
  <2> QED
      BY <2>3, <2>4
<1>5. Types'
  <2>1. /\ made' \in 0..MaxSubs /\ broken' \in BOOLEAN
        /\ ToSet(all)' \cup marked' \cup freed' \subseteq Registered'
        /\ disp' \in Seq(Frame)
      BY <1>1, <1>2 DEF Types, Subscribe
  <2>2. lists' \in [Channels -> Array]
    <3>1. \A d \in Channels : lists'[d] \in Array
        BY <1>4 DEF Sound
    <3> QED
        BY <3>1 DEF Subscribe
  <2>3. \A d \in Channels :
          /\ lists'[d].len <= Len(lists'[d].slots)
          /\ ToSet(lists'[d].slots) \subseteq Registered'
          /\ ~lists'[d].known => lists'[d].len = 0
      BY <1>1, <1>4 DEF Types, Sound
  <2> QED
      BY <1>2, <2>1, <2>2, <2>3 DEF Types
<1>6. Fates'
    BY <1>1, <1>2 DEF Types, Fates, Subscribe
<1>7. ListsAgree'
  <2> SUFFICES ASSUME NEW d \in Channels, lists'[d].known
               PROVE  /\ IsInjective(Live(lists'[d]))
                      /\ ToSet(Live(lists'[d])) = {x \in ToSet(all') : d \in Matches[x]}
      BY DEF ListsAgree
  <2> DEFINE l == lists[d]
             M == {x \in ToSet(all) : d \in Matches[x]}
  <2>1. /\ Sound(l) /\ Sound(lists'[d]) /\ l.len \in Nat
        /\ \A i, j \in 1..l.len : l.slots[i] = l.slots[j] => i = j
        /\ {l.slots[i] : i \in 1..l.len} = M
    <3>1. l.known /\ Sound(l) /\ Sound(lists'[d])
        BY <1>4, TypeFacts
    <3>2. IsInjective(Live(l)) /\ ToSet(Live(l)) = M
        BY <3>1 DEF ListsAgree
    <3> HIDE DEF l, M
    <3>3. l.len \in Nat
        BY <3>1 DEF Sound, Array
    <3> QED
        BY <3>1, <3>2, <3>3, AgreeFacts
  <2>2. CASE d \in Matches[h]
    <3>1. /\ lists'[d].len = l.len + 1 /\ lists'[d].slots[l.len + 1] = h
          /\ \A i \in 1..l.len : lists'[d].slots[i] = l.slots[i] /\ l.slots[i] # h
        BY <1>2, <1>4, <2>1, <2>2
    <3>2. \A i \in 1..l.len + 1 : i \in 1..l.len \/ i = l.len + 1
        BY <2>1
    <3>3. 1..l.len \subseteq 1..l.len + 1 /\ l.len + 1 \in 1..l.len + 1
        BY <2>1
    <3>4. {x \in ToSet(all') : d \in Matches[x]} = M \cup {h}
        BY <1>2, <2>2
    <3> HIDE DEF l, M
    <3>5. \A i, j \in 1..lists'[d].len : lists'[d].slots[i] = lists'[d].slots[j] => i = j
        BY <2>1, <3>1, <3>2
    <3>6. {lists'[d].slots[i] : i \in 1..lists'[d].len} = M \cup {h}
        BY <2>1, <3>1, <3>2, <3>3
    <3> QED
        BY <2>1, <3>4, <3>5, <3>6, AgreeFacts
  <2>3. CASE d \notin Matches[h]
    <3>1. lists'[d] = l
        BY <1>3, <2>3
    <3>2. {x \in ToSet(all') : d \in Matches[x]} = M
        BY <1>2, <2>3
    <3> QED
        BY <2>1, <3>1, <3>2, AgreeFacts
  <2> QED
      BY <2>2, <2>3
<1>8. Frames'
  <2> SUFFICES ASSUME NEW k \in 1..Len(disp)
               PROVE  (InRange(disp[k]) /\ Undisturbed(disp[k]) /\ Ahead(disp[k]) /\ Protected(k))'
      BY DEF Frames, Subscribe
  <2> DEFINE f == disp[k]
             d == f.chan
  <2>1. /\ f \in Frame /\ d \in Channels /\ f' = f /\ d' = d
        /\ f.n \in Nat /\ f.upto \in Nat
        /\ InRange(f) /\ Undisturbed(f) /\ Ahead(f) /\ Protected(k)
      BY TypeFacts DEF Frames, Frame, Subscribe
  <2>2. /\ Sound(lists'[d]) /\ lists'[d].known = lists[d].known
        /\ lists'[d].len >= lists[d].len /\ lists[d].len \in Nat /\ lists'[d].len \in Nat
        /\ \A i \in 1..lists[d].len : lists'[d].slots[i] = lists[d].slots[i]
        /\ Len(lists'[d].slots) >= Len(lists[d].slots)
        /\ Len(lists'[d].slots) \in Nat /\ Len(lists[d].slots) \in Nat
    <3>1. Sound(lists[d]) /\ Sound(lists'[d])
        BY <1>4, <2>1, TypeFacts
    <3>2. /\ lists[d].len \in Nat /\ lists'[d].len \in Nat
          /\ Len(lists'[d].slots) \in Nat /\ Len(lists[d].slots) \in Nat
        BY <3>1 DEF Sound, Array
    <3> HIDE DEF d
    <3> QED
        BY SMTT(30), <1>4, <2>1, <3>1, <3>2
  <2>3. FrameSlots(f) = lists[d].slots /\ FrameSlots(f)' = lists'[d].slots
      BY <2>1 DEF FrameSlots
  <2>4. f.upto <= made /\ f.upto # made' /\ \A x \in Subs : x <= f.upto => x # h
      BY <1>1, <2>1 DEF InRange, h
  <2> HIDE DEF f, d
  <2>5. InRange(f)'
    <3>1. /\ lists'[d].known /\ f.n <= Len(lists'[d].slots)
          /\ f.n = Len(f.todo) /\ f.at \in 1..f.n /\ f.called # <<>>
          /\ ToSet(f.todo) \subseteq 1..f.upto
        BY SMTT(30), <2>1, <2>2, <2>3 DEF InRange, d
    <3>2. f.upto <= made'
        BY <1>1, <2>1, <2>4 DEF h
    <3>3. \A x \in ToSet(all') : x <= f.upto /\ d \in Matches[x] => x \in ToSet(f.todo)
      <4>1. ToSet(all) \subseteq Subs
          BY TypeFacts DEF Types
      <4> QED
          BY <1>1, <1>2, <2>1, <2>4, <4>1 DEF InRange, d
    <3> QED
        BY <2>1, <2>3, <3>1, <3>2, <3>3 DEF InRange, d
  <2>6. Undisturbed(f)'
    <3> SUFFICES ASSUME ToSet(f.todo) \cup (f.upto + 1..made') \subseteq ToSet(all')
                 PROVE  /\ f.n <= lists'[d].len
                        /\ \A j \in 1..f.n : lists'[d].slots[j] = f.todo[j]
                        /\ f.called = SubSeq(f.todo, 1, f.at)
        BY <2>1, <2>3 DEF Undisturbed, d
    <3>1. h \notin ToSet(f.todo) \cup (f.upto + 1..made)
      <4>1. ToSet(f.todo) \subseteq 1..f.upto
          BY <2>1 DEF InRange
      <4> QED
          BY <1>1, <2>1, <2>4, <4>1 DEF h
    <3>2. f.upto + 1..made \subseteq f.upto + 1..made'
        BY <1>1, <2>1 DEF h
    <3>3. ToSet(f.todo) \cup (f.upto + 1..made) \subseteq ToSet(all)
        BY <1>2, <3>1, <3>2
    <3>4. /\ f.n <= lists[d].len
          /\ \A j \in 1..f.n : lists[d].slots[j] = f.todo[j]
          /\ f.called = SubSeq(f.todo, 1, f.at)
        BY <2>1, <2>3, <3>3 DEF Undisturbed, d
    <3> QED
        BY <2>1, <2>2, <3>4
  <2>7. Ahead(f)'
      BY <2>1, <2>4 DEF Ahead
  <2>8. Protected(k)'
    <3>1. disp' = disp
        BY DEF Subscribe
    <3> QED
        BY <2>1, <2>4, <3>1 DEF Protected, f
  <2> QED
      BY <2>1, <2>5, <2>6, <2>7, <2>8 DEF f
<1> QED
    BY <1>5, <1>6, <1>7, <1>8

LEMMA UnsubscribeIInv ==
    ASSUME IInv, NEW h \in Subs, Unsubscribe(h)
    PROVE  IInv'
<1> USE DEF IInv
<1>1. /\ h \in ToSet(all) /\ h \in Registered
      /\ all' \in Seq(Subs) /\ IsInjective(all') /\ ToSet(all') = ToSet(all) \ {h}
  <2>1. all \in Seq(Subs) /\ IsInjective(all) /\ ToSet(all) \subseteq Registered
      BY DEF Types
  <2>2. h \in ToSet(all)
      BY <2>1 DEF Unsubscribe, Contains, ToSet
  <2>3. all' = RemoveFirst(all, h)
      BY DEF Unsubscribe
  <2> QED
      BY <2>1, <2>2, <2>3, RemoveFirstFacts
<1>2. /\ made' = made /\ Registered' = Registered /\ disp' = disp /\ scheduled' = scheduled
      /\ broken' = broken
      /\ freed \subseteq freed' /\ marked \subseteq marked'
      /\ marked' \cup freed' = marked \cup freed \cup {h}
      /\ freed' \subseteq freed \cup ({h} \ scheduled)
    BY DEF Unsubscribe, Registered
<1> DEFINE Has(d) == lists[d].known /\ d \in Matches[h]
<1>3. ASSUME NEW d \in Channels
      PROVE  /\ Sound(lists[d]) /\ IsInjective(Live(lists[d]))
             /\ h \in ToSet(Live(lists[d])) <=> Has(d)
             /\ lists'[d] = RemovedFast(lists[d], h)
             /\ ~Has(d) => lists'[d] = lists[d]
  <2>1. Sound(lists[d]) /\ lists'[d] = RemovedFast(lists[d], h)
      BY TypeFacts DEF Unsubscribe
  <2>2. h \in ToSet(Live(lists[d])) <=> Has(d)
    <3>1. CASE lists[d].known
        BY <1>1, <3>1 DEF ListsAgree
    <3>2. CASE ~lists[d].known
      <4>1. lists[d].len = 0
          BY <3>2 DEF Types
      <4> QED
          BY <2>1, <3>2, <4>1, LiveFacts
    <3> QED
        BY <3>1, <3>2
  <2>3. IsInjective(Live(lists[d]))
    <3>1. CASE lists[d].known
        BY <3>1 DEF ListsAgree
    <3>2. CASE ~lists[d].known
      <4>1. lists[d].len = 0
          BY <3>2 DEF Types
      <4> QED
          BY <2>1, <4>1, LiveFacts DEF IsInjective
    <3> QED
        BY <3>1, <3>2
  <2>4. Contains(Live(lists[d]), h) => h \in ToSet(Live(lists[d]))
    <3>1. /\ Live(lists[d]) \in Seq(Subs)
          /\ DOMAIN Live(lists[d]) = 1..Len(Live(lists[d]))
        BY <2>1, LiveFacts
    <3> QED
        BY <3>1 DEF Contains, ToSet
  <2>5. ~Has(d) => lists'[d] = lists[d]
      BY <2>1, <2>2, <2>4 DEF RemovedFast
  <2> QED
      BY <2>1, <2>2, <2>3, <2>5
<1> HIDE DEF Has
<1>4. ASSUME NEW d \in Channels, Has(d)
      PROVE  /\ Sound(lists'[d]) /\ lists'[d].known = lists[d].known
             /\ lists'[d].len = lists[d].len - 1
             /\ Len(lists'[d].slots) = Len(lists[d].slots)
             /\ \E i \in 1..lists[d].len :
                    /\ lists[d].slots[i] = h
                    /\ lists'[d].slots = [lists[d].slots EXCEPT ![i] = lists[d].slots[lists[d].len]]
             /\ IsInjective(Live(lists'[d]))
             /\ ToSet(Live(lists'[d])) = ToSet(Live(lists[d])) \ {h}
    BY <1>3, <1>4, RemovedFastFacts
<1>5. ASSUME NEW d \in Channels
      PROVE  /\ Sound(lists'[d]) /\ lists'[d].known = lists[d].known
             /\ lists'[d].len <= lists[d].len /\ lists'[d].len \in Nat /\ lists[d].len \in Nat
             /\ Len(lists'[d].slots) = Len(lists[d].slots)
             /\ \A j \in 1..Len(lists[d].slots) :
                    \/ lists'[d].slots[j] = lists[d].slots[j]
                    \/ /\ lists[d].slots[j] = h
                       /\ lists[d].len \in 1..Len(lists[d].slots)
                       /\ lists'[d].slots[j] = lists[d].slots[lists[d].len]
             /\ ToSet(lists'[d].slots) \subseteq ToSet(lists[d].slots)
  <2> DEFINE s == lists[d].slots
             t == lists'[d].slots
             len == lists[d].len
  <2>1. s \in Seq(Subs) /\ len \in Nat /\ len <= Len(s) /\ Len(s) \in Nat /\ DOMAIN s = 1..Len(s)
      BY <1>3 DEF Sound, Array
  <2>2. CASE Has(d)
    <3>1. PICK i \in 1..len : s[i] = h /\ t = [s EXCEPT ![i] = s[len]]
        BY <1>4, <2>2
    <3>2. Sound(lists'[d]) /\ lists'[d].known = lists[d].known /\ lists'[d].len = len - 1
        BY <1>4, <2>2
    <3> HIDE DEF s, t, len
    <3>3. len \in 1..Len(s) /\ len \in 1..len
        BY <2>1, <3>1
    <3>4. \A j \in 1..Len(s) : t[j] = s[j] \/ (s[j] = h /\ t[j] = s[len])
        BY <2>1, <3>1
    <3>5. Len(t) = Len(s) /\ DOMAIN t = 1..Len(s)
        BY <2>1, <3>1
    <3>6. ToSet(t) \subseteq ToSet(s)
        BY <2>1, <3>3, <3>4, <3>5 DEF ToSet
    <3>7. len - 1 <= len /\ len - 1 \in Nat
        BY <2>1, <3>3
    <3> QED
        BY <2>1, <3>2, <3>3, <3>4, <3>5, <3>6, <3>7 DEF s, t, len
  <2>3. CASE ~Has(d)
    <3>1. lists'[d] = lists[d]
        BY <1>3, <2>3
    <3> QED
        BY <1>3, <2>1, <3>1
  <2> QED
      BY <2>2, <2>3
<1>6. Types'
  <2>1. /\ made' \in 0..MaxSubs /\ broken' \in BOOLEAN
        /\ ToSet(all)' \cup marked' \cup freed' \subseteq Registered'
        /\ disp' \in Seq(Frame)
      BY <1>1, <1>2 DEF Types
  <2>2. lists' \in [Channels -> Array]
    <3>1. \A d \in Channels : lists'[d] \in Array
        BY <1>5 DEF Sound
    <3> QED
        BY <3>1 DEF Unsubscribe
  <2>3. \A d \in Channels :
          /\ lists'[d].len <= Len(lists'[d].slots)
          /\ ToSet(lists'[d].slots) \subseteq Registered'
          /\ ~lists'[d].known => lists'[d].len = 0
    <3> SUFFICES ASSUME NEW d \in Channels
                 PROVE  /\ lists'[d].len <= Len(lists'[d].slots)
                        /\ ToSet(lists'[d].slots) \subseteq Registered'
                        /\ ~lists'[d].known => lists'[d].len = 0
        OBVIOUS
    <3>1. lists'[d].len <= Len(lists'[d].slots)
        BY <1>5 DEF Sound
    <3>2. ToSet(lists'[d].slots) \subseteq Registered'
        BY <1>2, <1>5 DEF Types
    <3>3. ~lists'[d].known => lists'[d].len = 0
        BY <1>5 DEF Types
    <3> QED
        BY <3>1, <3>2, <3>3
  <2> QED
      BY <1>1, <2>1, <2>2, <2>3 DEF Types
<1>7. Fates'
    BY <1>1, <1>2 DEF Fates
<1>8. ListsAgree'
  <2> SUFFICES ASSUME NEW d \in Channels, lists'[d].known
               PROVE  /\ IsInjective(Live(lists'[d]))
                      /\ ToSet(Live(lists'[d])) = {x \in ToSet(all') : d \in Matches[x]}
      BY DEF ListsAgree
  <2>1. /\ lists[d].known /\ IsInjective(Live(lists[d]))
        /\ ToSet(Live(lists[d])) = {x \in ToSet(all) : d \in Matches[x]}
      BY <1>5 DEF ListsAgree
  <2>2. CASE Has(d)
      BY <1>1, <1>4, <2>1, <2>2
  <2>3. CASE ~Has(d)
      BY <1>1, <1>3, <2>1, <2>3 DEF Has
  <2> QED
      BY <2>2, <2>3
<1>9. Frames'
  <2> SUFFICES ASSUME NEW k \in 1..Len(disp)
               PROVE  (InRange(disp[k]) /\ Undisturbed(disp[k]) /\ Ahead(disp[k]) /\ Protected(k))'
      BY <1>2 DEF Frames
  <2> DEFINE f == disp[k]
             d == f.chan
  <2>1. /\ f \in Frame /\ d \in Channels /\ f' = f /\ d' = d
        /\ f.n \in Nat /\ f.upto \in Nat /\ f.at \in Nat
        /\ InRange(f) /\ Undisturbed(f) /\ Ahead(f) /\ Protected(k)
      BY <1>2, TypeFacts DEF Frames, Frame
  <2> DEFINE s == lists[d].slots
             t == lists'[d].slots
             len == lists[d].len
  <2>2. /\ Sound(lists'[d]) /\ lists'[d].known = lists[d].known
        /\ lists'[d].len <= len /\ lists'[d].len \in Nat /\ len \in Nat
        /\ Len(t) = Len(s) /\ Len(s) \in Nat
        /\ \A j \in 1..Len(s) :
              \/ t[j] = s[j]
              \/ s[j] = h /\ len \in 1..Len(s) /\ t[j] = s[len]
    <3>1. Len(s) \in Nat
        BY <1>3, <2>1 DEF Sound, Array
    <3> QED
        BY <1>5, <2>1, <3>1
  <2>3. FrameSlots(f) = s /\ FrameSlots(f)' = t
      BY <2>1 DEF FrameSlots
  <2>4. f.n <= Len(s) /\ f.at \in 1..f.n /\ lists[d].known /\ f.upto <= made
      BY <2>1, <2>3 DEF InRange
  <2> HIDE DEF f, d, s, t, len
  <2>5. InRange(f)'
    <3>1. f.n <= Len(t) /\ lists'[d].known
        BY <2>2, <2>4
    <3> QED
        BY <1>1, <1>2, <2>1, <2>3, <3>1 DEF InRange, d, t
  <2>6. Undisturbed(f)'
    <3> SUFFICES ASSUME ToSet(f.todo) \cup (f.upto + 1..made) \subseteq ToSet(all')
                 PROVE  /\ f.n <= lists'[d].len
                        /\ \A j \in 1..f.n : t[j] = f.todo[j]
                        /\ f.called = SubSeq(f.todo, 1, f.at)
        BY <1>2, <2>1, <2>3 DEF Undisturbed, d, t
    <3>1. h \notin ToSet(f.todo) /\ h \notin f.upto + 1..made
        BY <1>1
    <3>2. h <= f.upto
      <4>1. h \in 1..made /\ made \in Nat
          BY <1>1, TypeFacts DEF Registered
      <4> QED
          BY <2>1, <3>1, <4>1
    <3>3. ~Has(d)
        BY <1>1, <2>1, <3>1, <3>2 DEF InRange, Has, d
    <3>4. lists'[d] = lists[d] /\ t = s
        BY <1>3, <2>1, <3>3 DEF s, t
    <3>5. ToSet(f.todo) \cup (f.upto + 1..made) \subseteq ToSet(all)
        BY <1>1
    <3>6. /\ f.n <= lists[d].len
          /\ \A j \in 1..f.n : s[j] = f.todo[j]
          /\ f.called = SubSeq(f.todo, 1, f.at)
        BY <2>1, <2>3, <3>5 DEF Undisturbed, d
    <3> QED
        BY <3>4, <3>6
  <2>7. Ahead(f)'
    <3> SUFFICES ASSUME f.upto = made
                 PROVE  /\ lists'[d].len <= f.n
                        /\ \A x \in ToSet(f.todo) \cap ToSet(all') :
                            x \in ToSet(f.called) \/ \E j \in f.at + 1..f.n : t[j] = x
        BY <1>2, <2>1, <2>3 DEF Ahead, d, t
    <3>1. /\ len <= f.n
          /\ \A x \in ToSet(f.todo) \cap ToSet(all) :
                x \in ToSet(f.called) \/ \E j \in f.at + 1..f.n : s[j] = x
        BY <2>1, <2>3 DEF Ahead, d, len
    <3>2. lists'[d].len <= f.n
        BY <2>1, <2>2, <3>1
    <3>3. \A j \in f.at + 1..f.n : j \in 1..Len(s)
        BY <2>1, <2>2, <2>4
    <3>4. ASSUME NEW x \in ToSet(f.todo) \cap ToSet(all')
          PROVE  x \in ToSet(f.called) \/ \E j \in f.at + 1..f.n : t[j] = x
      <4>1. x \in ToSet(f.todo) \cap ToSet(all) /\ x # h
          BY <1>1
      <4> QED
          BY <2>2, <3>1, <3>3, <4>1
    <3> QED
        BY <3>2, <3>4
  <2>8. Protected(k)'
    <3> SUFFICES ASSUME f.alone
                 PROVE  /\ k = Len(disp)
                        /\ f.upto = made => \A j \in 1..f.n : t[j] \in scheduled \ freed'
        BY <1>2, <2>1, <2>3 DEF Protected, f
    <3>1. /\ k = Len(disp)
          /\ f.upto = made => \A j \in 1..f.n : s[j] \in scheduled \ freed
        BY <2>1, <2>3 DEF Protected, f
    <3>2. ASSUME f.upto = made, NEW j \in 1..f.n PROVE t[j] \in scheduled \ freed'
      <4>1. len <= f.n /\ j \in 1..Len(s)
          BY <2>1, <2>2, <2>3, <2>4, <3>2 DEF Ahead, d, len
      <4>2. t[j] = s[j] \/ (len \in 1..f.n /\ t[j] = s[len])
          BY <2>1, <2>2, <4>1
      <4>3. t[j] \in scheduled \ freed
          BY <3>1, <3>2, <4>2
      <4> QED
          BY <1>2, <4>3
    <3> QED
        BY <3>1, <3>2
  <2> QED
      BY <2>1, <2>5, <2>6, <2>7, <2>8 DEF f
<1> QED
    BY <1>6, <1>7, <1>8, <1>9

LEMMA DispatchIInv ==
    ASSUME IInv, NEW c \in Channels, Dispatch(c)
    PROVE  IInv'
<1> USE DEF IInv
<1> DEFINE l == Got(c)
           hs == Live(Got(c))
           N == Len(disp)
           new == [chan |-> c, n |-> Len(hs), at |-> 1, todo |-> hs,
                   upto |-> made, alone |-> TRUE, called |-> <<hs[1]>>]
           old == [i \in DOMAIN disp |-> [disp[i] EXCEPT !.alone = FALSE]]
<1>1. /\ Sound(l) /\ l.known /\ ToSet(l.slots) \subseteq Registered
      /\ IsInjective(hs) /\ ToSet(hs) = {h \in ToSet(all) : c \in Matches[h]}
      /\ lists[c].known => l = lists[c]
    BY GotFacts
<1>2. /\ lists' \in [Channels -> Array]
      /\ \A d \in Channels : lists'[d] = IF d = c THEN l ELSE lists[d]
      /\ lists' = [lists EXCEPT ![c] = l]
    BY <1>1 DEF Types, Sound, Dispatch
<1>3. /\ hs \in Seq(Subs) /\ hs # <<>> /\ Len(hs) = l.len /\ DOMAIN hs = 1..l.len
      /\ \A i \in 1..l.len : hs[i] = l.slots[i]
      /\ l.len \in Nat \ {0} /\ Len(l.slots) \in Nat /\ l.len <= Len(l.slots)
  <2>1. /\ hs \in Seq(Subs) /\ Len(hs) = l.len /\ DOMAIN hs = 1..l.len
        /\ \A i \in 1..l.len : hs[i] = l.slots[i]
      BY <1>1, LiveFacts
  <2>2. hs # <<>>
      BY DEF Dispatch
  <2>3. l.len \in Nat /\ Len(l.slots) \in Nat /\ l.len <= Len(l.slots)
      BY <1>1 DEF Sound, Array
  <2> HIDE DEF hs, l
  <2> QED
      BY <2>1, <2>2, <2>3
<1>4. /\ disp \in Seq(Frame) /\ N \in Nat /\ made \in Nat
      /\ \A k \in 1..N : disp[k] \in Frame /\ disp[k].chan \in Channels
    BY TypeFacts DEF Types
<1>5. /\ disp' = Append(old, new) /\ scheduled' = scheduled \cup ToSet(hs)
      /\ all' = all /\ made' = made /\ marked' = marked /\ freed' = freed /\ broken' = broken
      /\ Registered' = Registered
    BY DEF Dispatch, Registered
<1> HIDE DEF hs, l
<1>6. /\ new \in Frame /\ new.chan = c /\ new.n = Len(hs) /\ new.at = 1 /\ new.todo = hs
      /\ new.upto = made /\ new.alone /\ new.called = <<hs[1]>>
  <2>1. hs[1] \in Subs /\ <<hs[1]>> \in Seq(Subs) /\ Len(hs) \in Nat
      BY <1>3
  <2> QED
      BY <1>3, <1>4, <2>1 DEF Frame
<1>7. /\ old \in Seq(Frame) /\ Len(old) = N
      /\ \A k \in 1..N :
            /\ old[k].chan = disp[k].chan /\ old[k].n = disp[k].n /\ old[k].at = disp[k].at
            /\ old[k].todo = disp[k].todo /\ old[k].upto = disp[k].upto
            /\ old[k].called = disp[k].called /\ ~old[k].alone
  <2>1. DOMAIN disp = 1..N
      BY <1>4
  <2>2. ASSUME NEW k \in 1..N
        PROVE  /\ old[k] \in Frame
               /\ old[k].chan = disp[k].chan /\ old[k].n = disp[k].n /\ old[k].at = disp[k].at
               /\ old[k].todo = disp[k].todo /\ old[k].upto = disp[k].upto
               /\ old[k].called = disp[k].called /\ ~old[k].alone
    <3>1. disp[k] \in Frame /\ old[k] = [disp[k] EXCEPT !.alone = FALSE]
        BY <1>4, <2>1
    <3> HIDE DEF old
    <3> QED
        BY <3>1 DEF Frame
  <2>3. old \in [1..N -> Frame]
    <3>1. old = [k \in 1..N |-> old[k]]
        BY <2>1
    <3> HIDE DEF old
    <3> QED
        BY <2>2, <3>1
  <2>4. old \in Seq(Frame) /\ Len(old) = N
    <3> HIDE DEF old
    <3> QED
        BY <1>4, <2>3
  <2> QED
      BY <2>2, <2>4
<1> HIDE DEF new, old
<1>8. /\ disp' \in Seq(Frame) /\ Len(disp') = N + 1 /\ disp'[N + 1] = new
      /\ \A k \in 1..N : disp'[k] = old[k]
    BY <1>5, <1>6, <1>7, AppendFacts
<1>9. Types'
  <2>1. ToSet(all)' = ToSet(all) /\ IsInjective(all)' = IsInjective(all)
      BY <1>5
  <2>2. \A d \in Channels :
          /\ lists'[d].len <= Len(lists'[d].slots)
          /\ ToSet(lists'[d].slots) \subseteq Registered
          /\ ~lists'[d].known => lists'[d].len = 0
      BY <1>1, <1>2, <1>3 DEF Types
  <2> QED
      BY <1>2, <1>5, <1>8, <2>1, <2>2 DEF Types
<1>10. Fates'
    BY <1>5 DEF Fates
<1>11. ListsAgree'
    BY <1>1, <1>2, <1>5 DEF ListsAgree, l, hs
<1>12. ASSUME NEW k \in 1..N
       PROVE  (InRange(disp[k]) /\ Undisturbed(disp[k]) /\ Ahead(disp[k]) /\ Protected(k))'
  <2> DEFINE f == disp[k]
  <2>1. /\ InRange(f) /\ Undisturbed(f) /\ Ahead(f) /\ f.chan \in Channels /\ lists[f.chan].known
      BY <1>4 DEF Frames, InRange
  <2>2. lists'[f.chan] = lists[f.chan]
      BY <1>1, <1>2, <2>1
  <2>3. /\ disp'[k].chan = f.chan /\ disp'[k].n = f.n /\ disp'[k].at = f.at
        /\ disp'[k].todo = f.todo /\ disp'[k].upto = f.upto
        /\ disp'[k].called = f.called /\ ~disp'[k].alone
      BY <1>7, <1>8
  <2>4. FrameSlots(disp[k])' = FrameSlots(f)
      BY <2>2, <2>3 DEF FrameSlots
  <2>5. InRange(disp[k])'
      BY <1>5, <2>1, <2>2, <2>3, <2>4 DEF InRange
  <2>6. Undisturbed(disp[k])'
      BY <1>5, <2>1, <2>2, <2>3, <2>4 DEF Undisturbed
  <2>7. Ahead(disp[k])'
      BY <1>5, <2>1, <2>2, <2>3, <2>4 DEF Ahead
  <2>8. Protected(k)'
      BY <2>3 DEF Protected
  <2> QED
      BY <2>5, <2>6, <2>7, <2>8
<1>13. ASSUME NEW k \in 1..Len(disp'), k = N + 1
       PROVE  (InRange(disp[k]) /\ Undisturbed(disp[k]) /\ Ahead(disp[k]) /\ Protected(k))'
  <2> DEFINE f == disp'[k]
  <2>1. /\ f.chan = c /\ f.n = Len(hs) /\ f.at = 1 /\ f.todo = hs
        /\ f.upto = made /\ f.alone /\ f.called = <<hs[1]>>
      BY <1>6, <1>8, <1>13
  <2>2. /\ lists'[c] = l /\ FrameSlots(disp[k])' = l.slots /\ disp[k]' = f
        /\ Len(hs) = l.len /\ Len(hs) \in Nat \ {0}
      BY <1>2, <1>3, <2>1 DEF FrameSlots
  <2> HIDE DEF f
  <2>3. InRange(disp[k])'
    <3>1. ToSet(hs) \subseteq 1..made
        BY <1>1 DEF Types, Registered
    <3>2. \A h \in ToSet(all) : c \in Matches[h] => h \in ToSet(hs)
        BY <1>1
    <3>3. <<hs[1]>> # <<>>
        OBVIOUS
    <3>4. /\ lists'[f.chan].known /\ f.n = Len(f.todo) /\ f.at \in 1..f.n
          /\ f.n <= Len(l.slots) /\ f.upto <= made /\ f.called # <<>>
          /\ ToSet(f.todo) \subseteq 1..f.upto
        BY <1>1, <1>3, <1>4, <2>1, <2>2, <3>1, <3>3
    <3>5. \A h \in ToSet(all') : h <= f.upto /\ f.chan \in Matches[h] => h \in ToSet(f.todo)
        BY <1>5, <2>1, <3>2
    <3> QED
        BY <1>5, <2>2, <3>4, <3>5 DEF InRange
  <2>4. Undisturbed(disp[k])'
    <3>1. SubSeq(hs, 1, 1) = <<hs[1]>>
      <4>1. SubSeq(hs, 1, 1) \in Seq(Subs) /\ Len(SubSeq(hs, 1, 1)) = 1
            /\ SubSeq(hs, 1, 1)[1] = hs[1]
          BY <1>3
      <4>2. <<hs[1]>> \in Seq(Subs) /\ Len(<<hs[1]>>) = 1 /\ <<hs[1]>>[1] = hs[1]
          BY <1>3
      <4>3. \A i \in 1..1 : SubSeq(hs, 1, 1)[i] = <<hs[1]>>[i]
          BY <4>1
      <4> QED
          BY <4>1, <4>2, <4>3, SeqEqual
    <3>2. /\ f.n <= lists'[f.chan].len
          /\ \A j \in 1..f.n : l.slots[j] = f.todo[j]
          /\ f.called = SubSeq(f.todo, 1, f.at)
        BY <1>3, <2>1, <2>2, <3>1
    <3> QED
        BY <2>2, <3>2 DEF Undisturbed
  <2>5. Ahead(disp[k])'
    <3>1. l.len <= Len(hs)
        BY <2>2
    <3>2. ASSUME NEW h \in ToSet(hs)
          PROVE  h \in ToSet(<<hs[1]>>) \/ \E j \in 2..Len(hs) : l.slots[j] = h
      <4>1. PICK i \in 1..l.len : hs[i] = h /\ l.slots[i] = h
          BY <1>3 DEF ToSet
      <4>2. CASE i = 1
          BY <4>1, <4>2 DEF ToSet
      <4>3. CASE i # 1
          BY <1>3, <2>2, <4>1, <4>3
      <4> QED
          BY <4>2, <4>3
    <3>3. /\ lists'[f.chan].len <= f.n
          /\ \A h \in ToSet(f.todo) \cap ToSet(all) :
                h \in ToSet(f.called) \/ \E j \in f.at + 1..f.n : l.slots[j] = h
      <4>1. f.at + 1 = 2
          BY <2>1
      <4> QED
          BY <2>1, <2>2, <3>1, <3>2, <4>1
    <3> QED
        BY <1>5, <2>2, <3>3 DEF Ahead
  <2>6. Protected(k)'
    <3>1. \A j \in 1..Len(hs) : hs[j] \in ToSet(hs) /\ l.slots[j] = hs[j]
        BY <1>3 DEF ToSet
    <3>2. ToSet(hs) \cap freed = {} /\ ToSet(hs) \subseteq scheduled'
        BY <1>1, <1>5 DEF Fates
    <3>3. \A j \in 1..Len(hs) : l.slots[j] \in scheduled' \ freed'
        BY <1>5, <3>1, <3>2
    <3> QED
        BY <1>8, <1>13, <2>1, <2>2, <3>3 DEF Protected
  <2> QED
      BY <2>3, <2>4, <2>5, <2>6
<1>14. Frames'
  <2>1. \A k \in 1..Len(disp') : k \in 1..N \/ k = N + 1
      BY <1>4, <1>8
  <2> QED
      BY <1>8, <1>12, <1>13, <2>1 DEF Frames
<1> QED
    BY <1>9, <1>10, <1>11, <1>14

LEMMA ReturnToFreedIInv ==
    ASSUME IInv, ReturnToFreed
    PROVE  IInv'
<1> USE DEF IInv, ReturnToFreed
<1>1. Types'
    BY DEF Types, Registered
<1>2. Fates'
    BY DEF Fates, Registered
<1>3. ListsAgree'
    BY DEF ListsAgree
<1>4. Frames'
    BY SameFrames
<1> QED
    BY <1>1, <1>2, <1>3, <1>4

\* A subscription that is registered, not freed and not marked is in handlers_all.
LEMMA Called ==
    ASSUME IInv, ReturnToNext
    PROVE  /\ NextSlot \in 1..Top.n /\ TopSlots[NextSlot] \in Subs
           /\ TopSlots[NextSlot] \in ToSet(all)
<1> USE DEF IInv
<1>1. /\ Len(disp) \in 1..Len(disp) /\ Top \in Frame
      /\ NextSlot \in Top.at + 1..Top.n /\ TopSlots[NextSlot] \notin marked
    BY NextSlotFacts DEF ReturnToNext, Limit
<1>2. InRange(Top) /\ Top.chan \in Channels /\ Sound(lists[Top.chan])
    BY <1>1, TypeFacts DEF Frames, Top
<1>3. NextSlot \in 1..Top.n /\ NextSlot \in 1..Len(TopSlots)
    BY <1>1, <1>2 DEF InRange, FrameSlots, TopSlots, Frame, Sound, Array
<1>4. TopSlots[NextSlot] \in ToSet(TopSlots) /\ TopSlots \in Seq(Subs)
    BY <1>2, <1>3 DEF ToSet, TopSlots, Sound, Array
<1>5. TopSlots[NextSlot] \in Registered
    BY <1>2, <1>4 DEF TopSlots, Types
<1>6. TopSlots[NextSlot] \notin freed
    BY <1>1, <1>3 DEF ReturnToNext, MetFreed, Limit, Frame
<1>7. TopSlots[NextSlot] \in ToSet(all)
    BY <1>1, <1>5, <1>6 DEF Fates
<1> QED
    BY <1>3, <1>5, <1>7, TypeFacts

LEMMA ReturnToNextIInv ==
    ASSUME IInv, ReturnToNext
    PROVE  IInv'
<1> USE DEF IInv
<1> DEFINE N == Len(disp)
           j == NextSlot
           h == TopSlots[NextSlot]
           f == disp[N]
           g == disp'[N]
<1>1. /\ N \in 1..N /\ N \in Nat /\ f \in Frame /\ f.at \in 1..f.n /\ f.n \in Nat
      /\ f.called \in Seq(Subs) /\ f.todo \in Seq(Subs)
      /\ j \in f.at + 1..f.n /\ h \in Subs /\ h \in ToSet(all)
      /\ \A k \in f.at + 1..j - 1 : TopSlots[k] \in marked
      /\ TopSlots = FrameSlots(f)
      /\ InRange(f) /\ Undisturbed(f) /\ Ahead(f) /\ Protected(N)
  <2>1. /\ N \in 1..N /\ Top = f /\ f \in Frame
        /\ j \in f.at + 1..f.n
        /\ \A k \in f.at + 1..j - 1 : TopSlots[k] \in marked
      BY NextSlotFacts DEF ReturnToNext, Limit, Top
  <2>2. InRange(f) /\ Undisturbed(f) /\ Ahead(f) /\ Protected(N) /\ N \in Nat
      BY <2>1, TypeFacts DEF Frames
  <2>3. h \in Subs /\ h \in ToSet(all)
      BY Called
  <2>4. f.at \in 1..f.n /\ f.n \in Nat /\ f.called \in Seq(Subs) /\ f.todo \in Seq(Subs)
      BY <2>1, <2>2 DEF InRange, Frame
  <2>5. TopSlots = FrameSlots(f)
      BY <2>1 DEF TopSlots, FrameSlots
  <2> QED
      BY <2>1, <2>2, <2>3, <2>4, <2>5
<1>2. /\ disp' = [disp EXCEPT ![N] = [f EXCEPT !.at = j, !.called = Append(f.called, h)]]
      /\ all' = all /\ lists' = lists /\ made' = made /\ scheduled' = scheduled
      /\ marked' = marked /\ freed' = freed /\ broken' = broken /\ Registered' = Registered
  <2>1. disp' = [disp EXCEPT ![N] = [f EXCEPT !.at = j, !.called = Append(f.called, h)]]
    <3>1. ASSUME NEW e \in Frame, NEW x
          PROVE  [e EXCEPT !.at = j, !.called = Append(@, x)]
                    = [e EXCEPT !.at = j, !.called = Append(e.called, x)]
        BY DEF Frame
    <3> QED
        BY <1>1, <3>1 DEF ReturnToNext, Top
  <2> QED
      BY <2>1 DEF ReturnToNext, Registered
<1> HIDE DEF j, h
<1>3. Append(f.called, h) \in Seq(Subs) /\ Append(f.called, h) # <<>>
      /\ ToSet(Append(f.called, h)) = ToSet(f.called) \cup {h}
  <2>1. f.called \in Seq(Subs) /\ h \in Subs
      BY <1>1
  <2>2. Append(f.called, h) # <<>>
    <3> HIDE DEF f
    <3> QED
        BY <2>1
  <2> QED
      BY <2>1, <2>2, AppendFacts
<1>4. /\ g \in Frame /\ g.chan = f.chan /\ g.n = f.n /\ g.at = j /\ g.todo = f.todo
      /\ g.upto = f.upto /\ g.alone = f.alone /\ g.called = Append(f.called, h)
      /\ disp' \in Seq(Frame) /\ Len(disp') = N
      /\ \A k \in 1..N : k # N => disp'[k] = disp[k]
  <2>1. disp \in Seq(Frame)
      BY DEF Types
  <2> DEFINE new == [f EXCEPT !.at = j, !.called = Append(f.called, h)]
  <2>2. /\ new \in Frame /\ new.chan = f.chan /\ new.n = f.n /\ new.at = j /\ new.todo = f.todo
        /\ new.upto = f.upto /\ new.alone = f.alone /\ new.called = Append(f.called, h)
    <3>1. j \in Nat /\ f \in Frame /\ Append(f.called, h) \in Seq(Subs)
        BY <1>1, <1>3
    <3> HIDE DEF f
    <3> QED
        BY <3>1 DEF Frame
  <2> HIDE DEF new
  <2>3. disp' = [disp EXCEPT ![N] = new]
      BY <1>2 DEF new
  <2>4. g = new /\ disp' \in Seq(Frame) /\ Len(disp') = N /\ \A k \in 1..N : k # N => disp'[k] = disp[k]
      BY <1>1, <2>1, <2>2, <2>3
  <2> QED
      BY <2>2, <2>4
<1>5. Types'
    BY <1>2, <1>4 DEF Types
<1>6. Fates'
    BY <1>2 DEF Fates
<1>7. ListsAgree'
    BY <1>2 DEF ListsAgree
<1>8. ASSUME NEW k \in 1..N, k # N
      PROVE  (InRange(disp[k]) /\ Undisturbed(disp[k]) /\ Ahead(disp[k]) /\ Protected(k))'
  <2>1. disp'[k] = disp[k] /\ Len(disp') = Len(disp)
      BY <1>4, <1>8
  <2>2. InRange(disp[k]) /\ Undisturbed(disp[k]) /\ Ahead(disp[k]) /\ Protected(k)
      BY DEF Frames
  <2>3. FrameSlots(disp[k])' = FrameSlots(disp[k])
      BY <1>2, <2>1 DEF FrameSlots
  <2>4. InRange(disp[k])'
      BY <1>2, <2>1, <2>2, <2>3 DEF InRange
  <2>5. Undisturbed(disp[k])'
      BY <1>2, <2>1, <2>2, <2>3 DEF Undisturbed
  <2>6. Ahead(disp[k])'
      BY <1>2, <2>1, <2>2, <2>3 DEF Ahead
  <2>7. Protected(k)'
      BY <1>2, <2>1, <2>2, <2>3 DEF Protected
  <2> QED
      BY <2>4, <2>5, <2>6, <2>7
<1>9. ASSUME NEW k \in 1..N, k = N
      PROVE  (InRange(disp[k]) /\ Undisturbed(disp[k]) /\ Ahead(disp[k]) /\ Protected(k))'
  <2>1. g = disp'[k] /\ FrameSlots(disp[k])' = FrameSlots(f) /\ disp[k]' = g
      BY <1>2, <1>4, <1>9 DEF FrameSlots
  <2> HIDE DEF g
  <2>2. /\ j \in 1..f.n /\ f.at \in Nat /\ j \in Nat /\ f.at < j
      BY <1>1
  <2>3. InRange(disp[k])'
    <3>1. /\ lists[g.chan].known /\ g.n = Len(g.todo) /\ g.at \in 1..g.n
          /\ g.n <= Len(FrameSlots(f)) /\ g.upto <= made /\ g.called # <<>>
          /\ ToSet(g.todo) \subseteq 1..g.upto
          /\ \A x \in ToSet(all) : x <= g.upto /\ g.chan \in Matches[x] => x \in ToSet(g.todo)
        BY <1>1, <1>3, <1>4, <2>2 DEF InRange
    <3> QED
        BY <1>2, <2>1, <3>1 DEF InRange
  <2>4. Undisturbed(disp[k])'
    <3> SUFFICES ASSUME ToSet(f.todo) \cup (f.upto + 1..made) \subseteq ToSet(all)
                 PROVE  /\ f.n <= lists[f.chan].len
                        /\ \A i \in 1..f.n : FrameSlots(f)[i] = f.todo[i]
                        /\ Append(f.called, h) = SubSeq(f.todo, 1, j)
        BY <1>2, <1>4, <2>1 DEF Undisturbed
    <3>1. /\ f.n <= lists[f.chan].len
          /\ \A i \in 1..f.n : FrameSlots(f)[i] = f.todo[i]
          /\ f.called = SubSeq(f.todo, 1, f.at)
        BY <1>1 DEF Undisturbed
    <3>2. \A i \in 1..f.n : FrameSlots(f)[i] \notin marked
      <4>1. DOMAIN f.todo = 1..f.n
          BY <1>1 DEF InRange
      <4> QED
          BY <3>1, <4>1 DEF Fates, ToSet
    <3>3. j = f.at + 1
      <4>1. j # f.at + 1 => f.at + 1 \in f.at + 1..j - 1 /\ f.at + 1 \in 1..f.n
          BY <1>1
      <4> QED
          BY <1>1, <3>2, <4>1
    <3>4. h = f.todo[f.at + 1]
      <4>1. f.at + 1 \in 1..f.n
          BY <1>1, <3>3
      <4> QED
          BY <1>1, <3>1, <3>3, <4>1 DEF h, j
    <3>5. Append(SubSeq(f.todo, 1, f.at), f.todo[f.at + 1]) = SubSeq(f.todo, 1, f.at + 1)
      <4>1. f.todo \in Seq(Subs) /\ f.at \in Nat /\ f.at + 1 <= Len(f.todo)
          BY <1>1, <2>2, <3>3 DEF InRange
      <4> HIDE DEF f
      <4> DEFINE a == Append(SubSeq(f.todo, 1, f.at), f.todo[f.at + 1])
                 b == SubSeq(f.todo, 1, f.at + 1)
      <4>2. a \in Seq(Subs) /\ Len(a) = f.at + 1
            /\ \A i \in 1..f.at + 1 : a[i] = f.todo[i]
          BY <4>1
      <4>3. b \in Seq(Subs) /\ Len(b) = f.at + 1
            /\ \A i \in 1..f.at + 1 : b[i] = f.todo[i]
          BY <4>1
      <4> HIDE DEF a, b
      <4>4. a = b
          BY <4>2, <4>3, SeqEqual
      <4> QED
          BY <4>4 DEF a, b
    <3> QED
        BY <3>1, <3>3, <3>4, <3>5
  <2>5. Ahead(disp[k])'
    <3> SUFFICES ASSUME f.upto = made
                 PROVE  /\ lists[f.chan].len <= f.n
                        /\ \A x \in ToSet(f.todo) \cap ToSet(all) :
                            \/ x \in ToSet(Append(f.called, h))
                            \/ \E i \in j + 1..f.n : FrameSlots(f)[i] = x
      <4>1. /\ disp'[k].upto = f.upto /\ disp'[k].chan = f.chan /\ disp'[k].n = f.n
            /\ disp'[k].todo = f.todo /\ disp'[k].called = Append(f.called, h)
            /\ disp'[k].at = j
          BY <1>4, <2>1
      <4> HIDE DEF f
      <4> QED
          BY <1>2, <2>1, <4>1 DEF Ahead
    <3>1. lists[f.chan].len <= f.n
        BY <1>1 DEF Ahead
    <3>2. ASSUME NEW x \in ToSet(f.todo) \cap ToSet(all), x \notin ToSet(f.called), x # h
          PROVE  \E i \in j + 1..f.n : FrameSlots(f)[i] = x
      <4>1. PICK i \in f.at + 1..f.n : FrameSlots(f)[i] = x
          BY <1>1, <3>2 DEF Ahead
      <4>2. x \notin marked
          BY DEF Fates
      <4>3. i # j
          BY <1>1, <3>2, <4>1 DEF h, j
      <4>4. i \notin f.at + 1..j - 1
          BY <1>1, <4>1, <4>2
      <4>5. i \in j + 1..f.n
          BY <1>1, <2>2, <4>1, <4>3, <4>4
      <4> QED
          BY <4>1, <4>5
    <3> QED
        BY <1>3, <3>1, <3>2
  <2>6. Protected(k)'
      BY <1>1, <1>2, <1>4, <1>9, <2>1 DEF Protected
  <2> QED
      BY <2>3, <2>4, <2>5, <2>6
<1>10. Frames'
    BY <1>4, <1>8, <1>9 DEF Frames
<1> QED
    BY <1>5, <1>6, <1>7, <1>10

LEMMA ReturnToCallerIInv ==
    ASSUME IInv, ReturnToCaller
    PROVE  IInv'
<1> USE DEF IInv
<1> DEFINE N == Len(disp)
           hs == SubSeq(TopSlots, 1, Limit)
<1>1. N \in 1..N /\ N \in Nat /\ disp \in Seq(Frame)
    BY NextSlotFacts, TypeFacts DEF ReturnToCaller, Types
<1>2. /\ all' = all /\ lists' = lists /\ made' = made /\ marked' = marked
      /\ Registered' = Registered /\ broken' \in BOOLEAN
      /\ freed \subseteq freed' /\ freed' \subseteq freed \cup marked
    BY DEF ReturnToCaller, Registered
<1>3. /\ disp' \in Seq(Frame) /\ Len(disp') = N - 1
      /\ \A k \in 1..N - 1 : disp'[k] = disp[k] /\ k \in 1..N
  <2>1. disp' = SubSeq(disp, 1, N - 1)
      BY DEF ReturnToCaller, Front
  <2>2. /\ 1 \in Int /\ N - 1 \in Nat /\ 1 + N - 1 = N
        /\ \A k \in 1..N - 1 : k \in 1..N /\ 1 + k - 1 = k /\ disp[k] \in Frame
      BY <1>1
  <2> DEFINE s == SubSeq(disp, 1, N - 1)
  <2>3. /\ s \in Seq(Frame) /\ Len(s) = IF 1 <= N - 1 THEN N - 1 - 1 + 1 ELSE 0
        /\ \A k \in 1..N - 1 - 1 + 1 : s[k] = disp[1 + k - 1]
    <3> HIDE DEF N
    <3> QED
        BY <2>2, SubSeqProperties
  <2> HIDE DEF N, s
  <2>4. Len(s) = N - 1 /\ N - 1 - 1 + 1 = N - 1
      BY <1>1, <2>3
  <2> QED
      BY <2>1, <2>2, <2>3, <2>4 DEF s
<1>4. Types'
    BY <1>2, <1>3 DEF Types
<1>5. Fates'
    BY <1>2 DEF Fates
<1>6. ListsAgree'
    BY <1>2 DEF ListsAgree
<1>7. Frames'
  <2> SUFFICES ASSUME NEW k \in 1..N - 1
               PROVE  (InRange(disp[k]) /\ Undisturbed(disp[k]) /\ Ahead(disp[k]) /\ Protected(k))'
      BY <1>3 DEF Frames
  <2>1. /\ InRange(disp[k]) /\ Undisturbed(disp[k]) /\ Ahead(disp[k]) /\ Protected(k)
        /\ disp'[k] = disp[k] /\ k # N
      BY SMTT(30), <1>1, <1>3 DEF Frames
  <2> QED
      BY <1>2, <2>1 DEF InRange, Undisturbed, Ahead, Protected, FrameSlots
<1> QED
    BY <1>4, <1>5, <1>6, <1>7

\* Every step keeps the invariant.
LEMMA StepIInv == IInv /\ [Next]_vars => IInv'
<1> SUFFICES ASSUME IInv, [Next]_vars PROVE IInv'
    OBVIOUS
<1>1. CASE UNCHANGED vars
  <2>1. Types' /\ Fates' /\ ListsAgree'
      BY <1>1 DEF vars, IInv, Types, Fates, ListsAgree, Registered
  <2>2. Frames'
      BY <1>1, SameFrames DEF vars, IInv
  <2> QED
      BY <2>1, <2>2 DEF IInv
<1>2. CASE Subscribe
    BY <1>2, SubscribeIInv
<1>3. ASSUME NEW h \in Subs, Unsubscribe(h) PROVE IInv'
    BY <1>3, UnsubscribeIInv
<1>4. ASSUME NEW c \in Channels, HasHandlers(c) PROVE IInv'
    BY <1>4, HasHandlersIInv
<1>5. ASSUME NEW c \in Channels, Dispatch(c) PROVE IInv'
    BY <1>5, DispatchIInv
<1>6. CASE ReturnToFreed
    BY <1>6, ReturnToFreedIInv
<1>7. CASE ReturnToNext
    BY <1>7, ReturnToNextIInv
<1>8. CASE ReturnToCaller
    BY <1>8, ReturnToCallerIInv
<1> QED
    BY <1>1, <1>2, <1>3, <1>4, <1>5, <1>6, <1>7, <1>8 DEF Next

LEMMA SpecIInv == Spec => []IInv
BY InitIInv, StepIInv, PTL DEF Spec

-----------------------------------------------------------------------------
(* What it promises.                                                       *)

\* The arrays of the channels and the list of subscriptions always agree, in
\* whatever order channels are first seen and handlers come and go (lcm.c:249-271,
\* 350-374): no subscription is forgotten or listed twice on any channel.
THEOREM TablesAgree == Spec => []ListsAgree
<1>1. IInv => ListsAgree
    BY DEF IInv
<1> QED
    BY SpecIInv, <1>1, PTL

\* The invariant keeps the handlers of a dispatch that nothing disturbs.
LEMMA KeptUntil == IInv => KeptUnlessSubscribed
<1> SUFFICES ASSUME IInv, ~Quiet, ~Subscribed, Top.alone PROVE Kept
    BY DEF KeptUnlessSubscribed
<1>1. Len(disp) \in 1..Len(disp) /\ Top \in Frame
    BY NextSlotFacts DEF IInv
<1>2. /\ Top.upto <= made /\ Top.upto \in Nat /\ made \in Nat
      /\ Protected(Len(disp)) /\ TopSlots = FrameSlots(Top)
    BY <1>1, TypeFacts DEF IInv, Frames, InRange, Top, Frame, TopSlots, FrameSlots
<1>3. Top.upto = made
    BY <1>2 DEF Subscribed
<1> QED
    BY <1>2, <1>3 DEF Protected, Kept, Top

\* The reference a dispatch takes on its handlers (lcm.c:395-399) does keep them
\* alive while nothing is subscribed and no other dispatch is nested in it.
THEOREM HandlersKept == Spec => []KeptUnlessSubscribed
BY SpecIInv, KeptUntil, PTL

\* A handler that a dispatch calls is still subscribed, also in the middle of a
\* dispatch that had more of them to come (lcm.h:185, lcm.c:403-406); and it meets
\* one that was freed on the way only if something was subscribed, or another
\* dispatch ended, during this one.  Nothing is said of what follows that.
THEOREM UnsubscribedIsSilent == Spec => NotAfterUnsubscribe
<1> DEFINE Silent == disp' # <<>> /\ disp' # disp /\ ~Ends
                        => LastCalled(disp'[Len(disp')]) \in ToSet(all)
           Warned == broken' # broken /\ disp' = disp => Subscribed \/ ~Top.alone
<1>0. ASSUME IInv, Next PROVE Warned
  <2> USE <1>0
  <2>1. CASE Subscribe \/ (\E h \in Subs : Unsubscribe(h))
             \/ (\E c \in Channels : HasHandlers(c) \/ Dispatch(c)) \/ ReturnToNext
      BY <2>1 DEF Subscribe, Unsubscribe, HasHandlers, Dispatch, ReturnToNext
  <2>2. CASE ReturnToFreed
    <3>1. /\ ~Quiet /\ Top \in Frame /\ Top.n \in Nat /\ Top.at \in Nat
          /\ \E k \in Top.at + 1..Top.n : TopSlots[k] \in freed
        BY <2>2, NextSlotFacts DEF ReturnToFreed, MetFreed, Limit, Frame, IInv
    <3>2. ~Kept
        BY <3>1 DEF Kept
    <3> QED
        BY <3>1, <3>2, KeptUntil DEF KeptUnlessSubscribed
  <2>3. CASE ReturnToCaller
    <3>1. Len(disp) \in Nat \ {0} /\ disp' = SubSeq(disp, 1, Len(disp) - 1)
        BY <2>3, NextSlotFacts DEF ReturnToCaller, IInv, Front
    <3> QED
        BY <3>1
  <2> QED
      BY <2>1, <2>2, <2>3 DEF Next
<1>1. ASSUME IInv, Next PROVE Silent
  <2> USE <1>1
  <2>1. CASE Subscribe \/ ReturnToFreed \/ (\E h \in Subs : Unsubscribe(h))
             \/ (\E c \in Channels : HasHandlers(c))
      BY <2>1 DEF Subscribe, ReturnToFreed, Unsubscribe, HasHandlers
  <2>2. ASSUME NEW c \in Channels, Dispatch(c) PROVE Silent
    <3> DEFINE hs == Live(Got(c))
               new == [chan |-> c, n |-> Len(hs), at |-> 1, todo |-> hs,
                       upto |-> made, alone |-> TRUE, called |-> <<hs[1]>>]
               old == [i \in DOMAIN disp |-> [disp[i] EXCEPT !.alone = FALSE]]
    <3>1. Sound(Got(c)) /\ ToSet(hs) \subseteq ToSet(all)
        BY GotFacts DEF IInv
    <3>2. hs \in Seq(Subs) /\ hs # <<>>
        BY <2>2, <3>1, LiveFacts DEF Dispatch
    <3> HIDE DEF hs
    <3>3. hs[1] \in ToSet(all)
        BY <3>1, <3>2 DEF ToSet
    <3>4. disp' = Append(old, new)
        BY <2>2 DEF Dispatch, hs
    <3>5. DOMAIN disp = 1..Len(disp) /\ Len(disp) \in Nat
        BY TypeFacts DEF IInv, Types
    <3>6. old \in Seq({old[i] : i \in DOMAIN disp} \cup {new})
      <4> HIDE DEF new
      <4>1. old \in [1..Len(disp) -> {old[i] : i \in DOMAIN disp} \cup {new}]
          BY <3>5
      <4> HIDE DEF old
      <4> QED
          BY <3>5, <4>1
    <3>7. disp'[Len(disp')] = new
      <4> HIDE DEF old, new
      <4> QED
          BY <3>4, <3>6
    <3>8. LastCalled(new) = hs[1]
      <4>1. new.called = <<hs[1]>>
          OBVIOUS
      <4> HIDE DEF new
      <4> QED
          BY <4>1 DEF LastCalled
    <3> HIDE DEF new, old
    <3> QED
        BY <3>3, <3>7, <3>8
  <2>3. CASE ReturnToNext
    <3> DEFINE h == TopSlots[NextSlot]
    <3>1. h \in ToSet(all)
        BY <2>3, Called
    <3>2. Len(disp) \in 1..Len(disp) /\ Top \in Frame /\ disp \in Seq(Frame)
        BY <2>3, NextSlotFacts DEF ReturnToNext, IInv, Types
    <3>3. disp' = [disp EXCEPT ![Len(disp)] =
                     [Top EXCEPT !.at = NextSlot, !.called = Append(@, h)]]
        BY <2>3 DEF ReturnToNext
    <3> HIDE DEF h
    <3>4. Len(disp') = Len(disp)
        BY <3>2, <3>3
    <3>5. disp'[Len(disp')].called = Append(Top.called, h)
        BY <3>2, <3>3, <3>4 DEF Frame
    <3>6. Top.called \in Seq(Subs)
        BY <3>2 DEF Frame
    <3>7. h \in Subs
        BY <2>3, Called DEF h
    <3>8. LastCalled(disp'[Len(disp')]) = h
      <4>1. ASSUME NEW s \in Seq(Subs) PROVE Append(s, h)[Len(Append(s, h))] = h
          BY <3>7
      <4> QED
          BY <3>5, <3>6, <4>1 DEF LastCalled
    <3> QED
        BY <3>1, <3>8
  <2>4. CASE ReturnToCaller
    <3>1. Len(disp) \in Nat \ {0} /\ disp' = SubSeq(disp, 1, Len(disp) - 1)
        BY <2>4, NextSlotFacts DEF ReturnToCaller, IInv, Front
    <3>2. Len(disp') < Len(disp)
        BY <3>1
    <3> QED
        BY <3>2 DEF Ends
  <2> QED
      BY <2>1, <2>2, <2>3, <2>4 DEF Next
<1>2. IInv /\ [Next]_vars => [Silent /\ Warned]_vars
    BY <1>0, <1>1 DEF vars
<1> QED
    BY SpecIInv, <1>2, PTL DEF Spec, NotAfterUnsubscribe

\* A message reaches the handlers there were when its dispatch began (lcm.c:391-414),
\* each exactly once and in the array's order unless something is unsubscribed
\* meanwhile, and every one still there, once or more often, unless something is
\* subscribed meanwhile.
THEOREM EveryHandlerReached == Spec => Reached
<1> DEFINE R == Ends =>
                 /\ ~Unsubscribed => Top.called = Top.todo
                 /\ ~Subscribed => ToSet(Top.todo) \cap ToSet(all) \subseteq ToSet(Top.called)
<1>1. ASSUME IInv, Next PROVE R
  <2> USE <1>1
  <2>1. CASE Subscribe \/ ReturnToFreed \/ (\E h \in Subs : Unsubscribe(h))
             \/ (\E c \in Channels : HasHandlers(c))
    <3>1. disp' = disp /\ Len(disp) \in Nat
        BY <2>1, TypeFacts DEF Subscribe, ReturnToFreed, Unsubscribe, HasHandlers, IInv
    <3> QED
        BY <3>1 DEF Ends
  <2>2. ASSUME NEW c \in Channels, Dispatch(c) PROVE R
    <3>1. Len(disp) \in Nat /\ DOMAIN disp = 1..Len(disp)
        BY TypeFacts DEF IInv, Types
    <3> DEFINE old == [i \in DOMAIN disp |-> [disp[i] EXCEPT !.alone = FALSE]]
               V == {old[i] : i \in DOMAIN disp}
    <3>2. old \in [1..Len(disp) -> V]
        BY <3>1
    <3>3. \E x : disp' = Append(old, x)
        BY <2>2 DEF Dispatch
    <3> HIDE DEF old, V
    <3>4. old \in Seq(V) /\ Len(old) = Len(disp)
        BY <3>1, <3>2
    <3>5. Len(disp') = Len(disp) + 1
        BY <3>3, <3>4
    <3> QED
        BY <3>1, <3>5 DEF Ends
  <2>3. CASE ReturnToNext
    <3>1. Len(disp') = Len(disp) /\ Len(disp) \in Nat
      <4>1. disp \in Seq(Frame)
          BY DEF IInv, Types
      <4>2. \E x : disp' = [disp EXCEPT ![Len(disp)] = x]
          BY <2>3 DEF ReturnToNext
      <4> QED
          BY <4>1, <4>2
    <3> QED
        BY <3>1 DEF Ends
  <2>4. CASE ReturnToCaller
    <3>1. /\ Len(disp) \in 1..Len(disp) /\ Top \in Frame
          /\ NextSlot = Top.n + 1
          /\ \A k \in Top.at + 1..Top.n : TopSlots[k] \in marked
      <4>1. /\ Len(disp) \in 1..Len(disp) /\ Top \in Frame
            /\ NextSlot \in Top.at + 1..Top.n + 1 /\ NextSlot > Top.n
            /\ \A k \in Top.at + 1..NextSlot - 1 : TopSlots[k] \in marked
          BY <2>4, NextSlotFacts DEF ReturnToCaller, Limit, IInv
      <4>2. Top.n \in Nat /\ Top.at \in Nat
          BY <4>1 DEF Frame
      <4> QED
          BY <4>1, <4>2
    <3>2. /\ InRange(Top) /\ Undisturbed(Top) /\ Ahead(Top) /\ TopSlots = FrameSlots(Top)
          /\ Top.n \in Nat /\ Top.at \in 1..Top.n /\ Top.todo \in Seq(Subs) /\ Top.n = Len(Top.todo)
          /\ Top.upto \in Nat /\ made \in Nat /\ Top.upto <= made
      <4>1. /\ InRange(Top) /\ Undisturbed(Top) /\ Ahead(Top)
          BY <3>1 DEF Frames, Top, IInv
      <4> QED
          BY <3>1, <4>1, TypeFacts DEF InRange, Frame, IInv, TopSlots, FrameSlots
    <3>3. ASSUME ~Unsubscribed PROVE Top.called = Top.todo
      <4>1. /\ ToSet(Top.todo) \subseteq ToSet(all)
            /\ \A j \in 1..Top.n : TopSlots[j] = Top.todo[j]
            /\ Top.called = SubSeq(Top.todo, 1, Top.at)
          BY <3>2, <3>3 DEF Unsubscribed, Undisturbed
      <4>2. \A j \in 1..Top.n : TopSlots[j] \notin marked
        <5>1. \A j \in 1..Top.n : Top.todo[j] \in ToSet(Top.todo)
            BY <3>2 DEF ToSet
        <5>2. ToSet(all) \cap marked = {}
            BY DEF IInv, Fates
        <5> QED
            BY <4>1, <5>1, <5>2
      <4>3. Top.at = Top.n
        <5>1. Top.at # Top.n => Top.n \in Top.at + 1..Top.n /\ Top.n \in 1..Top.n
            BY <3>2
        <5> QED
            BY <3>1, <4>2, <5>1
      <4>4. ASSUME NEW s \in Seq(Subs) PROVE SubSeq(s, 1, Len(s)) = s
          OBVIOUS
      <4> QED
          BY <3>2, <4>1, <4>3, <4>4
    <3>4. ASSUME ~Subscribed
          PROVE  ToSet(Top.todo) \cap ToSet(all) \subseteq ToSet(Top.called)
      <4>1. Top.upto = made
          BY <3>2, <3>4 DEF Subscribed
      <4>2. ToSet(all) \cap marked = {}
          BY DEF IInv, Fates
      <4> QED
          BY <3>1, <3>2, <4>1, <4>2 DEF Ahead
    <3> QED
        BY <3>3, <3>4
  <2> QED
      BY <2>1, <2>2, <2>3, <2>4 DEF Next
<1>2. IInv /\ [Next]_vars => [R]_vars
    BY <1>1 DEF vars
<1> QED
    BY SpecIInv, <1>2, PTL DEF Spec, Reached

=============================================================================
