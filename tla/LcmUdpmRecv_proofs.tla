-------------------------- MODULE LcmUdpmRecv_proofs --------------------------
(***************************************************************************)
(* The receive path for any number of structs, any ring, any packet sizes  *)
(* and any nesting of lcm_handle calls: the types, the wakeup count, the   *)
(* safety of the ring under the two threads that share it, and the         *)
(* ownership of the structs.                                               *)
(***************************************************************************)
EXTENDS LcmUdpmRecv, SequenceTheorems, TLAPS

RingP == INSTANCE LcmRingbuf_proofs
            WITH Size <- RingSize, Lens <- {PacketMax} \cup ShortSizes

-----------------------------------------------------------------------------
(* Sequences.                                                              *)

LEMMA AppendFacts ==
    ASSUME NEW S, NEW s \in Seq(S), NEW e \in S
    PROVE  /\ Append(s, e) \in Seq(S) /\ Append(s, e) # <<>>
           /\ Len(Append(s, e)) = Len(s) + 1
           /\ \A i \in 1..Len(s) : Append(s, e)[i] = s[i]
           /\ Append(s, e)[Len(s) + 1] = e
OBVIOUS

LEMMA TailFacts ==
    ASSUME NEW S, NEW s \in Seq(S), s # <<>>
    PROVE  /\ Tail(s) \in Seq(S) /\ Head(s) \in S /\ Head(s) = s[1]
           /\ Len(s) \in Nat \ {0} /\ Len(Tail(s)) = Len(s) - 1
           /\ \A i \in 1..Len(s) - 1 : Tail(s)[i] = s[i + 1]
OBVIOUS

LEMMA FrontFacts ==
    ASSUME NEW S, NEW s \in Seq(S), s # <<>>
    PROVE  /\ SubSeq(s, 1, Len(s) - 1) \in Seq(S) /\ Len(s) \in Nat \ {0}
           /\ Len(SubSeq(s, 1, Len(s) - 1)) = Len(s) - 1
           /\ \A i \in 1..Len(s) - 1 : SubSeq(s, 1, Len(s) - 1)[i] = s[i]
<1>1. Len(s) \in Nat \ {0}
    OBVIOUS
<1> DEFINE n == Len(s) - 1
<1>2. n \in Nat /\ \A i \in 1..n : s[i] \in S
    BY <1>1
<1> HIDE DEF n
<1>3. /\ SubSeq(s, 1, n) \in Seq(S)
      /\ Len(SubSeq(s, 1, n)) = IF 1 <= n THEN n - 1 + 1 ELSE 0
      /\ \A i \in 1..n - 1 + 1 : SubSeq(s, 1, n)[i] = s[1 + i - 1]
  <2>1. 1 \in Int /\ n \in Int /\ \A i \in 1..n : s[i] \in S
      BY <1>2
  <2> QED
      BY <2>1, SubSeqProperties
<1>4. Len(SubSeq(s, 1, n)) = n /\ \A i \in 1..n : SubSeq(s, 1, n)[i] = s[i]
    BY <1>2, <1>3
<1> QED
    BY <1>1, <1>3, <1>4 DEF n

\* All calls but the innermost.
LEMMA PopFacts ==
    ASSUME calls \in Seq(Frame), calls # <<>>
    PROVE  /\ Pop \in Seq(Frame) /\ Len(calls) \in Nat \ {0}
           /\ Len(Pop) = Len(calls) - 1 /\ Top \in Frame
           /\ \A i \in 1..Len(calls) - 1 : Pop[i] = calls[i]
<1>1. Len(calls) \in 1..Len(calls)
    BY FrontFacts
<1>2. Top \in Frame
    BY <1>1, ElementOfSeq DEF Top
<1> QED
    BY <1>2, FrontFacts DEF Pop

-----------------------------------------------------------------------------
(* The ring.                                                               *)

LEMMA RingAssumptions ==
    RingP!SizeAssumption /\ RingP!HeaderAssumption /\ RingP!LensAssumption
BY RingAssumption, PacketAssumption
DEF RingP!SizeAssumption, RingP!HeaderAssumption, RingP!LensAssumption

\* The three ways the receive path touches the ring are steps of the ring.
LEMMA AllocIsRingStep ==
    ASSUME Ring!Alloc(PacketMax)
    PROVE  RingP!RingNext
BY DEF Ring!Alloc, Ring!AllocRounded, Ring!Rounded, Ring!Places, Ring!Placed,
       Ring!Head1, Ring!Tail1, Ring!End,
       RingP!RingNext, RingP!Alloc, RingP!AllocRounded, RingP!Rounded,
       RingP!Places, RingP!Placed, RingP!Head1, RingP!Tail1, RingP!End

\* An offset at which a record can be freed or shrunk is one of the array.
LEMMA OffsetInRing ==
    ASSUME RingP!RingIInv, NEW p, Ring!CanDealloc(p)
    PROVE  p \in 0..RingSize
<1>1. recs \in Seq([pos : Nat, len : Nat \ {0}]) /\ recs # <<>>
    BY DEF RingP!RingIInv, RingP!RingTypeOK, RingP!Record, Ring!CanDealloc
<1>2. \A i \in 1..Len(recs) : recs[i].pos + recs[i].len <= RingSize
    BY DEF RingP!RingIInv, RingP!InBounds, RingP!End
<1>3. PICK i \in 1..Len(recs) : p = recs[i].pos
    BY <1>1 DEF Ring!CanDealloc, Ring!Head1, Ring!Tail1
<1>4. recs[i] \in [pos : Nat, len : Nat \ {0}]
    BY <1>1, ElementOfSeq
<1>5. recs[i].pos \in Nat /\ recs[i].len \in Nat
    BY <1>4
<1>6. recs[i].pos + recs[i].len <= RingSize
    BY <1>2
<1> QED
    BY <1>3, <1>5, <1>6, RingAssumption

LEMMA ShrinkIsRingStep ==
    ASSUME RingP!RingIInv, NEW p, NEW len \in ShortSizes, Ring!ShrinkLast(p, len)
    PROVE  RingP!RingNext
<1>1. Ring!CanDealloc(p)
    BY DEF Ring!ShrinkLast, Ring!ShrinkRounded, Ring!CanShrink, Ring!CanDealloc
<1>2. p \in 0..RingSize
    BY <1>1, OffsetInRing
<1>3. RingP!ShrinkLast(p, len)
    BY DEF Ring!ShrinkLast, Ring!ShrinkRounded, Ring!CanShrink, Ring!Rounded,
           Ring!Tail1, RingP!ShrinkLast, RingP!ShrinkRounded,
           RingP!CanShrink, RingP!Rounded, RingP!Tail1
<1> QED
    BY <1>2, <1>3 DEF RingP!RingNext

LEMMA DeallocIsRingStep ==
    ASSUME RingP!RingIInv, NEW p, Ring!Dealloc(p)
    PROVE  RingP!RingNext
<1>1. p \in 0..RingSize
    BY OffsetInRing DEF Ring!Dealloc
<1>2. RingP!Dealloc(p)
    BY DEF Ring!Dealloc, Ring!CanDealloc, Ring!Head1, Ring!Tail1,
           RingP!Dealloc, RingP!CanDealloc, RingP!Head1, RingP!Tail1
<1> QED
    BY <1>1, <1>2 DEF RingP!RingNext

ShortSize == rpc = "shrink" => sz \in ShortSizes

\* Every step of the receive path is a step of the ring or leaves it alone.
LEMMA StepIsRingStep ==
    ASSUME RingP!RingIInv, ShortSize, [Next]_vars
    PROVE  [RingP!RingNext]_<<recs, used>>
<1>1. CASE Grab
    BY <1>1, AllocIsRingStep DEF Grab, ringVars
<1>2. CASE ReadLastFragment
    BY <1>2, DeallocIsRingStep DEF ReadLastFragment
<1>3. CASE Shrink
    BY <1>3, ShrinkIsRingStep DEF Shrink, ShortSize
<1>4. CASE HandleRelease
    BY <1>4, DeallocIsRingStep DEF HandleRelease, FreePayload, ringVars
<1>5. CASE UNCHANGED ringVars
    BY <1>5 DEF ringVars
<1>6. ASSUME DiscardNoBuf \/ BeginPutBack \/ PutBack \/ ReadNothing
               \/ ReadIncomplete \/ ReadShort \/ Enqueue
               \/ HandleRead \/ HandleTake \/ UNCHANGED vars
      PROVE  UNCHANGED ringVars
    BY <1>6 DEF DiscardNoBuf, BeginPutBack, PutBack, ReadNothing,
                ReadIncomplete, ReadShort, Enqueue, HandleRead, HandleTake,
                vars
<1> QED
    BY <1>1, <1>2, <1>3, <1>4, <1>5, <1>6 DEF Next, RecvThread, Handler

LEMMA RingStep ==
    ASSUME RingP!RingIInv, ShortSize, [Next]_vars
    PROVE  RingP!RingIInv'
<1>1. [RingP!RingNext]_<<recs, used>>
    BY StepIsRingStep
<1> QED
    BY <1>1, RingP!RingStepPreserves, RingAssumptions DEF RingP!ringVars

-----------------------------------------------------------------------------
(* Types.                                                                  *)

\* What TypeOK says of the calls in progress.
CallsOK ==
    /\ calls \in Seq(Frame)
    /\ \A i \in 1..Len(calls) - 1 : calls[i].pc = "dispatch"

LEMMA CallsStep ==
    ASSUME CallsOK, filled \in Seq(Bufs), HandleRead \/ HandleTake \/ HandleRelease
    PROVE  CallsOK'
<1> USE DEF CallsOK
<1>1. CASE HandleRead
  <2> DEFINE f == [pc |-> "woken", buf |-> NoBuf]
  <2>1. f \in Frame /\ calls' = Append(calls, f)
      BY <1>1 DEF HandleRead, Frame
  <2>2. /\ calls' \in Seq(Frame) /\ Len(calls') = Len(calls) + 1
        /\ \A i \in 1..Len(calls) : calls'[i] = calls[i]
      BY <2>1, AppendFacts
  <2>3. \A i \in 1..Len(calls) : calls[i].pc = "dispatch"
      BY <1>1 DEF HandleRead, CanCall, Top
  <2> QED
      BY <2>2, <2>3
<1>2. CASE HandleTake
  <2>1. calls # <<>>
      BY <1>2 DEF HandleTake
  <2>2. CASE filled = <<>>
      BY <1>2, <2>1, <2>2, PopFacts DEF HandleTake
  <2>3. CASE filled # <<>>
    <3> DEFINE f == [pc |-> "dispatch", buf |-> Head(filled)]
    <3>1. f \in Frame /\ calls' = Append(Pop, f)
        BY <1>2, <2>3, TailFacts DEF HandleTake, Frame
    <3>2. /\ calls' \in Seq(Frame) /\ Len(calls') = Len(calls)
          /\ \A i \in 1..Len(calls) - 1 : calls'[i] = calls[i]
        BY <2>1, <3>1, PopFacts, AppendFacts
    <3> QED
        BY <3>2
  <2> QED
      BY <2>2, <2>3
<1>3. CASE HandleRelease
    BY <1>3, PopFacts DEF HandleRelease
<1> QED
    BY <1>1, <1>2, <1>3

\* What TypeOK says of everything but the ring and the calls.
PoolOK ==
    /\ empty \subseteq Bufs /\ strayTail \in BOOLEAN
    /\ putting \in Bufs \cup {NoBuf} /\ racers \subseteq Bufs
    /\ (putting = NoBuf) <=> (rpc # "putback")
BufOK ==
    /\ filled \in Seq(Bufs) /\ notify \in Nat
    /\ at \in [Bufs -> Nat \cup {Heap, Nowhere}]
    /\ msg \in [Bufs -> Nat] /\ stamp \in [Bufs -> Stamps]
    /\ delivered \in Seq(Nat)
ThreadOK ==
    /\ rpc \in {"select", "full", "putback", "read", "shrink", "queue"}
    /\ cur \in Bufs \cup {NoBuf}
    /\ (cur = NoBuf) <=> (rpc \in {"select", "putback"})
    /\ sz \in Nat /\ seen \in Nat
    /\ ShortSize

LEMMA TypeParts ==
    TypeOK /\ ShortSize
        <=> Ring!RingTypeOK /\ CallsOK /\ PoolOK /\ BufOK /\ ThreadOK
BY DEF TypeOK, CallsOK, PoolOK, BufOK, ThreadOK

\* The struct of the innermost call, while its callbacks run.
LEMMA TopBuf ==
    ASSUME CallsOK, calls # <<>>, Top.pc = "dispatch"
    PROVE  Top.buf \in Bufs
BY PopFacts DEF CallsOK, Frame

LEMMA RecvTypes ==
    ASSUME PoolOK, BufOK, ThreadOK, RingP!RingIInv', RecvThread
    PROVE  PoolOK' /\ BufOK' /\ ThreadOK'
<1> USE DEF PoolOK, BufOK, ThreadOK, ShortSize
<1>1. CASE DiscardNoBuf
    BY <1>1 DEF DiscardNoBuf, Take1, ringVars, poolVars, queueVars, bufVars, recvVars
<1>2. CASE Grab
  <2>1. PICK b \in empty :
          /\ Pool!Get(b) /\ cur' = b
          /\ IF Ring!HasSpace(Ring!Rounded(PacketMax))
             THEN /\ Ring!Alloc(PacketMax)
                  /\ at' = [at EXCEPT ![b] = recs'[Len(recs')].pos]
                  /\ rpc' = "read"
             ELSE /\ rpc' = "full"
                  /\ UNCHANGED <<ringVars, at>>
      BY <1>2 DEF Grab
  <2>2. /\ rpc = "select" /\ rpc' \in {"read", "full"}
        /\ UNCHANGED <<putting, racers, queueVars, msg, stamp, sz, calls, seen,
                       delivered>>
      BY <1>2, <2>1 DEF Grab
  <2>3. PoolOK'
      BY <2>1, <2>2 DEF Pool!Get
  <2>4. at' \in [Bufs -> Nat \cup {Heap, Nowhere}]
    <3>1. CASE at' = at
        BY <3>1
    <3>2. CASE Ring!Alloc(PacketMax) /\ at' = [at EXCEPT ![b] = recs'[Len(recs')].pos]
      <4>1. PICK r : recs' = Append(recs, r)
          BY <3>2 DEF Ring!Alloc, Ring!AllocRounded
      <4>2. recs' \in Seq([pos : Nat, len : Nat \ {0}])
          BY DEF RingP!RingIInv, RingP!RingTypeOK, RingP!Record
      <4>3. recs' # <<>>
          BY <4>1, <4>2
      <4>4. Len(recs') \in 1..Len(recs')
          BY <4>2, <4>3, FrontFacts
      <4>5. recs'[Len(recs')] \in [pos : Nat, len : Nat \ {0}]
          BY ZenonT(30), <4>2, <4>4, ElementOfSeq
      <4>6. recs'[Len(recs')].pos \in Nat
          BY <4>5
      <4> QED
          BY <3>2, <4>6
    <3> QED
        BY <2>1, <3>1, <3>2
  <2>5. b \in Bufs /\ b # NoBuf
      BY BufsAssumption
  <2> QED
      BY <2>1, <2>2, <2>3, <2>4, <2>5 DEF queueVars
<1>3. CASE BeginPutBack
    BY <1>3, BufsAssumption
    DEF BeginPutBack, Take1, Pool!BeginPut, ringVars, queueVars, bufVars
<1>4. CASE PutBack
  <2>1. empty' \subseteq Bufs /\ strayTail' \in BOOLEAN /\ putting' = NoBuf
        /\ racers' = {}
      BY <1>4 DEF PutBack, Pool!EndPut, Pool!Enqueued
  <2> QED
      BY <1>4, <2>1 DEF PutBack, ringVars, queueVars, bufVars
<1>5. CASE ReadNothing
    BY <1>5 DEF ReadNothing, Take1, poolVars, queueVars, bufVars, recvVars
<1>6. CASE ReadIncomplete
    BY <1>6 DEF ReadIncomplete, Take1, StampNow, Stamps, poolVars, queueVars, recvVars
<1>7. CASE ReadShort
    BY <1>7, PacketAssumption
    DEF ReadShort, Take1, StampNow, Stamps, poolVars, queueVars
<1>8. CASE ReadLastFragment
    BY <1>8 DEF ReadLastFragment, Take1, Stamps, poolVars, queueVars
<1>9. CASE Shrink
    BY <1>9 DEF Shrink, poolVars, queueVars, bufVars
<1>10. CASE Enqueue
    BY <1>10 DEF Enqueue, poolVars, bufVars
<1> QED
    BY <1>1, <1>2, <1>3, <1>4, <1>5, <1>6, <1>7, <1>8, <1>9, <1>10 DEF RecvThread

LEMMA HandlerTypes ==
    ASSUME PoolOK, BufOK, ThreadOK, CallsOK, Handler
    PROVE  PoolOK' /\ BufOK' /\ ThreadOK'
<1> USE DEF PoolOK, BufOK, ThreadOK, ShortSize
<1>1. CASE HandleRead
    BY <1>1 DEF HandleRead, poolVars, bufVars, recvVars
<1>2. CASE HandleTake
  <2>1. CASE filled = <<>>
      BY <1>2, <2>1 DEF HandleTake, poolVars, bufVars, recvVars
  <2>2. CASE filled # <<>>
    <3>1. /\ filled' = Tail(filled)
          /\ notify' = IF Tail(filled) # <<>> THEN notify + 1 ELSE notify
          /\ delivered' = Append(delivered, msg[Head(filled)])
        BY <1>2, <2>2 DEF HandleTake
    <3>2. filled' \in Seq(Bufs) /\ delivered' \in Seq(Nat) /\ notify' \in Nat
        BY <2>2, <3>1, TailFacts
    <3> QED
        BY <1>2, <3>2 DEF HandleTake, poolVars, bufVars, recvVars
  <2> QED
      BY <2>1, <2>2
<1>3. CASE HandleRelease
  <2>1. Top.buf \in Bufs
      BY <1>3, TopBuf DEF HandleRelease
  <2>2. PoolOK'
      BY <1>3, <2>1
      DEF HandleRelease, Pool!Return, Pool!Enqueued, recvVars
  <2>3. at' \in [Bufs -> Nat \cup {Heap, Nowhere}]
      BY <1>3, <2>1 DEF HandleRelease, FreePayload
  <2> QED
      BY <1>3, <2>2, <2>3 DEF HandleRelease, queueVars, recvVars
<1> QED
    BY <1>1, <1>2, <1>3 DEF Handler

-----------------------------------------------------------------------------
(* The wakeup count.                                                       *)

LEMMA WakeupStep ==
    ASSUME OneWakeup, CallsOK, BufOK, ThreadOK, [Next]_vars
    PROVE  OneWakeup'
<1>1. CASE UNCHANGED <<queueVars, calls>>
    BY <1>1 DEF OneWakeup, Woken, Top, queueVars
<1>2. CASE Enqueue
  <2>1. calls' = calls
      BY <1>2 DEF Enqueue
  <2>2. filled' = Append(filled, cur) /\ cur \in Bufs
      BY <1>2 DEF Enqueue, ThreadOK
  <2>3. filled' # <<>>
      BY <2>2, AppendFacts DEF BufOK
  <2>4. notify' = IF filled = <<>> THEN notify + 1 ELSE notify
      BY <1>2 DEF Enqueue
  <2> QED
      BY <2>1, <2>3, <2>4 DEF OneWakeup, Woken, Top
<1>3. CASE HandleRead
  <2>1. filled # <<>> /\ notify = 1 /\ notify' = 0 /\ filled' = filled
      BY <1>3 DEF HandleRead, OneWakeup
  <2> DEFINE f == [pc |-> "woken", buf |-> NoBuf]
  <2>2. f \in Frame /\ calls' = Append(calls, f)
      BY <1>3 DEF HandleRead, Frame
  <2>3. calls' # <<>> /\ calls'[Len(calls')] = f
      BY <2>2, AppendFacts DEF CallsOK
  <2>4. Woken'
      BY <2>3 DEF Woken, Top
  <2> QED
      BY <2>1, <2>4 DEF OneWakeup
<1>4. CASE HandleTake
  <2>1. Woken /\ filled # <<>> /\ notify = 0
      BY <1>4 DEF HandleTake, Woken, OneWakeup
  <2> DEFINE f == [pc |-> "dispatch", buf |-> Head(filled)]
  <2>2. /\ filled' = Tail(filled) /\ calls' = Append(Pop, f)
        /\ notify' = IF Tail(filled) # <<>> THEN notify + 1 ELSE notify
      BY <1>4, <2>1 DEF HandleTake
  <2>3. f \in Frame /\ Pop \in Seq(Frame)
      BY <2>1, TailFacts, PopFacts DEF Frame, BufOK, CallsOK, Woken
  <2>4. calls'[Len(calls')] = f
      BY <2>2, <2>3, AppendFacts
  <2>5. ~Woken'
      BY <2>4 DEF Woken, Top
  <2> QED
      BY <2>1, <2>2, <2>5 DEF OneWakeup
<1>5. CASE HandleRelease
  <2>1. /\ calls # <<>> /\ Top.pc = "dispatch" /\ calls' = Pop
        /\ UNCHANGED queueVars
      BY <1>5 DEF HandleRelease
  <2>2. ~Woken'
    <3>1. CASE Pop = <<>>
        BY <2>1, <3>1 DEF Woken
    <3>2. CASE Pop # <<>>
      <4>1. /\ Len(Pop) \in 1..Len(Pop) /\ Len(Pop) = Len(calls) - 1
            /\ Pop[Len(Pop)] = calls[Len(Pop)]
          BY <2>1, <3>2, PopFacts, FrontFacts DEF CallsOK
      <4>2. calls[Len(Pop)].pc = "dispatch"
          BY <2>1, <4>1 DEF CallsOK
      <4> QED
          BY <2>1, <4>1, <4>2 DEF Woken, Top
    <3> QED
        BY <3>1, <3>2
  <2> QED
      BY <2>1, <2>2 DEF OneWakeup, Woken, queueVars
<1>6. ASSUME DiscardNoBuf \/ Grab \/ BeginPutBack \/ PutBack \/ ReadNothing
               \/ ReadIncomplete \/ ReadShort \/ ReadLastFragment \/ Shrink
               \/ UNCHANGED vars
      PROVE  UNCHANGED <<queueVars, calls>>
    BY <1>6 DEF DiscardNoBuf, Grab, BeginPutBack, PutBack, ReadNothing,
                ReadIncomplete, ReadShort, ReadLastFragment, Shrink, vars
<1> QED
    BY <1>1, <1>2, <1>3, <1>4, <1>5, <1>6 DEF Next, RecvThread, Handler

-----------------------------------------------------------------------------
(* The owner of a struct.                                                  *)

InFilled(b) == \E i \in 1..Len(filled) : filled[i] = b
InCalls(b) == b # NoBuf /\ \E i \in 1..Len(calls) : calls[i].buf = b

\* OneHolder, without the sets of structs.
Holder ==
    /\ \A i, j \in 1..Len(filled) : filled[i] = filled[j] => i = j
    /\ \A i, j \in 1..Len(calls) :
          calls[i].buf = calls[j].buf => i = j \/ calls[i].buf = NoBuf
    /\ \A b \in Bufs :
          /\ ~(InFilled(b) /\ (InCalls(b) \/ b = cur))
          /\ ~(InCalls(b) /\ b = cur)
          /\ b \in empty \/ b \in racers \/ b = putting
                => ~InFilled(b) /\ ~InCalls(b) /\ b # cur
          /\ ~(b \in racers /\ b = putting)
          /\ ~(b \in empty /\ (b \in racers \/ b = putting))

LEMMA HolderIsOneHolder ==
    ASSUME CallsOK, PoolOK, BufOK, ThreadOK
    PROVE  Holder <=> OneHolder
<1>1. \A i \in 1..Len(filled) : filled[i] \in Bufs /\ filled[i] # NoBuf
    BY BufsAssumption DEF BufOK
<1>2. \A i \in 1..Len(calls) : calls[i].buf \in Bufs \cup {NoBuf}
  <2> TAKE i \in 1..Len(calls)
  <2>1. calls[i] \in Frame
      BY ElementOfSeq DEF CallsOK
  <2> QED
      BY <2>1 DEF Frame
<1>3. /\ empty \subseteq Bufs /\ racers \subseteq Bufs
      /\ putting \in Bufs \cup {NoBuf} /\ cur \in Bufs \cup {NoBuf}
    BY DEF PoolOK, ThreadOK
<1>4. ASSUME Holder PROVE OneHolder
    BY <1>1, <1>2, <1>3, <1>4, BufsAssumption
    DEF Holder, OneHolder, Free, InUse, InFilled, InCalls
<1>5. ASSUME OneHolder PROVE Holder
    BY <1>1, <1>2, <1>3, <1>5, BufsAssumption
    DEF Holder, OneHolder, Free, InUse, InFilled, InCalls
<1> QED
    BY <1>4, <1>5

\* How the four steps that touch the queue or the calls move structs.
LEMMA EnqueueMoves ==
    ASSUME Holder, BufOK, ThreadOK, Enqueue
    PROVE  /\ cur \in Bufs /\ cur' = NoBuf /\ UNCHANGED <<calls, poolVars>>
           /\ \A b : InFilled(b)' <=> InFilled(b) \/ b = cur
           /\ \A i, j \in 1..Len(filled') : filled'[i] = filled'[j] => i = j
<1>1. /\ filled' = Append(filled, cur) /\ cur' = NoBuf /\ cur \in Bufs
      /\ UNCHANGED <<calls, poolVars>>
    BY DEF Enqueue, ThreadOK
<1>2. /\ Len(filled') = Len(filled) + 1 /\ Len(filled) \in Nat
      /\ \A i \in 1..Len(filled) : filled'[i] = filled[i]
      /\ filled'[Len(filled) + 1] = cur
    BY <1>1, AppendFacts DEF BufOK
<1>3. \A b : InFilled(b)' <=> InFilled(b) \/ b = cur
    BY <1>2 DEF InFilled
<1>4. \A i \in 1..Len(filled) : filled[i] # cur
    BY <1>1 DEF Holder, InFilled
<1>5. \A i, j \in 1..Len(filled') : filled'[i] = filled'[j] => i = j
    BY <1>2, <1>4 DEF Holder
<1> QED
    BY <1>1, <1>3, <1>5

LEMMA ReadMoves ==
    ASSUME Holder, CallsOK, HandleRead
    PROVE  /\ UNCHANGED <<filled, cur, poolVars>>
           /\ \A b : InCalls(b)' <=> InCalls(b)
           /\ \A i, j \in 1..Len(calls') :
                  calls'[i].buf = calls'[j].buf => i = j \/ calls'[i].buf = NoBuf
<1> DEFINE f == [pc |-> "woken", buf |-> NoBuf]
<1>1. /\ f \in Frame /\ calls' = Append(calls, f)
      /\ UNCHANGED <<filled, cur, poolVars>>
    BY DEF HandleRead, Frame, recvVars
<1>2. /\ Len(calls') = Len(calls) + 1 /\ Len(calls) \in Nat
      /\ \A i \in 1..Len(calls) : calls'[i] = calls[i]
      /\ calls'[Len(calls) + 1].buf = NoBuf
    BY <1>1, AppendFacts DEF CallsOK
<1>3. \A b : InCalls(b)' <=> InCalls(b)
    BY <1>2 DEF InCalls
<1>4. \A i, j \in 1..Len(calls') :
        calls'[i].buf = calls'[j].buf => i = j \/ calls'[i].buf = NoBuf
    BY <1>2 DEF Holder
<1> QED
    BY <1>1, <1>3, <1>4

LEMMA TakeMoves ==
    ASSUME Holder, BufOK, CallsOK, OneWakeup, HandleTake
    PROVE  /\ Head(filled) \in Bufs /\ InFilled(Head(filled))
           /\ UNCHANGED <<cur, poolVars>>
           /\ \A b : InFilled(b)' <=> InFilled(b) /\ b # Head(filled)
           /\ \A b : InCalls(b)' <=> InCalls(b) \/ b = Head(filled)
           /\ \A i, j \in 1..Len(filled') : filled'[i] = filled'[j] => i = j
           /\ \A i, j \in 1..Len(calls') :
                  calls'[i].buf = calls'[j].buf => i = j \/ calls'[i].buf = NoBuf
<1>1. Woken /\ filled # <<>> /\ calls # <<>>
    BY DEF HandleTake, Woken, OneWakeup
<1> DEFINE h == Head(filled)
           f == [pc |-> "dispatch", buf |-> h]
<1>2. /\ filled' = Tail(filled) /\ calls' = Append(Pop, f)
      /\ UNCHANGED <<cur, poolVars>>
    BY <1>1 DEF HandleTake, recvVars
<1>3. /\ h \in Bufs /\ h = filled[1] /\ Len(filled) \in Nat \ {0}
      /\ Len(filled') = Len(filled) - 1
      /\ \A i \in 1..Len(filled) - 1 : filled'[i] = filled[i + 1]
    BY <1>1, <1>2, TailFacts DEF BufOK
<1>4. /\ f \in Frame /\ Pop \in Seq(Frame) /\ Len(Pop) = Len(calls) - 1
      /\ Len(calls) \in Nat \ {0} /\ Top \in Frame
      /\ \A i \in 1..Len(calls) - 1 : Pop[i] = calls[i]
    BY <1>1, <1>3, PopFacts DEF Frame, CallsOK
<1>5. calls[Len(calls)].buf = NoBuf
    BY <1>1, <1>4 DEF Woken, Top, Frame
<1>6. /\ Len(calls') = Len(calls)
      /\ \A i \in 1..Len(calls) - 1 : calls'[i] = calls[i]
      /\ calls'[Len(calls)].buf = h
  <2>1. /\ Len(Append(Pop, f)) = Len(Pop) + 1
        /\ \A i \in 1..Len(Pop) : Append(Pop, f)[i] = Pop[i]
        /\ Append(Pop, f)[Len(Pop) + 1] = f
      BY <1>4, AppendFacts
  <2>2. Len(Pop) + 1 = Len(calls) /\ f.buf = h
      BY <1>4
  <2> QED
      BY <1>2, <1>4, <2>1, <2>2
<1>7. h # NoBuf
    BY <1>3, BufsAssumption
<1> HIDE DEF h, f
<1>8. \A b : InCalls(b)' <=> InCalls(b) \/ b = h
    BY <1>4, <1>5, <1>6, <1>7 DEF InCalls
<1>9. \A b : InFilled(b)' <=> InFilled(b) /\ b # h
  <2>1. ASSUME NEW i \in 1..Len(filled')
        PROVE  InFilled(filled'[i]) /\ filled'[i] # h
    <3>1. i + 1 \in 1..Len(filled) /\ 1 \in 1..Len(filled) /\ filled'[i] = filled[i + 1]
        BY <1>3
    <3>2. i + 1 # 1
        OBVIOUS
    <3>3. filled[i + 1] # filled[1]
        BY <3>1, <3>2 DEF Holder
    <3> QED
        BY <1>3, <3>1, <3>3 DEF InFilled
  <2>2. ASSUME NEW i \in 1..Len(filled), filled[i] # h
        PROVE  \E j \in 1..Len(filled') : filled'[j] = filled[i]
    <3>1. i # 1
        BY <1>3, <2>2
    <3>2. i - 1 \in 1..Len(filled') /\ filled'[i - 1] = filled[i]
        BY <1>3, <3>1
    <3> QED
        BY <3>2
  <2> QED
      BY <2>1, <2>2 DEF InFilled
<1>10. \A i, j \in 1..Len(filled') : filled'[i] = filled'[j] => i = j
  <2> SUFFICES ASSUME NEW i \in 1..Len(filled'), NEW j \in 1..Len(filled'),
                      filled'[i] = filled'[j]
               PROVE  i = j
      OBVIOUS
  <2>1. /\ i + 1 \in 1..Len(filled) /\ j + 1 \in 1..Len(filled)
        /\ filled[i + 1] = filled[j + 1]
      BY <1>3
  <2> QED
      BY <2>1 DEF Holder
<1>11. InFilled(h)
    BY <1>3 DEF InFilled
<1>12. \A i \in 1..Len(calls) - 1 : calls[i].buf # h
    BY <1>3, <1>4, <1>7, <1>11 DEF Holder, InCalls
<1>13. \A i, j \in 1..Len(calls') :
        calls'[i].buf = calls'[j].buf => i = j \/ calls'[i].buf = NoBuf
  <2>1. \A i \in 1..Len(calls') :
          \/ i \in 1..Len(calls) - 1 /\ calls'[i] = calls[i]
          \/ i = Len(calls) /\ calls'[i].buf = h
      BY <1>4, <1>6
  <2>2. \A i \in 1..Len(calls) - 1 : i \in 1..Len(calls)
      BY <1>4
  <2> QED
      BY <1>12, <2>1, <2>2 DEF Holder
<1> QED
    BY <1>2, <1>3, <1>8, <1>9, <1>10, <1>11, <1>13 DEF h

LEMMA ReleaseMoves ==
    ASSUME Holder, CallsOK, HandleRelease
    PROVE  /\ Top.buf \in Bufs /\ InCalls(Top.buf) /\ UNCHANGED <<filled, cur>>
           /\ Pool!Return(Top.buf)
           /\ \A a : InCalls(a)' <=> InCalls(a) /\ a # Top.buf
           /\ \A i, j \in 1..Len(calls') :
                  calls'[i].buf = calls'[j].buf => i = j \/ calls'[i].buf = NoBuf
<1> DEFINE b == Top.buf
<1>1. /\ calls # <<>> /\ Top.pc = "dispatch" /\ calls' = Pop
      /\ Pool!Return(b) /\ UNCHANGED <<filled, cur>>
    BY DEF HandleRelease, queueVars, recvVars
<1>2. b \in Bufs /\ b # NoBuf
    BY <1>1, TopBuf, BufsAssumption
<1>3. /\ Len(calls') = Len(calls) - 1 /\ Len(calls) \in Nat \ {0}
      /\ \A i \in 1..Len(calls) - 1 : calls'[i] = calls[i]
      /\ calls[Len(calls)].buf = b
    BY <1>1, PopFacts DEF CallsOK, Top
<1> HIDE DEF b
<1>5. InCalls(b)
    BY <1>2, <1>3 DEF InCalls
<1>6. \A i \in 1..Len(calls) - 1 : calls[i].buf # b
  <2> TAKE i \in 1..Len(calls) - 1
  <2>1. i \in 1..Len(calls) /\ Len(calls) \in 1..Len(calls) /\ i # Len(calls)
      BY <1>3
  <2> QED
      BY <1>2, <1>3, <2>1 DEF Holder
<1>7. \A a : InCalls(a)' <=> InCalls(a) /\ a # b
  <2>1. \A i \in 1..Len(calls) : i \in 1..Len(calls) - 1 \/ i = Len(calls)
      BY <1>3
  <2> QED
      BY <1>3, <1>6, <2>1 DEF InCalls
<1>8. \A i, j \in 1..Len(calls') :
        calls'[i].buf = calls'[j].buf => i = j \/ calls'[i].buf = NoBuf
    BY <1>3 DEF Holder
<1> QED
    BY <1>1, <1>2, <1>5, <1>7, <1>8 DEF b

\* Steps of the receiver change the pool, lcmb and, last, the queue.
LEMMA RecvHolder ==
    ASSUME Holder, PoolOK, BufOK, ThreadOK, RecvThread
    PROVE  Holder'
<1>1. CASE Grab
  <2>1. PICK b \in empty : Pool!Get(b) /\ cur' = b
      BY <1>1 DEF Grab
  <2>2. UNCHANGED <<filled, calls, racers, putting>> /\ cur = NoBuf
      BY <1>1 DEF Grab, queueVars, ThreadOK
  <2>3. empty' = empty \ {b} /\ b \in Bufs
      BY <2>1 DEF Pool!Get, PoolOK
  <2> QED
      BY <2>1, <2>2, <2>3 DEF Holder, InFilled, InCalls
<1>2. CASE BeginPutBack
  <2>1. /\ putting' = cur /\ cur' = NoBuf /\ cur \in Bufs
        /\ UNCHANGED <<filled, calls, racers, empty>> /\ putting = NoBuf
      BY <1>2, BufsAssumption
      DEF BeginPutBack, Pool!BeginPut, queueVars, ThreadOK, PoolOK
  <2> QED
      BY <2>1, BufsAssumption DEF Holder, InFilled, InCalls
<1>3. CASE PutBack
  <2>1. /\ empty' \subseteq empty \cup racers \cup {putting}
        /\ racers' = {} /\ putting' = NoBuf
        /\ UNCHANGED <<filled, calls, cur>>
      BY <1>3 DEF PutBack, Pool!EndPut, Pool!Enqueued, queueVars
  <2> QED
      BY <2>1, BufsAssumption DEF Holder, InFilled, InCalls
<1>4. CASE Enqueue
    BY <1>4, EnqueueMoves, BufsAssumption DEF Holder, InCalls, poolVars
<1>5. ASSUME DiscardNoBuf \/ ReadNothing \/ ReadIncomplete \/ ReadShort
               \/ ReadLastFragment \/ Shrink
      PROVE  UNCHANGED <<poolVars, filled, calls, cur>>
    BY <1>5 DEF DiscardNoBuf, ReadNothing, ReadIncomplete, ReadShort,
                ReadLastFragment, Shrink, recvVars, queueVars
<1>6. CASE UNCHANGED <<poolVars, filled, calls, cur>>
    BY <1>6 DEF Holder, InFilled, InCalls, poolVars
<1> QED
    BY <1>1, <1>2, <1>3, <1>4, <1>5, <1>6 DEF RecvThread

\* Steps of a handler move a struct from the queue to the call to the pool.
LEMMA HandlerHolder ==
    ASSUME Holder, PoolOK, BufOK, ThreadOK, CallsOK, OneWakeup, Handler
    PROVE  Holder'
<1>1. CASE HandleRead
    BY <1>1, ReadMoves DEF Holder, InFilled, poolVars
<1>2. CASE HandleTake
    BY <1>2, TakeMoves DEF Holder, poolVars
<1>3. CASE HandleRelease
  <2> DEFINE b == Top.buf
  <2>1. b \in Bufs /\ InCalls(b) /\ UNCHANGED <<filled, cur>>
      BY <1>3, ReleaseMoves
  <2>2. /\ UNCHANGED putting
        /\ \/ empty' \subseteq empty \cup {b} /\ racers' = racers /\ putting = NoBuf
           \/ empty' = empty /\ racers' = racers \cup {b} /\ putting # NoBuf
      BY <1>3, ReleaseMoves DEF Pool!Return, Pool!Enqueued
  <2>3. \A a : InCalls(a)' <=> InCalls(a) /\ a # b
      BY <1>3, ReleaseMoves
  <2>4. \A i, j \in 1..Len(calls') :
          calls'[i].buf = calls'[j].buf => i = j \/ calls'[i].buf = NoBuf
      BY <1>3, ReleaseMoves
  <2> HIDE DEF b
  <2> QED
      BY <2>1, <2>2, <2>3, <2>4, BufsAssumption DEF Holder, InFilled
<1> QED
    BY <1>1, <1>2, <1>3 DEF Handler

-----------------------------------------------------------------------------
IInv ==
    /\ RingP!RingIInv /\ CallsOK /\ PoolOK /\ BufOK /\ ThreadOK
    /\ OneWakeup /\ Holder

LEMMA InitIInv == Init => IInv
<1> SUFFICES ASSUME Init PROVE IInv
    OBVIOUS
<1>1. /\ recs = <<>> /\ used = 0 /\ Len(recs) = 0 /\ Len(calls) = 0
      /\ Len(filled) = 0
    BY DEF Init, Ring!RingInit
<1>2. RingP!RingIInv
    BY <1>1 DEF RingP!RingIInv, RingP!RingTypeOK, RingP!InBounds, RingP!Rotation
<1>3. CallsOK /\ PoolOK /\ ThreadOK /\ BufOK
  <2>1. CallsOK
      BY <1>1 DEF Init, CallsOK
  <2>2. PoolOK
      BY DEF Init, PoolOK
  <2>3. ThreadOK
      BY DEF Init, ThreadOK, ShortSize
  <2>4. /\ at \in [Bufs -> Nat \cup {Heap, Nowhere}]
        /\ msg \in [Bufs -> Nat] /\ stamp \in [Bufs -> Stamps]
      BY DEF Init, Stamps
  <2>5. BufOK
      BY <2>4 DEF Init, BufOK
  <2> QED
      BY <2>1, <2>2, <2>3, <2>5
<1>4. OneWakeup
    BY DEF Init, OneWakeup, Woken
<1>5. Holder
    BY <1>1, BufsAssumption DEF Init, Holder, InFilled, InCalls
<1> QED
    BY <1>2, <1>3, <1>4, <1>5 DEF IInv

LEMMA StepIInv == IInv /\ [Next]_vars => IInv'
<1> SUFFICES ASSUME IInv, [Next]_vars PROVE IInv'
    OBVIOUS
<1> USE DEF IInv
<1>1. RingP!RingIInv'
    BY RingStep DEF ThreadOK
<1>2. OneWakeup'
    BY WakeupStep
<1>3. CASE RecvThread
  <2>1. calls' = calls
      BY <1>3 DEF RecvThread, DiscardNoBuf, Grab, BeginPutBack, PutBack,
                  ReadNothing, ReadIncomplete, ReadShort, ReadLastFragment,
                  Shrink, Enqueue
  <2>2. CallsOK'
      BY <2>1 DEF CallsOK
  <2> QED
      BY <1>1, <1>2, <1>3, <2>2, RecvTypes, RecvHolder
<1>4. CASE Handler
    BY <1>1, <1>2, <1>4, HandlerTypes, CallsStep, HandlerHolder DEF Handler, BufOK
<1>5. CASE UNCHANGED vars
  <2>1. CallsOK' /\ PoolOK' /\ ThreadOK' /\ BufOK'
      BY <1>5 DEF vars, poolVars, queueVars, bufVars, recvVars, CallsOK, PoolOK,
                  ThreadOK, BufOK, ShortSize
  <2>2. Holder'
      BY <1>5 DEF vars, poolVars, queueVars, bufVars, recvVars, Holder,
                  InFilled, InCalls
  <2> QED
      BY <1>1, <1>2, <2>1, <2>2
<1> QED
    BY <1>3, <1>4, <1>5 DEF Next

\* However the receiver and the handlers interleave, for any number of structs
\* and any ring: there is exactly one wakeup while a message is queued, a
\* struct has one holder, and no two records of the ring share a byte.
THEOREM RecvSafe ==
    Spec => [](TypeOK /\ OneWakeup /\ OneHolder /\ Ring!InBounds /\ Ring!Disjoint)
<1>1. IInv => TypeOK /\ OneWakeup /\ OneHolder
  <2>1. RingP!RingIInv => Ring!RingTypeOK
      BY DEF RingP!RingIInv, RingP!RingTypeOK, Ring!RingTypeOK, RingP!Record,
             Ring!Record
  <2> QED
      BY <2>1, TypeParts, HolderIsOneHolder DEF IInv, ThreadOK
<1>2. IInv => Ring!InBounds /\ Ring!Disjoint
  <2> SUFFICES ASSUME RingP!RingIInv PROVE Ring!InBounds /\ Ring!Disjoint
      BY DEF IInv
  <2>1. RingP!Disjoint
      BY RingP!RotationDisjoint, RingAssumptions
  <2> QED
      BY <2>1 DEF RingP!RingIInv, RingP!InBounds, RingP!End, RingP!Disjoint,
                  Ring!InBounds, Ring!Disjoint, Ring!End
<1> QED
    BY <1>1, <1>2, InitIInv, StepIInv, PTL DEF Spec

-----------------------------------------------------------------------------
(* The mailbox.                                                            *)

Pend == [i \in 1..Len(filled) |-> msg[filled[i]]]
Done == {delivered[k] : k \in 1..Len(delivered)}

\* Messages are queued and delivered in the order of their last datagrams.
InOrder ==
    /\ seen \in 0..MaxDatagrams
    /\ \A i, j \in 1..Len(filled) : i < j => Pend[i] < Pend[j]
    /\ \A i \in 1..Len(filled) : Pend[i] <= seen /\ \A d \in Done : d < Pend[i]
    /\ \A d \in Done : d <= seen
    /\ rpc \in {"shrink", "queue"} =>
          /\ msg[cur] \in 1..seen
          /\ \A i \in 1..Len(filled) : Pend[i] < msg[cur]
          /\ \A d \in Done : d < msg[cur]

LEMMA PendFacts ==
    ASSUME BufOK
    PROVE  /\ Pend \in Seq(Nat) /\ Len(Pend) = Len(filled) /\ Len(filled) \in Nat
           /\ Pend = <<>> <=> filled = <<>>
           /\ \A i \in 1..Len(filled) :
                  filled[i] \in Bufs /\ Pend[i] = msg[filled[i]] /\ Pend[i] \in Nat
<1>1. Len(filled) \in Nat /\ \A i \in 1..Len(filled) : filled[i] \in Bufs
    BY DEF BufOK
<1>2. \A i \in 1..Len(filled) : msg[filled[i]] \in Nat
    BY <1>1 DEF BufOK
<1>3. Pend \in Seq(Nat) /\ Len(Pend) = Len(filled)
    BY <1>1, <1>2 DEF Pend
<1>4. Pend = <<>> <=> filled = <<>>
    BY <1>3 DEF BufOK
<1> QED
    BY <1>1, <1>2, <1>3, <1>4 DEF Pend

LEMMA EnqueuePend ==
    ASSUME BufOK, ThreadOK, Enqueue
    PROVE  /\ Pend' = Append(Pend, msg[cur]) /\ msg[cur] \in Nat
           /\ Len(filled') = Len(filled) + 1
           /\ \A i \in 1..Len(filled) : Pend'[i] = Pend[i]
           /\ Pend'[Len(filled) + 1] = msg[cur]
<1>1. /\ filled' = Append(filled, cur) /\ cur \in Bufs /\ msg' = msg
    BY DEF Enqueue, ThreadOK, bufVars
<1>2. /\ Len(filled') = Len(filled) + 1 /\ Len(filled) \in Nat
      /\ \A i \in 1..Len(filled) : filled'[i] = filled[i]
      /\ filled'[Len(filled) + 1] = cur
    BY <1>1, AppendFacts DEF BufOK
<1>3. msg[cur] \in Nat
    BY <1>1 DEF BufOK
<1>4. Pend' = [i \in 1..Len(filled) + 1 |-> msg[filled'[i]]]
    BY <1>1, <1>2 DEF Pend
<1>5. /\ \A i \in 1..Len(filled) : Pend'[i] = Pend[i]
      /\ Pend'[Len(filled) + 1] = msg[cur]
    BY <1>2, <1>4 DEF Pend
<1>6. /\ Append(Pend, msg[cur]) \in Seq(Nat)
      /\ Len(Append(Pend, msg[cur])) = Len(filled) + 1
      /\ \A i \in 1..Len(filled) : Append(Pend, msg[cur])[i] = Pend[i]
      /\ Append(Pend, msg[cur])[Len(filled) + 1] = msg[cur]
    BY <1>3, PendFacts, AppendFacts
<1>7. Pend' \in Seq(Nat) /\ Len(Pend') = Len(filled) + 1
  <2>1. \A i \in 1..Len(filled) + 1 : Pend'[i] \in Nat
      BY <1>2, <1>3, <1>5, PendFacts
  <2> QED
      BY <1>2, <1>4, <2>1
<1>8. Pend' = Append(Pend, msg[cur])
  <2>1. \A i \in 1..Len(filled) + 1 : Pend'[i] = Append(Pend, msg[cur])[i]
      BY <1>2, <1>5, <1>6
  <2> QED
      BY <1>6, <1>7, <2>1, SeqEqual
<1> QED
    BY <1>2, <1>3, <1>5, <1>8

LEMMA TakePend ==
    ASSUME BufOK, filled # <<>>, HandleTake
    PROVE  /\ Pend' = Tail(Pend) /\ msg[Head(filled)] = Pend[1]
           /\ delivered' = Append(delivered, Pend[1]) /\ Pend[1] \in Nat
           /\ Len(filled') = Len(filled) - 1 /\ Len(filled) \in Nat \ {0}
           /\ \A i \in 1..Len(filled) - 1 : Pend'[i] = Pend[i + 1]
<1>1. /\ filled' = Tail(filled) /\ msg' = msg
      /\ delivered' = Append(delivered, msg[Head(filled)])
    BY DEF HandleTake, bufVars
<1>2. /\ Head(filled) = filled[1] /\ Len(filled) \in Nat \ {0}
      /\ Len(filled') = Len(filled) - 1
      /\ \A i \in 1..Len(filled) - 1 : filled'[i] = filled[i + 1]
    BY <1>1, TailFacts DEF BufOK
<1>3. 1 \in 1..Len(filled) /\ Pend[1] = msg[Head(filled)] /\ Pend[1] \in Nat
    BY <1>2, PendFacts
<1>4. \A i \in 1..Len(filled) - 1 : i + 1 \in 1..Len(filled)
    BY <1>2
<1>5. Pend' = [i \in 1..Len(filled) - 1 |-> msg[filled'[i]]]
    BY <1>1, <1>2 DEF Pend
<1>6. \A i \in 1..Len(filled) - 1 : Pend'[i] = Pend[i + 1]
    BY <1>2, <1>4, <1>5 DEF Pend
<1>7. /\ Tail(Pend) \in Seq(Nat) /\ Len(Tail(Pend)) = Len(filled) - 1
      /\ \A i \in 1..Len(filled) - 1 : Tail(Pend)[i] = Pend[i + 1]
    BY PendFacts, TailFacts
<1>8. Pend' \in Seq(Nat) /\ Len(Pend') = Len(filled) - 1
  <2>1. \A i \in 1..Len(filled) - 1 : Pend'[i] \in Nat
      BY <1>4, <1>6, PendFacts
  <2> QED
      BY <1>2, <1>5, <2>1
<1>9. Pend' = Tail(Pend)
  <2>1. \A i \in 1..Len(filled) - 1 : Pend'[i] = Tail(Pend)[i]
      BY <1>6, <1>7
  <2> QED
      BY <1>7, <1>8, <2>1, SeqEqual
<1> QED
    BY <1>1, <1>2, <1>3, <1>6, <1>9

LEMMA DoneStep ==
    ASSUME BufOK, NEW m \in Nat, delivered' = Append(delivered, m)
    PROVE  \A d : d \in Done' <=> d \in Done \/ d = m
<1>1. /\ Len(delivered') = Len(delivered) + 1 /\ Len(delivered) \in Nat
      /\ \A i \in 1..Len(delivered) : delivered'[i] = delivered[i]
      /\ delivered'[Len(delivered) + 1] = m
    BY AppendFacts DEF BufOK
<1>2. \A i \in 1..Len(delivered') :
        i \in 1..Len(delivered) \/ i = Len(delivered) + 1
    BY <1>1
<1>3. \A i \in 1..Len(delivered) + 1 : i \in 1..Len(delivered')
    BY <1>1
<1>4. \A i \in 1..Len(delivered) : i \in 1..Len(delivered) + 1
    BY <1>1
<1>5. Len(delivered) + 1 \in 1..Len(delivered) + 1
    BY <1>1
<1> QED
    BY <1>1, <1>2, <1>3, <1>4, <1>5 DEF Done

\* The struct of the receiver is not in the queue: its next message leaves the
\* queued ones alone.
LEMMA ReadPend ==
    ASSUME Holder, BufOK, ThreadOK, cur \in Bufs, NEW m,
           msg' = [msg EXCEPT ![cur] = m], filled' = filled
    PROVE  Pend' = Pend /\ msg'[cur] = m
<1>1. \A i \in 1..Len(filled) : msg'[filled[i]] = msg[filled[i]]
  <2> TAKE i \in 1..Len(filled)
  <2>1. filled[i] \in Bufs /\ filled[i] # cur
      BY PendFacts DEF Holder, InFilled
  <2> QED
      BY <2>1 DEF BufOK
<1>2. msg'[cur] = m
    BY DEF BufOK
<1> QED
    BY <1>1, <1>2 DEF Pend

LEMMA InitInOrder == Init => InOrder
<1> SUFFICES ASSUME Init PROVE InOrder
    OBVIOUS
<1>1. Len(filled) = 0 /\ Len(delivered) = 0 /\ seen = 0 /\ rpc = "select"
    BY DEF Init
<1>2. seen \in 0..MaxDatagrams
    BY <1>1, PacketAssumption
<1> QED
    BY <1>1, <1>2 DEF InOrder, Done

LEMMA InOrderStep ==
    ASSUME IInv, InOrder, [Next]_vars
    PROVE  InOrder'
<1> USE DEF IInv
<1>0. seen \in Nat /\ MaxDatagrams \in Nat /\ Len(filled) \in Nat
      /\ Done \subseteq Nat /\ \A i \in 1..Len(filled) : Pend[i] \in Nat
  <2>1. \A k \in 1..Len(delivered) : delivered[k] \in Nat
      BY DEF BufOK
  <2> QED
      BY <2>1, PendFacts, PacketAssumption DEF ThreadOK, Done
<1>1. ASSUME UNCHANGED <<filled, msg, delivered>>,
             seen' = seen \/ (seen < MaxDatagrams /\ seen' = seen + 1),
             rpc' \in {"shrink", "queue"}
                => rpc \in {"shrink", "queue"} /\ cur' = cur
      PROVE  InOrder'
  <2>1. Pend' = Pend /\ Done' = Done
      BY <1>1 DEF Pend, Done
  <2>2. seen' \in 0..MaxDatagrams /\ seen <= seen'
      BY <1>0, <1>1 DEF InOrder
  <2>3. \A i \in 1..Len(filled) : Pend[i] <= seen'
      BY <1>0, <2>2 DEF InOrder
  <2>4. \A d \in Done : d <= seen'
      BY <1>0, <2>2 DEF InOrder
  <2>5. rpc' \in {"shrink", "queue"} => msg[cur] \in 1..seen'
      BY <1>0, <1>1, <2>2 DEF InOrder
  <2> QED
      BY <1>1, <2>1, <2>2, <2>3, <2>4, <2>5 DEF InOrder
<1>2. ASSUME ReadShort \/ ReadLastFragment
      PROVE  InOrder'
  <2>1. /\ UNCHANGED <<filled, delivered, cur>> /\ cur \in Bufs
        /\ seen < MaxDatagrams /\ seen' = seen + 1
        /\ msg' = [msg EXCEPT ![cur] = seen + 1]
      BY <1>2 DEF ReadShort, ReadLastFragment, Take1, queueVars, ThreadOK
  <2>2. Pend' = Pend /\ Done' = Done /\ msg'[cur] = seen + 1
      BY <2>1, ReadPend DEF Done
  <2>3. \A i \in 1..Len(filled) : Pend[i] <= seen' /\ Pend[i] < msg'[cur]
      BY <1>0, <2>1, <2>2 DEF InOrder
  <2>4. \A d \in Done : d <= seen' /\ d < msg'[cur]
      BY <1>0, <2>1, <2>2 DEF InOrder
  <2>5. seen' \in 0..MaxDatagrams /\ msg'[cur] \in 1..seen'
      BY <1>0, <2>1, <2>2
  <2> QED
      BY <2>1, <2>2, <2>3, <2>4, <2>5 DEF InOrder
<1>3. CASE Enqueue
  <2>1. /\ rpc = "queue" /\ rpc' = "select"
        /\ UNCHANGED <<seen, delivered>> /\ Done' = Done
      BY <1>3 DEF Enqueue, Done
  <2>2. /\ msg[cur] \in 1..seen /\ \A d \in Done : d < msg[cur]
        /\ \A i \in 1..Len(filled) : Pend[i] < msg[cur]
      BY <2>1 DEF InOrder
  <2>3. /\ Len(filled') = Len(filled) + 1
        /\ \A i \in 1..Len(filled) : Pend'[i] = Pend[i]
        /\ Pend'[Len(filled) + 1] = msg[cur]
      BY <1>3, EnqueuePend
  <2>4. \A i \in 1..Len(filled') : i \in 1..Len(filled) \/ i = Len(filled) + 1
      BY <1>0, <2>3
  <2>5. \A i, j \in 1..Len(filled') : i < j => Pend'[i] < Pend'[j]
    <3> SUFFICES ASSUME NEW i \in 1..Len(filled'), NEW j \in 1..Len(filled'), i < j
                 PROVE  Pend'[i] < Pend'[j]
        OBVIOUS
    <3>1. i \in 1..Len(filled)
        BY <1>0, <2>3
    <3>2. CASE j \in 1..Len(filled)
        BY <2>3, <3>1, <3>2 DEF InOrder
    <3>3. CASE j = Len(filled) + 1
        BY <2>2, <2>3, <3>1, <3>3
    <3> QED
        BY <2>4, <3>2, <3>3
  <2>6. \A i \in 1..Len(filled') : Pend'[i] <= seen' /\ \A d \in Done' : d < Pend'[i]
    <3> TAKE i \in 1..Len(filled')
    <3>1. CASE i \in 1..Len(filled)
        BY <2>1, <2>3, <3>1 DEF InOrder
    <3>2. CASE i = Len(filled) + 1
        BY <1>0, <2>1, <2>2, <2>3, <3>2
    <3> QED
        BY <2>4, <3>1, <3>2
  <2> QED
      BY <2>1, <2>5, <2>6 DEF InOrder
<1>4. CASE HandleTake
  <2>1. filled # <<>> /\ UNCHANGED <<seen, rpc, cur, msg>>
      BY <1>4 DEF HandleTake, OneWakeup, Woken, recvVars, bufVars
  <2>2. /\ delivered' = Append(delivered, Pend[1]) /\ Pend[1] \in Nat
        /\ Len(filled') = Len(filled) - 1 /\ Len(filled) \in Nat \ {0}
        /\ \A i \in 1..Len(filled) - 1 : Pend'[i] = Pend[i + 1]
      BY <1>4, <2>1, TakePend
  <2>3. \A d : d \in Done' <=> d \in Done \/ d = Pend[1]
      BY <2>2, DoneStep
  <2>4. \A i \in 1..Len(filled') :
           i + 1 \in 1..Len(filled) /\ 1 < i + 1 /\ Pend'[i] = Pend[i + 1]
      BY <2>2
  <2>5. 1 \in 1..Len(filled)
      BY <2>2
  <2>6. \A i, j \in 1..Len(filled') : i < j => Pend'[i] < Pend'[j]
    <3> SUFFICES ASSUME NEW i \in 1..Len(filled'), NEW j \in 1..Len(filled'), i < j
                 PROVE  Pend'[i] < Pend'[j]
        OBVIOUS
    <3>1. i + 1 < j + 1
        BY <2>2
    <3> QED
        BY <2>4, <3>1 DEF InOrder
  <2>7. \A i \in 1..Len(filled') : Pend'[i] <= seen' /\ \A d \in Done' : d < Pend'[i]
    <3> TAKE i \in 1..Len(filled')
    <3>1. Pend[1] < Pend'[i]
        BY <2>4, <2>5 DEF InOrder
    <3> QED
        BY <2>1, <2>3, <2>4, <3>1 DEF InOrder
  <2>8. \A d \in Done' : d <= seen'
      BY <2>1, <2>3, <2>5 DEF InOrder
  <2>9. rpc' \in {"shrink", "queue"} =>
          /\ msg'[cur'] \in 1..seen'
          /\ \A i \in 1..Len(filled') : Pend'[i] < msg'[cur']
          /\ \A d \in Done' : d < msg'[cur']
      BY <2>1, <2>3, <2>4, <2>5 DEF InOrder
  <2> QED
      BY <2>1, <2>6, <2>7, <2>8, <2>9 DEF InOrder
<1>5. ASSUME DiscardNoBuf \/ Grab \/ BeginPutBack \/ PutBack \/ ReadNothing
               \/ ReadIncomplete \/ Shrink \/ HandleRead \/ HandleRelease
               \/ UNCHANGED vars
      PROVE  /\ UNCHANGED <<filled, msg, delivered>>
             /\ seen' = seen \/ (seen < MaxDatagrams /\ seen' = seen + 1)
             /\ rpc' \in {"shrink", "queue"}
                  => rpc \in {"shrink", "queue"} /\ cur' = cur
    BY <1>5 DEF DiscardNoBuf, Grab, BeginPutBack, PutBack, ReadNothing,
                ReadIncomplete, Shrink, HandleRead, HandleRelease, Take1, vars,
                queueVars, bufVars, recvVars
<1> QED
    BY <1>1, <1>2, <1>3, <1>4, <1>5 DEF Next, RecvThread, Handler

\* A step of the mailbox, or of its client, or none that shows.
LEMMA StepIsBoxStep ==
    ASSUME IInv, InOrder, [Next]_vars
    PROVE  [Box!BoxNext]_(Box!boxVars)
<1> USE DEF IInv
<1>1. OneWakeup'
    BY WakeupStep
<1>2. ASSUME UNCHANGED <<filled, notify>> PROVE Woken' = Woken
    BY <1>1, <1>2 DEF OneWakeup, Woken
<1>3. ASSUME UNCHANGED <<filled, notify, delivered>>, Pend' = Pend
      PROVE  UNCHANGED Box!boxVars
    BY <1>2, <1>3 DEF Box!boxVars, Pend
<1>4. CASE Enqueue
  <2>1. /\ Pend' = Append(Pend, msg[cur]) /\ msg[cur] \in 1..MaxDatagrams
        /\ UNCHANGED <<calls, delivered>>
    <3>1. rpc = "queue" /\ UNCHANGED <<calls, delivered>>
        BY <1>4 DEF Enqueue
    <3>2. msg[cur] \in 1..seen /\ seen \in 0..MaxDatagrams
        BY <3>1 DEF InOrder
    <3>3. msg[cur] \in 1..MaxDatagrams
        BY <3>2, PacketAssumption
    <3> QED
        BY <1>4, <3>1, <3>3, EnqueuePend
  <2>2. /\ \A i \in 1..Len(Pend) : Pend[i] < msg[cur]
        /\ \A i \in 1..Len(delivered) : delivered[i] < msg[cur]
      BY <1>4, PendFacts DEF Enqueue, InOrder, Done
  <2>3. notify' = IF Pend = <<>> THEN 1 ELSE notify
      BY <1>4, PendFacts DEF Enqueue, OneWakeup
  <2>4. Woken' = Woken
      BY <2>1 DEF Woken, Top
  <2>5. PICK m \in 1..MaxDatagrams : m = msg[cur]
      BY <2>1
  <2>6. Box!Accept(m)
    <3>1. Box!Newer(m)
        BY <2>2, <2>5 DEF Box!Newer, Pend
    <3> QED
        BY <2>1, <2>3, <2>4, <2>5, <3>1 DEF Box!Accept, Pend
  <2> QED
      BY <2>6 DEF Box!BoxNext
<1>5. CASE HandleRead
  <2>1. /\ notify = 1 /\ ~Woken /\ notify' = 0
        /\ UNCHANGED <<filled, msg, delivered>> /\ filled # <<>>
      BY <1>5 DEF HandleRead, OneWakeup, bufVars
  <2>2. Woken' = TRUE
      BY <1>1, <2>1 DEF OneWakeup, Woken
  <2>3. Pend' = Pend
      BY <2>1 DEF Pend
  <2>4. Box!Claim
      BY <2>1, <2>2, <2>3 DEF Box!Claim, Pend
  <2> QED
      BY <2>4 DEF Box!BoxNext
<1>6. CASE HandleTake
  <2>1. Woken /\ filled # <<>> /\ notify = 0
      BY <1>6 DEF HandleTake, OneWakeup, Woken
  <2>2. /\ Pend # <<>> /\ Pend' = Tail(Pend)
        /\ delivered' = Append(delivered, Pend[1])
      BY <1>6, <2>1, TakePend, PendFacts
  <2>3. notify' = IF Tail(filled) = <<>> THEN 0 ELSE 1
      BY <1>6, <2>1 DEF HandleTake
  <2>4. filled' = Tail(filled) /\ Woken' = FALSE
      BY <1>1, <1>6, <2>1, <2>3 DEF HandleTake, OneWakeup, Woken
  <2>5. Tail(filled) = <<>> <=> Tail(Pend) = <<>>
      BY <2>1, <2>2, PendFacts, TailFacts DEF BufOK
  <2>6. Box!Deliver
      BY <2>1, <2>2, <2>3, <2>4, <2>5 DEF Box!Deliver, Pend
  <2> QED
      BY <2>6 DEF Box!BoxNext
<1>7. CASE ReadShort \/ ReadLastFragment
  <2>1. /\ UNCHANGED <<filled, notify, delivered>> /\ cur \in Bufs
        /\ msg' = [msg EXCEPT ![cur] = seen + 1]
      BY <1>7 DEF ReadShort, ReadLastFragment, queueVars, ThreadOK
  <2>2. Pend' = Pend
      BY <2>1, ReadPend
  <2> QED
      BY <1>3, <2>1, <2>2
<1>8. CASE DiscardNoBuf \/ Grab \/ BeginPutBack \/ PutBack \/ ReadNothing
             \/ ReadIncomplete \/ Shrink \/ HandleRelease \/ UNCHANGED vars
  <2>1. UNCHANGED <<filled, notify, msg, delivered>>
      BY <1>8 DEF DiscardNoBuf, Grab, BeginPutBack, PutBack, ReadNothing,
                  ReadIncomplete, Shrink, HandleRelease, vars, queueVars, bufVars
  <2>2. Pend' = Pend
      BY <2>1 DEF Pend
  <2> QED
      BY <1>3, <2>1, <2>2
<1> QED
    BY <1>4, <1>5, <1>6, <1>7, <1>8 DEF Next, RecvThread, Handler

\* For an application the receive path is a mailbox: every message that is
\* queued comes out of lcm_handle once, in the order of arrival, the descriptor
\* is readable exactly while one waits, and lcm_handle, called when it is, never
\* fails with "no packet available despite getting notification".
THEOREM ImplementsMailbox == Spec => IsMailbox
<1>1. Init => Box!BoxInit
  <2> SUFFICES ASSUME Init PROVE Box!BoxInit
      OBVIOUS
  <2>1. filled = <<>> /\ notify = 0 /\ Woken = FALSE /\ delivered = <<>>
      BY DEF Init, Woken
  <2>2. BufOK
      BY InitIInv DEF IInv
  <2>3. Pend = <<>>
      BY <2>1, <2>2, PendFacts
  <2> QED
      BY <2>1, <2>3 DEF Box!BoxInit, Pend
<1>2. IInv /\ InOrder /\ [Next]_vars => IInv' /\ InOrder'
    BY StepIInv, InOrderStep
<1>3. IInv /\ InOrder /\ [Next]_vars => [Box!BoxNext]_(Box!boxVars)
    BY StepIsBoxStep
<1> QED
    BY <1>1, <1>2, <1>3, InitIInv, InitInOrder, PTL
    DEF Spec, IsMailbox, Box!BoxSpec

-----------------------------------------------------------------------------
(* The assertions of the ring, while lcm_handle is not called from its own *)
(* callbacks: the records lie in the ring in the order in which their      *)
(* structs are dispatched, so that the struct being dispatched has the     *)
(* oldest record and the one being filled the newest.                      *)

Dispatched(b) == calls # <<>> /\ Top.pc = "dispatch" /\ Top.buf = b
Receiving(b) == rpc \in {"read", "shrink", "queue"} /\ b = cur
Carries(b) == Dispatched(b) \/ InFilled(b) \/ Receiving(b)

\* Of two structs with a message, the one that is dispatched first.
Before(a, b) ==
    \/ Dispatched(a) /\ (InFilled(b) \/ Receiving(b))
    \/ \E i, j \in 1..Len(filled) : i < j /\ filled[i] = a /\ filled[j] = b
    \/ InFilled(a) /\ Receiving(b)

Recorded(b, k) == k \in 1..Len(recs) /\ recs[k].pos = at[b]

ByArrival ==
    /\ \A b \in Bufs :
          FromRing(b) => Carries(b) /\ (\E k \in 1..Len(recs) : Recorded(b, k))
    /\ \A k \in 1..Len(recs) : \E b \in Bufs : Recorded(b, k)
    /\ \A a, b \in Bufs : Before(a, b) =>
          \A k, l \in 1..Len(recs) : Recorded(a, k) /\ Recorded(b, l) => k < l
    /\ Len(calls) <= 1
    /\ rpc \in {"read", "shrink"} =>
          FromRing(cur) /\ recs # <<>> /\ recs[Len(recs)].len = Ring!Rounded(PacketMax)

\* Records have different offsets.
Apart ==
    /\ recs \in Seq([pos : Nat, len : Nat \ {0}])
    /\ \A k \in 1..Len(recs) : recs[k].pos \in Nat /\ recs[k].len \in Nat
    /\ \A k, l \in 1..Len(recs) : recs[k].pos = recs[l].pos => k = l

LEMMA RecordsApart == RingP!RingIInv => Apart
<1> SUFFICES ASSUME RingP!RingIInv PROVE Apart
    OBVIOUS
<1>1. recs \in Seq([pos : Nat, len : Nat \ {0}])
    BY DEF RingP!RingIInv, RingP!RingTypeOK, RingP!Record
<1>2. \A k \in 1..Len(recs) : recs[k].pos \in Nat /\ recs[k].len \in Nat \ {0}
  <2> TAKE k \in 1..Len(recs)
  <2>1. recs[k] \in [pos : Nat, len : Nat \ {0}]
      BY <1>1, ElementOfSeq
  <2> QED
      BY <2>1
<1>3. RingP!Disjoint
    BY RingP!RotationDisjoint, RingAssumptions
<1>4. ASSUME NEW k \in 1..Len(recs), NEW l \in 1..Len(recs),
             recs[k].pos = recs[l].pos, k # l
      PROVE  FALSE
  <2>1. \/ recs[k].pos + recs[k].len <= recs[l].pos
        \/ recs[l].pos + recs[l].len <= recs[k].pos
      BY <1>3, <1>4 DEF RingP!Disjoint, RingP!End
  <2> QED
      BY <1>2, <1>4, <2>1
<1> QED
    BY <1>1, <1>2, <1>4 DEF Apart

\* The struct that is dispatched and has its bytes in the ring has the oldest record.
LEMMA OldestRecord ==
    ASSUME IInv, ByArrival, NEW b \in Bufs, Dispatched(b), FromRing(b)
    PROVE  recs # <<>> /\ at[b] = recs[1].pos
<1>1. PICK k \in 1..Len(recs) : Recorded(b, k)
    BY DEF ByArrival
<1>2. 1 \in 1..Len(recs) /\ recs # <<>>
    BY <1>1, RecordsApart DEF Apart, IInv
<1>3. PICK c \in Bufs : Recorded(c, 1)
    BY <1>2 DEF ByArrival
<1>4. FromRing(c)
    BY <1>2, <1>3, RecordsApart DEF Apart, Recorded, FromRing, IInv
<1>5. c = b \/ Before(b, c)
    BY <1>4 DEF ByArrival, Carries, Before, Dispatched
<1>6. ~Before(b, c)
    BY <1>1, <1>2, <1>3 DEF ByArrival
<1> QED
    BY <1>2, <1>3, <1>5, <1>6 DEF Recorded

\* The struct that a datagram is read into has the newest one.
LEMMA NewestRecord ==
    ASSUME IInv, ByArrival, rpc \in {"read", "shrink"}
    PROVE  /\ cur \in Bufs /\ FromRing(cur) /\ Receiving(cur) /\ recs # <<>>
           /\ at[cur] = recs[Len(recs)].pos
<1>1. cur \in Bufs /\ FromRing(cur) /\ Receiving(cur) /\ recs # <<>>
    BY DEF ByArrival, IInv, ThreadOK, Receiving
<1>2. PICK k \in 1..Len(recs) : Recorded(cur, k)
    BY <1>1 DEF ByArrival
<1>3. Len(recs) \in 1..Len(recs)
    BY <1>2, RecordsApart DEF Apart, IInv
<1>4. PICK c \in Bufs : Recorded(c, Len(recs))
    BY <1>3 DEF ByArrival
<1>5. FromRing(c)
    BY <1>3, <1>4, RecordsApart DEF Apart, Recorded, FromRing, IInv
<1>6. c = cur \/ Before(c, cur)
    BY <1>1, <1>5 DEF ByArrival, Carries, Before, Receiving
<1>7. ~Before(c, cur)
    BY <1>1, <1>2, <1>3, <1>4 DEF ByArrival
<1> QED
    BY <1>1, <1>4, <1>6, <1>7 DEF Recorded

LEMMA RoundedMonotone ==
    ASSUME NEW m \in Nat, NEW n \in Nat, m <= n
    PROVE  Ring!Rounded(m) <= Ring!Rounded(n)
<1>1. \A a, b \in Nat, c \in Nat \ {0} : a <= b => (a \div c) * c <= (b \div c) * c
  <2> TAKE a, b \in Nat, c \in Nat \ {0}
  <2> HAVE a <= b
  <2>1. a \div c \in Int /\ b \div c \in Int /\ a \div c <= b \div c
      BY SMT
  <2> QED
      BY <2>1
<1>2. m + RecHeader + Alignment - 1 \in Nat /\ n + RecHeader + Alignment - 1 \in Nat
    BY RingAssumption
<1> QED
    BY <1>1, <1>2, RingAssumption DEF Ring!Rounded

LEMMA ByArrivalAsserts ==
    ASSUME IInv, ByArrival
    PROVE  AssertsHold
<1>1. ASSUME rpc = "read" PROVE Ring!CanDealloc(at[cur])
    BY <1>1, NewestRecord DEF Ring!CanDealloc, Ring!Tail1
<1>2. ASSUME rpc = "shrink" PROVE Ring!CanShrink(at[cur], Ring!Rounded(sz))
  <2>1. sz \in Nat /\ PacketMax \in Nat /\ sz <= PacketMax
      BY <1>2, PacketAssumption DEF IInv, ThreadOK, ShortSize
  <2> QED
      BY <1>2, <2>1, NewestRecord, RoundedMonotone DEF Ring!CanShrink, Ring!Tail1, ByArrival
<1>3. ASSUME calls # <<>>, Top.pc = "dispatch", FromRing(Top.buf)
      PROVE  Ring!CanDealloc(at[Top.buf])
  <2>1. Top.buf \in Bufs /\ Dispatched(Top.buf)
      BY <1>3, TopBuf DEF IInv, Dispatched
  <2> QED
      BY <1>3, <2>1, OldestRecord DEF Ring!CanDealloc, Ring!Head1
<1> QED
    BY <1>1, <1>2, <1>3 DEF AssertsHold

\* Steps that leave the ring and the offsets alone, and take no struct from its place in line.
LEMMA SameRecords ==
    ASSUME ByArrival, at' = at, recs' = recs, Len(calls') <= 1,
           \A b \in Bufs : Carries(b) => Carries(b)',
           \A a, b \in Bufs : Before(a, b)' => Before(a, b),
           rpc' \in {"read", "shrink"} => rpc \in {"read", "shrink"} /\ cur' = cur
    PROVE  ByArrival'
BY DEF ByArrival, Recorded, FromRing

LEMMA ReceiverSameRecords ==
    ASSUME IInv, ByArrival,
           DiscardNoBuf \/ ReadNothing \/ ReadIncomplete \/ ReadShort \/ BeginPutBack
               \/ PutBack \/ (Grab /\ UNCHANGED <<ringVars, at>>)
    PROVE  ByArrival'
<1>1. /\ at' = at /\ recs' = recs /\ calls' = calls /\ filled' = filled
      /\ \A b : Receiving(b)' <=> Receiving(b)
      /\ rpc' \in {"read", "shrink"} => rpc \in {"read", "shrink"} /\ cur' = cur
  <2>1. CASE DiscardNoBuf \/ ReadNothing \/ ReadIncomplete
      BY <2>1 DEF DiscardNoBuf, ReadNothing, ReadIncomplete, ringVars, queueVars, bufVars,
                  recvVars, Receiving
  <2>2. CASE ReadShort
      BY <2>2 DEF ReadShort, ringVars, queueVars, Receiving
  <2>3. CASE BeginPutBack
      BY <2>3 DEF BeginPutBack, ringVars, queueVars, bufVars, Receiving
  <2>4. CASE PutBack
      BY <2>4 DEF PutBack, ringVars, queueVars, bufVars, Receiving
  <2>5. CASE Grab /\ UNCHANGED <<ringVars, at>>
    <3>1. ~Ring!Alloc(PacketMax)
      <4>1. recs' = recs /\ recs \in Seq([pos : Nat, len : Nat \ {0}])
          BY <2>5, RecordsApart DEF Apart, IInv, ringVars
      <4>2. \A p, n : recs' # Append(recs, [pos |-> p, len |-> n])
          BY <4>1
      <4> QED
          BY <4>2 DEF Ring!Alloc, Ring!AllocRounded
    <3>2. rpc = "select" /\ rpc' = "full" /\ UNCHANGED <<calls, filled, recs, at>>
        BY <2>5, <3>1 DEF Grab, queueVars, ringVars
    <3> QED
        BY <3>2 DEF Receiving
  <2> QED
      BY <2>1, <2>2, <2>3, <2>4, <2>5
<1>2. /\ \A b : Dispatched(b)' <=> Dispatched(b)
      /\ \A b : InFilled(b)' <=> InFilled(b)
    BY <1>1 DEF Dispatched, InFilled, Top
<1>3. \A b : Carries(b) => Carries(b)'
    BY <1>1, <1>2 DEF Carries
<1>4. \A a, b : Before(a, b)' => Before(a, b)
    BY <1>1, <1>2 DEF Before
<1>5. Len(calls') <= 1
    BY <1>1 DEF ByArrival
<1> QED
    BY <1>1, <1>3, <1>4, <1>5, SameRecords

\* The new record is the newest, and its struct was nowhere.
LEMMA GrabByArrival ==
    ASSUME IInv, RingP!RingIInv', ByArrival, Grab, ~UNCHANGED <<ringVars, at>>
    PROVE  ByArrival'
<1>1. PICK b \in empty :
        /\ cur' = b /\ Ring!Alloc(PacketMax)
        /\ at' = [at EXCEPT ![b] = recs'[Len(recs')].pos]
        /\ rpc = "select" /\ rpc' = "read" /\ UNCHANGED <<calls, filled>>
    BY DEF Grab, queueVars
<1>2. b \in Bufs /\ ~InCalls(b) /\ ~InFilled(b) /\ b # cur
    BY <1>1 DEF IInv, PoolOK, Holder
<1>3. ~Dispatched(b)
  <2>1. ASSUME Dispatched(b) PROVE InCalls(b)
    <3>1. Len(calls) \in 1..Len(calls)
        BY <2>1, PopFacts DEF IInv, CallsOK, Dispatched
    <3> QED
        BY <1>2, <2>1, <3>1, BufsAssumption DEF InCalls, Dispatched, Top
  <2> QED
      BY <1>2, <2>1
<1>4. \A c : Receiving(c) <=> FALSE
    BY <1>1 DEF Receiving
<1>5. /\ \A c : Dispatched(c)' <=> Dispatched(c)
      /\ \A c : InFilled(c)' <=> InFilled(c)
      /\ \A c : Receiving(c)' <=> c = b
    BY <1>1 DEF Dispatched, InFilled, Top, Receiving
<1>6. PICK p : recs' = Append(recs, [pos |-> p, len |-> Ring!Rounded(PacketMax)])
    BY <1>1 DEF Ring!Alloc, Ring!AllocRounded
<1>7. /\ Len(recs') = Len(recs) + 1 /\ Len(recs) \in Nat
      /\ \A k \in 1..Len(recs) : recs'[k] = recs[k]
      /\ recs'[Len(recs')] = [pos |-> p, len |-> Ring!Rounded(PacketMax)]
    BY <1>6, RecordsApart DEF Apart, IInv
<1>8. /\ \A k \in 1..Len(recs') : recs'[k].pos \in Nat
      /\ \A k, l \in 1..Len(recs') : recs'[k].pos = recs'[l].pos => k = l
  <2>1. Apart'
      BY RecordsApart, PTL
  <2> QED
      BY <2>1 DEF Apart
<1>9. at' \in [Bufs -> Int] /\ at'[b] = p /\ \A c \in Bufs \ {b} : at'[c] = at[c]
  <2>1. at \in [Bufs -> Nat \cup {Heap, Nowhere}]
      BY DEF IInv, BufOK
  <2>2. p \in Nat /\ recs'[Len(recs')].pos = p
      BY <1>7, <1>8
  <2> QED
      BY <1>1, <1>2, <2>1, <2>2 DEF Heap, Nowhere
<1>10. at[b] < 0
    BY <1>2, <1>3, <1>4 DEF ByArrival, Carries, FromRing, IInv, BufOK, Heap, Nowhere
<1>11. \A c \in Bufs \ {b} : \A k : Recorded(c, k) => Recorded(c, k)'
    BY <1>7, <1>9 DEF Recorded
<1>12. \A k : k = Len(recs) + 1 => k \in 1..Len(recs') /\ Recorded(b, k)'
  <2>1. Len(recs) + 1 \in 1..Len(recs') /\ recs'[Len(recs) + 1].pos = p
      BY <1>7
  <2> QED
      BY <1>9, <2>1 DEF Recorded
<1>13. ASSUME NEW c \in Bufs \ {b}, NEW k, Recorded(c, k)'
       PROVE  Recorded(c, k) \/ k = Len(recs) + 1
  <2>1. k \in 1..Len(recs') /\ recs'[k].pos = at[c]
      BY <1>9, <1>13 DEF Recorded
  <2>2. k \in 1..Len(recs) \/ k = Len(recs) + 1
      BY <1>7, <2>1
  <2> QED
      BY <1>7, <2>1, <2>2 DEF Recorded
<1>14. \A k \in 1..Len(recs) : ~Recorded(b, k)'
    BY <1>7, <1>8, <1>9 DEF Recorded
<1>15. \A c \in Bufs \ {b} : FromRing(c)' <=> FromRing(c)
    BY <1>9 DEF FromRing
<1>16. \A c \in Bufs : FromRing(c)' =>
          Carries(c)' /\ (\E k \in 1..Len(recs') : Recorded(c, k)')
  <2>1. \A c \in Bufs \ {b} : FromRing(c) => Carries(c) /\ \E k \in 1..Len(recs) : Recorded(c, k)
      BY DEF ByArrival
  <2>2. \A c : Carries(c) => Carries(c)'
      BY <1>4, <1>5 DEF Carries
  <2>3. Carries(b)' /\ \E k \in 1..Len(recs') : Recorded(b, k)'
      BY <1>5, <1>7, <1>12 DEF Carries
  <2>4. ASSUME NEW c \in Bufs \ {b}, FromRing(c)
        PROVE  \E k \in 1..Len(recs') : Recorded(c, k)'
    <3>1. PICK k \in 1..Len(recs) : Recorded(c, k)
        BY <2>1, <2>4
    <3> QED
        BY <1>7, <1>11, <3>1
  <2> QED
      BY <1>15, <2>1, <2>2, <2>3, <2>4
<1>17. \A k \in 1..Len(recs') : \E c \in Bufs : Recorded(c, k)'
  <2> TAKE k \in 1..Len(recs')
  <2>1. CASE k \in 1..Len(recs)
    <3>1. PICK c \in Bufs : Recorded(c, k)
        BY <2>1 DEF ByArrival
    <3>2. c # b
        BY <1>10, <2>1, <3>1, RecordsApart DEF Apart, IInv, Recorded
    <3> QED
        BY <1>11, <3>1, <3>2
  <2>2. CASE k = Len(recs) + 1
      BY <1>2, <1>12, <2>2
  <2> QED
      BY <1>7, <2>1, <2>2
<1>18. \A c, d \in Bufs : Before(c, d)' =>
          \A k, l \in 1..Len(recs') : Recorded(c, k)' /\ Recorded(d, l)' => k < l
  <2> SUFFICES ASSUME NEW c \in Bufs, NEW d \in Bufs, Before(c, d)',
                      NEW k \in 1..Len(recs'), NEW l \in 1..Len(recs'),
                      Recorded(c, k)', Recorded(d, l)'
               PROVE  k < l
      OBVIOUS
  <2>1. c # b
      BY <1>1, <1>2, <1>3, <1>5 DEF Before, InFilled
  <2>2. k \in 1..Len(recs) /\ Recorded(c, k)
    <3>1. k # Len(recs) + 1
      <4>1. recs'[Len(recs) + 1].pos = p
          BY <1>7
      <4>2. recs'[k].pos = at[c]
          BY <1>9, <2>1 DEF Recorded
      <4>3. CASE k = Len(recs) + 1
        <5>1. FromRing(c)
            BY <1>8, <4>2 DEF FromRing
        <5>2. PICK m \in 1..Len(recs) : Recorded(c, m)
            BY <5>1 DEF ByArrival
        <5>3. recs'[m].pos = recs'[k].pos /\ m \in 1..Len(recs')
            BY <1>7, <4>2, <5>2 DEF Recorded
        <5> QED
            BY <1>7, <1>8, <4>3, <5>3
      <4> QED
          BY <4>3
    <3> QED
        BY <1>7, <1>13, <2>1, <3>1
  <2>3. CASE d = b
      BY <1>7, <1>14, <2>2, <2>3
  <2>4. CASE d # b
    <3>1. Before(c, d)
        BY <1>1, <1>5, <2>4 DEF Before
    <3>2. CASE l \in 1..Len(recs)
      <4>1. Recorded(d, l)
          BY <1>7, <1>13, <2>4, <3>2
      <4> QED
          BY <2>2, <3>1, <3>2, <4>1 DEF ByArrival
    <3> QED
        BY <1>7, <2>2, <3>2
  <2> QED
      BY <2>3, <2>4
<1>19. Len(calls') <= 1
    BY <1>1 DEF ByArrival
<1>20. FromRing(cur)' /\ recs' # <<>> /\ recs'[Len(recs')].len = Ring!Rounded(PacketMax)
  <2>1. FromRing(cur)'
      BY <1>1, <1>7, <1>8, <1>9 DEF FromRing
  <2> QED
      BY <1>6, <1>7, <2>1
<1> QED
    BY <1>16, <1>17, <1>18, <1>19, <1>20 DEF ByArrival

\* The newest record, that of the struct being filled, goes, and no other.
LEMMA LastFragmentByArrival ==
    ASSUME IInv, RingP!RingIInv', ByArrival, ReadLastFragment
    PROVE  ByArrival'
<1>1. /\ rpc = "read" /\ rpc' = "queue" /\ cur' = cur /\ UNCHANGED <<calls, filled>>
      /\ at' = [at EXCEPT ![cur] = Heap] /\ Ring!Dealloc(at[cur])
    BY DEF ReadLastFragment, queueVars
<1>2. /\ cur \in Bufs /\ FromRing(cur) /\ Receiving(cur) /\ recs # <<>>
      /\ at[cur] = recs[Len(recs)].pos
    BY <1>1, NewestRecord
<1>3. /\ \A b : Dispatched(b)' <=> Dispatched(b)
      /\ \A b : InFilled(b)' <=> InFilled(b)
      /\ \A b : Receiving(b)' <=> Receiving(b)
    BY <1>1 DEF Dispatched, InFilled, Top, Receiving
<1>4. /\ Len(recs) \in Nat \ {0} /\ Len(recs') = Len(recs) - 1
      /\ \A k \in 1..Len(recs') : recs'[k] = recs[k]
  <2>1. recs \in Seq([pos : Nat, len : Nat \ {0}])
      BY RecordsApart DEF Apart, IInv
  <2>2. CASE at[cur] = recs[1].pos
    <3>1. Len(recs) \in Nat \ {0} /\ 1 \in 1..Len(recs) /\ Len(recs) \in 1..Len(recs)
        BY <1>2, <2>1
    <3>2. Len(recs) = 1
        BY <1>2, <2>2, <3>1, RecordsApart DEF Apart, IInv
    <3>3. recs' = Tail(recs)
        BY <1>1, <2>2 DEF Ring!Dealloc, Ring!Head1
    <3> QED
        BY <1>2, <2>1, <3>2, <3>3, TailFacts
  <2>3. CASE at[cur] # recs[1].pos
    <3>1. recs' = SubSeq(recs, 1, Len(recs) - 1)
        BY <1>1, <2>3 DEF Ring!Dealloc, Ring!Head1
    <3> QED
        BY <1>2, <2>1, <3>1, FrontFacts
  <2> QED
      BY <2>2, <2>3
<1>5. at' \in [Bufs -> Int] /\ at'[cur] < 0 /\ \A c \in Bufs \ {cur} : at'[c] = at[c]
    BY <1>1, <1>2 DEF IInv, BufOK, Heap, Nowhere
<1>6. \A c \in Bufs : \A k : Recorded(c, k)' => c # cur /\ k \in 1..Len(recs) /\ Recorded(c, k)
  <2> SUFFICES ASSUME NEW c \in Bufs, NEW k, Recorded(c, k)'
               PROVE  c # cur /\ k \in 1..Len(recs) /\ Recorded(c, k)
      OBVIOUS
  <2>1. k \in 1..Len(recs) /\ recs[k].pos = at'[c] /\ recs[k].pos \in Nat
      BY SMTT(30), <1>4, RecordsApart DEF Apart, IInv, Recorded
  <2>2. c # cur
      BY <1>5, <2>1
  <2> QED
      BY <1>5, <2>1, <2>2 DEF Recorded
<1>7. \A c \in Bufs \ {cur} : \A k : Recorded(c, k) => Recorded(c, k)' /\ k \in 1..Len(recs')
  <2> SUFFICES ASSUME NEW c \in Bufs \ {cur}, NEW k, Recorded(c, k)
               PROVE  k \in 1..Len(recs')
      BY <1>4, <1>5 DEF Recorded
  <2>1. k \in 1..Len(recs) /\ recs[k].pos = at[c] /\ recs[k].pos \in Nat
      BY RecordsApart DEF Apart, IInv, Recorded
  <2>2. c = cur \/ Before(c, cur)
      BY <1>2, <2>1 DEF FromRing, ByArrival, Carries, Before, Receiving
  <2>3. Len(recs) \in 1..Len(recs) /\ Recorded(cur, Len(recs))
      BY <1>2, <1>4 DEF Recorded
  <2>4. k < Len(recs)
      BY <1>2, <2>1, <2>2, <2>3 DEF ByArrival
  <2> QED
      BY <1>4, <2>1, <2>4
<1>8. \A b \in Bufs : FromRing(b)' =>
          Carries(b)' /\ (\E k \in 1..Len(recs') : Recorded(b, k)')
  <2> SUFFICES ASSUME NEW b \in Bufs, FromRing(b)'
               PROVE  Carries(b)' /\ (\E k \in 1..Len(recs') : Recorded(b, k)')
      OBVIOUS
  <2>1. b # cur /\ FromRing(b)
      BY <1>5 DEF FromRing
  <2>2. Carries(b) /\ \E k \in 1..Len(recs) : Recorded(b, k)
      BY <2>1 DEF ByArrival
  <2> QED
      BY <1>3, <1>7, <2>1, <2>2 DEF Carries
<1>9. \A k \in 1..Len(recs') : \E b \in Bufs : Recorded(b, k)'
  <2> TAKE k \in 1..Len(recs')
  <2>1. k \in 1..Len(recs) /\ k # Len(recs)
      BY <1>4
  <2>2. PICK b \in Bufs : Recorded(b, k)
      BY <2>1 DEF ByArrival
  <2>3. b # cur
    <3>1. ASSUME b = cur PROVE FALSE
      <4>1. recs[k].pos = recs[Len(recs)].pos
          BY <1>2, <2>2, <3>1 DEF Recorded
      <4> QED
          BY <1>4, <2>1, <4>1, RecordsApart DEF Apart, IInv
    <3> QED
        BY <3>1
  <2> QED
      BY <1>7, <2>2, <2>3
<1>10. \A a, b \in Bufs : Before(a, b)' => Before(a, b)
    BY <1>1, <1>3 DEF Before
<1>11. \A a, b \in Bufs : Before(a, b)' =>
          \A k, l \in 1..Len(recs') : Recorded(a, k)' /\ Recorded(b, l)' => k < l
    BY <1>6, <1>10 DEF ByArrival
<1>12. Len(calls') <= 1
    BY <1>1 DEF ByArrival
<1> QED
    BY <1>1, <1>8, <1>9, <1>11, <1>12 DEF ByArrival

LEMMA ShrinkByArrival ==
    ASSUME IInv, ByArrival, Shrink
    PROVE  ByArrival'
<1>1. /\ rpc = "shrink" /\ rpc' = "queue" /\ cur' = cur /\ UNCHANGED <<calls, filled, at>>
      /\ recs' = [recs EXCEPT ![Len(recs)].len = Ring!Rounded(sz)]
    BY DEF Shrink, Ring!ShrinkLast, Ring!ShrinkRounded, queueVars, bufVars
<1>2. /\ \A b : Dispatched(b)' <=> Dispatched(b)
      /\ \A b : InFilled(b)' <=> InFilled(b)
      /\ \A b : Receiving(b)' <=> Receiving(b)
    BY <1>1 DEF Dispatched, InFilled, Top, Receiving
<1>3. Len(recs') = Len(recs) /\ \A k \in 1..Len(recs) : recs'[k].pos = recs[k].pos
  <2>1. recs \in Seq([pos : Nat, len : Nat \ {0}])
      BY RecordsApart DEF Apart, IInv
  <2>2. \A k \in 1..Len(recs) : recs[k] \in [pos : Nat, len : Nat \ {0}]
      BY <2>1, ElementOfSeq
  <2> QED
      BY <1>1, <2>1, <2>2
<1>4. \A b, k : Recorded(b, k)' <=> Recorded(b, k)
    BY <1>1, <1>3 DEF Recorded
<1>5. \A b : FromRing(b)' <=> FromRing(b)
    BY <1>1 DEF FromRing
<1>6. \A b : Carries(b)' <=> Carries(b)
    BY <1>2 DEF Carries
<1>7. \A a, b : Before(a, b)' <=> Before(a, b)
    BY <1>1, <1>2 DEF Before
<1> QED
    BY <1>1, <1>3, <1>4, <1>5, <1>6, <1>7 DEF ByArrival

\* What was being filled is last in the queue: nobody's place changes.
LEMMA EnqueueByArrival ==
    ASSUME IInv, ByArrival, Enqueue
    PROVE  ByArrival'
<1>1. /\ filled' = Append(filled, cur) /\ rpc = "queue" /\ rpc' = "select" /\ cur \in Bufs
      /\ UNCHANGED <<calls, recs, at>>
    BY DEF Enqueue, IInv, ThreadOK, ringVars, bufVars
<1>2. /\ Len(filled') = Len(filled) + 1 /\ Len(filled) \in Nat
      /\ \A i \in 1..Len(filled) : filled'[i] = filled[i]
      /\ filled'[Len(filled) + 1] = cur
    BY <1>1, AppendFacts DEF IInv, BufOK
<1>3. /\ \A b : Dispatched(b)' <=> Dispatched(b)
      /\ \A b : InFilled(b)' <=> InFilled(b) \/ b = cur
      /\ \A b : Receiving(b) <=> b = cur
      /\ \A b : ~Receiving(b)'
    BY <1>1, EnqueueMoves DEF Dispatched, Top, Receiving, IInv
<1>4. \A b : Carries(b) => Carries(b)'
    BY <1>3 DEF Carries
<1>5. ASSUME NEW a \in Bufs, NEW b \in Bufs, Before(a, b)'
      PROVE  Before(a, b)
  <2>1. CASE Dispatched(a)' /\ InFilled(b)'
      BY <1>3, <2>1 DEF Before
  <2>2. ASSUME NEW i \in 1..Len(filled'), NEW j \in 1..Len(filled'), i < j,
               filled'[i] = a, filled'[j] = b
        PROVE  Before(a, b)
    <3>1. i \in 1..Len(filled) /\ filled[i] = a /\ InFilled(a)
        BY <1>2, <2>2 DEF InFilled
    <3>2. CASE j \in 1..Len(filled)
        BY <1>2, <2>2, <3>1, <3>2 DEF Before
    <3>3. CASE j = Len(filled) + 1
        BY <1>2, <1>3, <2>2, <3>1, <3>3 DEF Before
    <3> QED
        BY <1>2, <3>2, <3>3
  <2> QED
      BY <1>3, <1>5, <2>1, <2>2 DEF Before
<1>6. Len(calls') <= 1
    BY <1>1 DEF ByArrival
<1> QED
    BY <1>1, <1>4, <1>5, <1>6, SameRecords

\* Only one call can be in progress.
LEMMA HandleReadByArrival ==
    ASSUME MaxDepth = 1, IInv, ByArrival, HandleRead
    PROVE  ByArrival'
<1>1. /\ CanCall /\ calls' = Append(calls, [pc |-> "woken", buf |-> NoBuf])
      /\ UNCHANGED <<filled, recs, at, rpc, cur>>
    BY DEF HandleRead, ringVars, bufVars, recvVars
<1>2. calls = <<>>
  <2>1. calls \in Seq(Frame) /\ Len(calls) \in Nat
      BY DEF IInv, CallsOK
  <2> QED
      BY <1>1, <2>1 DEF CanCall
<1>3. /\ calls' = <<[pc |-> "woken", buf |-> NoBuf]>> /\ Len(calls') = 1
      /\ calls'[1].pc = "woken"
    BY <1>1, <1>2
<1>4. /\ \A b : ~Dispatched(b) /\ ~Dispatched(b)'
      /\ \A b : InFilled(b)' <=> InFilled(b)
      /\ \A b : Receiving(b)' <=> Receiving(b)
    BY <1>1, <1>2, <1>3 DEF Dispatched, InFilled, Top, Receiving
<1>5. \A b : Carries(b) => Carries(b)'
    BY <1>4 DEF Carries
<1>6. \A a, b : Before(a, b)' => Before(a, b)
    BY <1>1, <1>4 DEF Before
<1> QED
    BY <1>1, <1>3, <1>5, <1>6, SameRecords

\* The oldest of the queue is the next to be dispatched: nobody's place changes.
LEMMA HandleTakeByArrival ==
    ASSUME IInv, ByArrival, HandleTake
    PROVE  ByArrival'
<1> DEFINE h == Head(filled)
<1>1. /\ calls # <<>> /\ Top.pc = "woken" /\ filled # <<>> /\ filled' = Tail(filled)
      /\ calls' = Append(Pop, [pc |-> "dispatch", buf |-> h])
      /\ UNCHANGED <<recs, at, rpc, cur>>
    BY DEF HandleTake, IInv, OneWakeup, Woken, ringVars, bufVars, recvVars
<1>2. /\ h \in Bufs /\ h = filled[1] /\ Len(filled) \in Nat \ {0}
      /\ Len(filled') = Len(filled) - 1
      /\ \A i \in 1..Len(filled) - 1 : filled'[i] = filled[i + 1]
    BY <1>1, TailFacts DEF IInv, BufOK
<1> HIDE DEF h
<1>3. Len(calls') = 1 /\ Len(calls) = 1 /\ calls'[1] = [pc |-> "dispatch", buf |-> h]
  <2>1. /\ Pop \in Seq(Frame) /\ Len(calls) \in Nat \ {0} /\ Len(Pop) = Len(calls) - 1
      BY <1>1, PopFacts DEF IInv, CallsOK
  <2>2. Len(calls) = 1 /\ Pop = <<>>
      BY <2>1 DEF ByArrival
  <2> QED
      BY <1>1, <2>2
<1>4. \A b : Dispatched(b)' <=> b = h
  <2>1. calls' # <<>> /\ Top' = [pc |-> "dispatch", buf |-> h]
      BY <1>3 DEF Top
  <2> QED
      BY <2>1 DEF Dispatched
<1>5. /\ \A b : ~Dispatched(b)
      /\ \A b : InFilled(b)' <=> InFilled(b) /\ b # h
      /\ InFilled(h)
      /\ \A b : Receiving(b)' <=> Receiving(b)
    BY <1>1, TakeMoves DEF Dispatched, Receiving, IInv, h
<1>6. \A b : Carries(b) => Carries(b)'
    BY <1>4, <1>5 DEF Carries
<1>7. ASSUME NEW a \in Bufs, NEW b \in Bufs, Before(a, b)'
      PROVE  Before(a, b)
  <2>1. CASE Dispatched(a)' /\ InFilled(b)'
    <3>1. a = filled[1] /\ InFilled(b) /\ b # h
        BY <1>2, <1>4, <1>5, <2>1
    <3>2. PICK j \in 1..Len(filled) : filled[j] = b
        BY <3>1 DEF InFilled
    <3>3. 1 < j /\ 1 \in 1..Len(filled)
        BY <1>2, <3>1, <3>2
    <3> QED
        BY <3>1, <3>2, <3>3 DEF Before
  <2>2. CASE Dispatched(a)' /\ Receiving(b)'
      BY <1>4, <1>5, <2>2 DEF Before
  <2>3. ASSUME NEW i \in 1..Len(filled'), NEW j \in 1..Len(filled'), i < j,
               filled'[i] = a, filled'[j] = b
        PROVE  Before(a, b)
    <3>1. /\ i + 1 \in 1..Len(filled) /\ j + 1 \in 1..Len(filled) /\ i + 1 < j + 1
          /\ filled[i + 1] = a /\ filled[j + 1] = b
        BY <1>2, <2>3
    <3> QED
        BY <3>1 DEF Before
  <2>4. CASE InFilled(a)' /\ Receiving(b)'
      BY <1>5, <2>4 DEF Before
  <2> QED
      BY <1>7, <2>1, <2>2, <2>3, <2>4 DEF Before
<1> QED
    BY <1>1, <1>3, <1>6, <1>7, SameRecords

\* The record of the struct that was dispatched is the oldest: the others move up by one.
LEMMA HandleReleaseByArrival ==
    ASSUME IInv, RingP!RingIInv', ByArrival, HandleRelease
    PROVE  ByArrival'
<1>0. PICK b : b = Top.buf
    OBVIOUS
<1>1. /\ calls # <<>> /\ Top.pc = "dispatch" /\ calls' = Pop
      /\ UNCHANGED <<filled, cur, rpc>>
      /\ IF FromRing(b) THEN Ring!Dealloc(at[b]) ELSE UNCHANGED ringVars
      /\ at' = [at EXCEPT ![b] = Nowhere]
    BY <1>0 DEF HandleRelease, FreePayload, queueVars, recvVars
<1>2. b \in Bufs /\ Dispatched(b) /\ ~InFilled(b) /\ ~Receiving(b)
  <2>1. b \in Bufs /\ InCalls(b)
      BY <1>0, ReleaseMoves DEF IInv
  <2> QED
      BY <1>0, <1>1, <2>1 DEF IInv, Holder, Receiving, Dispatched
<1>3. \A c : Dispatched(c) => c = b
    BY <1>2 DEF Dispatched
<1>4. Len(calls') = 0 /\ calls' = <<>>
  <2>1. /\ Pop \in Seq(Frame) /\ Len(calls) \in Nat \ {0} /\ Len(Pop) = Len(calls) - 1
      BY <1>1, PopFacts DEF IInv, CallsOK
  <2> QED
      BY <1>1, <2>1 DEF ByArrival
<1>5. /\ \A c : ~Dispatched(c)'
      /\ \A c : InFilled(c)' <=> InFilled(c)
      /\ \A c : Receiving(c)' <=> Receiving(c)
    BY <1>1, <1>4 DEF Dispatched, InFilled, Receiving
<1>6. at' \in [Bufs -> Int] /\ at'[b] < 0 /\ \A c \in Bufs \ {b} : at'[c] = at[c]
    BY <1>1, <1>2 DEF IInv, BufOK, Heap, Nowhere
<1>7. \A c \in Bufs : FromRing(c)' => c # b /\ FromRing(c) /\ Carries(c)'
  <2> SUFFICES ASSUME NEW c \in Bufs, FromRing(c)'
               PROVE  c # b /\ FromRing(c) /\ Carries(c)'
      OBVIOUS
  <2>1. c # b /\ FromRing(c)
      BY <1>6 DEF FromRing
  <2>2. Carries(c)
      BY <2>1 DEF ByArrival
  <2> QED
      BY <1>3, <1>5, <2>1, <2>2 DEF Carries
<1>8. \A c, d : Before(c, d)' => Before(c, d) /\ d # b
    BY <1>1, <1>2, <1>5 DEF Before, InFilled
<1>9. \A c \in Bufs : FromRing(c) => c = b \/ Before(b, c)
    BY <1>2, <1>3 DEF ByArrival, Carries, Before
<1>10. CASE ~FromRing(b)
  <2>1. recs' = recs
      BY <1>1, <1>10 DEF ringVars
  <2>2. \A c \in Bufs : \A k : Recorded(c, k)' <=> Recorded(c, k)
    <3>1. \A k : ~Recorded(b, k)
        BY <1>10, RecordsApart DEF Apart, IInv, Recorded, FromRing
    <3>2. ASSUME NEW k, Recorded(b, k)' PROVE FALSE
      <4>1. k \in 1..Len(recs) /\ recs[k].pos = at'[b]
          BY <2>1, <3>2 DEF Recorded
      <4> QED
          BY <1>6, <4>1, RecordsApart DEF Apart, IInv
    <3>3. ASSUME NEW c \in Bufs \ {b}, NEW k PROVE Recorded(c, k)' <=> Recorded(c, k)
        BY <1>6, <2>1 DEF Recorded
    <3> QED
        BY <3>1, <3>2, <3>3
  <2>3. \A c \in Bufs : FromRing(c)' => \E k \in 1..Len(recs') : Recorded(c, k)'
      BY <1>7, <2>1, <2>2 DEF ByArrival
  <2>4. \A k \in 1..Len(recs') : \E c \in Bufs : Recorded(c, k)'
      BY <2>1, <2>2 DEF ByArrival
  <2>5. \A c, d \in Bufs : Before(c, d)' =>
            \A k, l \in 1..Len(recs') : Recorded(c, k)' /\ Recorded(d, l)' => k < l
      BY <1>8, <2>1, <2>2 DEF ByArrival
  <2>6. ASSUME rpc' \in {"read", "shrink"}
        PROVE  FromRing(cur)' /\ recs' # <<>> /\ recs'[Len(recs')].len = Ring!Rounded(PacketMax)
    <3>1. /\ FromRing(cur) /\ recs # <<>> /\ recs[Len(recs)].len = Ring!Rounded(PacketMax)
        BY <1>1, <2>6 DEF ByArrival
    <3>2. at'[cur'] = at[cur]
        BY <1>1, <1>2, <1>6, <2>6, NewestRecord
    <3> QED
        BY <2>1, <3>1, <3>2 DEF FromRing
  <2> QED
      BY <1>4, <1>7, <2>3, <2>4, <2>5, <2>6 DEF ByArrival
<1>11. CASE FromRing(b)
  <2>1. recs # <<>> /\ at[b] = recs[1].pos
      BY <1>2, <1>11, OldestRecord
  <2>2. recs' = Tail(recs)
      BY <1>1, <1>11, <2>1 DEF Ring!Dealloc, Ring!Head1
  <2>3. /\ Len(recs) \in Nat \ {0} /\ Len(recs') = Len(recs) - 1
        /\ \A k \in 1..Len(recs') : recs'[k] = recs[k + 1]
      BY <2>1, <2>2, TailFacts, RecordsApart DEF Apart, IInv
  <2>4. ASSUME NEW c \in Bufs, NEW k, Recorded(c, k)'
        PROVE  k \in Nat /\ Recorded(c, k + 1) /\ k + 1 \in 1..Len(recs)
    <3>1. k \in 1..Len(recs') /\ recs[k + 1].pos = at'[c]
        BY <2>3, <2>4 DEF Recorded
    <3>2. k + 1 \in 1..Len(recs) /\ recs[k + 1].pos \in Nat
        BY SMTT(30), <2>3, <3>1, RecordsApart DEF Apart, IInv
    <3>3. c # b
        BY <1>6, <3>1, <3>2
    <3> QED
        BY <1>6, <3>1, <3>2, <3>3 DEF Recorded
  <2>5. ASSUME NEW c \in Bufs \ {b}, NEW k, Recorded(c, k)
        PROVE  k - 1 \in 1..Len(recs') /\ \A l : l = k - 1 => Recorded(c, l)'
    <3>1. k \in 1..Len(recs) /\ recs[k].pos = at[c] /\ recs[k].pos \in Nat
        BY <2>5, RecordsApart DEF Apart, IInv, Recorded
    <3>2. Before(b, c)
        BY <1>9, <3>1 DEF FromRing
    <3>3. 1 \in 1..Len(recs) /\ Recorded(b, 1)
        BY <2>1, <2>3 DEF Recorded
    <3>4. 1 < k
        BY <1>2, <2>5, <3>1, <3>2, <3>3 DEF ByArrival
    <3>5. k - 1 \in 1..Len(recs') /\ recs'[k - 1] = recs[k] /\ at'[c] = at[c]
        BY <1>6, <2>3, <3>1, <3>4
    <3> QED
        BY <3>1, <3>5 DEF Recorded
  <2>6. \A c \in Bufs : FromRing(c)' => \E k \in 1..Len(recs') : Recorded(c, k)'
    <3> SUFFICES ASSUME NEW c \in Bufs, FromRing(c)'
                 PROVE  \E k \in 1..Len(recs') : Recorded(c, k)'
        OBVIOUS
    <3>1. c # b /\ \E k \in 1..Len(recs) : Recorded(c, k)
        BY <1>7 DEF ByArrival
    <3> QED
        BY <2>5, <3>1
  <2>7. \A k \in 1..Len(recs') : \E c \in Bufs : Recorded(c, k)'
    <3> TAKE k \in 1..Len(recs')
    <3>1. k + 1 \in 1..Len(recs) /\ k + 1 # 1 /\ 1 \in 1..Len(recs) /\ k = (k + 1) - 1
        BY <2>3
    <3>2. PICK c \in Bufs : Recorded(c, k + 1)
        BY <3>1 DEF ByArrival
    <3>3. c # b
      <4>1. recs[k + 1].pos = at[c] /\ recs[k + 1].pos # recs[1].pos
          BY <3>1, <3>2, RecordsApart DEF Apart, IInv, Recorded
      <4> QED
          BY <2>1, <4>1
    <3> QED
        BY <2>5, <3>1, <3>2, <3>3
  <2>8. \A c, d \in Bufs : Before(c, d)' =>
            \A k, l \in 1..Len(recs') : Recorded(c, k)' /\ Recorded(d, l)' => k < l
    <3> SUFFICES ASSUME NEW c \in Bufs, NEW d \in Bufs, Before(c, d)',
                        NEW k \in 1..Len(recs'), NEW l \in 1..Len(recs'),
                        Recorded(c, k)', Recorded(d, l)'
                 PROVE  k < l
        OBVIOUS
    <3>1. /\ k \in Nat /\ Recorded(c, k + 1) /\ k + 1 \in 1..Len(recs)
          /\ l \in Nat /\ Recorded(d, l + 1) /\ l + 1 \in 1..Len(recs)
        BY <2>4
    <3>2. k + 1 < l + 1
        BY <1>8, <3>1 DEF ByArrival
    <3> QED
        BY <3>1, <3>2
  <2>9. ASSUME rpc' \in {"read", "shrink"}
        PROVE  FromRing(cur)' /\ recs' # <<>> /\ recs'[Len(recs')].len = Ring!Rounded(PacketMax)
    <3>1. /\ FromRing(cur) /\ recs[Len(recs)].len = Ring!Rounded(PacketMax)
          /\ at[cur] = recs[Len(recs)].pos /\ cur \in Bufs /\ Receiving(cur)
        BY <1>1, <2>9, NewestRecord DEF ByArrival
    <3>2. cur # b
        BY <1>2, <3>1
    <3>3. at'[cur'] = at[cur]
        BY <1>1, <1>6, <3>1, <3>2
    <3>4. Recorded(cur, Len(recs)) /\ Len(recs) \in 1..Len(recs)
        BY <2>3, <3>1 DEF Recorded
    <3>5. Len(recs) - 1 \in 1..Len(recs')
        BY <2>5, <3>1, <3>2, <3>4
    <3>6. recs'[Len(recs')] = recs[Len(recs)] /\ recs' # <<>>
        BY <2>3, <3>5
    <3> QED
        BY <3>1, <3>3, <3>6 DEF FromRing
  <2> QED
      BY <1>4, <1>7, <2>6, <2>7, <2>8, <2>9 DEF ByArrival
<1> QED
    BY <1>10, <1>11

LEMMA InitByArrival == Init => ByArrival
<1> SUFFICES ASSUME Init PROVE ByArrival
    OBVIOUS
<1>1. /\ Len(recs) = 0 /\ calls = <<>> /\ Len(calls) = 0 /\ Len(filled) = 0
      /\ rpc = "select" /\ \A b \in Bufs : at[b] = Nowhere
    BY DEF Init, Ring!RingInit
<1>2. \A b \in Bufs : ~FromRing(b)
    BY <1>1 DEF FromRing, Nowhere
<1>3. \A a, b : ~Before(a, b)
    BY <1>1 DEF Before, Dispatched, InFilled, Receiving
<1> QED
    BY <1>1, <1>2, <1>3 DEF ByArrival

LEMMA StepByArrival ==
    ASSUME MaxDepth = 1, IInv, IInv', ByArrival, [Next]_vars
    PROVE  ByArrival'
<1>1. RingP!RingIInv'
    BY DEF IInv
<1>2. CASE RecvThread
    BY <1>1, <1>2, ReceiverSameRecords, GrabByArrival, LastFragmentByArrival, ShrinkByArrival,
       EnqueueByArrival DEF RecvThread
<1>3. CASE Handler
    BY <1>1, <1>3, HandleReadByArrival, HandleTakeByArrival, HandleReleaseByArrival DEF Handler
<1>4. CASE UNCHANGED vars
  <2>1. UNCHANGED <<recs, at, calls, filled, rpc, cur>>
      BY <1>4 DEF vars, ringVars, bufVars, queueVars, recvVars
  <2>2. /\ \A b : Dispatched(b)' <=> Dispatched(b)
        /\ \A b : InFilled(b)' <=> InFilled(b)
        /\ \A b : Receiving(b)' <=> Receiving(b)
      BY <2>1 DEF Dispatched, InFilled, Top, Receiving
  <2>3. \A b : Carries(b)' <=> Carries(b)
      BY <2>2 DEF Carries
  <2>4. \A a, b : Before(a, b)' <=> Before(a, b)
      BY <2>1, <2>2 DEF Before
  <2>5. Len(calls') <= 1
      BY <2>1 DEF ByArrival
  <2> QED
      BY <2>1, <2>3, <2>4, <2>5, SameRecords
<1> QED
    BY <1>2, <1>3, <1>4 DEF Next

\* While callbacks do not call lcm_handle, no assertion of the ring fails: what is
\* freed is the oldest record or the newest, and what is shrunk the newest, whatever
\* the datagrams, the sizes and the interleaving of the two threads.
THEOREM AssertionsHold == MaxDepth = 1 => (Spec => []AssertsHold)
<1> SUFFICES ASSUME MaxDepth = 1 PROVE Spec => []AssertsHold
    OBVIOUS
<1>1. Init => IInv /\ ByArrival
    BY InitIInv, InitByArrival
<1>2. IInv /\ ByArrival /\ [Next]_vars => (IInv /\ ByArrival)'
    BY StepIInv, StepByArrival
<1>3. IInv /\ ByArrival => AssertsHold
    BY ByArrivalAsserts
<1> QED
    BY <1>1, <1>2, <1>3, PTL DEF Spec

=============================================================================
