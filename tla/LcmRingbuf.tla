----------------------------- MODULE LcmRingbuf -----------------------------
(***************************************************************************)
(* The receive ring buffer of LCM (upstream/lcm/ringbuffer.c): variable-   *)
(* length records carved out of one byte array.  The doubly linked list    *)
(* head -> ... -> tail of the code is the sequence recs (head first); a    *)
(* record is its offset in ring->data and its rounded length, header       *)
(* included.  A caller's "char *buf" is named by the offset of its record. *)
(***************************************************************************)
EXTENDS Integers, Sequences, Functions

CONSTANTS
    Size,        \* bytes in ring->data
    RecHeader,   \* sizeof(lcm_ringbuf_rec_t)
    Alignment,   \* every record length is a multiple of it
    Lens         \* the byte counts callers ask for

ASSUME SizeAssumption == Size \in Nat
ASSUME HeaderAssumption == RecHeader \in Nat \ {0} /\ Alignment \in Nat \ {0}
ASSUME LensAssumption == Lens \subseteq Nat

VARIABLES
    recs,        \* the records, from ring->head to ring->tail
    used         \* ring->used

ringVars == <<recs, used>>

Record == [pos : Nat, len : Nat \ {0}]

Head1 == recs[1]
Tail1 == recs[Len(recs)]
End(r) == r.pos + r.len

Rounded(len) ==
    ((len + RecHeader + Alignment - 1) \div Alignment) * Alignment

RingInit == recs = <<>> /\ used = 0

-----------------------------------------------------------------------------
\* Mutant: the wrapped branch compares with the end of the array, not with the head
PlacedIgnoringHead(p, n) ==
    \/ recs = <<>> /\ p = 0 /\ n <= Size
    \/ recs # <<>> /\ p = End(Tail1) /\ p + n <= Size
    \/ recs # <<>> /\ End(Tail1) + n > Size /\ p = 0 /\ n < Head1.pos

(* Where lcm_ringbuf_alloc puts a record of n bytes: after the tail when   *)
(* that stays below the head (free space in the middle) or below the end   *)
(* of the array, else at offset 0 when the head leaves room there.         *)
Placed(p, n) ==
    \/ /\ recs = <<>>
       /\ p = 0 /\ n <= Size
    \/ /\ recs # <<>>
       /\ Head1.pos > Tail1.pos
       /\ p = End(Tail1) /\ p + n <= Head1.pos
    \/ /\ recs # <<>>
       /\ Head1.pos <= Tail1.pos
       /\ p = End(Tail1) /\ p + n <= Size
    \/ /\ recs # <<>>
       /\ Head1.pos <= Tail1.pos
       /\ End(Tail1) + n > Size
       /\ p = 0 /\ n < Head1.pos

Places(n) ==
    {p \in {0} \cup (IF recs = <<>> THEN {} ELSE {End(Tail1)}) : Placed(p, n)}

\* lcm_ringbuf_alloc returns NULL, changing nothing, when no place is left.
HasSpace(n) == Places(n) # {}

AllocRounded(n) ==
    \E p \in Places(n) :
        /\ recs' = Append(recs, [pos |-> p, len |-> n])
        /\ used' = used + n

Alloc(len) == AllocRounded(Rounded(len))

\* lcm_ringbuf_shrink_last asserts that buf is the newest record and that
\* the new length is no longer than the old.
CanShrink(p, n) == recs # <<>> /\ Tail1.pos = p /\ n <= Tail1.len

ShrinkRounded(p, n) ==
    /\ CanShrink(p, n)
    /\ recs' = [recs EXCEPT ![Len(recs)].len = n]
    /\ used' = used - (Tail1.len - n)

ShrinkLast(p, len) == ShrinkRounded(p, Rounded(len))

\* lcm_ringbuf_dealloc asserts that buf is the oldest or the newest record.
CanDealloc(p) == recs # <<>> /\ p \in {Head1.pos, Tail1.pos}

Dealloc(p) ==
    /\ CanDealloc(p)
    /\ IF p = Head1.pos
       THEN recs' = Tail(recs) /\ used' = used - Head1.len
       ELSE recs' = SubSeq(recs, 1, Len(recs) - 1) /\ used' = used - Tail1.len

-----------------------------------------------------------------------------
(* A client that keeps to the contract the assertions state.               *)
RingNext ==
    \/ \E len \in Lens : Alloc(len)
    \/ \E p \in 0..Size, len \in Lens : ShrinkLast(p, len)
    \/ \E p \in 0..Size : Dealloc(p)

RingSpec == RingInit /\ [][RingNext]_ringVars

-----------------------------------------------------------------------------

\* The records are a sequence of non-empty byte ranges.
RingTypeOK == recs \in Seq(Record) /\ used \in Int

\* No record reaches past the end of the array (ringbuffer.c:138: the bound
\* alloc tests before it hands out the bytes after the tail).
InBounds == \A i \in 1..Len(recs) : End(recs[i]) <= Size

\* Two live records never share a byte, whatever wrapping, shrinking and
\* freeing at both ends has happened: a message being decoded is not
\* overwritten by the next datagram (ringbuffer.c:92-160).
Disjoint ==
    \A i, j \in 1..Len(recs) :
        i # j => \/ End(recs[i]) <= recs[j].pos
                 \/ End(recs[j]) <= recs[i].pos

\* The strengthening behind Disjoint: from head to tail the records climb
\* through the array and wrap to its start at most once, after w records,
\* and what lies after the wrap stays below the head.
Rotation ==
    \E w \in 0..Len(recs) :
        /\ \A i, j \in 1..Len(recs) :
              i < j /\ (j <= w \/ w < i) => End(recs[i]) <= recs[j].pos
        /\ \A i, j \in 1..Len(recs) :
              i <= w /\ w < j => End(recs[j]) <= recs[i].pos

=============================================================================
