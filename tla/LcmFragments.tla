---------------------------- MODULE LcmFragments ----------------------------
(***************************************************************************)
(* Large messages of the UDP-multicast provider (upstream/lcm/lcm_udp.c):  *)
(* lcm_udpm_publish cuts a message into datagrams under the transmit lock  *)
(* of its lcm_t, the network loses, delays, reorders and duplicates them,  *)
(* and _recv_message_fragment of one receiver puts them together again in  *)
(* a table with one fragment buffer per source address.                    *)
(*                                                                         *)
(* The k-th byte of message m is <<m, k>>.  What the receiver does with a  *)
(* completed message is in LcmUdpmRecv.  The 32-bit msg_seqno is a natural *)
(* number: fewer than 2^32 messages are published in a behaviour.          *)
(***************************************************************************)
EXTENDS Integers, Sequences, FiniteSets, Functions, SequencesExt

CONSTANTS
    Threads,     \* publishing threads
    Sources,     \* their lcm_t structs, one source address each
    SourceOf,    \* the lcm_t a thread publishes on
    NoThread,
    Mtu,         \* LCM_SHORT_MESSAGE_MAX_SIZE
    NameSize,    \* bytes of a channel name and its NUL
    Sizes,       \* data sizes of the large messages each thread publishes
    MaxFragments,\* 65535
    MaxMessage,  \* LCM_MAX_MESSAGE_SIZE
    MaxTotal,    \* frag_bufs_max_total_size
    MaxBufs,     \* max_n_frag_bufs
    MaxPublished,\* bound: messages published in a behaviour
    MaxWire,     \* bound: datagrams between the sender and the receiver
    MaxTwice     \* bound: datagrams that arrive twice

ASSUME FragmentsAssumption ==
    /\ SourceOf \in [Threads -> Sources] /\ NoThread \notin Threads
    /\ NameSize \in Nat /\ Mtu \in Nat /\ 0 < NameSize /\ NameSize < Mtu
    /\ Sizes \in [Threads -> SUBSET {d \in Nat : NameSize + d >= Mtu}]
    /\ {MaxFragments, MaxMessage, MaxTotal, MaxBufs} \subseteq Nat

VARIABLES
    lock,        \* transmit_lock of every lcm_t
    seqno,       \* msg_seqno of every lcm_t
    pub,         \* where each thread is in lcm_udpm_publish
    published,   \* messages published so far, which names the next one
    wire,        \* datagrams on their way
    table,       \* frag_bufs and frag_bufs_total_size
    delivered,   \* history: the messages completed, in order
    twice        \* history: messages of which a datagram arrived twice

senderVars == <<lock, seqno, pub, published>>
vars == <<senderVars, wire, table, delivered, twice>>

Idle == [id |-> 0, size |-> 0, no |-> 0, off |-> 0, ok |-> TRUE]

Init ==
    /\ lock = [s \in Sources |-> NoThread]
    /\ seqno = [s \in Sources |-> 0]
    /\ pub = [t \in Threads |-> Idle]
    /\ published = 0 /\ wire = {} /\ delivered = <<>> /\ twice = {}
    /\ table = [buf |-> [s \in {} |-> 0], order |-> <<>>, total |-> 0]

-----------------------------------------------------------------------------
(* lcm_udpm_publish.                                                       *)

\* nfragments: the payload, which includes the channel name, in datagrams.
Fragments(size) ==
    (NameSize + size) \div Mtu + (IF (NameSize + size) % Mtu # 0 THEN 1 ELSE 0)

\* A message that fits in one datagram only counts (lines 899-936).
PublishShort(t) ==
    LET s == SourceOf[t] IN
    /\ published < MaxPublished /\ pub[t] = Idle /\ lock[s] = NoThread
    /\ published' = published + 1
    /\ seqno' = [seqno EXCEPT ![s] = @ + 1]
    /\ UNCHANGED <<lock, pub, wire, table, delivered, twice>>

\* A large message; too large a one is refused without any effect.
Begin(t) ==
    LET s == SourceOf[t] IN
    /\ published < MaxPublished /\ pub[t] = Idle /\ lock[s] = NoThread
    /\ lock' = [lock EXCEPT ![s] = t]
    /\ published' = published + 1
    /\ \E d \in Sizes[t] :
        /\ Fragments(d) <= MaxFragments
        /\ pub' = [pub EXCEPT ![t] = [Idle EXCEPT !.id = published + 1, !.size = d]]
    /\ UNCHANGED <<seqno, wire, table, delivered, twice>>

\* The bytes of data in the next fragment: the first also carries the name.
NextLength(p) ==
    IF p.no = 0 THEN Mtu - NameSize
    ELSE IF Mtu <= p.size - p.off THEN Mtu ELSE p.size - p.off

More(p) == p.id # 0 /\ p.ok /\ p.no < Fragments(p.size)

\* sendmsg of the next fragment: the datagram is on its way or lost in the
\* network, or the call fails, which ends the loop.
SendFragment(t) ==
    LET p == pub[t]
        s == SourceOf[t]
        d == [src |-> s, seq |-> seqno[s], id |-> p.id, size |-> p.size,
              no |-> p.no, count |-> Fragments(p.size), off |-> p.off,
              len |-> NextLength(p)] IN
    /\ More(p)
    /\ \/ /\ pub' = [pub EXCEPT ![t].no = @ + 1, ![t].off = @ + d.len]
          /\ \/ Cardinality(wire) < MaxWire /\ wire' = wire \cup {d}
             \/ UNCHANGED wire
       \/ pub' = [pub EXCEPT ![t].ok = FALSE] /\ UNCHANGED wire
    /\ UNCHANGED <<lock, seqno, published, table, delivered, twice>>

\* The loop has ended: count, unlock and return 0, whatever was sent.
End(t) ==
    LET s == SourceOf[t] IN
    /\ pub[t].id # 0 /\ ~More(pub[t])
    /\ seqno' = [seqno EXCEPT ![s] = @ + 1]
    /\ lock' = [lock EXCEPT ![s] = NoThread]
    /\ pub' = [pub EXCEPT ![t] = Idle]
    /\ UNCHANGED <<published, wire, table, delivered, twice>>

-----------------------------------------------------------------------------
(* The table of fragment buffers: a buffer per source, the sources in the  *)
(* order of their last_packet_time, and the bytes accounted for.           *)

Holds(T, s) == s \in DOMAIN T.buf

\* Mutant: the bytes stay accounted for.
RemovedUncounted(T, s) ==
    [buf |-> Restrict(T.buf, DOMAIN T.buf \ {s}), order |-> RemoveFirst(T.order, s),
     total |-> T.total]

\* _destroy_fragment_buffer.
Removed(T, s) ==
    [buf |-> Restrict(T.buf, DOMAIN T.buf \ {s}), order |-> RemoveFirst(T.order, s),
     total |-> T.total - T.buf[s].size]

Full(T) == T.total > MaxTotal \/ Cardinality(DOMAIN T.buf) > MaxBufs

\* Least recently updated buffers are removed while the table is too full.
Evicted(T) ==
    FoldLeft(LAMBDA U, s : IF Full(U) THEN Removed(U, s) ELSE U, T, T.order)

\* _add_fragment_buffer: the limits are not tested again with the new buffer.
Inserted(T, s, b) ==
    LET E == Evicted(T) IN
    [buf |-> [x \in DOMAIN E.buf \cup {s} |-> IF x = s THEN b ELSE E.buf[x]],
     order |-> Append(E.order, s), total |-> E.total + b.size]

\* The body of a datagram behind its header.
NameByte == <<0, 0>>
Junk == <<0, 1>>
Body(d) ==
    IF d.no = 0
    THEN [k \in 0..NameSize + d.len - 1 |->
            IF k < NameSize THEN NameByte ELSE <<d.id, k - NameSize>>]
    ELSE [k \in 0..d.len - 1 |-> <<d.id, d.off + k>>]

\* Mutant: the first fragment is taken as already stored.
NewBufferLessOne(d) ==
    [seq |-> d.seq, size |-> d.size, remaining |-> d.count - 1,
     data |-> [k \in 0..d.size - 1 |-> Junk], id |-> d.id, got |-> {}]

\* lcm_frag_buf_new.  id and got are history: the message it was made for, and
\* the fragments stored.
NewBuffer(d) ==
    [seq |-> d.seq, size |-> d.size, remaining |-> d.count,
     data |-> [k \in 0..d.size - 1 |-> Junk], id |-> d.id, got |-> {}]

\* memcpy of n bytes of the body from `start` on, and one fragment less to come.
Filled(b, d, start, n) ==
    [b EXCEPT !.data = [k \in 0..b.size - 1 |->
                           IF d.off <= k /\ k < d.off + n
                           THEN Body(d)[start + k - d.off] ELSE @[k]],
              !.remaining = @ - 1, !.got = @ \cup {d.no}]

\* The fragment is for the buffer that T holds for its source.  Its body starts
\* at `start`: only the fragment the buffer is made for has its channel name
\* skipped.
Store(T, d, start) ==
    LET b == T.buf[d.src]
        n == Cardinality(DOMAIN Body(d)) - start
        c == Filled(b, d, start, n) IN
    IF d.off + n > b.size
    THEN table' = Removed(T, d.src) /\ UNCHANGED delivered
    ELSE IF c.remaining = 0
    THEN /\ table' = Removed(T, d.src)
         /\ delivered' = Append(delivered, [id |-> c.id, size |-> c.size, data |-> c.data])
    ELSE /\ table' = [T EXCEPT !.buf[d.src] = c,
                               !.order = Append(RemoveFirst(@, d.src), d.src)]
         /\ UNCHANGED delivered

\* Mutant: only the sizes are compared.
StaleBySize(T, d) == Holds(T, d.src) /\ T.buf[d.src].size # d.size

\* The buffer of the source is for another message.
Stale(T, d) ==
    /\ Holds(T, d.src)
    /\ T.buf[d.src].seq # d.seq \/ T.buf[d.src].size # d.size

Fresh(T, d) == IF Stale(T, d) THEN Removed(T, d.src) ELSE T

\* _recv_message_fragment.  lcm_has_handlers answers from a table that other
\* threads change: either answer is possible.
RecvFragment(d) ==
    LET T == Fresh(table, d) IN
    \/ d.size > MaxMessage /\ table' = T /\ UNCHANGED delivered
    \/ d.size <= MaxMessage /\ Holds(T, d.src) /\ Store(T, d, 0)
    \/ /\ d.size <= MaxMessage /\ ~Holds(T, d.src) /\ d.no = 0
       /\ Store(Inserted(T, d.src, NewBuffer(d)), d, NameSize)
    \/ ~Holds(T, d.src) /\ table' = T /\ UNCHANGED delivered

Receive ==
    \E d \in wire :
        /\ RecvFragment(d)
        /\ wire' = wire \ {d}
        /\ UNCHANGED <<senderVars, twice>>

\* The network delivers a datagram and will deliver it again.
ReceiveFirstOfTwo ==
    \E d \in wire :
        /\ Cardinality(twice) < MaxTwice
        /\ RecvFragment(d)
        /\ twice' = twice \cup {d.id}
        /\ UNCHANGED <<senderVars, wire>>

-----------------------------------------------------------------------------
Publisher ==
    \E t \in Threads : PublishShort(t) \/ Begin(t) \/ SendFragment(t) \/ End(t)

Next == Publisher \/ Receive \/ ReceiveFirstOfTwo

Spec == Init /\ [][Next]_vars

-----------------------------------------------------------------------------
\* What the count of a buffer means: the fragments still missing, with the bytes
\* of those that came in their place.
Accounted ==
    \A s \in DOMAIN table.buf :
        LET b == table.buf[s] IN
        b.id \notin twice =>
            /\ b.remaining = Fragments(b.size) - Cardinality(b.got)
            /\ b.remaining > 0 /\ 0 \in b.got

\* The table: frag_bufs_total_size is the size of the buffers in it, however
\* they went away; were it ever too large, the eviction loop would not end.
\* The limits are tested before a buffer is added: they are exceeded by one
\* buffer at most, and by more at no time (lcm_udp.c:487-509).  Every buffer
\* still waits for as many fragments as are missing.
TableSound ==
    /\ table.total = SumFunction([s \in DOMAIN table.buf |-> table.buf[s].size])
    /\ ToSet(table.order) = DOMAIN table.buf
    /\ Len(table.order) = Cardinality(DOMAIN table.buf)
    /\ Cardinality(DOMAIN table.buf) <= MaxBufs + 1
    /\ \/ table.total <= MaxTotal
       \/ \E s \in DOMAIN table.buf : table.total - table.buf[s].size <= MaxTotal
    /\ Accounted

\* A completed message is the one that was published, byte for byte, and is
\* completed once, in whatever order datagrams arrive, whatever gets lost and
\* whichever messages of other threads and other sources are in between, as long
\* as none of its datagrams arrives twice: the code counts fragments and does
\* not look which ones they are.
Whole ==
    \A i \in 1..Len(delivered) :
        LET m == delivered[i] IN
        m.id \notin twice =>
            /\ m.data = [k \in 0..m.size - 1 |-> <<m.id, k>>]
            /\ \A j \in 1..Len(delivered) : delivered[j].id = m.id => j = i

=============================================================================
