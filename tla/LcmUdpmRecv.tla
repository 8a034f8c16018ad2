----------------------------- MODULE LcmUdpmRecv -----------------------------
(***************************************************************************)
(* The receive path of the UDP-multicast provider                          *)
(* (upstream/lcm/lcm_udp.c): the receiver thread takes datagrams from the  *)
(* socket into lcm_buf_t structs whose bytes live in the ring buffer, and  *)
(* queues complete messages; application threads call lcm_handle, which    *)
(* takes the oldest message, runs the subscribers' callbacks and gives the *)
(* struct and its bytes back.  The two sides share the ring, the two       *)
(* queues (under lcm->mutex) and the notify pipe.                          *)
(*                                                                         *)
(* A step is a critical section of lcm->mutex, or a system call outside    *)
(* it.  A datagram is a number, in the order the socket yields them; the   *)
(* messages of a sender's fragments are numbered by their last datagram.   *)
(***************************************************************************)
EXTENDS Integers, Sequences, FiniteSets

CONSTANTS
    Bufs,        \* the lcm_buf_t structs made by _setup_recv_thread
    NoBuf,       \* NULL
    RingSize, RecHeader, Alignment,     \* see LcmRingbuf
    PacketMax,   \* bytes asked from the ring for a datagram (65536)
    ShortSizes,  \* sizes of unfragmented packets
    MaxDatagrams,\* bound: datagrams the socket yields in a behaviour
    MaxDepth     \* bound: lcm_handle calls nested in each other's callbacks

ASSUME BufsAssumption == NoBuf \notin Bufs
ASSUME RingAssumption ==
    RingSize \in Nat /\ RecHeader \in Nat \ {0} /\ Alignment \in Nat \ {0}
ASSUME PacketAssumption ==
    /\ PacketMax \in Nat /\ ShortSizes \subseteq 0..PacketMax
    /\ MaxDatagrams \in Nat /\ MaxDepth \in Nat \ {0}

VARIABLES
    recs, used,  \* the ring buffer
    empty, strayTail, putting, racers,  \* inbufs_empty: see LcmBufPool
    filled,      \* inbufs_filled, oldest first
    notify,      \* bytes in notify_pipe
    at,          \* lcmb->buf: an offset in the ring, Heap, or Nowhere
    msg,         \* the message in lcmb->buf
    stamp,       \* where lcmb->recv_utime comes from
    rpc,         \* where the receiver thread is
    cur,         \* lcmb, local to udp_read_packet
    sz,          \* sz, local to udp_read_packet
    calls,       \* lcm_handle calls in progress, innermost last
    seen,        \* datagrams the socket has yielded
    delivered    \* history: the messages handed to the callbacks

ringVars == <<recs, used>>
poolVars == <<empty, strayTail, putting, racers>>
queueVars == <<filled, notify>>
bufVars == <<at, msg, stamp>>
recvVars == <<rpc, cur, sz>>
vars == <<ringVars, poolVars, queueVars, bufVars, recvVars, calls, seen, delivered>>

Ring == INSTANCE LcmRingbuf
            WITH Size <- RingSize, Lens <- {PacketMax} \cup ShortSizes

\* The structs that are not in the pool.
InUse ==
    (IF cur = NoBuf THEN {} ELSE {cur})
        \cup {filled[i] : i \in 1..Len(filled)}
        \cup ({calls[i].buf : i \in 1..Len(calls)} \ {NoBuf})

Pool == INSTANCE LcmBufPool WITH out <- InUse

Heap == -1       \* malloc'ed by the fragment buffer: buf_from_ringbuf = 0
Nowhere == -2
FromRing(b) == at[b] >= 0

Stamps == {"zero", "kernel", "clock", "fragment"}

Top == calls[Len(calls)]
Pop == SubSeq(calls, 1, Len(calls) - 1)

Init ==
    /\ Ring!RingInit
    /\ empty = Bufs /\ strayTail = FALSE /\ putting = NoBuf /\ racers = {}
    /\ filled = <<>> /\ notify = 0
    /\ at = [b \in Bufs |-> Nowhere]
    /\ msg = [b \in Bufs |-> 0]
    /\ stamp = [b \in Bufs |-> "zero"]
    /\ rpc = "select" /\ cur = NoBuf /\ sz = 0
    /\ calls = <<>> /\ seen = 0 /\ delivered = <<>>

-----------------------------------------------------------------------------
(* The receiver thread.                                                    *)

\* A datagram is taken off the socket.
Take1 == seen < MaxDatagrams /\ seen' = seen + 1

\* No free struct: the datagram is discarded and the thread selects again.
DiscardNoBuf ==
    /\ rpc = "select" /\ empty = {}
    /\ Take1
    /\ UNCHANGED <<ringVars, poolVars, queueVars, bufVars, recvVars, calls, delivered>>

\* lcm_buf_dequeue(inbufs_empty) and, under the same lock, a full-size record
\* from the ring.
Grab ==
    /\ rpc = "select" /\ seen < MaxDatagrams
    /\ \E b \in empty :
        /\ Pool!Get(b)
        /\ cur' = b
        /\ IF Ring!HasSpace(Ring!Rounded(PacketMax))
           THEN /\ Ring!Alloc(PacketMax)
                /\ at' = [at EXCEPT ![b] = recs'[Len(recs')].pos]
                /\ rpc' = "read"
           ELSE /\ rpc' = "full"
                /\ UNCHANGED <<ringVars, at>>
    /\ UNCHANGED <<putting, racers, queueVars, msg, stamp, sz, calls, seen,
                   delivered>>

\* Mutant: lcmb is not set to NULL.
BeginPutBackKeeping ==
    /\ rpc = "full" /\ Take1
    /\ Pool!BeginPut(cur)
    /\ rpc' = "putback"
    /\ UNCHANGED <<ringVars, empty, strayTail, racers, queueVars, bufVars, cur, sz,
                   calls, delivered>>

\* The ring was full: discard the datagram and start putting the struct back,
\* without holding the mutex (lines 751-752).
BeginPutBack ==
    /\ rpc = "full" /\ Take1
    /\ Pool!BeginPut(cur)
    /\ rpc' = "putback" /\ cur' = NoBuf
    /\ UNCHANGED <<ringVars, empty, strayTail, racers, queueVars, bufVars, sz,
                   calls, delivered>>

PutBack ==
    /\ rpc = "putback"
    /\ Pool!EndPut
    /\ rpc' = "select"
    /\ UNCHANGED <<ringVars, queueVars, bufVars, cur, sz, calls, seen, delivered>>

\* recvmsg fails or yields less than a header: nothing but the count changes.
ReadNothing ==
    /\ rpc = "read" /\ Take1
    /\ UNCHANGED <<ringVars, poolVars, queueVars, bufVars, recvVars, calls, delivered>>

\* The receive time is taken from the kernel's control message only into a
\* struct whose recv_utime is still 0, else from the clock.
StampNow(b) ==
    stamp' = [stamp EXCEPT ![b] = IF @ = "zero" THEN "kernel" ELSE "clock"]

\* A packet that completes no message: bad magic or channel name, a channel
\* nobody subscribed to (lcm_has_handlers answers from a table other threads
\* change, so either answer is possible), or a fragment that is not the last.
\* The struct and its record are kept for the next datagram.
ReadIncomplete ==
    /\ rpc = "read" /\ Take1
    /\ StampNow(cur)
    /\ UNCHANGED <<ringVars, poolVars, queueVars, at, msg, recvVars, calls, delivered>>

\* A subscribed unfragmented message, left in the ring.
ReadShort ==
    /\ rpc = "read" /\ Take1
    /\ StampNow(cur)
    /\ msg' = [msg EXCEPT ![cur] = seen + 1]
    /\ sz' \in ShortSizes
    /\ rpc' = "shrink"
    /\ UNCHANGED <<ringVars, poolVars, queueVars, at, cur, calls, delivered>>

\* The last missing fragment: the record in the ring is freed and the struct
\* takes over the fragment buffer's malloc'ed payload.
ReadLastFragment ==
    /\ rpc = "read" /\ Take1
    /\ Ring!Dealloc(at[cur])
    /\ at' = [at EXCEPT ![cur] = Heap]
    /\ msg' = [msg EXCEPT ![cur] = seen + 1]
    /\ stamp' = [stamp EXCEPT ![cur] = "fragment"]
    /\ rpc' = "queue"
    /\ UNCHANGED <<poolVars, queueVars, cur, sz, calls, delivered>>

\* Give back the bytes of the record the packet did not need.
Shrink ==
    /\ rpc = "shrink"
    /\ Ring!ShrinkLast(at[cur], sz)
    /\ rpc' = "queue"
    /\ UNCHANGED <<poolVars, queueVars, bufVars, cur, sz, calls, seen, delivered>>

\* Mutant: the pipe is written for every message.
EnqueueAlwaysNotifying ==
    /\ rpc = "queue"
    /\ notify' = notify + 1
    /\ filled' = Append(filled, cur)
    /\ rpc' = "select" /\ cur' = NoBuf
    /\ UNCHANGED <<ringVars, poolVars, bufVars, sz, calls, seen, delivered>>

\* recv_thread: queue the message, and write the pipe when the queue was empty.
Enqueue ==
    /\ rpc = "queue"
    /\ notify' = IF filled = <<>> THEN notify + 1 ELSE notify
    /\ filled' = Append(filled, cur)
    /\ rpc' = "select" /\ cur' = NoBuf
    /\ UNCHANGED <<ringVars, poolVars, bufVars, sz, calls, seen,
                   delivered>>

-----------------------------------------------------------------------------
(* lcm_udpm_handle, entered by one application thread at a time            *)
(* (lcm->handle_mutex), and again by that thread from a callback, since    *)
(* that mutex is recursive.                                                *)

CanCall ==
    \/ calls = <<>>
    \/ calls # <<>> /\ Top.pc = "dispatch" /\ Len(calls) < MaxDepth

\* The blocking read of one byte from the notify pipe, outside the mutex.
HandleRead ==
    /\ CanCall /\ notify > 0
    /\ notify' = notify - 1
    /\ calls' = Append(calls, [pc |-> "woken", buf |-> NoBuf])
    /\ UNCHANGED <<ringVars, poolVars, filled, bufVars, recvVars, seen,
                   delivered>>

\* Mutants: the newest message is taken; no byte is put back.
HandleTakeNewest ==
    /\ calls # <<>> /\ Top.pc = "woken" /\ filled # <<>>
    /\ LET newest == filled[Len(filled)]
           rest == SubSeq(filled, 1, Len(filled) - 1) IN
        /\ filled' = rest
        /\ notify' = IF rest # <<>> THEN notify + 1 ELSE notify
        /\ calls' = Append(Pop, [pc |-> "dispatch", buf |-> newest])
        /\ delivered' = Append(delivered, msg[newest])
    /\ UNCHANGED <<ringVars, poolVars, bufVars, recvVars, seen>>

HandleTakeSilently ==
    /\ calls # <<>> /\ Top.pc = "woken" /\ filled # <<>>
    /\ filled' = Tail(filled)
    /\ calls' = Append(Pop, [pc |-> "dispatch", buf |-> Head(filled)])
    /\ delivered' = Append(delivered, msg[Head(filled)])
    /\ UNCHANGED <<notify, ringVars, poolVars, bufVars, recvVars, seen>>

\* Dequeue, put a byte back if more is queued, unlock; the callbacks start.
\* With nothing queued the call fails: "no packet available despite getting
\* notification".
HandleTake ==
    /\ calls # <<>> /\ Top.pc = "woken"
    /\ IF filled = <<>>
       THEN /\ calls' = Pop
            /\ UNCHANGED <<filled, notify, delivered>>
       ELSE /\ filled' = Tail(filled)
            /\ notify' = IF Tail(filled) # <<>> THEN notify + 1 ELSE notify
            /\ calls' = Append(Pop, [pc |-> "dispatch", buf |-> Head(filled)])
            /\ delivered' = Append(delivered, msg[Head(filled)])
    /\ UNCHANGED <<ringVars, poolVars, bufVars, recvVars, seen>>

\* The payload of b is freed; the ring asserts that b's record is at an end.
FreePayload(b) ==
    /\ IF FromRing(b) THEN Ring!Dealloc(at[b]) ELSE UNCHANGED ringVars
    /\ at' = [at EXCEPT ![b] = Nowhere]

\* The callbacks have returned: free the payload, put the struct back, return.
HandleRelease ==
    /\ calls # <<>> /\ Top.pc = "dispatch"
    /\ FreePayload(Top.buf)
    /\ Pool!Return(Top.buf)
    /\ calls' = Pop
    /\ UNCHANGED <<queueVars, msg, stamp, recvVars, seen, delivered>>

-----------------------------------------------------------------------------
RecvThread ==
    \/ DiscardNoBuf \/ Grab \/ BeginPutBack \/ PutBack
    \/ ReadNothing \/ ReadIncomplete \/ ReadShort \/ ReadLastFragment
    \/ Shrink \/ Enqueue

Handler == HandleRead \/ HandleTake \/ HandleRelease

Next == RecvThread \/ Handler

Spec == Init /\ [][Next]_vars

-----------------------------------------------------------------------------
(* Fairness: the receiver thread runs until it selects again, and the      *)
(* application calls lcm_handle whenever the descriptor is readable, from  *)
(* callbacks that return (the loops of lcm_logger.c and of settings_app's  *)
(* listener).  Nothing is assumed of the network.                          *)
Fairness ==
    /\ WF_vars(Shrink) /\ WF_vars(Enqueue) /\ WF_vars(PutBack)
    /\ WF_vars(calls = <<>> /\ HandleRead)
    /\ WF_vars(HandleTake)
    /\ WF_vars(HandleRelease)

FairSpec == Spec /\ Fairness

-----------------------------------------------------------------------------
Frame ==
    [pc : {"woken"}, buf : {NoBuf}] \cup [pc : {"dispatch"}, buf : Bufs]

TypeOK ==
    /\ Ring!RingTypeOK
    /\ empty \subseteq Bufs /\ strayTail \in BOOLEAN
    /\ putting \in Bufs \cup {NoBuf} /\ racers \subseteq Bufs
    /\ filled \in Seq(Bufs) /\ notify \in Nat
    /\ at \in [Bufs -> Nat \cup {Heap, Nowhere}]
    /\ msg \in [Bufs -> Nat] /\ stamp \in [Bufs -> Stamps]
    /\ rpc \in {"select", "full", "putback", "read", "shrink", "queue"}
    /\ cur \in Bufs \cup {NoBuf}
    /\ (cur = NoBuf) <=> (rpc \in {"select", "putback"})
    /\ (putting = NoBuf) <=> (rpc # "putback")
    /\ sz \in Nat /\ seen \in Nat
    /\ calls \in Seq(Frame)
    /\ \A i \in 1..Len(calls) - 1 : calls[i].pc = "dispatch"
    /\ delivered \in Seq(Nat)

Woken == calls # <<>> /\ Top.pc = "woken"

\* The wakeup protocol of recv_thread and lcm_udpm_handle, which read and
\* write the pipe on different sides of the mutex: while a message is queued
\* there is exactly one wakeup for it, in the pipe or in the hands of a call
\* that has read it, and none otherwise.  A byte too few loses a wakeup, a
\* byte too many makes lcm_handle fail with "no packet available despite
\* getting notification" (lcm_udp.c:853-864, 1038-1065).
OneWakeup ==
    IF filled = <<>> THEN notify = 0 /\ ~Woken
                     ELSE notify = (IF Woken THEN 0 ELSE 1)

\* A struct is in one place only: in the pool (or on its way into it, with the
\* mutex or without), being filled, queued, or being dispatched by one call; else
\* the receiver would fill a buffer that a callback is reading (lcm_udp.c:721-753,
\* 853-869, 1053-1079).
Free == empty \cup racers \cup ({putting} \ {NoBuf})

OneHolder ==
    /\ \A i, j \in 1..Len(filled) : filled[i] = filled[j] => i = j
    /\ \A i, j \in 1..Len(calls) :
          calls[i].buf = calls[j].buf => i = j \/ calls[i].buf = NoBuf
    /\ \A i \in 1..Len(filled) :
          /\ filled[i] # cur
          /\ \A j \in 1..Len(calls) : filled[i] # calls[j].buf
    /\ \A j \in 1..Len(calls) : calls[j].buf = cur => cur = NoBuf
    /\ Free \cap InUse = {}
    /\ putting \notin racers /\ (empty \cap (racers \cup {putting})) = {}

\* The assertions of ringbuffer.c (lines 176, 183 and 205) hold whenever
\* they are reached: "Only the most recently allocated, or the least recently
\* allocated chunk can be released."
AssertsHold ==
    /\ rpc = "read" => Ring!CanDealloc(at[cur])
    /\ rpc = "shrink" => Ring!CanShrink(at[cur], Ring!Rounded(sz))
    /\ calls # <<>> /\ Top.pc = "dispatch" /\ FromRing(Top.buf)
          => Ring!CanDealloc(at[Top.buf])

\* The receive path is a mailbox: messages come out once, in arrival order,
\* and the descriptor tells the truth about them.
Box == INSTANCE LcmMailbox
         WITH Messages <- 1..MaxDatagrams,
              pending <- [i \in 1..Len(filled) |-> msg[filled[i]]],
              ready <- notify, claimed <- Woken

\* lcm_handle and recv_thread together implement the mailbox.
IsMailbox == Box!BoxSpec

\* A queued message is eventually handed to the callbacks: no wakeup is lost.
EventuallyDelivered ==
    \A m \in 1..MaxDatagrams :
        (\E i \in 1..Len(filled) : msg[filled[i]] = m)
            ~> (\E i \in 1..Len(delivered) : delivered[i] = m)

-----------------------------------------------------------------------------
(* A statement of the source that the code does not keep.                  *)

\* lcm_udp.c:168 says that the mutex is held whenever a queue is touched, so
\* that a struct is always free, in use by a thread, or queued.
PoolConserved == Bufs = Free \cup InUse

=============================================================================
