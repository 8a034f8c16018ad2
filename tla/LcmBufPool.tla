------------------------------ MODULE LcmBufPool ------------------------------
(***************************************************************************)
(* The queue inbufs_empty of upstream/lcm/lcm_udp.c as its users see it:   *)
(* a pool of free lcm_buf_t structs (one is as good as another, so their   *)
(* order is left out).  lcm_udpm_handle returns structs under the mutex;   *)
(* the receiver thread takes them under the mutex, but puts one back       *)
(* without it (line 752), so that returns may overlap that enqueue: a data *)
(* race, whose outcomes are computed from the pointer operations in        *)
(* LcmBufQueue.                                                            *)
(***************************************************************************)
EXTENDS FiniteSets

CONSTANTS Bufs, NoBuf

VARIABLES
    empty,       \* structs reachable from the head of the list
    strayTail,   \* the tail points into a struct that is not on the list
    putting,     \* the struct the receiver is putting back unlocked, or NoBuf
    racers,      \* structs returned while it was doing so
    out          \* structs in use by a thread or queued in inbufs_filled

poolVars == <<empty, strayTail, putting, racers, out>>

PoolInit ==
    /\ empty = Bufs /\ out = {}
    /\ strayTail = FALSE /\ putting = NoBuf /\ racers = {}

\* An enqueue writes where the tail points: behind a stray tail the struct
\* does not become reachable.
Enqueued(S) == IF strayTail THEN empty ELSE empty \cup S

\* lcm_buf_dequeue: taking the last struct resets the tail to the head.
Get(b) ==
    /\ putting = NoBuf /\ b \in empty
    /\ empty' = empty \ {b}
    /\ strayTail' = (strayTail /\ empty # {b})

\* lcm_buf_enqueue under the mutex, by lcm_udpm_handle.
Return(b) ==
    /\ UNCHANGED <<strayTail, putting>>
    /\ IF putting = NoBuf
       THEN empty' = Enqueued({b}) /\ UNCHANGED racers
       ELSE racers' = racers \cup {b} /\ UNCHANGED empty

\* lcm_buf_enqueue without the mutex, from its start to the moment the
\* receiver next holds the mutex.
BeginPut(b) == putting = NoBuf /\ putting' = b

\* With nobody else enqueueing it is an enqueue.  Else either every struct
\* got onto the list, or some were overwritten and the tail may be left in
\* one of those.
EndPut ==
    /\ putting # NoBuf
    /\ putting' = NoBuf /\ racers' = {}
    /\ \/ /\ empty' = Enqueued(racers \cup {putting})
          /\ UNCHANGED strayTail
       \/ /\ racers # {} /\ ~strayTail
          /\ \E kept \in SUBSET (racers \cup {putting}) :
                /\ kept \notin {{}, racers \cup {putting}}
                /\ empty' = empty \cup kept
          /\ strayTail' \in BOOLEAN

PoolNext ==
    \/ \E b \in empty :
          Get(b) /\ out' = out \cup {b} /\ UNCHANGED <<putting, racers>>
    \/ \E b \in out : Return(b) /\ out' = out \ {b}
    \/ \E b \in out :
          /\ BeginPut(b) /\ out' = out \ {b}
          /\ UNCHANGED <<empty, strayTail, racers>>
    \/ EndPut /\ UNCHANGED out

PoolSpec == PoolInit /\ [][PoolNext]_poolVars

=============================================================================
