----------------------------- MODULE LcmBufQueue -----------------------------
(***************************************************************************)
(* inbufs_empty at the level of its pointers (lcm_buf_enqueue and          *)
(* lcm_buf_dequeue, upstream/lcm/lcm_udp.c:279-304): a singly linked list  *)
(* whose tail is the address of the last next field.  An address is        *)
(* HeadField (of the queue) or a struct (that struct's next field).       *)
(*                                                                         *)
(* The receiver's enqueue of line 752 does not hold the mutex that         *)
(* lcm_udpm_handle's enqueue (line 1083) and its own dequeue hold.  The    *)
(* loads and stores of the two enqueues interleave in every order.         *)
(***************************************************************************)
EXTENDS Integers, FiniteSets, Functions

CONSTANTS Bufs, NoBuf, HeadField

ASSUME QueueAssumption ==
    /\ NoBuf \notin Bufs /\ HeadField \notin Bufs /\ HeadField # NoBuf
    /\ IsFiniteSet(Bufs) /\ Bufs # {}

VARIABLES
    cell,        \* the pointer stored at each address
    tail,        \* q->tail, an address
    step,        \* the next pointer operation of each enqueuer
    el,          \* the struct each enqueuer is enqueueing
    loc,         \* the address each enqueuer has loaded from q->tail
    inUse,       \* the structs in use
    before,      \* history: the pool when the enqueues in progress began
    returned     \* history: what the handler has enqueued since

listVars == <<cell, tail, step, el, loc, inUse, before, returned>>

Enqueuers == {"receiver", "handler"}

\* The structs reachable from the head: those in every set that has what the
\* head points to, and what its members point to.
ClosedUnder(S, next) ==
    next[HeadField] \in S \cup {NoBuf} /\ \A b \in S : next[b] \in S \cup {NoBuf}
ReachBy(next) == {b \in Bufs : \A S \in SUBSET Bufs : ClosedUnder(S, next) => b \in S}
Reach == ReachBy(cell)

Stray == cell[tail] # NoBuf \/ ~(tail \in Reach \cup {HeadField})

QueueInit ==
    \E order \in Bijection(1..Cardinality(Bufs), Bufs) :
        /\ cell = [a \in Bufs \cup {HeadField} |->
                     IF a = HeadField THEN order[1]
                     ELSE LET i == CHOOSE i \in DOMAIN order : order[i] = a
                          IN  IF i = Cardinality(Bufs) THEN NoBuf ELSE order[i + 1]]
        /\ tail = order[Cardinality(Bufs)]
        /\ step = [t \in Enqueuers |-> "idle"]
        /\ el = [t \in Enqueuers |-> NoBuf]
        /\ loc = [t \in Enqueuers |-> NoBuf]
        /\ inUse = {} /\ returned = {}
        /\ before = [empty |-> Bufs, stray |-> FALSE]

\* The handler holds the mutex from Start to its last store.
MutexFree == step["handler"] = "idle"

Quiet == \A t \in Enqueuers : step[t] = "idle"

\* Mutant: the tail is not reset when the last struct is taken.
DequeueKeepingTail ==
    /\ MutexFree /\ step["receiver"] = "idle"
    /\ cell[HeadField] # NoBuf
    /\ LET b == cell[HeadField] IN
        /\ cell' = [cell EXCEPT ![HeadField] = cell[b], ![b] = NoBuf]
        /\ inUse' = inUse \cup {b}
    /\ UNCHANGED <<tail, step, el, loc, before, returned>>

\* lcm_buf_dequeue by the receiver, under the mutex.
Dequeue ==
    /\ MutexFree /\ step["receiver"] = "idle"
    /\ cell[HeadField] # NoBuf
    /\ LET b == cell[HeadField] IN
        /\ cell' = [cell EXCEPT ![HeadField] = cell[b], ![b] = NoBuf]
        /\ tail' = IF cell[b] = NoBuf THEN HeadField ELSE tail
        /\ inUse' = inUse \cup {b}
    /\ UNCHANGED <<step, el, loc, before, returned>>

Start(t) ==
    /\ step[t] = "idle"
    /\ \E b \in inUse :
          el' = [el EXCEPT ![t] = b] /\ inUse' = inUse \ {b}
    /\ step' = [step EXCEPT ![t] = "load"]
    /\ before' = IF Quiet THEN [empty |-> Reach, stray |-> Stray] ELSE before
    /\ UNCHANGED <<cell, tail, loc, returned>>

Load(t) ==
    /\ step[t] = "load"
    /\ loc' = [loc EXCEPT ![t] = tail]
    /\ step' = [step EXCEPT ![t] = "link"]
    /\ UNCHANGED <<cell, tail, el, inUse, before, returned>>

\* *(q->tail) = el
Link(t) ==
    /\ step[t] = "link"
    /\ cell' = [cell EXCEPT ![loc[t]] = el[t]]
    /\ step' = [step EXCEPT ![t] = "move"]
    /\ UNCHANGED <<tail, el, loc, inUse, before, returned>>

\* q->tail = &el->next
Move(t) ==
    /\ step[t] = "move"
    /\ tail' = el[t]
    /\ step' = [step EXCEPT ![t] = "clear"]
    /\ UNCHANGED <<cell, el, loc, inUse, before, returned>>

\* el->next = NULL
Clear(t) ==
    /\ step[t] = "clear"
    /\ cell' = [cell EXCEPT ![el[t]] = NoBuf]
    /\ IF t = "handler"
       THEN /\ step' = [step EXCEPT ![t] = "idle"]
            /\ el' = [el EXCEPT ![t] = NoBuf]
            /\ loc' = [loc EXCEPT ![t] = NoBuf]
            /\ returned' = IF step["receiver"] = "idle" THEN {}
                           ELSE returned \cup {el[t]}
       ELSE /\ step' = [step EXCEPT ![t] = "done"]
            /\ UNCHANGED <<el, loc, returned>>
    /\ UNCHANGED <<tail, inUse, before>>

\* The receiver's next critical section waits for the mutex.
Rejoin ==
    /\ step["receiver"] = "done" /\ MutexFree
    /\ step' = [step EXCEPT !["receiver"] = "idle"]
    /\ el' = [el EXCEPT !["receiver"] = NoBuf]
    /\ loc' = [loc EXCEPT !["receiver"] = NoBuf]
    /\ returned' = {}
    /\ UNCHANGED <<cell, tail, inUse, before>>

QueueNext ==
    \/ Dequeue \/ Rejoin
    \/ \E t \in Enqueuers : Start(t) \/ Load(t) \/ Link(t) \/ Move(t) \/ Clear(t)

QueueSpec == QueueInit /\ [][QueueNext]_listVars

-----------------------------------------------------------------------------
\* What the pool is while enqueues are in progress is what it was before.
Empty == IF Quiet THEN Reach ELSE before.empty
StrayTail == IF Quiet THEN Stray ELSE before.stray
Out == IF step["handler"] = "idle" THEN inUse ELSE inUse \cup {el["handler"]}

Pool == INSTANCE LcmBufPool
          WITH empty <- Empty, strayTail <- StrayTail,
               putting <- el["receiver"], racers <- returned, out <- Out

\* Every outcome of the racing pointer operations, and every later use of the
\* list they leave behind, is one LcmBufPool allows: the abstraction the
\* receive path is built on leaves no behaviour of the list out.
ImplementsPool == Pool!PoolSpec

=============================================================================
