----------------------------- MODULE LcmUdpmLife -----------------------------
(***************************************************************************)
(* The life of the UDP-multicast provider (upstream/lcm/lcm_udp.c) as one  *)
(* application thread drives it: the receiver is set up by the first       *)
(* lcm_subscribe or lcm_handle, tested by a message the provider sends to  *)
(* itself, taken down when the test fails, set up again by the next call,  *)
(* and taken down for good by lcm_destroy.                                 *)
(*                                                                         *)
(* What the receiver does with its structs and its bytes is in LcmUdpmRecv *)
(* and LcmFragments; here it moves messages of a kind to inbufs_filled,    *)
(* and the table of fragment buffers is its byte total, which outlives it. *)
(* Any message may arrive at any time: other programs publish in the same  *)
(* group, self-test messages included.                                     *)
(***************************************************************************)
EXTENDS Integers, Sequences

CONSTANTS
    MaxTotal,      \* frag_bufs_max_total_size, in large messages
    MaxReceived,   \* bound: messages that begin to reach the receiver
    MaxFailures    \* bound: setups that fail

ASSUME LifeAssumption ==
    MaxTotal \in Nat /\ MaxReceived \in Nat /\ MaxFailures \in Nat

VARIABLES
    apc,         \* where the application thread is
    then,        \* the call the setup or the end is part of
    parts,       \* what _setup_recv_thread has allocated
    frag,        \* the table of fragment buffers exists
    total,       \* frag_bufs_total_size, in large messages
    created,     \* thread_created
    rpc,         \* where the receiver thread is
    got,         \* the message it has read and not queued
    quit,        \* its exit command is in thread_msg_pipe
    filled,      \* inbufs_filled
    notify,      \* bytes in notify_pipe
    testing,     \* the self-test handler is subscribed
    success,     \* the self-test handler was called
    handlers,    \* the application has a subscription
    received, failures    \* counts, for the bounds

setupVars == <<apc, then, parts, frag, created, quit, testing, success>>
recvVars == <<rpc, got, total, received>>
queueVars == <<filled, notify>>
lifeVars == <<setupVars, recvVars, queueVars, handlers, failures>>

MessageKinds == {"test", "short", "large"}
All == {"socket", "queues", "pipe"}

LifeInit ==
    /\ apc = "idle" /\ then = "none"
    /\ parts = {} /\ frag = TRUE /\ created = FALSE
    /\ rpc = "none" /\ got = "none" /\ total = 0 /\ quit = FALSE
    /\ filled = <<>> /\ notify = 0
    /\ testing = FALSE /\ success = FALSE /\ handlers = FALSE
    /\ received = 0 /\ failures = 0

-----------------------------------------------------------------------------
(* _setup_recv_thread.                                                     *)

\* The setup is entered on behalf of a call.
Enter(call) ==
    /\ failures < MaxFailures \/ created
    /\ then' = call
    /\ apc' = "socket"
    /\ UNCHANGED <<parts, frag, created, quit, testing, success>>

\* Mutant: nothing is taken down before the thread runs.
GiveUpHoldingParts ==
    /\ apc' = "idle" /\ frag' = FALSE
    /\ failures' = failures + 1
    /\ UNCHANGED <<parts, then, created, quit, testing, success, recvVars, queueVars, handlers>>

\* _destroy_recv_parts before there is a thread; the call fails.
GiveUp ==
    /\ parts' = {} /\ frag' = FALSE /\ apc' = "idle"
    /\ failures' = failures + 1
    /\ UNCHANGED <<then, created, quit, testing, success, recvVars, queueVars, handlers>>

\* The parts come in this order; socket options, bind and the membership of
\* the group belong to the socket.
Allocate(stage, part, next) ==
    /\ apc = stage
    /\ parts' = parts \cup {part} /\ apc' = next
    /\ UNCHANGED <<then, frag, created, quit, testing, success, recvVars,
                   queueVars, handlers, failures>>

OpenSocket == Allocate("socket", "socket", "queues")
MakeQueues == Allocate("queues", "queues", "pipe")
MakePipe == Allocate("pipe", "pipe", "thread")

SetupFails == apc \in {"socket", "queues", "pipe", "thread"} /\ GiveUp

\* The thread runs; the self-test subscribes (which finds thread_created set)
\* and publishes.
StartThread ==
    /\ apc = "thread"
    /\ rpc' = "select" /\ created' = TRUE
    /\ testing' = TRUE /\ success' = FALSE
    /\ apc' = "test"
    /\ UNCHANGED <<then, parts, frag, quit, got, total, received, queueVars, handlers,
                   failures>>

-----------------------------------------------------------------------------
(* lcm_udpm_handle after the setup: a byte is read, then a message taken.  *)
(* A byte too many finds no message and the call fails.                    *)
Take ==
    /\ notify > 0
    /\ IF filled = <<>>
       THEN notify' = notify - 1 /\ UNCHANGED filled
       ELSE /\ filled' = Tail(filled)
            /\ notify' = notify - 1 + (IF Tail(filled) = <<>> THEN 0 ELSE 1)

\* The self-test waits with select and handles what is there.
TestHandle ==
    /\ apc = "test" /\ ~success
    /\ Take
    /\ success' = (filled # <<>> /\ Head(filled) = "test")
    /\ UNCHANGED <<apc, then, parts, frag, created, quit, testing, recvVars,
                   handlers, failures>>

\* The self-test handler was called: the setup is done and the call goes on.
TestPasses ==
    /\ apc = "test" /\ success
    /\ testing' = FALSE
    /\ apc' = IF then = "handle" THEN "handle" ELSE "idle"
    /\ handlers' = (handlers \/ then = "subscribe")
    /\ UNCHANGED <<then, parts, frag, created, quit, success, recvVars,
                   queueVars, failures>>

\* Mutant: the exit command is not written.
TestFailsSilently ==
    /\ apc = "test" /\ ~success
    /\ testing' = FALSE /\ apc' = "join"
    /\ UNCHANGED <<then, parts, frag, created, quit, success, recvVars,
                   queueVars, handlers, failures>>

\* Ten seconds have passed: the thread is told to end.
TestFails ==
    /\ apc = "test" /\ ~success
    /\ testing' = FALSE /\ quit' = TRUE /\ apc' = "join"
    /\ UNCHANGED <<then, parts, frag, created, success, recvVars, queueVars,
                   handlers, failures>>

\* Mutant: the parts are freed without waiting for the thread.
JoinAtOnce ==
    /\ apc = "join"
    /\ created' = FALSE /\ parts' = {} /\ frag' = FALSE
    /\ filled' = <<>> /\ quit' = FALSE
    /\ IF then = "destroy"
       THEN apc' = "gone" /\ notify' = 0 /\ UNCHANGED failures
       ELSE apc' = "idle" /\ failures' = failures + 1 /\ UNCHANGED notify
    /\ UNCHANGED <<then, rpc, got, total, received, testing, success, handlers>>

\* g_thread_join has returned: the rest of _destroy_recv_parts, which leaves the
\* notify pipe as it is unless the whole provider goes.  The table of fragment
\* buffers goes, the count of its bytes is left.
Join ==
    /\ apc = "join" /\ rpc = "exited"
    /\ rpc' = "none" /\ created' = FALSE /\ parts' = {} /\ frag' = FALSE
    /\ filled' = <<>> /\ quit' = FALSE
    /\ IF then = "destroy"
       THEN apc' = "gone" /\ notify' = 0 /\ UNCHANGED failures
       ELSE apc' = "idle" /\ failures' = failures + 1 /\ UNCHANGED notify
    /\ UNCHANGED <<then, got, total, received, testing, success, handlers>>

-----------------------------------------------------------------------------
(* The calls of the application.                                           *)

\* lcm_subscribe: no subscription is made unless the setup succeeds.
Subscribe ==
    /\ apc = "idle"
    /\ IF created THEN handlers' = TRUE /\ UNCHANGED setupVars
                  ELSE Enter("subscribe") /\ UNCHANGED handlers
    /\ UNCHANGED <<recvVars, queueVars, failures>>

\* The provider is not told (its unsubscribe is NULL).
Unsubscribe ==
    /\ apc = "idle" /\ handlers
    /\ handlers' = FALSE
    /\ UNCHANGED <<setupVars, recvVars, queueVars, failures>>

HandleCall ==
    /\ apc = "idle"
    /\ IF created
       THEN /\ apc' = "handle"
            /\ UNCHANGED <<then, parts, frag, created, quit, testing, success>>
       ELSE Enter("handle")
    /\ UNCHANGED <<recvVars, queueVars, handlers, failures>>

HandleTake ==
    /\ apc = "handle"
    /\ Take
    /\ apc' = "idle"
    /\ UNCHANGED <<then, parts, frag, created, quit, testing, success, recvVars,
                   handlers, failures>>

\* lcm_destroy.
Destroy ==
    /\ apc = "idle"
    /\ then' = "destroy"
    /\ IF created THEN quit' = TRUE /\ apc' = "join" /\ UNCHANGED <<frag, notify>>
                  ELSE apc' = "gone" /\ frag' = FALSE /\ notify' = 0 /\ UNCHANGED quit
    /\ UNCHANGED <<parts, created, testing, success, recvVars, filled, handlers,
                   failures>>

-----------------------------------------------------------------------------
(* The receiver thread.                                                    *)

\* An unfragmented message somebody subscribes to is read.
RecvTake ==
    /\ rpc = "select" /\ ~quit /\ received < MaxReceived
    /\ \/ testing /\ got' = "test"
       \/ handlers /\ got' = "short"
    /\ rpc' = "queue"
    /\ received' = received + 1
    /\ UNCHANGED <<total, setupVars, queueVars, handlers, failures>>

\* The first fragment of a large message somebody subscribes to; the buffer left
\* over by its source, if there is one, goes first.
RecvFragment ==
    /\ rpc = "select" /\ ~quit /\ received < MaxReceived /\ handlers
    /\ \/ UNCHANGED total
       \/ frag /\ total > 0 /\ total' = total - 1
    /\ rpc' = "evict"
    /\ received' = received + 1
    /\ UNCHANGED <<got, setupVars, queueVars, handlers, failures>>

\* _add_fragment_buffer: buffers are removed down to the limit, then the new one
\* is counted.  With the table gone there is nothing to remove, and a total above
\* the limit stays there.
Evicted ==
    /\ rpc = "evict"
    /\ frag \/ total <= MaxTotal
    /\ total' = 1 + (IF total > MaxTotal THEN MaxTotal ELSE total)
    /\ rpc' = "select"
    /\ UNCHANGED <<got, received, setupVars, queueVars, handlers, failures>>

\* The last fragment of a message in the table.  A later fragment of one that is
\* not there is dropped.
RecvLast ==
    /\ rpc = "select" /\ ~quit /\ frag /\ total > 0
    /\ total' = total - 1
    /\ got' = "large" /\ rpc' = "queue"
    /\ UNCHANGED <<received, setupVars, queueVars, handlers, failures>>

\* Mutant: the pipe is written after the first message only.
RecvQueueOnce ==
    /\ rpc = "queue"
    /\ notify' = IF notify = 0 /\ received = 1 THEN 1 ELSE notify
    /\ filled' = Append(filled, got)
    /\ got' = "none" /\ rpc' = "select"
    /\ UNCHANGED <<setupVars, total, received, handlers, failures>>

RecvQueue ==
    /\ rpc = "queue"
    /\ notify' = IF filled = <<>> THEN notify + 1 ELSE notify
    /\ filled' = Append(filled, got)
    /\ got' = "none" /\ rpc' = "select"
    /\ UNCHANGED <<setupVars, total, received, handlers, failures>>

\* The exit command is looked for before the socket.
RecvQuit ==
    /\ rpc = "select" /\ quit
    /\ rpc' = "exited"
    /\ UNCHANGED <<setupVars, got, total, received, queueVars, handlers, failures>>

-----------------------------------------------------------------------------
Setup ==
    \/ OpenSocket \/ MakeQueues \/ MakePipe \/ StartThread \/ SetupFails
    \/ TestHandle \/ TestPasses \/ TestFails \/ Join

Application == Subscribe \/ Unsubscribe \/ HandleCall \/ HandleTake \/ Destroy

Receiver ==
    RecvTake \/ RecvFragment \/ Evicted \/ RecvLast \/ RecvQueue \/ RecvQuit

LifeNext == Setup \/ Application \/ Receiver

LifeSpec == LifeInit /\ [][LifeNext]_lifeVars

\* The scheduler runs both threads and time passes: the setup ends in one way or
\* another, and so does the receiver when it is told to.  Nothing is assumed of
\* the network or of the application.
LifeFairness ==
    /\ WF_lifeVars(OpenSocket \/ MakeQueues \/ MakePipe \/ StartThread)
    /\ WF_lifeVars(TestPasses) /\ WF_lifeVars(TestFails) /\ WF_lifeVars(Join)
    /\ WF_lifeVars(Evicted) /\ WF_lifeVars(RecvQueue) /\ WF_lifeVars(RecvQuit)

LifeFairSpec == LifeSpec /\ LifeFairness

-----------------------------------------------------------------------------
InSetup == apc \in {"socket", "queues", "pipe", "thread", "test", "join"}

\* No wakeup is lost over setups that fail and are tried again: whatever is
\* queued has a byte in the pipe.  The other direction is lost: a failed setup
\* throws queued messages away and leaves their byte, after which one more
\* lcm_handle than there are failures may return "no packet available despite
\* getting notification".
NoneStranded ==
    /\ filled # <<>> => notify > 0
    /\ notify <= failures + (IF filled = <<>> THEN 0 ELSE 1)

\* The receiver thread only runs while everything it uses is there: it is
\* joined before anything is freed, and nothing is left over for the next setup
\* to leak.
PartsInUse ==
    /\ rpc \in {"select", "evict", "queue"} => parts = All
    /\ apc \in {"idle", "handle"} =>
            IF created THEN parts = All /\ rpc # "none" ELSE parts = {} /\ rpc = "none"
    /\ apc = "gone" => parts = {} /\ rpc = "none"

\* A subscription the application has is served: by a receiver thread, and one
\* that can put large messages together.  The table of fragment buffers is made
\* only by lcm_create: after a failed setup it is gone for good.
Served ==
    handlers => \/ created /\ (failures = 0 => frag)
                \/ apc = "gone"

\* The receiver thread looks for a buffer to remove where there is no table: the
\* loop of lcm_udp.c:500-506 does not end.
Spinning == rpc = "evict" /\ ~frag /\ total > MaxTotal

\* Neither lcm_subscribe, nor lcm_handle, nor lcm_destroy waits for ever in the
\* setup or in its end: the test ends and the thread can be joined, unless it
\* spins (see EvictionEnds).
SetupReturns == InSetup ~> (~InSetup \/ Spinning)

-----------------------------------------------------------------------------
(* A statement of the source that the code does not keep.                  *)

\* "find and remove the least recently updated fragment buffer" (lcm_udp.c:502):
\* while the total is too high a buffer is removed, so that the loop ends.
EvictionEnds == rpc = "evict" ~> rpc # "evict"

=============================================================================
