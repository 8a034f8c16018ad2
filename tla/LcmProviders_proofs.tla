------------------------- MODULE LcmProviders_proofs -------------------------
(***************************************************************************)
(* What the providers promise: the life of the UDP provider (LcmUdpmLife)  *)
(* for any number of messages and of setups that fail, and the TCP         *)
(* provider with its server (LcmTcpq) for any number of clients and of     *)
(* connections lost.                                                       *)
(*                                                                         *)
(* The first module's invariants only speak of states between calls and of *)
(* the receiver thread; what has to be added is what each stage of the     *)
(* setup and of the end has allocated (Stages), that nothing is queued     *)
(* while there is no thread, and that the application has no subscription  *)
(* until a setup has succeeded (Unserved).                                 *)
(*                                                                         *)
(* For the second, TypesInv says what the words of a call may be (Calls),  *)
(* that what follows PUBLISH in a stream is its message, or is the next    *)
(* word of the call (Paired), and what each end of a connection knows of   *)
(* the other (Links).  Its two theorems then each need one thing more:     *)
(* Promised, and InOrder, which speaks of a message wherever it is on its  *)
(* way: relayed, not read yet, in the buffer, or passed.                   *)
(***************************************************************************)
EXTENDS LcmUdpmLife, LcmTcpq, Induction, SequenceTheorems, TLAPS

-----------------------------------------------------------------------------
(* The life of the UDP provider.                                           *)

Early == {"socket", "queues", "pipe", "thread"}

Types ==
    /\ apc \in {"idle", "handle", "test", "join", "gone"} \cup Early
    /\ then \in {"none", "subscribe", "handle", "destroy"}
    /\ rpc \in {"none", "select", "evict", "queue", "exited"}
    /\ total \in Nat
    /\ got \in MessageKinds \cup {"none"} /\ (rpc = "queue" => got \in MessageKinds)
    /\ filled \in Seq(MessageKinds) /\ notify \in Nat /\ failures \in Nat

Stages ==
    /\ created => parts = All /\ rpc # "none" /\ apc \notin Early \cup {"gone"}
    /\ ~created => rpc = "none" /\ filled = <<>> /\ apc \notin {"handle", "test", "join"}
    /\ quit <=> apc = "join"
    /\ rpc = "exited" => quit
    /\ apc \in {"idle", "gone"} /\ ~created => parts = {}
    /\ apc = "socket" => parts = {}
    /\ apc = "queues" => parts = {"socket"}
    /\ apc = "pipe" => parts = {"socket", "queues"}
    /\ apc = "thread" => parts = All

Unserved ==
    /\ apc \in Early \cup {"test"} => ~handlers /\ then \in {"subscribe", "handle"}
    /\ apc = "join" /\ then # "destroy" => ~handlers
    /\ handlers => created \/ apc = "gone"
    /\ failures = 0 /\ apc # "gone" => frag

IInv == Types /\ Stages /\ NoneStranded /\ Unserved

LEMMA InitIInv == LifeInit => IInv
BY DEF LifeInit, IInv, Types, Stages, NoneStranded, Unserved, Early, MessageKinds

-----------------------------------------------------------------------------
(* The setup.                                                              *)

LEMMA AllocateIInv == IInv /\ (OpenSocket \/ MakeQueues \/ MakePipe) => IInv'
<1> SUFFICES ASSUME IInv, OpenSocket \/ MakeQueues \/ MakePipe PROVE IInv'
    OBVIOUS
<1> USE DEF Allocate, recvVars, queueVars
<1>1. Types'
    BY DEF IInv, Types, Early, OpenSocket, MakeQueues, MakePipe
<1>2. Stages'
    BY DEF IInv, Types, Stages, Early, All, OpenSocket, MakeQueues, MakePipe
<1>3. NoneStranded'
    BY DEF IInv, NoneStranded, OpenSocket, MakeQueues, MakePipe
<1>4. Unserved'
    BY DEF IInv, Unserved, Early, OpenSocket, MakeQueues, MakePipe
<1> QED
    BY <1>1, <1>2, <1>3, <1>4 DEF IInv

LEMMA SetupFailsIInv == IInv /\ SetupFails => IInv'
<1> SUFFICES ASSUME IInv, SetupFails PROVE IInv'
    OBVIOUS
<1> USE DEF SetupFails, GiveUp, recvVars, queueVars
<1>1. Types'
    BY DEF IInv, Types
<1>2. Stages'
    BY DEF IInv, Types, Stages, Early
<1>3. NoneStranded'
    BY DEF IInv, Types, NoneStranded
<1>4. Unserved'
    BY DEF IInv, Types, Unserved, Early
<1> QED
    BY <1>1, <1>2, <1>3, <1>4 DEF IInv

LEMMA StartThreadIInv == IInv /\ StartThread => IInv'
<1> SUFFICES ASSUME IInv, StartThread PROVE IInv'
    OBVIOUS
<1> USE DEF StartThread, queueVars
<1>1. Types'
    BY DEF IInv, Types
<1>2. Stages' /\ NoneStranded' /\ Unserved'
    BY DEF IInv, Types, Stages, NoneStranded, Unserved, Early
<1> QED
    BY <1>1, <1>2 DEF IInv

\* What a byte read and a message taken leave behind.
LEMMA TakeCounts ==
    ASSUME Types, NoneStranded, Take
    PROVE  filled' \in Seq(MessageKinds) /\ notify' \in Nat /\ (failures' = failures => NoneStranded')
<1>1. CASE filled = <<>>
    BY <1>1 DEF Types, NoneStranded, Take
<1>2. CASE filled # <<>>
  <2>1. Tail(filled) \in Seq(MessageKinds)
      BY <1>2 DEF Types
  <2>2. filled' = Tail(filled)
      BY <1>2 DEF Take
  <2>3. notify' = IF Tail(filled) = <<>> THEN notify - 1 ELSE notify
      BY <1>2 DEF Types, Take
  <2>4. notify > 0 /\ notify \in Nat /\ failures \in Nat /\ notify - 1 <= failures
      BY <1>2 DEF Types, NoneStranded
  <2>5. NoneStranded' <=> /\ filled' # <<>> => notify' > 0
                         /\ notify' <= failures' + (IF filled' = <<>> THEN 0 ELSE 1)
      BY DEF NoneStranded
  <2> QED
      BY <2>1, <2>2, <2>3, <2>4, <2>5
<1> QED
    BY <1>1, <1>2

LEMMA TestIInv == IInv /\ (TestHandle \/ TestPasses \/ TestFails) => IInv'
<1> SUFFICES ASSUME IInv, TestHandle \/ TestPasses \/ TestFails PROVE IInv'
    OBVIOUS
<1>1. CASE TestHandle
  <2>1. filled' \in Seq(MessageKinds) /\ notify' \in Nat /\ NoneStranded'
      BY <1>1, TakeCounts DEF TestHandle, IInv
  <2>2. Types'
      BY <1>1, <2>1 DEF TestHandle, recvVars, IInv, Types
  <2>3. Stages' /\ Unserved'
      BY <1>1 DEF TestHandle, recvVars, IInv, Types, Stages, Unserved
  <2> QED
      BY <2>1, <2>2, <2>3 DEF IInv
<1>2. CASE TestPasses
  <2>1. Types'
      BY <1>2 DEF TestPasses, recvVars, queueVars, IInv, Types
  <2>2. Stages' /\ NoneStranded' /\ Unserved'
      BY <1>2 DEF TestPasses, recvVars, queueVars, IInv, Types, Stages,
                  NoneStranded, Unserved, Early
  <2> QED
      BY <2>1, <2>2 DEF IInv
<1>3. CASE TestFails
  <2>1. Types'
      BY <1>3 DEF TestFails, recvVars, queueVars, IInv, Types
  <2>2. Stages' /\ NoneStranded' /\ Unserved'
      BY <1>3 DEF TestFails, recvVars, queueVars, IInv, Types, Stages,
                  NoneStranded, Unserved, Early
  <2> QED
      BY <2>1, <2>2 DEF IInv
<1> QED
    BY <1>1, <1>2, <1>3

LEMMA JoinIInv == IInv /\ Join => IInv'
<1> SUFFICES ASSUME IInv, Join PROVE IInv'
    OBVIOUS
<1>1. Types'
    BY DEF Join, IInv, Types, Early
<1>2. NoneStranded'
    BY DEF Join, IInv, Types, NoneStranded
<1>3. Stages' /\ Unserved'
    BY DEF Join, IInv, Types, Stages, Unserved, Early
<1> QED
    BY <1>1, <1>2, <1>3 DEF IInv

-----------------------------------------------------------------------------
(* The calls of the application, and the receiver thread.                  *)

LEMMA CallIInv == IInv /\ (Subscribe \/ Unsubscribe \/ HandleCall \/ Destroy) => IInv'
<1> SUFFICES ASSUME IInv, Subscribe \/ Unsubscribe \/ HandleCall \/ Destroy PROVE IInv'
    OBVIOUS
<1> USE DEF setupVars, recvVars, queueVars, Enter
<1>1. CASE Subscribe
  <2>1. Types' /\ Stages'
      BY <1>1 DEF Subscribe, IInv, Types, Stages, Early
  <2>2. NoneStranded'
      BY <1>1 DEF Subscribe, IInv, NoneStranded
  <2>3. Unserved'
    <3>1. CASE created
        BY <1>1, <3>1 DEF Subscribe, IInv, Stages, Unserved, Early
    <3>2. CASE ~created
        BY <1>1, <3>2 DEF Subscribe, IInv, Stages, Unserved, Early
    <3> QED
        BY <3>1, <3>2
  <2> QED
      BY <2>1, <2>2, <2>3 DEF IInv
<1>2. CASE Unsubscribe
  <2>1. Types' /\ Stages'
      BY <1>2 DEF Unsubscribe, IInv, Types, Stages, Early
  <2>2. NoneStranded'
      BY <1>2 DEF Unsubscribe, IInv, Types, NoneStranded
  <2>3. Unserved'
      BY <1>2 DEF Unsubscribe, IInv, Stages, Unserved, Early
  <2> QED
      BY <2>1, <2>2, <2>3 DEF IInv
<1>3. CASE HandleCall
  <2>1. Types' /\ Stages'
      BY <1>3 DEF HandleCall, IInv, Types, Stages, Early
  <2>2. NoneStranded'
      BY <1>3 DEF HandleCall, IInv, Types, NoneStranded
  <2>3. Unserved'
      BY <1>3 DEF HandleCall, IInv, Stages, Unserved, Early
  <2> QED
      BY <2>1, <2>2, <2>3 DEF IInv
<1>4. CASE Destroy
  <2>1. Types' /\ Stages'
      BY <1>4 DEF Destroy, IInv, Types, Stages, Early
  <2>2. NoneStranded'
      BY <1>4 DEF Destroy, IInv, Types, Stages, NoneStranded
  <2>3. Unserved'
      BY <1>4 DEF Destroy, IInv, Stages, Unserved, Early
  <2> QED
      BY <2>1, <2>2, <2>3 DEF IInv
<1> QED
    BY <1>1, <1>2, <1>3, <1>4

LEMMA HandleTakeIInv == IInv /\ HandleTake => IInv'
<1> SUFFICES ASSUME IInv, HandleTake PROVE IInv'
    OBVIOUS
<1>1. filled' \in Seq(MessageKinds) /\ notify' \in Nat /\ NoneStranded'
    BY TakeCounts DEF HandleTake, IInv
<1>2. Types'
    BY <1>1 DEF HandleTake, recvVars, IInv, Types
<1>3. Stages' /\ Unserved'
    BY DEF HandleTake, recvVars, IInv, Types, Stages, Unserved, Early
<1> QED
    BY <1>1, <1>2, <1>3 DEF IInv

LEMMA ReceiverIInv == IInv /\ Receiver => IInv'
<1> SUFFICES ASSUME IInv, Receiver PROVE IInv'
    OBVIOUS
<1> USE DEF setupVars, queueVars
<1>1. CASE RecvTake
    BY <1>1 DEF RecvTake, IInv, Types, Stages, NoneStranded, Unserved, MessageKinds
<1>2. CASE RecvFragment
    BY <1>2 DEF RecvFragment, IInv, Types, Stages, NoneStranded, Unserved
<1>3. CASE Evicted
    BY <1>3, LifeAssumption DEF Evicted, IInv, Types, Stages, NoneStranded, Unserved
<1>4. CASE RecvLast
    BY <1>4 DEF RecvLast, IInv, Types, Stages, NoneStranded, Unserved, MessageKinds
<1>5. CASE RecvQueue
  <2>1. filled' \in Seq(MessageKinds) /\ filled' # <<>>
      BY <1>5 DEF RecvQueue, IInv, Types
  <2>2. Types' /\ NoneStranded'
      BY <1>5, <2>1 DEF RecvQueue, IInv, Types, NoneStranded
  <2>3. Stages' /\ Unserved'
      BY <1>5 DEF RecvQueue, IInv, Types, Stages, Unserved
  <2> QED
      BY <2>2, <2>3 DEF IInv
<1>6. CASE RecvQuit
    BY <1>6 DEF RecvQuit, IInv, Types, Stages, NoneStranded, Unserved
<1> QED
    BY <1>1, <1>2, <1>3, <1>4, <1>5, <1>6 DEF Receiver

-----------------------------------------------------------------------------
LEMMA SpecIInv == LifeSpec => []IInv
<1>1. IInv /\ [LifeNext]_lifeVars => IInv'
  <2> SUFFICES ASSUME IInv, [LifeNext]_lifeVars PROVE IInv'
      OBVIOUS
  <2>1. CASE UNCHANGED lifeVars
      BY <2>1 DEF lifeVars, setupVars, recvVars, queueVars, IInv, Types, Stages,
                  NoneStranded, Unserved
  <2> QED
      BY <2>1, AllocateIInv, SetupFailsIInv, StartThreadIInv, TestIInv, JoinIInv,
         CallIInv, HandleTakeIInv, ReceiverIInv DEF LifeNext, Setup, Application
<1> QED
    BY <1>1, InitIInv, PTL DEF LifeSpec

\* However often the setup fails and whatever arrives: the receiver thread never
\* runs on what has been freed and no failed setup leaves anything behind, and
\* whoever has a subscription has a thread that serves it.
THEOREM LifeSafe == LifeSpec => [](PartsInUse /\ Served)
<1>1. IInv => PartsInUse /\ Served
    BY DEF IInv, Types, Stages, Unserved, Early, PartsInUse, Served
<1> QED
    BY <1>1, SpecIInv, PTL

\* No queued message is without its wakeup, over any number of setups that fail
\* and are tried again, and no more wakeups are left over than setups failed.
THEOREM WakeupKept == LifeSpec => []NoneStranded
<1>1. IInv => NoneStranded
    BY DEF IInv
<1> QED
    BY <1>1, SpecIInv, PTL

-----------------------------------------------------------------------------
(* The TCP provider: types, and what the two ends know of one another.     *)

Words == {<<"HELLO">>} \cup ({"SUBSCRIBE", "PUBLISH"} \X Topics) \cup ({"data"} \X (Nat \ {0}))
Handlers == (SUBSET Nat) \ {{}}
Messages == [topic : Topics, id : Nat \ {0}]

\* The types of the variables, and that only served clients are listed.
TcpqTypes ==
    /\ socket \in [Clients -> {"none", "connecting", "open", "closed", "gone"}]
    /\ link \in [Clients -> {"none", "up", "cut"}]
    /\ outgoing \in [Clients -> Seq(Words)]
    /\ incoming \in [Clients -> Seq(Messages \cup {None})]
    /\ call \in [Clients -> [words : Seq(Words), topic : Topics \cup {"none"}]]
    /\ subs \in [Clients -> Seq(Topics)]
    /\ saw \in [Clients -> Seq(Seq(Nat))]
    /\ live \in [Clients -> SUBSET Nat]
    /\ buffer \in [Clients -> Messages \cup {None}]
    /\ frames \in [Clients -> Seq(Handlers)]
    /\ serving \subseteq Clients /\ clients \subseteq serving
    /\ records \in [Clients -> Seq(Topics)]
    /\ issued \in Seq(Clients) /\ relayed \in Seq(Nat \ {0})

\* The words that a call may still have to send.
Calling(a) ==
    \/ a = Idle
    \/ a = [words |-> << <<"HELLO">> >>, topic |-> "none"]
    \/ \E t \in Topics, made \in Topics \cup {"none"} :
          a = [words |-> << <<"SUBSCRIBE", t>> >>, topic |-> made] /\ made \in {t, "none"}
    \/ \E t \in Topics, n \in Nat \ {0} :
          a = [words |-> << <<"PUBLISH", t>>, <<"data", n>> >>, topic |-> "none"]
    \/ \E n \in Nat \ {0} : a = [words |-> << <<"data", n>> >>, topic |-> "none"]

Calls == \A c \in Clients : Calling(call[c])

\* What the stages of a connection's two ends have to do with one another: the
\* server's answer is the first thing that a client is sent, and read first.
Links ==
    \A c \in Clients :
        /\ socket[c] = "none" =>
              /\ link[c] = "none" /\ c \notin serving
              /\ outgoing[c] = <<>> /\ live[c] = {} /\ call[c] = Idle
        /\ link[c] = "none" => socket[c] = "none" /\ incoming[c] = <<>> 
        /\ link[c] = "up" /\ c \notin serving => socket[c] = "connecting" /\ incoming[c] = <<>>
        /\ \A k \in DOMAIN incoming[c] :
              incoming[c][k] = None => k = 1 /\ socket[c] \in {"connecting", "closed"}

\* Every subscription a client has, or still has to call, is one it has made.
Subscriptions ==
    \A c \in Clients :
        /\ Len(saw[c]) = Len(subs[c])
        /\ live[c] \subseteq 1..Len(subs[c])
        /\ \A k \in 1..Len(frames[c]) : frames[c][k] \subseteq 1..Len(subs[c])

\* WillBeSent, and the same while the client is still connecting.
Promised ==
    \A c \in Clients : \A s \in live[c] :
        link[c] = "up" =>
            \/ \E k \in 1..Len(records[c]) : subs[c][s] = records[c][k]
            \/ \E k \in 1..Len(outgoing[c]) : <<"SUBSCRIBE", subs[c][s]>> = outgoing[c][k]

\* What comes after PUBLISH and a topic, if anything more comes, is the message.
Paired ==
    \A c \in Clients : \A k \in 1..Len(outgoing[c]) :
        outgoing[c][k][1] = "PUBLISH" =>
            IF k < Len(outgoing[c]) THEN outgoing[c][k + 1][1] = "data"
            ELSE link[c] = "up" => call[c].words # <<>> /\ Head(call[c].words)[1] = "data"

TypesInv == TcpqTypes /\ Calls /\ Links /\ Subscriptions /\ Paired

\* Words are told apart by what they begin with.
LEMMA WordFacts ==
    /\ <<"HELLO">> \in Words
    /\ \A t \in Topics : <<"SUBSCRIBE", t>> \in Words /\ <<"PUBLISH", t>> \in Words
    /\ \A n \in Nat \ {0} : <<"data", n>> \in Words
    /\ \A w \in Words : w[1] = "SUBSCRIBE" => \E t \in Topics : w = <<"SUBSCRIBE", t>>
    /\ \A w \in Words : w[1] = "PUBLISH" => \E t \in Topics : w = <<"PUBLISH", t>>
    /\ \A w \in Words : w[1] = "data" => \E n \in Nat \ {0} : w = <<"data", n>>
BY DEF Words

\* No call is a call of no words.
LEMMA IdleFacts == Idle \in [words : Seq(Words), topic : Topics \cup {"none"}] /\ Idle.words = <<>>
<1>1. <<>> \in Seq(Words)
    OBVIOUS
<1> QED
    BY <1>1 DEF Idle

\* The next word of a call, and the call that remains when it has been sent.
LEMMA CallingFacts ==
    ASSUME NEW a, Calling(a), a # Idle
    PROVE  /\ a \in [words : Seq(Words), topic : Topics \cup {"none"}]
           /\ a.words # <<>> /\ Head(a.words) \in Words /\ Tail(a.words) \in Seq(Words)
           /\ Tail(a.words) # <<>> => Calling([a EXCEPT !.words = Tail(a.words)])
           /\ Tail(a.words) # <<>> => Head(Tail(a.words))[1] = "data"
           /\ Head(a.words)[1] = "PUBLISH" => Tail(a.words) # <<>>
           /\ Tail(a.words) = <<>> /\ a.topic # "none" =>
                 a.topic \in Topics /\ Head(a.words) = <<"SUBSCRIBE", a.topic>>
<1>1. CASE a = [words |-> << <<"HELLO">> >>, topic |-> "none"]
    BY <1>1, WordFacts
<1>2. CASE \E t \in Topics, made \in Topics \cup {"none"} :
          a = [words |-> << <<"SUBSCRIBE", t>> >>, topic |-> made] /\ made \in {t, "none"}
  <2>1. PICK t \in Topics, made \in Topics \cup {"none"} :
          a = [words |-> << <<"SUBSCRIBE", t>> >>, topic |-> made] /\ made \in {t, "none"}
      BY <1>2
  <2> DEFINE w == <<"SUBSCRIBE", t>>
  <2>2. w \in Words /\ w[1] = "SUBSCRIBE"
      BY WordFacts
  <2>3. a.words = <<w>> /\ a.topic = made
      BY <2>1
  <2> HIDE DEF w
  <2>4. a.words \in Seq(Words) /\ Head(a.words) = w /\ Tail(a.words) = <<>> /\ a.words # <<>>
      BY <2>2, <2>3
  <2> QED
      BY <2>1, <2>2, <2>4 DEF w
<1>3. CASE \E t \in Topics, n \in Nat \ {0} :
          a = [words |-> << <<"PUBLISH", t>>, <<"data", n>> >>, topic |-> "none"]
  <2>1. PICK t \in Topics, n \in Nat \ {0} :
          a = [words |-> << <<"PUBLISH", t>>, <<"data", n>> >>, topic |-> "none"]
      BY <1>3
  <2> DEFINE v == <<"PUBLISH", t>>
             w == <<"data", n>>
  <2>0. v \in Words /\ w \in Words /\ a.words = <<v, w>>
      BY <2>1, WordFacts
  <2> HIDE DEF v, w
  <2>5. a.words \in Seq(Words) /\ Head(a.words) = v /\ Len(Tail(a.words)) = 1 /\ Tail(a.words)[1] = w
        /\ Tail(a.words) \in Seq(Words)
      BY <2>0
  <2>6. Tail(a.words) = <<w>>
      BY <2>0, <2>5
  <2>2. a.words \in Seq(Words) /\ Head(a.words) = <<"PUBLISH", t>> /\ Tail(a.words) = << <<"data", n>> >>
      BY <2>5, <2>6 DEF v, w
  <2>3. [a EXCEPT !.words = Tail(a.words)] = [words |-> << <<"data", n>> >>, topic |-> "none"]
      BY <2>1, <2>2
  <2>4. Calling([a EXCEPT !.words = Tail(a.words)])
      BY <2>3 DEF Calling
  <2> QED
      BY <2>1, <2>2, <2>4, WordFacts
<1>4. CASE \E n \in Nat \ {0} : a = [words |-> << <<"data", n>> >>, topic |-> "none"]
    BY <1>4, WordFacts
<1> QED
    BY <1>1, <1>2, <1>3, <1>4 DEF Calling

\* The invariant holds at first.
LEMMA InitTypes == TcpqInit => TypesInv
<1> SUFFICES ASSUME TcpqInit PROVE TypesInv
    OBVIOUS
<1>1. <<>> \in Seq(Words) /\ <<>> \in Seq(Messages \cup {None}) /\ <<>> \in Seq(Topics) /\ <<>> \in Seq(Seq(Nat))
      /\ <<>> \in Seq(Handlers) /\ <<>> \in Seq(Clients) /\ <<>> \in Seq(Nat \ {0})
    OBVIOUS
<1>2. TcpqTypes
    BY <1>1, IdleFacts DEF TcpqInit, TcpqTypes
<1>3. Calls
    BY DEF TcpqInit, Calls, Calling
<1>4. Links /\ Subscriptions /\ Paired
    BY DEF TcpqInit, Links, Subscriptions, Paired
<1> QED
    BY <1>2, <1>3, <1>4 DEF TypesInv

\* What the server relays is a message, and the two words it has read are its.
LEMMA RelayedMessage ==
    ASSUME TcpqTypes, Paired, NEW c \in Clients, Relay(c)
    PROVE  /\ [topic |-> outgoing[c][1][2], id |-> outgoing[c][2][2]] \in Messages
           /\ outgoing[c][1] = <<"PUBLISH", outgoing[c][1][2]>>
           /\ outgoing[c][2] = <<"data", outgoing[c][2][2]>>
<1>1. outgoing[c] \in Seq(Words) /\ Len(outgoing[c]) >= 2 /\ outgoing[c][1][1] = "PUBLISH"
    BY DEF Relay, Reads, TcpqTypes
<1>2. outgoing[c][1] \in Words /\ outgoing[c][2] \in Words /\ outgoing[c][2][1] = "data"
    BY <1>1 DEF Paired
<1>3. \E t \in Topics : outgoing[c][1] = <<"PUBLISH", t>>
    BY <1>1, <1>2, WordFacts
<1>4. \E n \in Nat \ {0} : outgoing[c][2] = <<"data", n>>
    BY <1>1, <1>2, WordFacts
<1> QED
    BY <1>3, <1>4 DEF Messages

\* Each action keeps the types.
LEMMA StepTcpqTypes ==
    ASSUME TypesInv, NEW c \in Clients
    PROVE  /\ Create(c) \/ CreateReturns(c) \/ SendWordFails(c) => TcpqTypes'
           /\ SendWord(c) => TcpqTypes'
           /\ \A t \in Topics : TcpqSubscribe(c, t) \/ Publish(c, t) => TcpqTypes'
           /\ \A s \in live[c] : TcpqUnsubscribe(c, s) => TcpqTypes'
           /\ TcpqHandle(c) => TcpqTypes'
           /\ CallHandler(c) => TcpqTypes'
           /\ Disconnected(c) \/ TcpqDestroy(c) \/ Cut(c) => TcpqTypes'
           /\ Accept(c) \/ Register(c) \/ Ignore(c) \/ AddRecord(c) \/ Leave(c) => TcpqTypes'
           /\ Relay(c) => TcpqTypes'
<1> USE DEF clientVars, serverVars
<1>0. TcpqTypes /\ Calls /\ Subscriptions /\ Paired
    BY DEF TypesInv
<1>1. ASSUME Create(c) PROVE TcpqTypes'
  <2>1. [words |-> << <<"HELLO">> >>, topic |-> "none"] \in [words : Seq(Words), topic : Topics \cup {"none"}]
      BY CallingFacts DEF Calling, Idle
  <2> QED
      BY <1>0, <1>1, <2>1 DEF Create, TcpqTypes
<1>2. ASSUME CreateReturns(c) PROVE TcpqTypes'
  <2>1. incoming[c] # <<>> => Tail(incoming[c]) \in Seq(Messages \cup {None})
      BY <1>0 DEF TcpqTypes
  <2>2. incoming' \in [Clients -> Seq(Messages \cup {None})]
      BY <1>0, <1>2, <2>1 DEF CreateReturns, TcpqTypes
  <2> QED
      BY <1>0, <1>2, <2>2 DEF CreateReturns, TcpqTypes
<1>3. ASSUME SendWordFails(c) PROVE TcpqTypes'
    BY <1>0, <1>3, IdleFacts DEF SendWordFails, TcpqTypes
<1>4. ASSUME SendWord(c) PROVE TcpqTypes'
  <2> DEFINE a == call[c]
             rest == Tail(a.words)
             made == rest = <<>> /\ a.topic # "none"
  <2>1. /\ a.words # <<>> /\ Head(a.words) \in Words /\ rest \in Seq(Words)
        /\ made => a.topic \in Topics
        /\ a \in [words : Seq(Words), topic : Topics \cup {"none"}]
      BY <1>0, <1>4, CallingFacts DEF SendWord, Calls
  <2>2. call' \in [Clients -> [words : Seq(Words), topic : Topics \cup {"none"}]]
      BY <1>0, <1>4, <2>1, IdleFacts DEF SendWord, TcpqTypes
  <2>3. outgoing' \in [Clients -> Seq(Words)]
      BY <1>0, <1>4, <2>1 DEF SendWord, TcpqTypes
  <2>4. subs' \in [Clients -> Seq(Topics)]
      BY SMTT(30), <1>0, <1>4, <2>1 DEF SendWord, TcpqTypes
  <2>5. saw' \in [Clients -> Seq(Seq(Nat))]
    <3>1. <<>> \in Seq(Nat)
        OBVIOUS
    <3>2. saw[c] \in Seq(Seq(Nat))
        BY <1>0 DEF TcpqTypes
    <3>3. Append(saw[c], <<>>) \in Seq(Seq(Nat))
        BY <3>1, <3>2
    <3> QED
        BY <1>0, <1>4, <3>3 DEF SendWord, TcpqTypes
  <2>6. live' \in [Clients -> SUBSET Nat]
    <3>1. Len(subs'[c]) \in Nat
        BY <2>4
    <3> QED
        BY <1>0, <1>4, <3>1 DEF SendWord, TcpqTypes
  <2> QED
      BY <1>0, <1>4, <2>2, <2>3, <2>4, <2>5, <2>6 DEF SendWord, TcpqTypes
<1>5. ASSUME NEW t \in Topics, TcpqSubscribe(c, t) PROVE TcpqTypes'
  <2> DEFINE a == [words |-> << <<"SUBSCRIBE", t>> >>, topic |-> t]
  <2>1. Calling(a) /\ a # Idle
      BY DEF Calling, Idle
  <2>2. a \in [words : Seq(Words), topic : Topics \cup {"none"}]
      BY <2>1, CallingFacts
  <2> QED
      BY <1>0, <1>5, <2>2 DEF TcpqSubscribe, Call, TcpqTypes
<1>6. ASSUME NEW t \in Topics, Publish(c, t) PROVE TcpqTypes'
  <2> DEFINE n == Len(issued')
             a == [words |-> << <<"PUBLISH", t>>, <<"data", n>> >>, topic |-> "none"]
  <2>1. issued' \in Seq(Clients) /\ n \in Nat \ {0}
      BY <1>0, <1>6 DEF Publish, TcpqTypes
  <2>2. Calling(a) /\ a # Idle
      BY <2>1 DEF Calling, Idle
  <2>3. a \in [words : Seq(Words), topic : Topics \cup {"none"}]
      BY <2>2, CallingFacts
  <2>4. call' = [call EXCEPT ![c] = a]
      BY <1>6 DEF Publish, Call
  <2>5. call' \in [Clients -> [words : Seq(Words), topic : Topics \cup {"none"}]]
    <3> HIDE DEF a
    <3> QED
        BY <1>0, <2>3, <2>4 DEF TcpqTypes
  <2>6. UNCHANGED <<link, outgoing, incoming, clientVars, serverVars>>
      BY <1>6 DEF Publish, Call
  <2> QED
      BY <1>0, <2>1, <2>5, <2>6 DEF TcpqTypes
<1>7. ASSUME NEW s \in live[c], TcpqUnsubscribe(c, s) PROVE TcpqTypes'
  <2> DEFINE a == [words |-> << <<"SUBSCRIBE", subs[c][s]>> >>, topic |-> "none"]
  <2>1. subs[c][s] \in Topics
      BY <1>0 DEF TcpqTypes, Subscriptions
  <2>2. Calling(a) /\ a # Idle
      BY <2>1 DEF Calling, Idle
  <2>3. a \in [words : Seq(Words), topic : Topics \cup {"none"}]
      BY <2>2, CallingFacts
  <2>4. call' \in [Clients -> [words : Seq(Words), topic : Topics \cup {"none"}]]
      BY <1>0, <1>7, <2>3 DEF TcpqUnsubscribe, Call, TcpqTypes
  <2>5. live' \in [Clients -> SUBSET Nat]
      BY <1>0, <1>7 DEF TcpqUnsubscribe, TcpqTypes
  <2>6. UNCHANGED <<link, outgoing, incoming, socket, subs, buffer, frames, saw, nested, serverVars, issued>>
      BY <1>7 DEF TcpqUnsubscribe, Call
  <2> QED
      BY <1>0, <2>4, <2>5, <2>6 DEF TcpqTypes
<1>8. ASSUME TcpqHandle(c) PROVE TcpqTypes'
  <2>1. Head(incoming[c]) \in Messages \cup {None} /\ Tail(incoming[c]) \in Seq(Messages \cup {None})
      BY <1>0, <1>8 DEF TcpqHandle, TcpqTypes
  <2> DEFINE wanted == {s \in live[c] : subs[c][s] = Head(incoming[c]).topic}
  <2>2. (wanted # {} => wanted \in Handlers) /\ frames[c] \in Seq(Handlers)
      BY <1>0 DEF TcpqTypes, Handlers
  <2>3. frames' = [frames EXCEPT ![c] = IF wanted = {} THEN @ ELSE Append(@, wanted)]
      BY <1>8 DEF TcpqHandle
  <2> HIDE DEF wanted
  <2>4. frames' \in [Clients -> Seq(Handlers)]
      BY <1>0, <2>2, <2>3 DEF TcpqTypes
  <2> QED
      BY <1>0, <1>8, <2>1, <2>4 DEF TcpqHandle, TcpqTypes
<1>9. ASSUME CallHandler(c) PROVE TcpqTypes'
  <2> DEFINE others == Front(frames[c])
             s == Min(Last(frames[c]))
             rest == Last(frames[c]) \ {s}
  <2>1. /\ frames[c] # <<>> /\ frames[c] \in Seq(Handlers)
        /\ saw[c] \in Seq(Seq(Nat)) /\ buffer[c].id \in Nat
      BY <1>0, <1>9 DEF CallHandler, TcpqTypes, Messages, None
  <2>2. Last(frames[c]) \in Handlers /\ others \in Seq(Handlers)
      BY <2>1 DEF Last, Front
  <2>3. rest # {} => rest \in Handlers
      BY <2>2 DEF Handlers
  <2>4. frames' = [frames EXCEPT ![c] = IF rest = {} THEN others ELSE Append(others, rest)]
      BY <1>9 DEF CallHandler
  <2>5. frames' \in [Clients -> Seq(Handlers)]
    <3> HIDE DEF others, rest
    <3> QED
        BY <1>0, <2>2, <2>3, <2>4 DEF TcpqTypes
  <2>6. saw' = [saw EXCEPT ![c][s] = IF s \in live[c] THEN Append(@, buffer[c].id) ELSE @]
      BY <1>9 DEF CallHandler
  <2>7. s \in 1..Len(subs[c]) /\ s \in 1..Len(saw[c])
    <3>1. s \in Last(frames[c])
        BY <2>2, MinLeast DEF Handlers
    <3>2. Last(frames[c]) \subseteq 1..Len(subs[c])
      <4>1. Len(frames[c]) \in 1..Len(frames[c])
          BY <2>1
      <4> QED
          BY <1>0, <4>1 DEF Last, Subscriptions
    <3> QED
        BY <1>0, <3>1, <3>2 DEF Subscriptions
  <2>8. saw' \in [Clients -> Seq(Seq(Nat))]
    <3> HIDE DEF s
    <3>1. saw[c][s] \in Seq(Nat) /\ Append(saw[c][s], buffer[c].id) \in Seq(Nat)
        BY <2>1, <2>7
    <3>2. \A q \in Seq(Nat) : [saw[c] EXCEPT ![s] = q] \in Seq(Seq(Nat))
        BY <2>1, <2>7
    <3> QED
        BY <1>0, <2>6, <3>1, <3>2 DEF TcpqTypes
  <2> QED
      BY <1>0, <1>9, <2>5, <2>8 DEF CallHandler, TcpqTypes
<1>10. ASSUME Disconnected(c) \/ TcpqDestroy(c) PROVE TcpqTypes'
  <2>1. <<>> \in Seq(Messages \cup {None})
      OBVIOUS
  <2>2. CASE Disconnected(c)
      BY <1>0, <2>2 DEF Disconnected, TcpqTypes
  <2>3. CASE TcpqDestroy(c)
      BY <1>0, <2>1, <2>3 DEF TcpqDestroy, TcpqTypes
  <2> QED
      BY <1>10, <2>2, <2>3
<1>11. ASSUME Cut(c) PROVE TcpqTypes'
  <2>1. PICK n \in 0..Len(outgoing[c]), k \in 0..Len(incoming[c]) :
           /\ outgoing' = [outgoing EXCEPT ![c] = SubSeq(@, 1, n)]
           /\ incoming' = [incoming EXCEPT ![c] = SubSeq(@, 1, k)]
      BY <1>11 DEF Cut
  <2>2. SubSeq(outgoing[c], 1, n) \in Seq(Words) /\ SubSeq(incoming[c], 1, k) \in Seq(Messages \cup {None})
      BY <1>0 DEF TcpqTypes
  <2> QED
      BY <1>0, <1>11, <2>1, <2>2 DEF Cut, TcpqTypes
<1>12. ASSUME Accept(c) \/ Register(c) PROVE TcpqTypes'
  <2>1. Append(incoming[c], None) \in Seq(Messages \cup {None})
      BY <1>0 DEF TcpqTypes
  <2>2. CASE Accept(c)
      BY <1>0, <2>1, <2>2 DEF Accept, TcpqTypes
  <2>3. CASE Register(c)
      BY <1>0, <2>3 DEF Register, TcpqTypes
  <2> QED
      BY <1>12, <2>2, <2>3
<1>13. ASSUME Ignore(c) \/ Leave(c) PROVE TcpqTypes'
  <2>1. outgoing[c] # <<>> => Tail(outgoing[c]) \in Seq(Words)
      BY <1>0 DEF TcpqTypes
  <2>2. <<>> \in Seq(Words)
      OBVIOUS
  <2>3. CASE Ignore(c)
      BY <1>0, <2>1, <2>3 DEF Ignore, Reads, TcpqTypes
  <2>4. CASE Leave(c)
      BY <1>0, <2>2, <2>4 DEF Leave, TcpqTypes
  <2> QED
      BY <1>13, <2>3, <2>4
<1>14. ASSUME AddRecord(c) PROVE TcpqTypes'
  <2>1. Head(outgoing[c]) \in Words /\ Tail(outgoing[c]) \in Seq(Words)
      BY <1>0, <1>14 DEF AddRecord, Reads, TcpqTypes
  <2>2. Head(outgoing[c])[2] \in Topics
      BY <1>14, <2>1, WordFacts DEF AddRecord, Reads
  <2>3. records' \in [Clients -> Seq(Topics)]
      BY <1>0, <1>14, <2>2 DEF AddRecord, TcpqTypes
  <2>4. outgoing' \in [Clients -> Seq(Words)]
      BY <1>0, <1>14, <2>1 DEF AddRecord, TcpqTypes
  <2> QED
      BY <1>0, <1>14, <2>3, <2>4 DEF AddRecord, TcpqTypes
<1>15. ASSUME Relay(c) PROVE TcpqTypes'
  <2> DEFINE m == [topic |-> outgoing[c][1][2], id |-> outgoing[c][2][2]]
  <2>1. m \in Messages
      BY <1>0, <1>15, RelayedMessage
  <2> HIDE DEF m
  <2>2. ASSUME NEW d \in Clients PROVE incoming[d] \o Sent(d, m) \in Seq(Messages \cup {None})
    <3>1. Sent(d, m) \in Seq(Messages \cup {None})
      <4>1. Sent(d, m) = <<m>> \/ Sent(d, m) = <<>>
          BY DEF Sent
      <4>2. <<m>> \in Seq(Messages \cup {None}) /\ <<>> \in Seq(Messages \cup {None})
          BY <2>1
      <4> QED
          BY <4>1, <4>2
    <3>2. incoming[d] \in Seq(Messages \cup {None})
        BY <1>0 DEF TcpqTypes
    <3> QED
        BY <3>1, <3>2
  <2>3. incoming' = [d \in Clients |-> incoming[d] \o Sent(d, m)] /\ relayed' = Append(relayed, m.id)
      BY <1>15 DEF Relay, m
  <2>4. m.id \in Nat \ {0}
      BY <2>1 DEF Messages
  <2>5. SubSeq(outgoing[c], 3, Len(outgoing[c])) \in Seq(Words)
      BY <1>0 DEF TcpqTypes
  <2>6. incoming' \in [Clients -> Seq(Messages \cup {None})]
      BY <2>2, <2>3
  <2>7. outgoing' \in [Clients -> Seq(Words)]
      BY <1>0, <1>15, <2>5 DEF Relay, TcpqTypes
  <2>8. relayed' \in Seq(Nat \ {0})
      BY <1>0, <2>3, <2>4 DEF TcpqTypes
  <2>9. UNCHANGED <<link, call, clientVars, serving, clients, records, issued>>
      BY <1>15 DEF Relay
  <2> QED
      BY <1>0, <2>6, <2>7, <2>8, <2>9 DEF TcpqTypes
<1> QED
    BY <1>1, <1>2, <1>3, <1>4, <1>5, <1>6, <1>7, <1>8, <1>9, <1>10, <1>11, <1>12, <1>13, <1>14, <1>15

\* One step of a client c, or of the server for it.
Step(c) ==
    \/ Create(c) \/ CreateReturns(c) \/ SendWord(c) \/ SendWordFails(c)
    \/ \E t \in Topics : TcpqSubscribe(c, t) \/ Publish(c, t)
    \/ \E s \in live[c] : TcpqUnsubscribe(c, s)
    \/ TcpqHandle(c) \/ CallHandler(c) \/ Disconnected(c) \/ TcpqDestroy(c) \/ Cut(c)
    \/ Accept(c) \/ Register(c) \/ Ignore(c) \/ AddRecord(c) \/ Relay(c) \/ Leave(c)

\* A step keeps the types,
LEMMA TypesKept == ASSUME TypesInv, NEW c \in Clients, Step(c) PROVE TcpqTypes'
BY StepTcpqTypes DEF Step

\* what a call may be,
LEMMA CallsKept == ASSUME TypesInv, NEW c \in Clients, Step(c) PROVE Calls'
<1> USE DEF clientVars, serverVars
<1>0. TcpqTypes /\ Calls /\ Subscriptions
    BY DEF TypesInv
<1>1. ASSUME NEW a, Calling(a), call' = [call EXCEPT ![c] = a] PROVE Calls'
    BY <1>0, <1>1 DEF Calls, TcpqTypes
<1>2. CASE Create(c)
    BY <1>1, <1>2 DEF Create, Calling
<1>3. CASE SendWord(c)
  <2> DEFINE a == call[c]
  <2>1. Calling(a) /\ a # Idle
      BY <1>0, <1>3 DEF SendWord, Calls
  <2>2. CASE Tail(a.words) = <<>>
      BY <1>1, <1>3, <2>2 DEF SendWord, Calling
  <2>3. CASE Tail(a.words) # <<>>
    <3>1. Calling([a EXCEPT !.words = Tail(a.words)])
        BY <2>1, <2>3, CallingFacts
    <3>2. call' = [call EXCEPT ![c] = [a EXCEPT !.words = Tail(a.words)]]
        BY <1>3, <2>3 DEF SendWord
    <3> QED
        BY <1>1, <3>1, <3>2
  <2> QED
      BY <2>2, <2>3
<1>4. CASE SendWordFails(c)
    BY <1>1, <1>4 DEF SendWordFails, Calling
<1>5. CASE \E t \in Topics : TcpqSubscribe(c, t) \/ Publish(c, t)
  <2>1. PICK t \in Topics : TcpqSubscribe(c, t) \/ Publish(c, t)
      BY <1>5
  <2>2. CASE TcpqSubscribe(c, t)
    <3>1. Calling([words |-> << <<"SUBSCRIBE", t>> >>, topic |-> t])
        BY DEF Calling
    <3> QED
        BY <1>1, <2>2, <3>1 DEF TcpqSubscribe, Call
  <2>3. CASE Publish(c, t)
    <3> DEFINE n == Len(issued')
    <3>1. n \in Nat \ {0}
        BY <1>0, <2>3 DEF Publish, TcpqTypes
    <3>2. Calling([words |-> << <<"PUBLISH", t>>, <<"data", n>> >>, topic |-> "none"])
        BY <3>1 DEF Calling
    <3> QED
        BY <1>1, <2>3, <3>2 DEF Publish, Call
  <2> QED
      BY <2>1, <2>2, <2>3
<1>6. CASE \E s \in live[c] : TcpqUnsubscribe(c, s)
  <2>1. PICK s \in live[c] : TcpqUnsubscribe(c, s)
      BY <1>6
  <2>2. subs[c][s] \in Topics
      BY <1>0 DEF TcpqTypes, Subscriptions
  <2>3. Calling([words |-> << <<"SUBSCRIBE", subs[c][s]>> >>, topic |-> "none"])
      BY <2>2 DEF Calling
  <2>4. CASE socket[c] = "open"
      BY <1>1, <2>1, <2>3, <2>4 DEF TcpqUnsubscribe, Call
  <2>5. CASE socket[c] # "open"
      BY <1>0, <2>1, <2>5 DEF TcpqUnsubscribe, Calls
  <2> QED
      BY <2>4, <2>5
<1>7. CASE UNCHANGED call
    BY <1>0, <1>7 DEF Calls
<1> QED
    BY <1>2, <1>3, <1>4, <1>5, <1>6, <1>7
    DEF Step, CreateReturns, TcpqHandle, CallHandler, Disconnected, TcpqDestroy, Cut, Accept, Register,
        Ignore, AddRecord, Relay, Leave

\* lcm_tcpq_unsubscribe: one subscription less, and the word for the server when connected.
LEMMA UnsubscribeFacts ==
    ASSUME TcpqTypes, NEW c \in Clients, NEW r \in live[c], TcpqUnsubscribe(c, r), NEW d \in Clients
    PROVE  /\ UNCHANGED <<socket, subs, link, outgoing, incoming, serverVars>>
           /\ live'[d] \subseteq live[d]
           /\ socket[d] # "open" => call'[d] = call[d]
<1>1. UNCHANGED <<socket, subs, link, outgoing, incoming, serverVars>>
    BY DEF TcpqUnsubscribe, Call
<1>2. live' = [live EXCEPT ![c] = @ \ {r}] /\ live \in [Clients -> SUBSET Nat]
    BY DEF TcpqUnsubscribe, TcpqTypes
<1>3. live'[d] \subseteq live[d]
    BY <1>2
<1>4. CASE socket[c] = "open"
  <2>1. PICK a : call' = [call EXCEPT ![c] = a]
      BY <1>4 DEF TcpqUnsubscribe, Call
  <2>2. d # c => call'[d] = call[d]
      BY <2>1 DEF TcpqTypes
  <2> QED
      BY <1>1, <1>3, <1>4, <2>2
<1>5. CASE socket[c] # "open"
    BY <1>1, <1>3, <1>5 DEF TcpqUnsubscribe
<1> QED
    BY <1>4, <1>5

\* what the two ends know of one another,
LEMMA LinksKept == ASSUME TypesInv, NEW c \in Clients, Step(c) PROVE Links'
<1> USE DEF clientVars, serverVars
<1>0. TcpqTypes /\ Links /\ Calls /\ Subscriptions /\ Paired /\ TcpqTypes'
    BY TypesKept DEF TypesInv
<1>1. SUFFICES ASSUME NEW d \in Clients
      PROVE  (/\ socket[d] = "none" =>
                  /\ link[d] = "none" /\ d \notin serving
                  /\ outgoing[d] = <<>> /\ live[d] = {} /\ call[d] = Idle
              /\ link[d] = "none" => socket[d] = "none" /\ incoming[d] = <<>>
              /\ link[d] = "up" /\ d \notin serving => socket[d] = "connecting" /\ incoming[d] = <<>>
              /\ \A k \in DOMAIN incoming[d] :
                  incoming[d][k] = None => k = 1 /\ socket[d] \in {"connecting", "closed"})'
    BY DEF Links
<1>2. /\ socket[d] = "none" =>
            /\ link[d] = "none" /\ d \notin serving
            /\ outgoing[d] = <<>> /\ live[d] = {} /\ call[d] = Idle
      /\ link[d] = "none" => socket[d] = "none" /\ incoming[d] = <<>>
      /\ link[d] = "up" /\ d \notin serving => socket[d] = "connecting" /\ incoming[d] = <<>>
      /\ \A k \in DOMAIN incoming[d] :
            incoming[d][k] = None => k = 1 /\ socket[d] \in {"connecting", "closed"}
    BY <1>0 DEF Links
<1>3. incoming[c] \in Seq(Messages \cup {None}) /\ outgoing[c] \in Seq(Words)
    BY <1>0 DEF TcpqTypes
<1>4. CASE Create(c)
    BY <1>0, <1>2, <1>4 DEF Create, TcpqTypes
<1>5. CASE CreateReturns(c)
  <2>1. incoming[c] # <<>> =>
          \A k \in DOMAIN Tail(incoming[c]) : k + 1 \in DOMAIN incoming[c] /\ k + 1 # 1
                                          /\ Tail(incoming[c])[k] = incoming[c][k + 1]
      BY <1>3
  <2>2. d # c => socket'[d] = socket[d] /\ incoming'[d] = incoming[d]
      BY <1>0, <1>5 DEF CreateReturns, TcpqTypes
  <2>3. UNCHANGED <<link, outgoing, call, live, serving>>
      BY <1>5 DEF CreateReturns
  <2>4. CASE d # c
      BY <1>2, <2>2, <2>3, <2>4
  <2>5. CASE d = c /\ incoming[c] # <<>>
    <3>1. socket'[c] = "open" /\ incoming'[c] = Tail(incoming[c])
        BY <1>0, <1>5, <2>5 DEF CreateReturns, TcpqTypes
    <3>2. \A k \in DOMAIN incoming'[c] : incoming'[c][k] # None
        BY <1>2, <2>1, <2>5, <3>1
    <3> QED
        BY <1>2, <2>3, <2>5, <3>1, <3>2
  <2>6. CASE d = c /\ incoming[c] = <<>>
    <3>1. socket'[c] = "closed" /\ incoming'[c] = <<>> /\ link[c] = "cut"
        BY <1>0, <1>5, <2>6 DEF CreateReturns, TcpqTypes
    <3> QED
        BY <1>2, <2>3, <2>6, <3>1
  <2> QED
      BY <2>4, <2>5, <2>6
<1>6. CASE SendWord(c)
  <2>1. socket[c] # "none"
      BY <1>0, <1>6 DEF SendWord, Links
  <2> QED
      BY <1>0, <1>2, <1>6, <2>1 DEF SendWord, TcpqTypes
<1>7. CASE SendWordFails(c)
    BY <1>0, <1>2, <1>7 DEF SendWordFails, TcpqTypes
<1>8. CASE \E t \in Topics : TcpqSubscribe(c, t) \/ Publish(c, t)
  <2>1. /\ UNCHANGED <<link, outgoing, incoming, clientVars, serverVars>>
        /\ socket[c] = "open" /\ \E a : call' = [call EXCEPT ![c] = a]
      BY <1>8 DEF TcpqSubscribe, Publish, Call, Connected
  <2>2. socket[d] = "none" => call'[d] = call[d]
      BY <1>0, <2>1 DEF TcpqTypes
  <2> QED
      BY <1>2, <2>1, <2>2
<1>9. CASE \E s \in live[c] : TcpqUnsubscribe(c, s)
  <2>1. /\ UNCHANGED <<socket, link, outgoing, incoming, serving>>
        /\ live'[d] \subseteq live[d]
        /\ socket[d] = "none" => call'[d] = call[d]
      BY <1>0, <1>9, UnsubscribeFacts
  <2> QED
      BY <1>2, <2>1
<1>10. CASE TcpqHandle(c)
  <2>1. \A k \in DOMAIN Tail(incoming[c]) : k + 1 \in DOMAIN incoming[c] /\ k + 1 # 1
                                          /\ Tail(incoming[c])[k] = incoming[c][k + 1]
      BY <1>3, <1>10 DEF TcpqHandle
  <2> QED
      BY SMTT(30), <1>0, <1>2, <2>1, <1>10 DEF TcpqHandle, Connected, TcpqTypes
<1>11. CASE CallHandler(c)
    BY <1>0, <1>2, <1>11 DEF CallHandler, TcpqTypes
<1>12. CASE Disconnected(c) \/ TcpqDestroy(c)
  <2>1. CASE Disconnected(c)
      BY <1>0, <1>2, <2>1 DEF Disconnected, Connected, TcpqTypes
  <2>2. CASE TcpqDestroy(c)
      BY <1>0, <1>2, <2>2 DEF TcpqDestroy, TcpqTypes
  <2> QED
      BY <1>12, <2>1, <2>2
<1>13. CASE Cut(c)
  <2>1. PICK n \in 0..Len(outgoing[c]), k \in 0..Len(incoming[c]) :
           /\ outgoing' = [outgoing EXCEPT ![c] = SubSeq(@, 1, n)]
           /\ incoming' = [incoming EXCEPT ![c] = SubSeq(@, 1, k)]
      BY <1>13 DEF Cut
  <2>2. /\ \A m \in DOMAIN SubSeq(incoming[c], 1, k) :
              m \in DOMAIN incoming[c] /\ SubSeq(incoming[c], 1, k)[m] = incoming[c][m]
        /\ incoming[c] = <<>> => SubSeq(incoming[c], 1, k) = <<>>
      BY <1>3
  <2>3. /\ link' = [link EXCEPT ![c] = "cut"] /\ link[c] = "up"
        /\ UNCHANGED <<call, socket, live, serving>>
      BY <1>13 DEF Cut
  <2>4. CASE d = c
    <3>1. /\ link'[c] = "cut" /\ incoming'[c] = SubSeq(incoming[c], 1, k)
          /\ UNCHANGED <<call, socket, live, serving>>
        BY <1>0, <2>1, <2>3 DEF TcpqTypes
    <3>2. socket[c] # "none"
        BY <1>0, <2>3 DEF Links
    <3> QED
        BY <1>2, <2>2, <2>4, <3>1, <3>2
  <2>5. CASE d # c
    <3>1. /\ link'[d] = link[d] /\ outgoing'[d] = outgoing[d] /\ incoming'[d] = incoming[d]
          /\ UNCHANGED <<call, socket, live, serving>>
        BY <1>0, <2>1, <2>3, <2>5 DEF TcpqTypes
    <3> QED
        BY <1>2, <3>1
  <2> QED
      BY <2>4, <2>5
<1>14. CASE Accept(c)
    BY SMTT(30), <1>0, <1>2, <1>3, <1>14 DEF Accept, TcpqTypes
<1>15. CASE Register(c) \/ Ignore(c) \/ AddRecord(c)
    BY <1>0, <1>2, <1>3, <1>15 DEF Register, Ignore, AddRecord, Reads, TcpqTypes
<1>16. CASE Relay(c)
  <2> DEFINE m == [topic |-> outgoing[c][1][2], id |-> outgoing[c][2][2]]
  <2>1. m \in Messages /\ m # None
      BY <1>0, <1>16, RelayedMessage DEF TypesInv, Messages, None
  <2>2. incoming'[d] = incoming[d] \o Sent(d, m)
      BY <1>16 DEF Relay
  <2> HIDE DEF m
  <2>3. Sent(d, m) = <<>> \/ (d \in serving /\ Sent(d, m) = <<m>>)
      BY <1>0 DEF Sent, TcpqTypes
  <2>4. incoming[d] \in Seq(Messages \cup {None})
      BY <1>0 DEF TcpqTypes
  <2>5. CASE Sent(d, m) = <<>>
    <3>1. incoming'[d] = incoming[d]
        BY <2>2, <2>4, <2>5
    <3> QED
        BY <1>0, <1>2, <1>3, <1>16, <3>1 DEF Relay, Reads, TcpqTypes
  <2>6. CASE d \in serving /\ Sent(d, m) = <<m>>
    <3>1. /\ Len(incoming'[d]) = Len(incoming[d]) + 1
          /\ incoming'[d][Len(incoming[d]) + 1] = m
          /\ \A k \in 1..Len(incoming[d]) : incoming'[d][k] = incoming[d][k]
          /\ DOMAIN incoming'[d] = 1..Len(incoming[d]) + 1
          /\ DOMAIN incoming[d] = 1..Len(incoming[d]) /\ Len(incoming[d]) \in Nat
        BY <2>1, <2>2, <2>4, <2>6
    <3>2. UNCHANGED <<socket, link, serving, live, call>> /\ (d # c => outgoing'[d] = outgoing[d])
        BY <1>0, <1>16 DEF Relay, TcpqTypes
    <3>3. socket[d] # "none" /\ link[d] # "none"
        BY <1>2, <2>6
    <3>4. \A k \in DOMAIN incoming'[d] : incoming'[d][k] = None => k \in DOMAIN incoming[d]
        BY <2>1, <3>1
    <3>5. \A k \in DOMAIN incoming'[d] :
             incoming'[d][k] = None => k = 1 /\ socket[d] \in {"connecting", "closed"}
        BY <1>2, <3>1, <3>4
    <3> QED
        BY <2>6, <3>2, <3>3, <3>5
  <2> QED
      BY <2>3, <2>5, <2>6
<1>17. CASE Leave(c)
    BY <1>0, <1>2, <1>3, <1>17 DEF Leave, Reads, TcpqTypes
<1> QED
    BY <1>4, <1>5, <1>6, <1>7, <1>8, <1>9, <1>10, <1>11, <1>12, <1>13, <1>14, <1>15, <1>16, <1>17 DEF Step

\* What the next handler of a dispatch is.
LEMMA NextHandler ==
    ASSUME TypesInv, NEW c \in Clients, CallHandler(c)
    PROVE  LET s == Min(Last(frames[c])) IN
           /\ frames[c] \in Seq(Handlers) /\ Len(frames[c]) \in Nat \ {0}
           /\ Last(frames[c]) \in Handlers /\ s \in Last(frames[c])
           /\ Last(frames[c]) = frames[c][Len(frames[c])]
           /\ s \in 1..Len(subs[c]) /\ s \in 1..Len(saw[c])
           /\ saw[c] \in Seq(Seq(Nat)) /\ saw[c][s] \in Seq(Nat) /\ buffer[c].id \in Nat
           /\ saw'[c] = [saw[c] EXCEPT ![s] = IF s \in live[c] THEN Append(saw[c][s], buffer[c].id)
                                              ELSE saw[c][s]]
           /\ \A d \in Clients \ {c} : saw'[d] = saw[d] /\ frames'[d] = frames[d]
           /\ frames'[c] = IF Last(frames[c]) \ {s} = {} THEN Front(frames[c])
                           ELSE Append(Front(frames[c]), Last(frames[c]) \ {s})
           /\ Front(frames[c]) \in Seq(Handlers) /\ Len(Front(frames[c])) = Len(frames[c]) - 1
           /\ \A k \in 1..Len(frames[c]) - 1 : Front(frames[c])[k] = frames[c][k]
<1> DEFINE s == Min(Last(frames[c]))
<1>0. TcpqTypes /\ Subscriptions
    BY DEF TypesInv
<1>1. /\ frames[c] \in Seq(Handlers) /\ Len(frames[c]) \in Nat \ {0}
      /\ saw[c] \in Seq(Seq(Nat)) /\ buffer[c].id \in Nat
    BY <1>0 DEF CallHandler, TcpqTypes, Messages, None
<1>2. Last(frames[c]) = frames[c][Len(frames[c])] /\ Last(frames[c]) \in Handlers
    BY <1>1 DEF Last
<1>3. s \in Last(frames[c])
    BY <1>2, MinLeast DEF Handlers
<1>4. s \in 1..Len(subs[c]) /\ s \in 1..Len(saw[c])
    BY <1>0, <1>1, <1>2, <1>3 DEF Subscriptions
<1>5. saw[c][s] \in Seq(Nat)
    BY <1>1, <1>4
<1>6. /\ Front(frames[c]) \in Seq(Handlers) /\ Len(Front(frames[c])) = Len(frames[c]) - 1
      /\ \A k \in 1..Len(frames[c]) - 1 : Front(frames[c])[k] = frames[c][k]
    BY <1>1 DEF Front
<1>7. /\ saw' = [saw EXCEPT ![c][s] = IF s \in live[c] THEN Append(@, buffer[c].id) ELSE @]
      /\ frames' = [frames EXCEPT ![c] = IF Last(frames[c]) \ {s} = {} THEN Front(frames[c])
                                         ELSE Append(Front(frames[c]), Last(frames[c]) \ {s})]
    BY DEF CallHandler
<1> HIDE DEF s
<1>8. /\ saw'[c] = [saw[c] EXCEPT ![s] = IF s \in live[c] THEN Append(saw[c][s], buffer[c].id)
                                         ELSE saw[c][s]]
      /\ \A d \in Clients \ {c} : saw'[d] = saw[d] /\ frames'[d] = frames[d]
      /\ frames'[c] = IF Last(frames[c]) \ {s} = {} THEN Front(frames[c])
                      ELSE Append(Front(frames[c]), Last(frames[c]) \ {s})
    BY <1>0, <1>7 DEF TcpqTypes
<1> QED
    BY <1>1, <1>2, <1>3, <1>4, <1>5, <1>6, <1>8 DEF s

\* What sending a word changes.
LEMMA WordSent ==
    ASSUME TypesInv, NEW c \in Clients, SendWord(c)
    PROVE  LET a == call[c]
               made == Tail(a.words) = <<>> /\ a.topic # "none"
           IN  /\ Calling(a) /\ a # Idle /\ Head(a.words) \in Words
               /\ made => a.topic \in Topics /\ Head(a.words) = <<"SUBSCRIBE", a.topic>>
               /\ subs'[c] = IF made THEN Append(subs[c], a.topic) ELSE subs[c]
               /\ saw'[c] = IF made THEN Append(saw[c], <<>>) ELSE saw[c]
               /\ live'[c] = IF made THEN live[c] \union {Len(subs[c]) + 1} ELSE live[c]
               /\ outgoing'[c] = IF link[c] = "up" THEN Append(outgoing[c], Head(a.words))
                                 ELSE outgoing[c]
               /\ call'[c] = IF Tail(a.words) = <<>> THEN Idle ELSE [a EXCEPT !.words = Tail(a.words)]
               /\ \A d \in Clients \ {c} : /\ subs'[d] = subs[d] /\ saw'[d] = saw[d] /\ live'[d] = live[d]
                                          /\ outgoing'[d] = outgoing[d] /\ call'[d] = call[d]
               /\ outgoing[c] \in Seq(Words) /\ subs[c] \in Seq(Topics) /\ saw[c] \in Seq(Seq(Nat))
<1> DEFINE a == call[c]
           made == Tail(a.words) = <<>> /\ a.topic # "none"
<1>0. TcpqTypes /\ Calls
    BY DEF TypesInv
<1>1. Calling(a) /\ a # Idle
    BY <1>0 DEF SendWord, Calls
<1>2. Head(a.words) \in Words /\ (made => a.topic \in Topics /\ Head(a.words) = <<"SUBSCRIBE", a.topic>>)
    BY <1>1, CallingFacts
<1>3. outgoing[c] \in Seq(Words) /\ subs[c] \in Seq(Topics) /\ saw[c] \in Seq(Seq(Nat))
    BY <1>0 DEF TcpqTypes
<1>4. subs'[c] = IF made THEN Append(subs[c], a.topic) ELSE subs[c]
    BY <1>0 DEF SendWord, TcpqTypes
<1>5. made => Len(subs'[c]) = Len(subs[c]) + 1
    BY <1>2, <1>3, <1>4
<1>6. /\ saw'[c] = IF made THEN Append(saw[c], <<>>) ELSE saw[c]
      /\ live'[c] = IF made THEN live[c] \union {Len(subs[c]) + 1} ELSE live[c]
      /\ outgoing'[c] = IF link[c] = "up" THEN Append(outgoing[c], Head(a.words)) ELSE outgoing[c]
      /\ call'[c] = IF Tail(a.words) = <<>> THEN Idle ELSE [a EXCEPT !.words = Tail(a.words)]
      /\ \A d \in Clients \ {c} : /\ subs'[d] = subs[d] /\ saw'[d] = saw[d] /\ live'[d] = live[d]
                                 /\ outgoing'[d] = outgoing[d] /\ call'[d] = call[d]
    BY <1>0, <1>5 DEF SendWord, TcpqTypes
<1> QED
    BY <1>1, <1>2, <1>3, <1>4, <1>6

\* that handlers to be called are subscriptions made,
LEMMA SubscriptionsKept == ASSUME TypesInv, NEW c \in Clients, Step(c) PROVE Subscriptions'
<1> USE DEF clientVars, serverVars
<1>0. TcpqTypes /\ Subscriptions
    BY DEF TypesInv
<1>1. SUFFICES ASSUME NEW d \in Clients
      PROVE  (/\ Len(saw[d]) = Len(subs[d])
              /\ live[d] \subseteq 1..Len(subs[d])
              /\ \A k \in 1..Len(frames[d]) : frames[d][k] \subseteq 1..Len(subs[d]))'
    BY DEF Subscriptions
<1>2. /\ Len(saw[d]) = Len(subs[d])
      /\ live[d] \subseteq 1..Len(subs[d])
      /\ \A k \in 1..Len(frames[d]) : frames[d][k] \subseteq 1..Len(subs[d])
    BY <1>0 DEF Subscriptions
<1>3. CASE SendWord(c)
  <2> DEFINE a == call[c]
             made == Tail(a.words) = <<>> /\ a.topic # "none"
  <2>1. UNCHANGED frames
      BY <1>3 DEF SendWord
  <2>2. CASE d = c /\ made
    <3>1. Len(subs'[d]) = Len(subs[d]) + 1 /\ Len(saw'[d]) = Len(saw[d]) + 1 /\ Len(subs[d]) \in Nat
      <4>1. /\ subs'[c] = Append(subs[c], a.topic) /\ saw'[c] = Append(saw[c], <<>>)
            /\ subs[c] \in Seq(Topics) /\ saw[c] \in Seq(Seq(Nat))
          BY <1>3, <2>2, WordSent
      <4> QED
          BY <2>2, <4>1
    <3>2. live'[d] = live[d] \union {Len(subs[d]) + 1}
        BY <1>3, <2>2, WordSent
    <3> QED
        BY <1>2, <2>1, <3>1, <3>2
  <2>3. CASE ~(d = c /\ made)
    <3>1. subs'[d] = subs[d] /\ saw'[d] = saw[d] /\ live'[d] = live[d]
        BY <1>3, <2>3, WordSent
    <3> QED
        BY <1>2, <2>1, <3>1
  <2> QED
      BY <2>2, <2>3
<1>4. CASE CallHandler(c)
  <2> DEFINE s == Min(Last(frames[c]))
  <2>1. UNCHANGED <<subs, live>>
      BY <1>4 DEF CallHandler
  <2>2. CASE d # c
    <3>1. saw'[d] = saw[d] /\ frames'[d] = frames[d]
        BY <1>4, <2>2, NextHandler
    <3> QED
        BY <1>2, <2>1, <3>1
  <2>3. CASE d = c
    <3>1. Len(saw'[c]) = Len(saw[c])
      <4>1. /\ s \in 1..Len(saw[c]) /\ saw[c] \in Seq(Seq(Nat)) /\ saw[c][s] \in Seq(Nat)
            /\ buffer[c].id \in Nat
            /\ saw'[c] = [saw[c] EXCEPT ![s] = IF s \in live[c] THEN Append(saw[c][s], buffer[c].id)
                                               ELSE saw[c][s]]
          BY <1>4, NextHandler
      <4> HIDE DEF s
      <4> QED
          BY <4>1
    <3> DEFINE others == Front(frames[c])
               last == Last(frames[c])
               n == Len(frames[c])
    <3>2. /\ n \in Nat \ {0} /\ others \in Seq(Handlers) /\ Len(others) = n - 1 /\ last = frames[c][n]
          /\ \A k \in 1..n - 1 : others[k] = frames[c][k]
          /\ frames'[c] = IF last \ {s} = {} THEN others ELSE Append(others, last \ {s})
        BY <1>4, NextHandler
    <3> HIDE DEF others, last, n, s
    <3>3. last \subseteq 1..Len(subs[c]) /\ \A k \in 1..n - 1 : others[k] \subseteq 1..Len(subs[c])
        BY SMTT(30), <1>2, <2>3, <3>2 DEF n
    <3>4. \A k \in 1..Len(frames'[c]) : frames'[c][k] \subseteq 1..Len(subs[c])
        BY <3>2, <3>3
    <3> QED
        BY <1>2, <2>1, <2>3, <3>1, <3>4
  <2> QED
      BY <2>2, <2>3
<1>5. CASE TcpqHandle(c)
  <2> DEFINE wanted == {s \in live[c] : subs[c][s] = Head(incoming[c]).topic}
  <2>1. UNCHANGED <<subs, saw, live>>
      BY <1>5 DEF TcpqHandle
  <2>2. wanted \subseteq live[c]
      OBVIOUS
  <2>3. frames[c] \in Seq(Handlers)
        /\ frames' = [frames EXCEPT ![c] = IF wanted = {} THEN @ ELSE Append(@, wanted)]
      BY <1>0, <1>5 DEF TcpqHandle, TcpqTypes
  <2> HIDE DEF wanted
  <2>4. frames'[d] = frames[d] \/ (d = c /\ frames'[d] = Append(frames[d], wanted))
      BY <1>0, <2>3 DEF TcpqTypes
  <2> QED
      BY <1>2, <2>1, <2>2, <2>3, <2>4
<1>6. CASE (\E s \in live[c] : TcpqUnsubscribe(c, s)) \/ TcpqDestroy(c)
  <2>1. live'[d] \subseteq live[d] /\ UNCHANGED <<subs, saw, frames>>
    <3>1. CASE \E s \in live[c] : TcpqUnsubscribe(c, s)
        BY <1>0, <3>1 DEF TcpqUnsubscribe, TcpqTypes
    <3>2. CASE TcpqDestroy(c)
        BY <1>0, <3>2 DEF TcpqDestroy, TcpqTypes
    <3> QED
        BY <1>6, <3>1, <3>2
  <2> QED
      BY <1>2, <2>1
<1>7. CASE UNCHANGED <<subs, saw, live, frames>>
    BY <1>2, <1>7
<1> QED
    BY <1>3, <1>4, <1>5, <1>6, <1>7
    DEF Step, Create, CreateReturns, SendWordFails, TcpqSubscribe, Publish, Disconnected, Cut, Accept,
        Register, Ignore, AddRecord, Relay, Leave

\* and that a message follows its PUBLISH.
LEMMA PairedKept == ASSUME TypesInv, NEW c \in Clients, Step(c) PROVE Paired'
<1> USE DEF clientVars, serverVars
<1>0. TcpqTypes /\ Calls /\ Links /\ Subscriptions /\ Paired
    BY DEF TypesInv
<1> DEFINE Sound(out, lnk, a) ==
        \A k \in 1..Len(out) :
            out[k][1] = "PUBLISH" =>
                IF k < Len(out) THEN out[k + 1][1] = "data"
                ELSE lnk = "up" => a.words # <<>> /\ Head(a.words)[1] = "data"
<1>1. SUFFICES ASSUME NEW d \in Clients PROVE Sound(outgoing'[d], link'[d], call'[d])
    BY DEF Paired
<1>2. Sound(outgoing[d], link[d], call[d])
    BY <1>0 DEF Paired
<1>3. outgoing[d] \in Seq(Words)
    BY <1>0 DEF TcpqTypes
<1>4. CASE outgoing'[d] = outgoing[d] /\ link'[d] = link[d] /\ call'[d] = call[d]
    BY <1>2, <1>4
<1>5. CASE link'[d] = "cut" /\ outgoing'[d] = outgoing[d]
    BY <1>2, <1>5
\* A call begins when no words are left to send.
<1>6. CASE call[d] = Idle /\ outgoing'[d] = outgoing[d] /\ link'[d] = link[d]
  <2>1. call[d].words = <<>>
      BY <1>6, IdleFacts
  <2> QED
      BY <1>2, <1>3, <1>6, <2>1
\* The server has read all of a message, or a word that is none of it.
<1>7. ASSUME NEW n \in 1..2, Len(outgoing[d]) >= n, outgoing'[d] = SubSeq(outgoing[d], n + 1, Len(outgoing[d])),
             link'[d] = link[d], call'[d] = call[d]
      PROVE  Sound(outgoing'[d], link'[d], call'[d])
  <2>1. /\ Len(outgoing'[d]) = Len(outgoing[d]) - n
        /\ \A k \in 1..Len(outgoing'[d]) : outgoing'[d][k] = outgoing[d][k + n]
      BY <1>3, <1>7
  <2> QED
      BY <1>2, <1>3, <1>7, <2>1
<1>8. CASE SendWord(c) /\ d = c
  <2> DEFINE a == call[c]
             w == Head(a.words)
             out == outgoing[c]
  <2>1. /\ Calling(a) /\ a # Idle /\ out \in Seq(Words)
        /\ outgoing'[c] = IF link[c] = "up" THEN Append(out, w) ELSE out
        /\ call'[c] = IF Tail(a.words) = <<>> THEN Idle ELSE [a EXCEPT !.words = Tail(a.words)]
      BY <1>8, WordSent
  <2>2. link' = link
      BY <1>8 DEF SendWord
  <2>3. CASE link[c] # "up"
      BY <1>2, <1>8, <2>1, <2>2, <2>3
  <2>4. CASE link[c] = "up"
    <3>1. a.words # <<>> /\ (w[1] = "PUBLISH" => Tail(a.words) # <<>> /\ Head(Tail(a.words))[1] = "data")
          /\ a \in [words : Seq(Words), topic : Topics \cup {"none"}]
        BY <2>1, CallingFacts
    <3>2. w[1] = "PUBLISH" => call'[c].words # <<>> /\ Head(call'[c].words)[1] = "data"
        BY <2>1, <3>1
    <3>3. \A k \in 1..Len(out) : out[k][1] = "PUBLISH" =>
              IF k < Len(out) THEN out[k + 1][1] = "data" ELSE w[1] = "data"
        BY <1>2, <1>8, <2>4
    <3> HIDE DEF a, w, out
    <3>4. /\ outgoing'[c] = Append(out, w) /\ Len(outgoing'[c]) = Len(out) + 1 /\ Len(out) \in Nat
          /\ outgoing'[c][Len(out) + 1] = w /\ \A k \in 1..Len(out) : outgoing'[c][k] = out[k]
        BY <2>1, <2>4
    <3>5. ASSUME NEW k \in 1..Len(outgoing'[c]), outgoing'[c][k][1] = "PUBLISH"
          PROVE  IF k < Len(outgoing'[c]) THEN outgoing'[c][k + 1][1] = "data"
                 ELSE link'[c] = "up" => call'[c].words # <<>> /\ Head(call'[c].words)[1] = "data"
      <4>1. CASE k = Len(out) + 1
          BY <3>2, <3>4, <3>5, <4>1
      <4>2. CASE k \in 1..Len(out)
        <5>1. k + 1 \in 1..Len(out) + 1 /\ k < Len(outgoing'[c])
            BY <3>4, <4>2
        <5>2. IF k < Len(out) THEN out[k + 1][1] = "data" ELSE w[1] = "data"
            BY <3>3, <3>4, <3>5, <4>2
        <5>3. k < Len(out) => k + 1 \in 1..Len(out)
            BY <3>4, <4>2
        <5>4. ~(k < Len(out)) => k + 1 = Len(out) + 1
            BY <3>4, <4>2
        <5>5. outgoing'[c][k + 1][1] = "data"
            BY <3>4, <5>2, <5>3, <5>4
        <5> QED
            BY <5>1, <5>5
      <4>3. k = Len(out) + 1 \/ k \in 1..Len(out)
          BY <3>4
      <4> QED
          BY <4>1, <4>2, <4>3
    <3> QED
        BY <1>8, <3>5
  <2> QED
      BY <2>3, <2>4
<1>9. CASE Cut(c) /\ d = c
  <2>1. PICK n \in 0..Len(outgoing[c]), k \in 0..Len(incoming[c]) :
           outgoing' = [outgoing EXCEPT ![c] = SubSeq(@, 1, n)]
      BY <1>9 DEF Cut
  <2>2. outgoing'[c] = SubSeq(outgoing[c], 1, n) /\ link'[c] = "cut"
      BY <1>0, <1>9, <2>1 DEF Cut, TcpqTypes
  <2>3. Len(outgoing'[c]) = n /\ \A j \in 1..n : outgoing'[c][j] = outgoing[c][j]
      BY <1>3, <1>9, <2>2
  <2>4. n \in Nat /\ n <= Len(outgoing[d]) /\ Len(outgoing[d]) \in Nat
      BY <1>3, <1>9
  <2>5. \A j \in 1..n : outgoing[d][j][1] = "PUBLISH" /\ j < n => outgoing[d][j + 1][1] = "data"
      BY <1>2, <2>4
  <2> QED
    <3>1. /\ Len(outgoing'[d]) = n /\ link'[d] = "cut"
          /\ \A j \in 1..n : outgoing'[d][j] = outgoing[d][j]
        BY <1>9, <2>2, <2>3
    <3>2. ASSUME NEW j \in 1..n, outgoing'[d][j][1] = "PUBLISH", j < n
          PROVE  outgoing'[d][j + 1][1] = "data"
      <4>1. j + 1 \in 1..n
          BY <2>4, <3>2
      <4> QED
          BY <2>5, <3>1, <3>2, <4>1
    <3> QED
        BY <3>1, <3>2
<1>10. CASE outgoing'[d] = <<>>
    BY <1>10
<1> HIDE DEF Sound
<1>11. CASE Create(c)
  <2>1. d = c => outgoing'[d] = <<>>
      BY <1>0, <1>11 DEF Create, Links
  <2>2. d # c => outgoing'[d] = outgoing[d] /\ link'[d] = link[d] /\ call'[d] = call[d]
      BY <1>0, <1>11 DEF Create, TcpqTypes
  <2> QED
      BY <1>4, <1>10, <2>1, <2>2
<1>12. CASE SendWord(c)
  <2>1. d # c => outgoing'[d] = outgoing[d] /\ link'[d] = link[d] /\ call'[d] = call[d]
      BY <1>0, <1>12 DEF SendWord, TcpqTypes
  <2> QED
      BY <1>4, <1>8, <1>12, <2>1
<1>13. CASE SendWordFails(c)
  <2>1. /\ d # c => outgoing'[d] = outgoing[d] /\ link'[d] = link[d] /\ call'[d] = call[d]
        /\ d = c => link'[d] = "cut" /\ outgoing'[d] = outgoing[d]
      BY <1>0, <1>13 DEF SendWordFails, TcpqTypes
  <2> QED
      BY <1>4, <1>5, <2>1
<1>14. CASE (\E t \in Topics : TcpqSubscribe(c, t) \/ Publish(c, t)) \/ \E s \in live[c] : TcpqUnsubscribe(c, s)
  <2>1. /\ outgoing' = outgoing /\ link' = link /\ call[c] = Idle
        /\ call' = call \/ \E a : call' = [call EXCEPT ![c] = a]
      BY <1>14 DEF TcpqSubscribe, Publish, TcpqUnsubscribe, Call, Connected
  <2>2. d # c => call'[d] = call[d]
      BY <1>0, <2>1 DEF TcpqTypes
  <2> QED
      BY <1>4, <1>6, <2>1, <2>2
<1>15. CASE TcpqDestroy(c) \/ Cut(c)
  <2>1. /\ d # c => outgoing'[d] = outgoing[d] /\ link'[d] = link[d] /\ call'[d] = call[d]
        /\ TcpqDestroy(c) /\ d = c => link'[d] = "cut" /\ outgoing'[d] = outgoing[d]
      BY <1>0, <1>15 DEF TcpqDestroy, Cut, TcpqTypes
  <2> QED
      BY <1>4, <1>5, <1>9, <1>15, <2>1
<1>16. CASE Ignore(c) \/ AddRecord(c) \/ Relay(c)
  <2>1. d # c => outgoing'[d] = outgoing[d] /\ link'[d] = link[d] /\ call'[d] = call[d]
      BY <1>0, <1>16 DEF Ignore, AddRecord, Relay, TcpqTypes
  <2>2. d = c => link'[d] = link[d] /\ call'[d] = call[d]
      BY <1>0, <1>16 DEF Ignore, AddRecord, Relay, TcpqTypes
  <2>3. d = c => \E n \in 1..2 : /\ Len(outgoing[d]) >= n
                                 /\ outgoing'[d] = SubSeq(outgoing[d], n + 1, Len(outgoing[d]))
    <3>1. CASE Ignore(c)
        BY <1>0, <1>3, <3>1 DEF Ignore, Reads, TcpqTypes
    <3>2. CASE AddRecord(c)
        BY <1>0, <1>3, <3>2 DEF AddRecord, Reads, TcpqTypes
    <3>3. CASE Relay(c)
        BY <1>0, <1>3, <3>3 DEF Relay, Reads, TcpqTypes
    <3> QED
        BY <1>16, <3>1, <3>2, <3>3
  <2> QED
      BY <1>4, <1>7, <2>1, <2>2, <2>3
<1>17. CASE Leave(c)
  <2>1. /\ d # c => outgoing'[d] = outgoing[d] /\ link'[d] = link[d] /\ call'[d] = call[d]
        /\ d = c => outgoing'[d] = <<>>
      BY <1>0, <1>17 DEF Leave, TcpqTypes
  <2> QED
      BY <1>4, <1>10, <2>1
<1>18. CASE UNCHANGED <<outgoing, link, call>>
    BY <1>4, <1>18
<1> QED
    BY <1>11, <1>12, <1>13, <1>14, <1>15, <1>16, <1>17, <1>18
    DEF Step, CreateReturns, TcpqHandle, CallHandler, Disconnected, Accept, Register

\* Together: TypesInv is inductive.
LEMMA StepTypes == TypesInv /\ [TcpqNext]_tcpqVars => TypesInv'
<1> SUFFICES ASSUME TypesInv, [TcpqNext]_tcpqVars PROVE TypesInv'
    OBVIOUS
<1>1. CASE \E c \in Clients : Step(c)
    BY <1>1, TypesKept, CallsKept, LinksKept, SubscriptionsKept, PairedKept DEF TypesInv
<1>2. CASE UNCHANGED tcpqVars
  <2>1. TcpqTypes'
      BY <1>2 DEF TypesInv, TcpqTypes, tcpqVars
  <2>2. Calls' /\ Links'
      BY <1>2 DEF TypesInv, Calls, Links, tcpqVars
  <2>3. Subscriptions' /\ Paired'
      BY <1>2 DEF TypesInv, Subscriptions, Paired, tcpqVars
  <2> QED
      BY <2>1, <2>2, <2>3 DEF TypesInv
<1> QED
    BY <1>1, <1>2 DEF TcpqNext, Step
-----------------------------------------------------------------------------
\* A record of t, or a word that makes one.
Promise(r, out, t) ==
    \/ \E k \in 1..Len(r) : t = r[k]
    \/ \E k \in 1..Len(out) : <<"SUBSCRIBE", t>> = out[k]

\* A step keeps the promise: a record made, or a word that will make one.
LEMMA PromisedKept == ASSUME TypesInv, Promised, NEW c \in Clients, Step(c) PROVE Promised'
<1> USE DEF clientVars, serverVars
<1>0. TcpqTypes /\ Links /\ Subscriptions
    BY DEF TypesInv
<1>1. SUFFICES ASSUME NEW d \in Clients, NEW s \in live'[d], link'[d] = "up"
      PROVE  Promise(records'[d], outgoing'[d], subs'[d][s])
    BY DEF Promised, Promise
<1>2. s \in live[d] /\ link[d] = "up" => Promise(records[d], outgoing[d], subs[d][s])
    BY DEF Promised, Promise
<1>3. /\ outgoing[d] \in Seq(Words) /\ records[d] \in Seq(Topics) /\ subs[d] \in Seq(Topics)
      /\ Len(subs[d]) \in Nat /\ s \in live[d] => s \in 1..Len(subs[d])
    BY <1>0 DEF TcpqTypes, Subscriptions
<1>4. CASE /\ s \in live[d] /\ link[d] = "up" /\ subs'[d] = subs[d]
           /\ outgoing'[d] = outgoing[d] /\ records'[d] = records[d]
    BY <1>2, <1>4
<1>5. CASE SendWord(c) /\ d = c
  <2> DEFINE a == call[c]
             made == Tail(a.words) = <<>> /\ a.topic # "none"
             w == Head(a.words)
  <2>1. /\ link[c] = "up" /\ records'[c] = records[c]
      BY <1>1, <1>5 DEF SendWord
  <2>2. /\ outgoing'[c] = Append(outgoing[c], w) /\ w \in Words
        /\ made => a.topic \in Topics /\ w = <<"SUBSCRIBE", a.topic>>
        /\ subs'[c] = IF made THEN Append(subs[c], a.topic) ELSE subs[c]
        /\ live'[c] = IF made THEN live[c] \union {Len(subs[c]) + 1} ELSE live[c]
      BY <1>5, <2>1, WordSent
  <2> HIDE DEF made, w, a
  <2>3. Len(outgoing'[c]) = Len(outgoing[c]) + 1 /\ outgoing'[c][Len(outgoing[c]) + 1] = w
        /\ Len(outgoing[c]) \in Nat /\ \A k \in 1..Len(outgoing[c]) : outgoing'[c][k] = outgoing[c][k]
      BY <1>3, <1>5, <2>2
  <2>4. CASE s \in live[c]
    <3>1. subs'[c][s] = subs[c][s]
        BY <1>3, <1>5, <2>2, <2>4
    <3> QED
        BY SMTT(30), <1>2, <1>5, <2>1, <2>3, <2>4, <3>1 DEF Promise
  <2>5. CASE made /\ s = Len(subs[c]) + 1
    <3>1. subs'[c][s] = a.topic
        BY <1>3, <1>5, <2>2, <2>5
    <3>2. w = <<"SUBSCRIBE", subs'[c][s]>>
        BY <2>2, <2>5, <3>1
    <3> QED
        BY <1>5, <2>3, <3>2 DEF Promise
  <2> QED
      BY <1>1, <1>5, <2>2, <2>4, <2>5
\* What the server has read of the words is a record, or was no SUBSCRIBE.
<1>6. ASSUME s \in live[d], link[d] = "up", subs'[d] = subs[d],
             NEW n \in 1..2, Len(outgoing[d]) >= n,
             outgoing'[d] = SubSeq(outgoing[d], n + 1, Len(outgoing[d])),
             Len(records'[d]) >= Len(records[d]),
             \A k \in 1..Len(records[d]) : records'[d][k] = records[d][k],
             \A k \in 1..n : <<"SUBSCRIBE", subs[d][s]>> = outgoing[d][k] =>
                                \E l \in 1..Len(records'[d]) : subs[d][s] = records'[d][l]
      PROVE  Promise(records'[d], outgoing'[d], subs'[d][s])
  <2>1. /\ Len(outgoing'[d]) = Len(outgoing[d]) - n
        /\ \A k \in 1..Len(outgoing'[d]) : outgoing'[d][k] = outgoing[d][k + n]
      BY <1>3, <1>6
  <2>2. CASE \E k \in 1..Len(records[d]) : subs[d][s] = records[d][k]
    <3>1. PICK k \in 1..Len(records[d]) : subs[d][s] = records[d][k]
        BY <2>2
    <3>2. k \in 1..Len(records'[d]) \/ Len(records'[d]) \notin Nat
        BY <1>3, <1>6
    <3>3. records' \in [Clients -> Seq(Topics)]
        BY TypesKept DEF TcpqTypes
    <3>4. k \in 1..Len(records'[d])
        BY <3>2, <3>3
    <3> QED
        BY <1>6, <3>1, <3>4 DEF Promise
  <2>3. CASE \E k \in 1..Len(outgoing[d]) : <<"SUBSCRIBE", subs[d][s]>> = outgoing[d][k]
    <3>1. PICK k \in 1..Len(outgoing[d]) : <<"SUBSCRIBE", subs[d][s]>> = outgoing[d][k]
        BY <2>3
    <3>2. CASE k \in 1..n
        BY <1>6, <3>1, <3>2 DEF Promise
    <3>3. CASE k \notin 1..n
      <4>1. k - n \in 1..Len(outgoing'[d]) /\ outgoing'[d][k - n] = outgoing[d][k]
          BY <1>3, <1>6, <2>1, <3>3
      <4> QED
          BY <1>6, <3>1, <4>1 DEF Promise
    <3> QED
        BY <3>2, <3>3
  <2> QED
      BY <1>2, <1>6, <2>2, <2>3 DEF Promise
<1> HIDE DEF Promise
<1>7. CASE Create(c)
  <2>1. d # c
      BY <1>0, <1>1, <1>7 DEF Create, Links
  <2> QED
      BY <1>0, <1>1, <1>4, <1>7, <2>1 DEF Create, TcpqTypes
<1>8. CASE SendWord(c)
  <2>1. d # c => /\ subs'[d] = subs[d] /\ live'[d] = live[d] /\ outgoing'[d] = outgoing[d]
                 /\ link'[d] = link[d] /\ records'[d] = records[d]
      BY <1>0, <1>8 DEF SendWord, TcpqTypes
  <2> QED
      BY <1>1, <1>4, <1>5, <1>8, <2>1
<1>9. CASE \E r \in live[c] : TcpqUnsubscribe(c, r)
  <2>1. UNCHANGED <<subs, link, outgoing, records>> /\ live'[d] \subseteq live[d]
      BY <1>0, <1>9, UnsubscribeFacts
  <2> QED
      BY <1>1, <1>4, <2>1
<1>10. CASE TcpqDestroy(c) \/ Cut(c)
  <2>1. d # c
      BY <1>0, <1>1, <1>10 DEF TcpqDestroy, Cut, TcpqTypes
  <2> QED
      BY <1>0, <1>1, <1>4, <1>10, <2>1 DEF TcpqDestroy, Cut, TcpqTypes
<1>11. CASE Ignore(c) \/ AddRecord(c) \/ Relay(c)
  <2>1. UNCHANGED <<subs, live, link>>
      BY <1>11 DEF Ignore, AddRecord, Relay
  <2>2. CASE d # c
      BY <1>0, <1>1, <1>4, <1>11, <2>1, <2>2 DEF Ignore, AddRecord, Relay, TcpqTypes
  <2>3. CASE d = c /\ Ignore(c)
    <3>1. /\ Len(outgoing[d]) >= 1 /\ outgoing'[d] = SubSeq(outgoing[d], 2, Len(outgoing[d]))
          /\ outgoing[d][1][1] = "HELLO" /\ records' = records
        BY <1>0, <1>3, <2>3 DEF Ignore, Reads, TcpqTypes
    <3> QED
        BY <1>1, <1>6, <2>1, <3>1
  <2>4. CASE d = c /\ AddRecord(c)
    <3> DEFINE t == outgoing[d][1][2]
    <3>1. /\ Len(outgoing[d]) >= 1 /\ outgoing'[d] = SubSeq(outgoing[d], 2, Len(outgoing[d]))
          /\ outgoing[d][1] \in Words /\ outgoing[d][1][1] = "SUBSCRIBE"
          /\ records'[d] = Append(records[d], t)
        BY <1>0, <1>3, <2>4 DEF AddRecord, Reads, TcpqTypes
    <3>2. PICK u \in Topics : outgoing[d][1] = <<"SUBSCRIBE", u>>
        BY <3>1, WordFacts
    <3>3. t = u
        BY <3>2
    <3> HIDE DEF t
    <3>4. /\ Len(records'[d]) = Len(records[d]) + 1 /\ records'[d][Len(records[d]) + 1] = u
          /\ \A k \in 1..Len(records[d]) : records'[d][k] = records[d][k]
          /\ Len(records[d]) \in Nat
        BY <1>3, <3>1, <3>3
    <3>5. ASSUME <<"SUBSCRIBE", subs[d][s]>> = outgoing[d][1] PROVE subs[d][s] = u
        BY <3>2, <3>5
    <3>6. /\ s \in live[d] /\ link[d] = "up" /\ subs'[d] = subs[d] /\ 1 \in 1..2
          /\ outgoing'[d] = SubSeq(outgoing[d], 1 + 1, Len(outgoing[d]))
        BY <1>1, <2>1, <3>1
    <3>7. /\ Len(records'[d]) >= Len(records[d]) /\ Len(records[d]) + 1 \in 1..Len(records'[d])
          /\ \A k \in 1..1 : k = 1
        BY <3>4
    <3> QED
        BY <1>6, <3>1, <3>4, <3>5, <3>6, <3>7
  <2>5. CASE d = c /\ Relay(c)
    <3>1. /\ Len(outgoing[d]) >= 2 /\ outgoing'[d] = SubSeq(outgoing[d], 3, Len(outgoing[d]))
          /\ records' = records
        BY <1>0, <1>3, <2>5 DEF Relay, TcpqTypes
    <3>2. outgoing[d][1] = <<"PUBLISH", outgoing[d][1][2]>> /\ outgoing[d][2] = <<"data", outgoing[d][2][2]>>
        BY <1>0, <2>5, RelayedMessage DEF TypesInv
    <3>3. outgoing[d][1][1] = "PUBLISH" /\ outgoing[d][2][1] = "data"
        BY <3>2
    <3>4. \A k \in 1..2 : <<"SUBSCRIBE", subs[d][s]>> # outgoing[d][k]
        BY <3>3
    <3>5. /\ s \in live[d] /\ link[d] = "up" /\ subs'[d] = subs[d] /\ records'[d] = records[d]
          /\ Len(records[d]) \in Nat
        BY <1>1, <1>3, <2>1, <3>1
    <3>6. 2 \in 1..2 /\ Len(records'[d]) >= Len(records[d])
          /\ outgoing'[d] = SubSeq(outgoing[d], 2 + 1, Len(outgoing[d]))
        BY <3>1, <3>5
    <3> QED
        BY <1>6, <3>1, <3>4, <3>5, <3>6
  <2> QED
      BY <1>11, <2>2, <2>3, <2>4, <2>5
<1>12. CASE Leave(c)
  <2>1. d # c
      BY <1>0, <1>1, <1>12 DEF Leave
  <2> QED
      BY <1>0, <1>1, <1>4, <1>12, <2>1 DEF Leave, TcpqTypes
<1>13. CASE UNCHANGED <<outgoing, link, subs, live, records>>
    BY <1>1, <1>4, <1>13
<1> QED
    BY <1>7, <1>8, <1>9, <1>10, <1>11, <1>12, <1>13
    DEF Step, CreateReturns, SendWordFails, TcpqSubscribe, Publish, Call, TcpqHandle, CallHandler,
        Disconnected, Accept, Register

\* As long as its connection is up, the server has, or will read, what it
\* takes to send a client the messages of each topic it subscribes to.
THEOREM StillSubscribed == TcpqSpec => []WillBeSent
<1>1. TcpqInit => TypesInv /\ Promised
    BY InitTypes DEF TcpqInit, Promised
<1>2. TypesInv /\ Promised /\ [TcpqNext]_tcpqVars => (TypesInv /\ Promised)'
  <2> SUFFICES ASSUME TypesInv, Promised, [TcpqNext]_tcpqVars PROVE Promised'
      BY StepTypes
  <2>1. CASE \E c \in Clients : Step(c)
      BY <2>1, PromisedKept
  <2>2. CASE UNCHANGED tcpqVars
      BY <2>2 DEF Promised, tcpqVars
  <2> QED
      BY <2>1, <2>2 DEF TcpqNext, Step
<1>3. TypesInv /\ Promised => WillBeSent
  <2> SUFFICES ASSUME TypesInv, Promised, NEW c \in Clients, NEW s \in live[c], link[c] = "up"
      PROVE  subs[c][s] \in ToSet(records[c]) \/ <<"SUBSCRIBE", subs[c][s]>> \in ToSet(outgoing[c])
      BY DEF WillBeSent
  <2>1. DOMAIN records[c] = 1..Len(records[c]) /\ DOMAIN outgoing[c] = 1..Len(outgoing[c])
      BY DEF TypesInv, TcpqTypes
  <2> QED
      BY <2>1 DEF Promised, ToSet
<1> QED
    BY <1>1, <1>2, <1>3, PTL DEF TcpqSpec
-----------------------------------------------------------------------------
\* In the sequence rel of relayed messages.
In(rel, x) == \E k \in 1..Len(rel) : rel[k] = x
Before(rel, x, y) == \E k, l \in 1..Len(rel) : k < l /\ rel[k] = x /\ rel[l] = y

\* What has not been read yet comes after x.
Follows(rel, x, inc) ==
    In(rel, x) /\ \A k \in 1..Len(inc) : inc[k] # None => Before(rel, x, inc[k].id)

\* What has not been read yet has been relayed, in this order.
Arrives(rel, inc) ==
    \A k \in 1..Len(inc) : inc[k] # None =>
        /\ In(rel, inc[k].id)
        /\ \A l \in 1..Len(inc) : k < l => Before(rel, inc[k].id, inc[l].id)

\* What a handler has been passed is in order, and before what is not read yet.
Passed(rel, q, inc) ==
    \A i \in 1..Len(q) : /\ Follows(rel, q[i], inc)
                         /\ \A j \in 1..Len(q) : i < j => Before(rel, q[i], q[j])

\* The handlers of a dispatch are all still to be passed the buffer.
Passing(rel, frame, sw, buf, inc) ==
    /\ Follows(rel, buf.id, inc)
    /\ \A s \in frame : \A i \in 1..Len(sw[s]) : Before(rel, sw[s][i], buf.id)

\* The invariant behind OnceInOrder.
InOrder ==
    \A c \in Clients :
        /\ Arrives(relayed, incoming[c])
        /\ c \notin nested =>
              /\ Len(frames[c]) <= 1
              /\ \A s \in 1..Len(saw[c]) : Passed(relayed, saw[c][s], incoming[c])
              /\ frames[c] # <<>> =>
                    Passing(relayed, frames[c][1], saw[c], buffer[c], incoming[c])

\* The same when only a part of what was on its way still is.
LEMMA PartArrives ==
    ASSUME NEW rel, NEW inc \in Seq(Messages \cup {None}), NEW part \in Seq(Messages \cup {None}),
           NEW n \in 0..1, Len(part) + n <= Len(inc), \A k \in 1..Len(part) : part[k] = inc[k + n]
    PROVE  /\ Arrives(rel, inc) => Arrives(rel, part)
           /\ \A x : Follows(rel, x, inc) => Follows(rel, x, part)
           /\ \A q : Passed(rel, q, inc) => Passed(rel, q, part)
<1>1. /\ Len(part) \in Nat /\ Len(inc) \in Nat
      /\ \A k \in 1..Len(part) : k + n \in 1..Len(inc) /\ part[k] = inc[k + n]
    OBVIOUS
<1>2. \A x : Follows(rel, x, inc) => Follows(rel, x, part)
    BY <1>1 DEF Follows
<1>3. Arrives(rel, inc) => Arrives(rel, part)
  <2> SUFFICES ASSUME Arrives(rel, inc), NEW k \in 1..Len(part), part[k] # None
      PROVE  /\ In(rel, part[k].id)
             /\ \A l \in 1..Len(part) : k < l => Before(rel, part[k].id, part[l].id)
      BY DEF Arrives
  <2>1. k + n \in 1..Len(inc) /\ part[k] = inc[k + n]
      BY <1>1
  <2>2. \A l \in 1..Len(part) : k < l => k + n < l + n /\ l + n \in 1..Len(inc) /\ part[l] = inc[l + n]
      BY <1>1
  <2> QED
      BY <2>1, <2>2 DEF Arrives
<1> QED
    BY <1>2, <1>3 DEF Passed

\* The same when the server relays one more.
LEMMA RelayedArrives ==
    ASSUME NEW rel \in Seq(Nat \ {0}), NEW m \in Messages, NEW inc \in Seq(Messages \cup {None}),
           NEW sent, sent = inc \/ sent = Append(inc, m)
    PROVE  LET more == Append(rel, m.id) IN
           /\ \A x, y : Before(rel, x, y) => Before(more, x, y)
           /\ Arrives(rel, inc) => Arrives(more, sent)
           /\ \A x : Follows(rel, x, inc) => Follows(more, x, sent)
           /\ \A q : Passed(rel, q, inc) => Passed(more, q, sent)
<1> DEFINE more == Append(rel, m.id)
<1>0. m.id \in Nat \ {0}
    BY DEF Messages
<1>1. /\ Len(more) = Len(rel) + 1 /\ Len(rel) \in Nat /\ more[Len(rel) + 1] = m.id
      /\ \A k \in 1..Len(rel) : more[k] = rel[k]
    BY <1>0
<1> HIDE DEF more
<1>2. \A x, y : Before(rel, x, y) => Before(more, x, y)
  <2> SUFFICES ASSUME NEW x, NEW y, Before(rel, x, y) PROVE Before(more, x, y)
      OBVIOUS
  <2>1. PICK k \in 1..Len(rel), l \in 1..Len(rel) : k < l /\ rel[k] = x /\ rel[l] = y
      BY DEF Before
  <2>2. k \in 1..Len(more) /\ l \in 1..Len(more) /\ more[k] = x /\ more[l] = y
      BY <1>1, <2>1
  <2> QED
      BY <2>1, <2>2 DEF Before
<1>3. \A x : In(rel, x) => In(more, x) /\ Before(more, x, m.id)
  <2> SUFFICES ASSUME NEW x, In(rel, x) PROVE In(more, x) /\ Before(more, x, m.id)
      OBVIOUS
  <2>1. PICK k \in 1..Len(rel) : rel[k] = x
      BY DEF In
  <2>2. /\ k \in 1..Len(more) /\ more[k] = x /\ k < Len(rel) + 1
        /\ Len(rel) + 1 \in 1..Len(more)
      BY <1>1, <2>1
  <2> QED
      BY <1>1, <2>2 DEF In, Before
<1>4. In(more, m.id)
  <2>1. Len(rel) + 1 \in 1..Len(more)
      BY <1>1
  <2> QED
      BY <1>1, <2>1 DEF In
<1>5. /\ Len(inc) \in Nat /\ \A k \in 1..Len(inc) : sent[k] = inc[k]
      /\ Len(sent) = Len(inc) \/ (Len(sent) = Len(inc) + 1 /\ sent[Len(inc) + 1] = m)
    OBVIOUS
<1>6. \A k \in 1..Len(sent) : k \in 1..Len(inc) \/ (k = Len(inc) + 1 /\ sent[k] = m)
    BY <1>5
<1>7. \A x : Follows(rel, x, inc) => Follows(more, x, sent)
    BY <1>2, <1>3, <1>5, <1>6 DEF Follows
<1>8. Arrives(rel, inc) => Arrives(more, sent)
  <2> SUFFICES ASSUME Arrives(rel, inc), NEW k \in 1..Len(sent), sent[k] # None
      PROVE  /\ In(more, sent[k].id)
             /\ \A l \in 1..Len(sent) : k < l => Before(more, sent[k].id, sent[l].id)
      BY DEF Arrives
  <2>1. CASE k \in 1..Len(inc)
    <3>1. sent[k] = inc[k] /\ In(rel, inc[k].id)
        BY <1>5, <2>1 DEF Arrives
    <3>2. \A l \in 1..Len(inc) : k < l => Before(rel, inc[k].id, inc[l].id) /\ sent[l] = inc[l]
        BY <1>5, <2>1, <3>1 DEF Arrives
    <3> QED
        BY <1>2, <1>3, <1>6, <3>1, <3>2
  <2>2. CASE k = Len(inc) + 1 /\ sent[k] = m
    <3>1. \A l \in 1..Len(sent) : ~(k < l)
        BY <1>5, <2>2
    <3> QED
        BY <1>4, <2>2, <3>1
  <2> QED
      BY <1>6, <2>1, <2>2
<1>9. \A q : Passed(rel, q, inc) => Passed(more, q, sent)
    BY <1>2, <1>7 DEF Passed
<1> QED
    BY <1>2, <1>7, <1>8, <1>9 DEF more

\* A step keeps the order, from relayed to passed.
LEMMA InOrderKept == ASSUME TypesInv, InOrder, NEW c \in Clients, Step(c) PROVE InOrder'
<1> USE DEF clientVars, serverVars
<1>0. TcpqTypes /\ Links /\ Calls /\ Subscriptions /\ Paired /\ TcpqTypes'
    BY TypesKept DEF TypesInv
<1>1. SUFFICES ASSUME NEW d \in Clients
      PROVE  (/\ Arrives(relayed, incoming[d])
              /\ d \notin nested =>
                    /\ Len(frames[d]) <= 1
                    /\ \A s \in 1..Len(saw[d]) : Passed(relayed, saw[d][s], incoming[d])
                    /\ frames[d] # <<>> =>
                          Passing(relayed, frames[d][1], saw[d], buffer[d], incoming[d]))'
    BY DEF InOrder
<1>2. /\ Arrives(relayed, incoming[d])
      /\ d \notin nested =>
            /\ Len(frames[d]) <= 1
            /\ \A s \in 1..Len(saw[d]) : Passed(relayed, saw[d][s], incoming[d])
            /\ frames[d] # <<>> =>
                  Passing(relayed, frames[d][1], saw[d], buffer[d], incoming[d])
    BY DEF InOrder
<1>3. /\ incoming[d] \in Seq(Messages \cup {None}) /\ incoming'[d] \in Seq(Messages \cup {None})
      /\ frames[d] \in Seq(Handlers) /\ saw[d] \in Seq(Seq(Nat)) /\ relayed \in Seq(Nat \ {0})
    BY <1>0 DEF TcpqTypes
\* Nothing of it changes, or some of what was on its way is lost.
<1>4. ASSUME relayed' = relayed, nested' = nested, saw'[d] = saw[d], buffer'[d] = buffer[d],
             frames'[d] = frames[d],
             NEW n \in 0..1, Len(incoming'[d]) + n <= Len(incoming[d]),
             \A k \in 1..Len(incoming'[d]) : incoming'[d][k] = incoming[d][k + n]
      PROVE  (/\ Arrives(relayed, incoming[d])
              /\ d \notin nested =>
                    /\ Len(frames[d]) <= 1
                    /\ \A s \in 1..Len(saw[d]) : Passed(relayed, saw[d][s], incoming[d])
                    /\ frames[d] # <<>> =>
                          Passing(relayed, frames[d][1], saw[d], buffer[d], incoming[d]))'
  <2>1. /\ Arrives(relayed, incoming[d]) => Arrives(relayed, incoming'[d])
        /\ \A x : Follows(relayed, x, incoming[d]) => Follows(relayed, x, incoming'[d])
        /\ \A q : Passed(relayed, q, incoming[d]) => Passed(relayed, q, incoming'[d])
      BY <1>3, <1>4, PartArrives
  <2> QED
      BY <1>2, <1>4, <2>1 DEF Passing
<1>5. CASE UNCHANGED <<relayed, nested>> /\ UNCHANGED <<saw[d], buffer[d], frames[d], incoming[d]>>
  <2>1. incoming'[d] = incoming[d] /\ saw'[d] = saw[d] /\ buffer'[d] = buffer[d] /\ frames'[d] = frames[d]
      BY <1>5
  <2> QED
      BY <1>2, <1>5, <2>1
<1>6. CASE CreateReturns(c)
  <2>1. UNCHANGED <<relayed, nested, saw, buffer, frames>>
      BY <1>6 DEF CreateReturns
  <2>2. CASE incoming'[d] = incoming[d]
      BY <1>5, <2>1, <2>2
  <2>3. CASE incoming[d] # <<>> /\ incoming'[d] = Tail(incoming[d])
    <3>1. /\ Len(incoming'[d]) + 1 <= Len(incoming[d])
          /\ \A k \in 1..Len(incoming'[d]) : incoming'[d][k] = incoming[d][k + 1]
        BY <1>3, <2>3
    <3> QED
        BY <1>4, <2>1, <3>1
  <2> QED
    <3>1. incoming'[d] = incoming[d] \/ (incoming[d] # <<>> /\ incoming'[d] = Tail(incoming[d]))
        BY SMTT(30), <1>0, <1>6 DEF CreateReturns, TcpqTypes
    <3> QED
        BY <2>2, <2>3, <3>1
<1>7. CASE TcpqDestroy(c) \/ Cut(c)
  <2>1. UNCHANGED <<relayed, nested, saw, buffer, frames>>
      BY <1>7 DEF TcpqDestroy, Cut
  <2>2. CASE incoming'[d] = incoming[d]
      BY <1>5, <2>1, <2>2
  <2>3. CASE \E k \in 0..Len(incoming[d]) : incoming'[d] = SubSeq(incoming[d], 1, k)
    <3>1. PICK k \in 0..Len(incoming[d]) : incoming'[d] = SubSeq(incoming[d], 1, k)
        BY <2>3
    <3>2. /\ Len(incoming'[d]) + 0 <= Len(incoming[d])
          /\ \A l \in 1..Len(incoming'[d]) : incoming'[d][l] = incoming[d][l + 0]
        BY <1>3, <3>1
    <3> QED
        BY <1>4, <2>1, <3>2
  <2>4. CASE incoming'[d] = <<>>
    <3>1. /\ Len(incoming'[d]) + 0 <= Len(incoming[d])
          /\ \A l \in 1..Len(incoming'[d]) : incoming'[d][l] = incoming[d][l + 0]
        BY <1>3, <2>4
    <3> QED
        BY <1>4, <2>1, <3>1
  <2>5. CASE TcpqDestroy(c)
      BY <1>0, <2>2, <2>4, <2>5 DEF TcpqDestroy, TcpqTypes
  <2>6. CASE Cut(c)
    <3>1. PICK n \in 0..Len(outgoing[c]), k \in 0..Len(incoming[c]) :
             incoming' = [incoming EXCEPT ![c] = SubSeq(@, 1, k)]
        BY <2>6 DEF Cut
    <3> QED
        BY <1>0, <2>2, <2>3, <3>1 DEF TcpqTypes
  <2> QED
      BY <1>7, <2>5, <2>6
<1>8. CASE Accept(c)
  <2>1. UNCHANGED <<relayed, nested, saw, buffer, frames>> /\ (d # c => incoming'[d] = incoming[d])
      BY <1>0, <1>8 DEF Accept, TcpqTypes
  <2>2. CASE d = c
    <3>1. incoming[d] = <<>> /\ incoming'[d] = Append(incoming[d], None)
        BY <1>0, <1>8, <2>2 DEF Accept, Links, TcpqTypes
    <3>2. \A k \in 1..Len(incoming'[d]) : incoming'[d][k] = None
        BY <1>3, <3>1
    <3>3. \A k \in 1..Len(incoming[d]) : FALSE
        BY <3>1
    <3> QED
        BY <1>2, <2>1, <3>2, <3>3 DEF Arrives, Passed, Passing, Follows
  <2> QED
      BY <1>5, <2>1, <2>2
<1>9. CASE Relay(c)
  <2> DEFINE m == [topic |-> outgoing[c][1][2], id |-> outgoing[c][2][2]]
  <2>1. m \in Messages
      BY <1>0, <1>9, RelayedMessage
  <2>2. incoming'[d] = incoming[d] \o Sent(d, m) /\ relayed' = Append(relayed, m.id)
        /\ UNCHANGED <<nested, saw, buffer, frames>>
      BY <1>9 DEF Relay
  <2> HIDE DEF m
  <2>3. incoming'[d] = incoming[d] \/ incoming'[d] = Append(incoming[d], m)
    <3>1. Sent(d, m) = <<>> \/ Sent(d, m) = <<m>>
        BY DEF Sent
    <3>2. incoming[d] \o <<>> = incoming[d] /\ incoming[d] \o <<m>> = Append(incoming[d], m)
        BY <1>3, <2>1
    <3> QED
        BY <2>2, <3>1, <3>2
  <2>4. /\ \A x, y : Before(relayed, x, y) => Before(relayed', x, y)
        /\ Arrives(relayed, incoming[d]) => Arrives(relayed', incoming'[d])
        /\ \A x : Follows(relayed, x, incoming[d]) => Follows(relayed', x, incoming'[d])
        /\ \A q : Passed(relayed, q, incoming[d]) => Passed(relayed', q, incoming'[d])
      BY <1>3, <2>1, <2>2, <2>3, RelayedArrives
  <2> QED
      BY <1>2, <2>2, <2>4 DEF Passing
<1>10. CASE TcpqHandle(c)
  <2> DEFINE wanted == {s \in live[c] : subs[c][s] = Head(incoming[c]).topic}
  <2>1. UNCHANGED <<relayed, saw>>
        /\ (d # c => UNCHANGED <<incoming[d], buffer[d], frames[d]>> /\ (d \in nested' <=> d \in nested))
      BY <1>0, <1>10 DEF TcpqHandle, TcpqTypes
  <2>2. CASE d # c
      BY <1>2, <2>1, <2>2
  <2>3. CASE d = c
    <3>1. /\ incoming[d] # <<>> /\ buffer'[d] = Head(incoming[d]) /\ incoming'[d] = Tail(incoming[d])
          /\ frames'[d] = IF wanted = {} THEN frames[d] ELSE Append(frames[d], wanted)
          /\ d \notin nested' => d \notin nested /\ frames[d] = <<>>
          /\ socket[d] = "open"
        BY <1>0, <1>10, <2>3 DEF TcpqHandle, Connected, TcpqTypes
    <3> DEFINE m == incoming[d][1]
    <3>2. /\ Len(incoming[d]) \in Nat \ {0} /\ buffer'[d] = m
          /\ Len(incoming'[d]) + 1 = Len(incoming[d])
          /\ \A k \in 1..Len(incoming'[d]) : incoming'[d][k] = incoming[d][k + 1]
        BY <1>3, <3>1
    <3>3. /\ Arrives(relayed, incoming[d]) => Arrives(relayed, incoming'[d])
          /\ \A q : Passed(relayed, q, incoming[d]) => Passed(relayed, q, incoming'[d])
      <4>1. Len(incoming'[d]) + 1 <= Len(incoming[d]) /\ 1 \in 0..1
          BY <3>2
      <4> QED
          BY <1>3, <3>2, <4>1, PartArrives
    <3>4. m # None
      <4>1. 1 \in DOMAIN incoming[d]
          BY <1>3, <3>2
      <4> QED
          BY <1>0, <3>1, <4>1 DEF Links
    <3>5. ASSUME d \notin nested', frames'[d] # <<>>
          PROVE  frames'[d] = <<wanted>> /\ wanted \subseteq 1..Len(saw[d])
      <4>1. frames[d] = <<>> /\ wanted # {} /\ frames'[d] = Append(frames[d], wanted)
          BY <3>1, <3>5
      <4>2. wanted \subseteq live[c] /\ live[c] \subseteq 1..Len(saw[d])
          BY <1>0, <2>3 DEF Subscriptions
      <4> HIDE DEF wanted
      <4> QED
          BY <4>1, <4>2
    <3> HIDE DEF wanted, m
    <3>6. Follows(relayed, m.id, incoming'[d])
      <4>1. In(relayed, m.id) /\ \A l \in 1..Len(incoming[d]) : 1 < l => Before(relayed, m.id, incoming[d][l].id)
          BY <1>2, <3>2, <3>4 DEF Arrives, m
      <4>2. \A k \in 1..Len(incoming'[d]) : k + 1 \in 1..Len(incoming[d]) /\ 1 < k + 1
          BY <3>2
      <4> QED
          BY <3>2, <4>1, <4>2 DEF Follows
    <3>7. ASSUME d \notin nested', NEW s \in 1..Len(saw[d]), NEW i \in 1..Len(saw[d][s])
          PROVE  Before(relayed, saw[d][s][i], m.id)
      <4>1. Follows(relayed, saw[d][s][i], incoming[d])
          BY <1>2, <3>1, <3>7 DEF Passed
      <4>2. 1 \in 1..Len(incoming[d]) /\ incoming[d][1] = m
          BY <3>2 DEF m
      <4> QED
          BY <3>4, <4>1, <4>2 DEF Follows
    <3>8. d \notin nested' => Len(frames'[d]) <= 1
      <4>1. CASE frames'[d] = <<>>
        <5>1. Len(frames'[d]) = 0
            BY <4>1
        <5> QED
            BY <5>1
      <4>2. ASSUME d \notin nested', frames'[d] # <<>> PROVE Len(frames'[d]) <= 1
        <5>1. frames'[d] = <<wanted>>
            BY <3>5, <4>2
        <5>2. Len(frames'[d]) = 1
            BY <5>1
        <5> QED
            BY <5>2
      <4> QED
          BY <4>1, <4>2
    <3>9. ASSUME d \notin nested', frames'[d] # <<>>
          PROVE  Passing(relayed, frames'[d][1], saw[d], buffer'[d], incoming'[d])
      <4>1. frames'[d][1] = wanted /\ wanted \subseteq 1..Len(saw[d])
          BY <3>5, <3>9
      <4> QED
          BY <3>2, <3>6, <3>7, <3>9, <4>1 DEF Passing
    <3> QED
        BY <1>2, <2>1, <3>1, <3>3, <3>8, <3>9
  <2> QED
      BY <2>2, <2>3
<1>11. CASE CallHandler(c)
  <2>1. UNCHANGED <<relayed, nested, buffer, incoming>>
      BY <1>11 DEF CallHandler
  <2>2. CASE d # c
    <3>1. saw'[d] = saw[d] /\ frames'[d] = frames[d]
        BY <1>11, <2>2, NextHandler
    <3> QED
        BY <1>5, <2>1, <3>1
  <2>3. CASE d = c
    <3> DEFINE s == Min(Last(frames[d]))
               last == Last(frames[d])
               others == Front(frames[d])
    <3>1. /\ Len(frames[d]) \in Nat \ {0} /\ s \in last /\ last = frames[d][Len(frames[d])]
          /\ s \in 1..Len(saw[d]) /\ saw[d] \in Seq(Seq(Nat)) /\ saw[d][s] \in Seq(Nat)
          /\ buffer[d].id \in Nat
          /\ saw'[d] = [saw[d] EXCEPT ![s] = IF s \in live[d] THEN Append(saw[d][s], buffer[d].id)
                                             ELSE saw[d][s]]
          /\ frames'[d] = IF last \ {s} = {} THEN others ELSE Append(others, last \ {s})
          /\ others \in Seq(Handlers) /\ Len(others) = Len(frames[d]) - 1
        BY <1>11, <2>3, NextHandler
    <3> HIDE DEF s, last, others
    <3>2. SUFFICES ASSUME d \notin nested
          PROVE  /\ Len(frames'[d]) <= 1
                 /\ \A r \in 1..Len(saw'[d]) : Passed(relayed, saw'[d][r], incoming[d])
                 /\ frames'[d] # <<>> =>
                       Passing(relayed, frames'[d][1], saw'[d], buffer[d], incoming[d])
        BY <1>2, <2>1
    <3>3. Len(frames[d]) = 1 /\ last = frames[d][1] /\ others = <<>> /\ frames[d] # <<>>
      <4>1. Len(frames[d]) = 1 /\ Len(others) = 0
        <5>1. Len(frames[d]) <= 1
            BY <1>2, <3>2
        <5>2. Len(frames[d]) \in Nat \ {0} /\ Len(others) = Len(frames[d]) - 1
            BY <3>1
        <5>3. \A n \in Nat \ {0} : n <= 1 => n = 1 /\ n - 1 = 0
            OBVIOUS
        <5> QED
            BY <5>1, <5>2, <5>3
      <4> QED
          BY <3>1, <4>1 DEF Handlers
    <3>4. Passing(relayed, last, saw[d], buffer[d], incoming[d])
        BY <1>2, <3>2, <3>3
    <3>5. frames'[d] = <<>> \/ frames'[d] = <<last \ {s}>>
        BY <3>1, <3>3
    <3>6. /\ Len(saw'[d]) = Len(saw[d]) /\ \A r \in 1..Len(saw[d]) : r # s => saw'[d][r] = saw[d][r]
          /\ saw'[d][s] = saw[d][s] \/ saw'[d][s] = Append(saw[d][s], buffer[d].id)
        BY <3>1
    <3>7. Passed(relayed, saw'[d][s], incoming[d])
      <4>1. CASE saw'[d][s] = saw[d][s]
          BY <1>2, <3>1, <3>2, <4>1
      <4>2. CASE saw'[d][s] = Append(saw[d][s], buffer[d].id)
        <5> DEFINE q == saw[d][s]
                   r == saw'[d][s]
        <5>1. /\ Len(q) \in Nat /\ Len(r) = Len(q) + 1 /\ r[Len(q) + 1] = buffer[d].id
              /\ \A i \in 1..Len(q) : r[i] = q[i]
            BY <3>1, <4>2
        <5>2. Passed(relayed, q, incoming[d])
            BY <1>2, <3>1, <3>2
        <5>3. Follows(relayed, buffer[d].id, incoming[d])
              /\ \A i \in 1..Len(q) : Before(relayed, q[i], buffer[d].id)
            BY <3>1, <3>4 DEF Passing
        <5> HIDE DEF q, r
        <5>4. ASSUME NEW i \in 1..Len(r) PROVE Follows(relayed, r[i], incoming[d])
            BY <5>1, <5>2, <5>3 DEF Passed
        <5>5. ASSUME NEW i \in 1..Len(r), NEW j \in 1..Len(r), i < j PROVE Before(relayed, r[i], r[j])
          <6>1. i \in 1..Len(q) /\ (j \in 1..Len(q) \/ j = Len(q) + 1)
              BY <5>1, <5>5
          <6> QED
              BY <5>1, <5>2, <5>3, <5>5, <6>1 DEF Passed
        <5>6. Passed(relayed, r, incoming[d])
            BY <5>4, <5>5 DEF Passed
        <5> QED
            BY <5>6 DEF r
      <4> QED
          BY <3>6, <4>1, <4>2
    <3>8. \A r \in 1..Len(saw'[d]) : Passed(relayed, saw'[d][r], incoming[d])
        BY <1>2, <3>2, <3>6, <3>7
    <3>9. ASSUME frames'[d] # <<>>
          PROVE  Passing(relayed, frames'[d][1], saw'[d], buffer[d], incoming[d])
      <4>1. frames'[d][1] = last \ {s}
          BY <3>5, <3>9
      <4>2. last \subseteq 1..Len(saw[d])
        <5>1. \A k \in 1..Len(frames[d]) : frames[d][k] \subseteq 1..Len(saw[d])
            BY <1>0 DEF Subscriptions
        <5> QED
            BY <3>3, <5>1
      <4>3. \A r \in last \ {s} : saw'[d][r] = saw[d][r]
          BY <3>6, <4>2
      <4> QED
          BY <3>4, <4>1, <4>3 DEF Passing
    <3>10. Len(frames'[d]) <= 1
      <4>1. CASE frames'[d] = <<>>
        <5>1. Len(frames'[d]) = 0
            BY <4>1
        <5> QED
            BY <5>1
      <4>2. CASE frames'[d] = <<last \ {s}>>
        <5>1. Len(frames'[d]) = 1
            BY <4>2
        <5> QED
            BY <5>1
      <4> QED
          BY <3>5, <4>1, <4>2
    <3> QED
        BY <3>8, <3>9, <3>10
  <2> QED
      BY <2>2, <2>3
<1>12. CASE SendWord(c)
  <2> DEFINE a == call[c]
             made == Tail(a.words) = <<>> /\ a.topic # "none"
  <2>1. UNCHANGED <<relayed, nested, buffer, incoming, frames>>
      BY <1>12 DEF SendWord
  <2>2. CASE saw'[d] = saw[d]
      BY <1>5, <2>1, <2>2
  <2>3. CASE saw'[d] = Append(saw[d], <<>>)
    <3>1. /\ Len(saw'[d]) = Len(saw[d]) + 1 /\ Len(saw[d]) \in Nat
          /\ saw'[d][Len(saw[d]) + 1] = <<>> /\ \A r \in 1..Len(saw[d]) : saw'[d][r] = saw[d][r]
      <4>1. <<>> \in Seq(Nat)
          OBVIOUS
      <4> QED
          BY <1>3, <2>3, <4>1
    <3>2. Passed(relayed, <<>>, incoming[d])
        BY DEF Passed
    <3>3. \A r \in 1..Len(saw'[d]) : r \in 1..Len(saw[d]) \/ r = Len(saw[d]) + 1
        BY <3>1
    <3>4. frames[d] # <<>> => frames[d][1] \subseteq 1..Len(saw[d])
      <4>1. frames[d] # <<>> => 1 \in 1..Len(frames[d])
          BY <1>3
      <4> QED
          BY <1>0, <4>1 DEF Subscriptions
    <3>5. frames[d] # <<>> => \A r \in frames[d][1] : saw'[d][r] = saw[d][r]
        BY <3>1, <3>4
    <3> QED
        BY <1>2, <2>1, <3>1, <3>2, <3>3, <3>5 DEF Passing
  <2>4. saw'[d] = saw[d] \/ saw'[d] = Append(saw[d], <<>>)
      BY <1>12, WordSent
  <2> QED
      BY <2>2, <2>3, <2>4
<1>13. CASE UNCHANGED <<relayed, nested, saw, buffer, frames, incoming>>
    BY <1>5, <1>13
<1> QED
    BY <1>6, <1>7, <1>8, <1>9, <1>10, <1>11, <1>12, <1>13
    DEF Step, Create, SendWordFails, TcpqSubscribe, TcpqUnsubscribe, Publish, Call, Disconnected,
        Register, Ignore, AddRecord, Leave

\* A handler is passed messages in the order in which the server relayed them,
\* and none twice that was relayed once, however many clients publish, whatever
\* the client has subscribed to and given up, and wherever the connection ends;
\* unless one of the client's handlers calls lcm_handle.
THEOREM PassedInOrder == TcpqSpec => []OnceInOrder
<1>1. TcpqInit => TypesInv /\ InOrder
    BY InitTypes DEF TcpqInit, InOrder, Arrives
<1>2. TypesInv /\ InOrder /\ [TcpqNext]_tcpqVars => (TypesInv /\ InOrder)'
  <2> SUFFICES ASSUME TypesInv, InOrder, [TcpqNext]_tcpqVars PROVE InOrder'
      BY StepTypes
  <2>1. CASE \E c \in Clients : Step(c)
      BY <2>1, InOrderKept
  <2>2. CASE UNCHANGED tcpqVars
      BY <2>2 DEF InOrder, tcpqVars
  <2> QED
      BY <2>1, <2>2 DEF TcpqNext, Step
<1>3. TypesInv /\ InOrder => OnceInOrder
  <2> SUFFICES ASSUME TypesInv, InOrder, NEW c \in Clients \ nested, NEW s \in DOMAIN saw[c],
                      NEW i \in DOMAIN saw[c][s], NEW j \in DOMAIN saw[c][s], i < j
      PROVE  \E k, l \in DOMAIN relayed :
                k < l /\ relayed[k] = saw[c][s][i] /\ relayed[l] = saw[c][s][j]
      BY DEF OnceInOrder
  <2>1. saw[c] \in Seq(Seq(Nat)) /\ relayed \in Seq(Nat \ {0})
      BY DEF TypesInv, TcpqTypes
  <2>2. s \in 1..Len(saw[c]) /\ DOMAIN relayed = 1..Len(relayed)
      BY <2>1
  <2>3. saw[c][s] \in Seq(Nat)
      BY <2>1, <2>2
  <2>4. i \in 1..Len(saw[c][s]) /\ j \in 1..Len(saw[c][s])
      BY <2>3
  <2>5. Passed(relayed, saw[c][s], incoming[c])
      BY <2>2 DEF InOrder
  <2>6. Before(relayed, saw[c][s][i], saw[c][s][j])
      BY <2>4, <2>5 DEF Passed
  <2> QED
      BY <2>2, <2>6 DEF Before
<1> QED
    BY <1>1, <1>2, <1>3, PTL DEF TcpqSpec
=============================================================================
