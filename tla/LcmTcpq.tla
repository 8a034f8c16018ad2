------------------------------- MODULE LcmTcpq -------------------------------
(***************************************************************************)
(* The TCP queue provider (src/upstream/lcm/lcm_tcpq.c) and the server it  *)
(* talks to (src/upstream/lcm-java/lcm/lcm/TCPService.java).  Programs     *)
(* publish to the server, which relays every message to the clients that   *)
(* have subscribed.                                                        *)
(*                                                                         *)
(* A call sends several words, and between two of them the connection may  *)
(* be lost.  A word that announces a length goes with what it announces.   *)
(* A program has one thread; a handler may call lcm_handle again.  What    *)
(* lcm_dispatch_handlers does when handlers come and go is LcmDispatch.    *)
(***************************************************************************)
EXTENDS Integers, Sequences, FiniteSets, SequencesExt

CONSTANTS
    Clients, Topics,
    MaxSubscriptions,   \* bound: those that each client makes
    MaxLost,            \* bound: a connection is lost only while fewer are down
    MaxPublished,       \* bound: messages that each client publishes
    MaxNested           \* bound: lcm_handle calls inside one another

VARIABLES
    socket,     \* of each client: none, connecting, open, closed (-1) or gone
    link,       \* its connection: none, up or cut
    outgoing,         \* the words on their way to the server
    incoming,   \* the messages on their way to the client
    call,       \* the words it is about to send, and what the call does then
    subs,       \* the topics of its subscriptions, by number
    live,       \* the numbers of the subscriptions that lcm_t has
    buffer,     \* recv_channel_buf and data_buf
    frames,     \* its dispatches in progress: the handlers still to be called
    serving,    \* the connections that have a ClientThread
    clients,    \* the server's list
    records,    \* the subscriptions of each ClientThread
    issued,     \* for every message published so far, by whom
    relayed,    \* history: the messages that the server has relayed
    saw,        \* history: what each subscription of a client was passed
    nested      \* history: the clients that have called lcm_handle in a handler

tcpqVars == <<socket, link, outgoing, incoming, call, subs, live, buffer, frames,
              serving, clients, records, issued, relayed, saw, nested>>
clientVars == <<socket, subs, live, buffer, frames, saw, nested>>
serverVars == <<serving, clients, records, relayed>>

Idle == [words |-> <<>>, topic |-> "none"]
None == [topic |-> "none", id |-> 0]

TcpqInit ==
    /\ socket = [c \in Clients |-> "none"] /\ link = [c \in Clients |-> "none"]
    /\ outgoing = [c \in Clients |-> <<>>] /\ incoming = [c \in Clients |-> <<>>]
    /\ call = [c \in Clients |-> Idle]
    /\ subs = [c \in Clients |-> <<>>] /\ live = [c \in Clients |-> {}]
    /\ buffer = [c \in Clients |-> None] /\ frames = [c \in Clients |-> <<>>]
    /\ serving = {} /\ clients = {} /\ records = [c \in Clients |-> <<>>]
    /\ issued = <<>> /\ relayed = <<>>
    /\ saw = [c \in Clients |-> <<>>] /\ nested = {}

Connected(c) == socket[c] = "open" /\ call[c] = Idle

(* The call sends these words; a subscription is made when all are sent.   *)
Call(c, words, topic) ==
    /\ call' = [call EXCEPT ![c] = [words |-> words, topic |-> topic]]
    /\ UNCHANGED <<link, outgoing, incoming>>

(* lcm_tcpq_create.  The server takes the client's first words, the magic  *)
(* number and the version, for messages of types it does not know.         *)
Create(c) ==
    /\ socket[c] = "none"
    /\ socket' = [socket EXCEPT ![c] = "connecting"]
    /\ link' = [link EXCEPT ![c] = "up"]
    /\ call' = [call EXCEPT ![c] = [words |-> << <<"HELLO">> >>, topic |-> "none"]]
    /\ UNCHANGED <<outgoing, incoming, subs, live, buffer, frames, saw, nested, serverVars, issued>>

CreateReturns(c) ==
    /\ socket[c] = "connecting" /\ call[c] = Idle
    /\ IF incoming[c] # <<>>
       THEN socket' = [socket EXCEPT ![c] = "open"] /\ incoming' = [incoming EXCEPT ![c] = Tail(@)]
       ELSE link[c] = "cut" /\ socket' = [socket EXCEPT ![c] = "closed"] /\ UNCHANGED incoming
    /\ UNCHANGED <<link, outgoing, call, subs, live, buffer, frames, saw, nested, serverVars, issued>>

TcpqSubscribe(c, t) ==
    /\ Connected(c) /\ Len(subs[c]) < MaxSubscriptions[c]
    /\ Call(c, << <<"SUBSCRIBE", t>> >>, t)
    /\ UNCHANGED <<clientVars, serverVars, issued>>

(* Gone from the lists before the provider is called, which says SUBSCRIBE *)
(* again.                                                                  *)
TcpqUnsubscribe(c, s) ==
    /\ call[c] = Idle /\ s \in live[c]
    /\ live' = [live EXCEPT ![c] = @ \ {s}]
    /\ IF socket[c] = "open" THEN Call(c, << <<"SUBSCRIBE", subs[c][s]>> >>, "none")
       ELSE UNCHANGED <<call, link, outgoing, incoming>>
    /\ UNCHANGED <<socket, subs, buffer, frames, saw, nested, serverVars, issued>>

Publish(c, t) ==
    /\ Connected(c) /\ Len(SelectSeq(issued, LAMBDA d : d = c)) < MaxPublished[c]
    /\ issued' = Append(issued, c)
    /\ Call(c, << <<"PUBLISH", t>>, <<"data", Len(issued')>> >>, "none")
    /\ UNCHANGED <<clientVars, serverVars>>

(* _send_fully of the next word.  Over a lost connection it fails, or what *)
(* it sends is lost.                                                       *)
SendWord(c) ==
    /\ call[c] # Idle
    /\ LET rest == Tail(call[c].words)
           made == rest = <<>> /\ call[c].topic # "none"
       IN  /\ call' = [call EXCEPT ![c] = IF rest = <<>> THEN Idle ELSE [@ EXCEPT !.words = rest]]
           /\ outgoing' = [outgoing EXCEPT ![c] = IF link[c] = "up" THEN Append(@, Head(call[c].words)) ELSE @]
           /\ subs' = [subs EXCEPT ![c] = IF made THEN Append(@, call[c].topic) ELSE @]
           /\ live' = [live EXCEPT ![c] = IF made THEN @ \union {Len(subs'[c])} ELSE @]
           /\ saw' = [saw EXCEPT ![c] = IF made THEN Append(@, <<>>) ELSE @]
    /\ UNCHANGED <<socket, link, incoming, buffer, frames, nested, serverVars, issued>>

SendWordFails(c) ==
    /\ call[c] # Idle /\ link[c] = "cut"
    /\ call' = [call EXCEPT ![c] = Idle]
    /\ socket' = [socket EXCEPT ![c] = "closed"]
    /\ UNCHANGED <<link, outgoing, incoming, subs, live, buffer, frames, saw, nested, serverVars, issued>>

(* lcm_tcpq_handle reads one message into the buffers, which are the same  *)
(* for all calls, and dispatches it.                                       *)
TcpqHandle(c) ==
    /\ Connected(c) /\ Len(frames[c]) < MaxNested
    /\ incoming[c] # <<>>
    /\ buffer' = [buffer EXCEPT ![c] = Head(incoming[c])]
    /\ incoming' = [incoming EXCEPT ![c] = Tail(@)]
    /\ LET wanted == {s \in live[c] : subs[c][s] = Head(incoming[c]).topic}
       IN  frames' = [frames EXCEPT ![c] = IF wanted = {} THEN @ ELSE Append(@, wanted)]
    /\ nested' = IF frames[c] = <<>> THEN nested ELSE nested \union {c}
    /\ UNCHANGED <<socket, link, outgoing, call, subs, live, saw, serverVars, issued>>

(* The next handler, or the end of the dispatch. *)
CallHandler(c) ==
    /\ frames[c] # <<>> /\ call[c] = Idle
    /\ LET others == Front(frames[c])
           s == Min(Last(frames[c]))
           rest == Last(frames[c]) \ {s}
       IN  /\ saw' = [saw EXCEPT ![c][s] = IF s \in live[c] THEN Append(@, buffer[c].id) ELSE @]
           /\ frames' = [frames EXCEPT ![c] = IF rest = {} THEN others ELSE Append(others, rest)]
    /\ UNCHANGED <<socket, link, outgoing, incoming, call, subs, live, buffer, nested, serverVars, issued>>

Disconnected(c) ==
    /\ Connected(c) /\ link[c] = "cut" /\ incoming[c] = <<>>
    /\ socket' = [socket EXCEPT ![c] = "closed"]
    /\ UNCHANGED <<link, outgoing, incoming, call, subs, live, buffer, frames, saw, nested, serverVars, issued>>

(* lcm_destroy, and the provider's destroy.  What was sent is on its way.  *)
TcpqDestroy(c) ==
    /\ socket[c] \in {"open", "closed"} /\ call[c] = Idle /\ frames[c] = <<>>
    /\ socket' = [socket EXCEPT ![c] = "gone"]
    /\ link' = [link EXCEPT ![c] = "cut"]
    /\ live' = [live EXCEPT ![c] = {}]
    /\ incoming' = [incoming EXCEPT ![c] = <<>>]
    /\ UNCHANGED <<outgoing, call, subs, buffer, frames, saw, nested, serverVars, issued>>

(* The connection is lost, with the end of what is on its way. *)
Cut(c) ==
    /\ link[c] = "up" /\ Cardinality({d \in Clients : link[d] = "cut"}) < MaxLost
    /\ link' = [link EXCEPT ![c] = "cut"]
    /\ \E n \in 0..Len(outgoing[c]), k \in 0..Len(incoming[c]) :
        /\ outgoing' = [outgoing EXCEPT ![c] = SubSeq(@, 1, n)]
        /\ incoming' = [incoming EXCEPT ![c] = SubSeq(@, 1, k)]
    /\ UNCHANGED <<call, clientVars, serverVars, issued>>
-----------------------------------------------------------------------------
(* The server.  A client is listed only after its thread has started.  (If *)
(* the thread has ended by then, the client is listed for ever, and what   *)
(* it is sent fails: the same as for one that is not listed.)              *)
Accept(c) ==
    /\ link[c] = "up" /\ c \notin serving
    /\ serving' = serving \union {c}
    /\ incoming' = [incoming EXCEPT ![c] = Append(@, None)]
    /\ UNCHANGED <<link, outgoing, call, clientVars, clients, records, relayed, issued>>

Register(c) ==
    /\ c \in serving \ clients
    /\ clients' = clients \union {c}
    /\ UNCHANGED <<link, outgoing, incoming, call, clientVars, serving, records, relayed, issued>>

Reads(c, type) == c \in serving /\ outgoing[c] # <<>> /\ Head(outgoing[c])[1] = type

Ignore(c) ==
    /\ Reads(c, "HELLO")
    /\ outgoing' = [outgoing EXCEPT ![c] = Tail(@)]
    /\ UNCHANGED <<link, incoming, call, clientVars, serverVars, issued>>

(* Mutant: the records are replaced. *)
AddRecordOnly(c) ==
    /\ Reads(c, "SUBSCRIBE")
    /\ records' = [records EXCEPT ![c] = << Head(outgoing[c])[2] >>]
    /\ outgoing' = [outgoing EXCEPT ![c] = Tail(@)]
    /\ UNCHANGED <<link, incoming, call, clientVars, serving, clients, relayed, issued>>

AddRecord(c) ==
    /\ Reads(c, "SUBSCRIBE")
    /\ records' = [records EXCEPT ![c] = Append(@, Head(outgoing[c])[2])]
    /\ outgoing' = [outgoing EXCEPT ![c] = Tail(@)]
    /\ UNCHANGED <<link, incoming, call, clientVars, serving, clients, relayed, issued>>

(* Mutant: a message is sent for every record that matches. *)
SentForEach(c, m) ==
    IF c \in clients /\ link[c] = "up"
    THEN [k \in 1..Len(SelectSeq(records[c], LAMBDA t : t = m.topic)) |-> m] ELSE <<>>

(* What a client is sent: a message, once, if some record matches. *)
Sent(c, m) ==
    IF c \in clients /\ link[c] = "up" /\ m.topic \in ToSet(records[c]) THEN <<m>> ELSE <<>>

(* When all of the message has been read, under the lock of the list. *)
Relay(c) ==
    /\ Reads(c, "PUBLISH") /\ Len(outgoing[c]) >= 2
    /\ LET m == [topic |-> outgoing[c][1][2], id |-> outgoing[c][2][2]]
       IN  /\ incoming' = [d \in Clients |-> incoming[d] \o Sent(d, m)]
           /\ relayed' = Append(relayed, m.id)
    /\ outgoing' = [outgoing EXCEPT ![c] = SubSeq(@, 3, Len(@))]
    /\ UNCHANGED <<link, call, clientVars, serving, clients, records, issued>>

(* The end of the stream, in the middle of a message or not. *)
Leave(c) ==
    /\ c \in serving /\ link[c] = "cut"
    /\ outgoing[c] = <<>> \/ (Reads(c, "PUBLISH") /\ Len(outgoing[c]) < 2)
    /\ serving' = serving \ {c} /\ clients' = clients \ {c}
    /\ outgoing' = [outgoing EXCEPT ![c] = <<>>]
    /\ UNCHANGED <<link, incoming, call, clientVars, records, relayed, issued>>

TcpqNext ==
    \E c \in Clients :
        \/ Create(c) \/ CreateReturns(c) \/ SendWord(c) \/ SendWordFails(c)
        \/ \E t \in Topics : TcpqSubscribe(c, t) \/ Publish(c, t)
        \/ \E s \in live[c] : TcpqUnsubscribe(c, s)
        \/ TcpqHandle(c) \/ CallHandler(c) \/ Disconnected(c) \/ TcpqDestroy(c) \/ Cut(c)
        \/ Accept(c) \/ Register(c) \/ Ignore(c) \/ AddRecord(c) \/ Relay(c) \/ Leave(c)

TcpqSpec == TcpqInit /\ [][TcpqNext]_tcpqVars
-----------------------------------------------------------------------------
(* As long as its connection is up, the server will send a client what it  *)
(* has subscribed to: it has a record, or will read one, whatever the      *)
(* client has unsubscribed from since.                                     *)
WillBeSent ==
    \A c \in Clients : \A s \in live[c] :
        socket[c] = "open" /\ link[c] = "up" =>
            \/ subs[c][s] \in ToSet(records[c])
            \/ <<"SUBSCRIBE", subs[c][s]>> \in ToSet(outgoing[c])

(* A handler is passed a message at most once, and messages in the order   *)
(* in which the server relayed them, however often the client subscribes   *)
(* to a topic and unsubscribes (which subscribes once more); unless it     *)
(* calls lcm_handle in a handler, which changes the message that the       *)
(* handlers still to be called are passed.                                 *)
OnceInOrder ==
    \A c \in Clients \ nested : \A s \in DOMAIN saw[c] :
        \A i, j \in DOMAIN saw[c][s] : i < j =>
            \E k, l \in DOMAIN relayed :
                k < l /\ relayed[k] = saw[c][s][i] /\ relayed[l] = saw[c][s][j]
=============================================================================
