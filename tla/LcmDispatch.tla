----------------------------- MODULE LcmDispatch -----------------------------
(***************************************************************************)
(* Subscriptions and the dispatch of a message to its handlers             *)
(* (upstream/lcm/lcm.c:273-435).  handlers_all lists every subscription;   *)
(* handlers_map keeps, for every channel name seen so far, a GPtrArray of  *)
(* the subscriptions whose pattern matches it.  lcm->mutex guards both and *)
(* is released around each handler's callback: meanwhile the callback, or  *)
(* another thread, may subscribe and unsubscribe, and the dispatch loops   *)
(* go on with the array they find when the callback returns.               *)
(*                                                                         *)
(* A step is what one thread does between taking lcm->mutex and releasing  *)
(* it.  Subscriptions are numbered in the order they are registered; a     *)
(* number is not used again, so that a stale pointer stays recognisable.   *)
(***************************************************************************)
EXTENDS Integers, Sequences, SequencesExt

CONSTANTS
    Channels,
    MaxSubs,     \* bound: subscriptions made in a behaviour
    Matches,     \* the channels each subscription's pattern matches
    MaxDepth     \* bound: dispatches nested through lcm_handle in a callback

Subs == 1..MaxSubs

ASSUME DispatchAssumption ==
    /\ MaxSubs \in Nat /\ MaxDepth \in Nat \ {0}
    /\ Matches \in [Subs -> SUBSET Channels]

VARIABLES
    all,         \* handlers_all
    lists,       \* handlers_map: for each channel its array, once there is one
    made,        \* subscriptions registered so far
    scheduled,   \* h->callback_scheduled
    marked,      \* h->marked_for_deletion
    freed,       \* given to lcm_handler_free
    disp,        \* the lcm_dispatch_handlers calls in progress
    broken       \* a freed subscription was used: nothing is defined any more

vars == <<all, lists, made, scheduled, marked, freed, disp, broken>>

(* A GPtrArray: the slots ever written, and how many of them are in use.  A *)
(* removal leaves the slots behind the new length as they are.              *)
Array == [known : BOOLEAN, slots : Seq(Subs), len : Nat]
Live(l) == SubSeq(l.slots, 1, l.len)

\* g_ptr_array_add
Added(l, h) ==
    [l EXCEPT !.len = @ + 1,
              !.slots = IF l.len < Len(@) THEN [@ EXCEPT ![l.len + 1] = h]
                                          ELSE Append(@, h)]

Slot(l, h) == SelectInSeq(l.slots, LAMBDA x : x = h)

\* Mutant: the array keeps its length.
RemovedKeepingLength(l, h) ==
    IF Contains(Live(l), h)
    THEN [l EXCEPT !.slots[Slot(l, h)] = l.slots[l.len]]
    ELSE l

\* g_ptr_array_remove_fast: the last element takes the place of the removed.
RemovedFast(l, h) ==
    IF Contains(Live(l), h)
    THEN [l EXCEPT !.len = @ - 1, !.slots[Slot(l, h)] = l.slots[l.len]]
    ELSE l

Init ==
    /\ all = <<>> /\ made = 0 /\ disp = <<>> /\ broken = FALSE
    /\ lists = [c \in Channels |-> [known |-> FALSE, slots |-> <<>>, len |-> 0]]
    /\ scheduled = {} /\ marked = {} /\ freed = {}

Quiet == disp = <<>>
Top == disp[Len(disp)]

\* The loop of lcm_get_handlers over handlers_all: the matching subscriptions
\* among the first n, in their order.
Matching(c) ==
    LET Among[n \in 0..Len(all)] ==
            IF n = 0 THEN <<>>
            ELSE IF c \in Matches[all[n]] THEN Append(Among[n - 1], all[n])
                                          ELSE Among[n - 1]
    IN  Among[Len(all)]

\* lcm_get_handlers: a channel seen for the first time gets an array of its own.
Got(c) ==
    IF lists[c].known THEN lists[c]
    ELSE [known |-> TRUE, slots |-> Matching(c), len |-> Len(Matching(c))]

\* lcm_has_handlers, called by the receiver thread for every packet.
HasHandlers(c) ==
    /\ ~broken /\ ~lists[c].known
    /\ lists' = [lists EXCEPT ![c] = Got(c)]
    /\ UNCHANGED <<all, made, scheduled, marked, freed, disp, broken>>

\* Mutant: a new subscription is not added to the arrays there are.
SubscribeLate ==
    /\ ~broken /\ made < MaxSubs
    /\ made' = made + 1
    /\ all' = Append(all, made')
    /\ UNCHANGED <<lists, scheduled, marked, freed, disp, broken>>

Subscribe ==
    /\ ~broken /\ made < MaxSubs
    /\ made' = made + 1
    /\ all' = Append(all, made')
    /\ lists' = [c \in Channels |->
                    IF lists[c].known /\ c \in Matches[made']
                    THEN Added(lists[c], made') ELSE lists[c]]
    /\ UNCHANGED <<scheduled, marked, freed, disp, broken>>

\* Mutant: a scheduled subscription is freed like any other.
UnsubscribeAtOnce(h) ==
    /\ ~broken /\ Contains(all, h)
    /\ all' = RemoveFirst(all, h)
    /\ lists' = [c \in Channels |-> RemovedFast(lists[c], h)]
    /\ freed' = freed \cup {h}
    /\ UNCHANGED <<made, scheduled, marked, disp, broken>>

\* Mutant: a scheduled subscription is not marked.
UnsubscribeUnmarked(h) ==
    /\ ~broken /\ Contains(all, h)
    /\ all' = RemoveFirst(all, h)
    /\ lists' = [c \in Channels |-> RemovedFast(lists[c], h)]
    /\ freed' = IF h \in scheduled THEN freed ELSE freed \cup {h}
    /\ UNCHANGED <<made, scheduled, marked, disp, broken>>

\* A subscription that is about to be called is freed by the dispatch.
Unsubscribe(h) ==
    /\ ~broken /\ Contains(all, h)
    /\ all' = RemoveFirst(all, h)
    /\ lists' = [c \in Channels |-> RemovedFast(lists[c], h)]
    /\ IF h \in scheduled
       THEN marked' = marked \cup {h} /\ UNCHANGED freed
       ELSE freed' = freed \cup {h} /\ UNCHANGED marked
    /\ UNCHANGED <<made, scheduled, disp, broken>>

-----------------------------------------------------------------------------
(* A frame of disp: the channel, nhandlers, the index of the callback that  *)
(* is running, and, for the properties, the handlers there were when the    *)
(* dispatch began, the subscriptions made until then, whether no dispatch    *)
(* was nested in it, and the handlers called.                               *)
Frame == [chan : Channels, n : Nat, at : Nat, todo : Seq(Subs),
          upto : Nat, alone : BOOLEAN, called : Seq(Subs)]

\* lcm_dispatch_handlers up to its first callback; without a handler it does
\* no more than HasHandlers.
Dispatch(c) ==
    /\ ~broken /\ Len(disp) < MaxDepth
    /\ lists' = [lists EXCEPT ![c] = Got(c)]
    /\ LET hs == Live(Got(c)) IN
        /\ hs # <<>>
        /\ scheduled' = scheduled \cup ToSet(hs)
        /\ disp' = Append([i \in DOMAIN disp |-> [disp[i] EXCEPT !.alone = FALSE]],
                          [chan |-> c, n |-> Len(hs), at |-> 1, todo |-> hs,
                           upto |-> made, alone |-> TRUE, called |-> <<hs[1]>>])
    /\ UNCHANGED <<all, made, marked, freed, broken>>

TopSlots == lists[Top.chan].slots

\* Mutant: the loops run to the length the array has now.
LimitNow == IF lists[Top.chan].len < Top.at THEN Top.at ELSE lists[Top.chan].len

\* The loops run to the length the array had when the dispatch began.
Limit == Top.n

\* The slot of the next callback, stepping over marked subscriptions, or Limit + 1.
NextSlot ==
    CHOOSE j \in Top.at + 1..Limit + 1 :
        /\ j <= Limit => TopSlots[j] \notin marked
        /\ \A k \in Top.at + 1..j - 1 : TopSlots[k] \in marked

\* A freed subscription is met on the way there.
MetFreed == \E k \in Top.at + 1..Limit : k <= NextSlot /\ TopSlots[k] \in freed

ReturnToFreed ==
    /\ ~broken /\ ~Quiet /\ MetFreed
    /\ broken' = TRUE
    /\ UNCHANGED <<all, lists, made, scheduled, marked, freed, disp>>

\* A callback returns and the next is called.
ReturnToNext ==
    /\ ~broken /\ ~Quiet /\ ~MetFreed /\ NextSlot <= Limit
    /\ disp' = [disp EXCEPT ![Len(disp)] =
                    [Top EXCEPT !.at = NextSlot,
                                !.called = Append(@, TopSlots[NextSlot])]]
    /\ UNCHANGED <<all, lists, made, scheduled, marked, freed, broken>>

\* The last callback returns: the handlers in the first n slots are unref'ed
\* and the marked ones freed, a slot at a time.
ReturnToCaller ==
    /\ ~broken /\ ~Quiet /\ ~MetFreed /\ NextSlot > Limit
    /\ LET hs == SubSeq(TopSlots, 1, Limit)
           twice == \E i, j \in DOMAIN hs : i # j /\ hs[i] = hs[j] /\ hs[i] \in marked
       IN  /\ scheduled' = scheduled \ ToSet(hs)
           /\ freed' = freed \cup (ToSet(hs) \cap marked)
           /\ broken' = (twice \/ ToSet(hs) \cap freed # {})
    /\ disp' = Front(disp)
    /\ UNCHANGED <<all, lists, made, marked>>

Next ==
    \/ Subscribe
    \/ \E h \in Subs : Unsubscribe(h)
    \/ \E c \in Channels : HasHandlers(c) \/ Dispatch(c)
    \/ ReturnToFreed \/ ReturnToNext \/ ReturnToCaller

Spec == Init /\ [][Next]_vars

-----------------------------------------------------------------------------

\* The two tables agree, whatever is subscribed and unsubscribed in between
\* and in whatever order the channels are first seen: a channel's array holds
\* each subscription that matches it once, and no other (lcm.c:249-271,
\* 350-374).
ListsAgree ==
    \A c \in Channels : lists[c].known =>
        /\ IsInjective(Live(lists[c]))
        /\ ToSet(Live(lists[c])) = {h \in ToSet(all) : c \in Matches[h]}

Ends == Len(disp') < Len(disp)
LastCalled(f) == f.called[Len(f.called)]

\* What has happened to the subscriptions since the innermost dispatch began.
Subscribed == Top.upto < made
Unsubscribed == ~(ToSet(Top.todo) \cup (Top.upto + 1..made) \subseteq ToSet(all))

\* A message reaches the handlers there were when its dispatch began.  Unless
\* something is unsubscribed meanwhile, each exactly once, in the array's
\* order, whatever callbacks and other threads subscribe; unless something is
\* subscribed meanwhile, every one that is still there at the end, although
\* each removal moves another handler to a slot that may have been passed
\* already (lcm.c:400-414).  After a removal a handler may be called twice: it
\* may have been moved to a slot ahead of one it still stands in.
Reached ==
    [][Ends =>
         /\ ~Unsubscribed => Top.called = Top.todo
         /\ ~Subscribed => ToSet(Top.todo) \cap ToSet(all) \subseteq ToSet(Top.called)]_vars

\* "unregisters a message handler so that it will no longer be invoked"
\* (lcm.h:185): a handler that is called, even in the middle of a dispatch, is
\* still subscribed.  A dispatch looks whether the next one is marked, which a
\* subscription that was freed does not answer: that happens on the way to a
\* callback only if something was subscribed, or another dispatch ended, during
\* this one.  What is called behind such a use is undefined: a behaviour stops.
NotAfterUnsubscribe ==
    [][/\ disp' # <<>> /\ disp' # disp /\ ~Ends
            => LastCalled(disp'[Len(disp')]) \in ToSet(all)
       /\ broken' # broken /\ disp' = disp
            => Subscribed \/ ~Top.alone]_vars

\* No handler the loops still read is freed by an unsubscription, as long as
\* none is subscribed and no other dispatch ends meanwhile.
Kept == \A i \in 1..Top.n : TopSlots[i] \notin freed
KeptUnlessSubscribed == ~Quiet /\ ~Subscribed /\ Top.alone => Kept

-----------------------------------------------------------------------------
(* Statements of the source that the code does not keep.                   *)

\* lcm.c:395: "This guarantees that handlers 0-(nhandlers-1) will not be
\* destroyed during the callbacks.  Store nhandlers in a local variable so
\* that we don't iterate over handlers that are added during the callbacks."
DispatchGuarantee ==
    ~Quiet => Kept /\ \A i \in 1..Len(Top.called) : Top.called[i] <= Top.upto

=============================================================================
