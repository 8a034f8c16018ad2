------------------------------ MODULE SettingsApp ------------------------------
(***************************************************************************)
(* The threads of apps/settings_app.py.  wxWidgets may be used by the GUI  *)
(* thread only, so that LcmListener watches the LCM descriptor, has the    *)
(* GUI thread call lc.handle (wx.CallAfter), and waits for lc_event until  *)
(* it has been done.  The event is set by TextSliderGroup.lc_handler, the  *)
(* subscriber of the acknowledgement channels.                             *)
(*                                                                         *)
(* The LCM receiver is a mailbox (LcmMailbox).  What matters of a message  *)
(* is what its dispatch does:                                              *)
(*   shown   lc_handler decodes it and updates the page;                   *)
(*   raising lc_handler raises: the bytes do not decode, or an enum value  *)
(*           is not in the list of names;                                  *)
(*   stray   no handler is subscribed any more: a self-test message of     *)
(*           this or another process, queued while udpm_self_test had its  *)
(*           own handler subscribed.                                       *)
(***************************************************************************)
EXTENDS Integers, Sequences

CONSTANT MaxMessages     \* bound: messages accepted in a behaviour

ASSUME AppAssumption == MaxMessages \in Nat

Kinds == {"shown", "raising", "stray"}

VARIABLES
    mailbox,       \* accepted messages, oldest first
    lpc,         \* where LcmListener.run is
    event,       \* lc_event
    posted,      \* lc.handle calls in the GUI thread's queue
    gpc,         \* where the GUI thread is
    arrived,     \* messages accepted so far
    handled,     \* history: messages dispatched so far
    unseen       \* history: one of them did not reach the end of lc_handler

appVars == <<mailbox, lpc, event, posted, gpc, arrived, handled, unseen>>

AppInit ==
    /\ mailbox = <<>> /\ arrived = 0 /\ handled = 0
    /\ lpc = "select" /\ event = FALSE
    /\ posted = 0 /\ gpc = "loop" /\ unseen = FALSE

AppArrive ==
    /\ arrived < MaxMessages
    /\ \E k \in Kinds : mailbox' = Append(mailbox, k)
    /\ arrived' = arrived + 1
    /\ UNCHANGED <<lpc, event, posted, gpc, handled, unseen>>

-----------------------------------------------------------------------------
(* LcmListener.run                                                         *)

Select ==
    /\ lpc = "select" /\ mailbox # <<>>
    /\ lpc' = "clear"
    /\ UNCHANGED <<mailbox, event, posted, gpc, arrived, handled, unseen>>

\* Mutant: the event is not cleared.
ClearNothing ==
    /\ lpc = "clear"
    /\ lpc' = "post"
    /\ UNCHANGED <<mailbox, event, posted, gpc, arrived, handled, unseen>>

Clear ==
    /\ lpc = "clear"
    /\ event' = FALSE
    /\ lpc' = "post"
    /\ UNCHANGED <<mailbox, posted, gpc, arrived, handled, unseen>>

\* Mutant: the event is cleared after the call has been posted.
CallAfterThenClear ==
    /\ \/ lpc = "post" /\ posted' = posted + 1 /\ lpc' = "clear again" /\ UNCHANGED event
       \/ lpc = "clear again" /\ event' = FALSE /\ lpc' = "wait" /\ UNCHANGED posted
    /\ UNCHANGED <<mailbox, gpc, arrived, handled, unseen>>

\* wx.CallAfter(self.lc.handle)
CallAfter ==
    /\ lpc = "post"
    /\ posted' = posted + 1
    /\ lpc' = "wait"
    /\ UNCHANGED <<mailbox, event, gpc, arrived, handled, unseen>>

Wait ==
    /\ lpc = "wait" /\ event
    /\ lpc' = "select"
    /\ UNCHANGED <<mailbox, event, posted, gpc, arrived, handled, unseen>>

-----------------------------------------------------------------------------
(* The GUI thread: wx's main loop, and the calls posted to it.             *)

BeginCall ==
    /\ gpc = "loop" /\ posted > 0
    /\ posted' = posted - 1
    /\ gpc' = "handle"
    /\ UNCHANGED <<mailbox, lpc, event, arrived, handled, unseen>>

\* lc.handle: blocks until there is a message and dispatches it.  An exception
\* of the handler leaves handle and ends in wx's main loop.
LcHandle ==
    /\ gpc = "handle" /\ mailbox # <<>>
    /\ mailbox' = Tail(mailbox)
    /\ event' = (event \/ Head(mailbox) = "shown")
    /\ handled' = handled + 1
    /\ unseen' = (unseen \/ Head(mailbox) # "shown")
    /\ gpc' = "loop"
    /\ UNCHANGED <<lpc, posted, arrived>>

Listener == Select \/ Clear \/ CallAfter \/ Wait
Gui == BeginCall \/ LcHandle

AppNext == AppArrive \/ Listener \/ Gui

AppSpec == AppInit /\ [][AppNext]_appVars

(* Both threads run.  Nothing is assumed of the network.                   *)
AppFairSpec == AppSpec /\ WF_appVars(Listener) /\ WF_appVars(Gui)

-----------------------------------------------------------------------------
AppTypeOK ==
    /\ mailbox \in Seq(Kinds)
    /\ lpc \in {"select", "clear", "post", "wait"}
    /\ event \in BOOLEAN /\ posted \in Nat
    /\ gpc \in {"loop", "handle"}
    /\ arrived \in 0..MaxMessages /\ handled \in 0..arrived /\ unseen \in BOOLEAN
    /\ Len(mailbox) = arrived - handled

Pending == posted + (IF gpc = "handle" THEN 1 ELSE 0)

\* The handshake: at most one lc.handle is under way, and only while the
\* listener waits for it, an event it finds set comes from that call and not from
\* an earlier one, and the GUI never blocks: the message the listener saw is still
\* there when the call is made (settings_app.py:48-54, 85-86).
Handshake ==
    /\ Pending <= 1
    /\ Pending = 1 => lpc = "wait" /\ ~event /\ mailbox # <<>>

\* Every message is dispatched in the end, unless one did not reach the end
\* of lc_handler: no set of the event is lost and no other wait is in vain.
AllHandled ==
    \A n \in 1..MaxMessages : (arrived >= n) ~> (handled >= n \/ unseen)

=============================================================================
