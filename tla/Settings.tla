------------------------------- MODULE Settings -------------------------------
(***************************************************************************)
(* A program with conftron settings: the code that settings.py generates   *)
(* from settings_templates.py for the settings of one class, lcm_check of  *)
(* lcm_interface.c, and the main loop of conftron_example/test.c.          *)
(*                                                                         *)
(* The program has one thread of its own.  Its LCM receiver is a mailbox   *)
(* (LcmMailbox, which LcmUdpmRecv implements): messages on subscribed      *)
(* channels are accepted at any time and read by lcm_handle, one a call.   *)
(* Each class has an lcm_t of its own, and settings_check calls lcm_check  *)
(* for each in turn, so that one class shows what there is to see.         *)
(***************************************************************************)
EXTENDS Integers, Sequences

CONSTANTS
    Decl,        \* the settings of the class in the order of the XML file
    Custom,      \* those with a channel attribute
    Fields, Enums, \* the fields of their struct; those of an enum type
    Lo, Hi, Dflt,  \* min, max and default of each field
    Bodies,      \* structs a message may carry or the program may store
    NaN,         \* a floating-point value that no comparison holds of
    MaxMsgs,     \* MAX_MSGS
    MaxArrivals, \* bound: messages accepted in a behaviour
    Off          \* no struct

Settings == {Decl[i] : i \in 1..Len(Decl)}
Numbers == UNION ({{b[f] : f \in Fields} : b \in Bodies}
                    \cup {{Lo[f], Hi[f], Dflt[f]} : f \in Fields})
Structs == [Fields -> Numbers]

ASSUME SettingsAssumption ==
    /\ Len(Decl) \in Nat
    /\ \A i, j \in 1..Len(Decl) : Decl[i] = Decl[j] => i = j
    /\ Bodies \cup {Dflt} \subseteq Structs /\ Off \notin Structs
    /\ Custom \subseteq Settings /\ Enums \subseteq Fields
    /\ Numbers \subseteq Int \cup {NaN}
    /\ MaxMsgs \in Nat \ {0} /\ MaxArrivals \in Nat

\* LCMSettingField._are_defaults_sane: what the generator accepts.  The
\* bounds of an enum are 0 and the number of its values less one.
ASSUME SaneAssumption ==
    \A f \in Fields : /\ {Lo[f], Hi[f], Dflt[f]} \subseteq Int \ {NaN}
                      /\ Lo[f] <= Dflt[f] /\ Dflt[f] <= Hi[f]
                      /\ f \in Enums => Lo[f] = 0

VARIABLES
    pc,          \* where the program's thread is
    next,        \* the setting whose init or null call is next
    value,       \* the structs
    subs,        \* the channels subscribed to: <<setting, handler>>
    inbox,       \* accepted messages, oldest first
    iters, more, \* lcm_check's iters, and whether its last selectres was > 0
    ack,         \* history: the last acknowledgement, and how many there were
    arrivals     \* messages accepted so far

vars == <<pc, next, value, subs, inbox, iters, more, ack, arrivals>>

Init ==
    /\ pc = "init" /\ next = 1
    /\ value = [s \in Settings |-> Off] /\ subs = {}
    /\ inbox = <<>> /\ iters = 0 /\ more = FALSE
    /\ ack = [n |-> 0, of |-> Off, value |-> Off] /\ arrivals = 0

Ack(s, v) == ack' = [n |-> ack.n + 1, of |-> s, value |-> v]

-----------------------------------------------------------------------------
(* <class>_settings_init: every setting's init call, then every setter     *)
(* with a NULL message.                                                    *)

\* lcm_create fails: lcm_initialize says so and passes the NULL pointer on to
\* lcm_get_fileno, which reads through it.
CreateFails ==
    /\ pc = "init" /\ next = 1
    /\ pc' = "down"
    /\ UNCHANGED <<next, value, subs, inbox, iters, more, ack, arrivals>>

\* A setting with a channel of its own has a setter only.
InitCall ==
    /\ pc = "init" /\ next <= Len(Decl)
    /\ subs' = subs \cup (IF Decl[next] \in Custom THEN {<<Decl[next], "custom">>}
                          ELSE {Decl[next]} \X {"set", "reset", "query"})
    /\ next' = next + 1
    /\ UNCHANGED <<pc, value, inbox, iters, more, ack, arrivals>>

InitsDone ==
    /\ pc = "init" /\ next > Len(Decl)
    /\ pc' = "null" /\ next' = 1
    /\ UNCHANGED <<value, subs, inbox, iters, more, ack, arrivals>>

\* <class>_<varname>_setter(NULL, NULL, NULL, NULL)
NullCall ==
    /\ pc = "null" /\ next <= Len(Decl)
    /\ value' = [value EXCEPT ![Decl[next]] = Dflt]
    /\ Ack(Decl[next], Dflt)
    /\ next' = next + 1
    /\ UNCHANGED <<pc, subs, inbox, iters, more, arrivals>>

NullsDone ==
    /\ pc = "null" /\ next > Len(Decl)
    /\ pc' = "main"
    /\ UNCHANGED <<next, value, subs, inbox, iters, more, ack, arrivals>>

-----------------------------------------------------------------------------
(* The receiver thread: a message on a subscribed channel is accepted.     *)
(* Resetter and query do not look at the body.                             *)

Arrive ==
    /\ pc # "down" /\ arrivals < MaxArrivals
    /\ \E c \in subs, v \in Bodies \cup {Off} :
        /\ v = Off <=> c[2] \in {"reset", "query"}
        /\ inbox' = Append(inbox, [of |-> c[1], op |-> c[2], body |-> v,
                                  id |-> arrivals + 1])
    /\ arrivals' = arrivals + 1
    /\ UNCHANGED <<pc, next, value, subs, iters, more, ack>>

-----------------------------------------------------------------------------
(* The setter, resetter and query handlers.                                *)

Below(a, b) == a # NaN /\ b # NaN /\ a < b

\* Mutant: only the upper bound is applied.
ClampedAbove(f, v) == IF Below(Hi[f], v) THEN Hi[f] ELSE v

Clamped(f, v) ==
    IF Below(Hi[f], v) THEN Hi[f] ELSE IF Below(v, Lo[f]) THEN Lo[f] ELSE v

\* An enum value out of bounds ends the process: exit(1).
Fatal(v) == \E f \in Enums : Below(Hi[f], v[f]) \/ Below(v[f], Lo[f])

\* The struct a message leaves behind.
Effect(m, old) ==
    CASE m.op = "query" -> old
      [] m.op = "reset" -> Dflt
      [] m.op \in {"set", "custom"} ->
            IF Fatal(m.body) THEN Off
            ELSE [f \in Fields |-> IF f \in Enums THEN m.body[f]
                                   ELSE Clamped(f, m.body[f])]

-----------------------------------------------------------------------------
(* The main loop.                                                          *)

\* The program changes its own structs (test_module_report).
OwnChange ==
    /\ pc = "main"
    /\ \E s \in Settings, v \in Bodies : value' = [value EXCEPT ![s] = v]
    /\ UNCHANGED <<pc, next, subs, inbox, iters, more, ack, arrivals>>

\* settings_check() -> lcm_check
Check ==
    /\ pc = "main"
    /\ pc' = "select" /\ iters' = 0
    /\ UNCHANGED <<next, value, subs, inbox, more, ack, arrivals>>

\* Mutant: the descriptor of another class is selected on.
SelectOtherClass ==
    /\ pc = "select"
    /\ pc' = "main"
    /\ UNCHANGED <<next, value, subs, inbox, iters, more, ack, arrivals>>

SelectReady ==
    /\ pc = "select" /\ inbox # <<>>
    /\ pc' = "handle" /\ more' = TRUE
    /\ UNCHANGED <<next, value, subs, inbox, iters, ack, arrivals>>

SelectTimeout ==
    /\ pc = "select" /\ inbox = <<>>
    /\ pc' = "main" /\ more' = FALSE
    /\ UNCHANGED <<next, value, subs, inbox, iters, ack, arrivals>>

\* select is interrupted with nothing to read: it fails and leaves the set as
\* it was, with fd in it.
SelectInterrupted ==
    /\ pc = "select" /\ inbox = <<>>
    /\ pc' = "handle" /\ more' = FALSE
    /\ UNCHANGED <<next, value, subs, inbox, iters, ack, arrivals>>

\* (selectres > 0) && (++iters < MAX_MSGS)
Again == more /\ iters + 1 < MaxMsgs

\* Mutant: the handlers do not answer.
HandleUnanswered ==
    /\ pc = "handle" /\ inbox # <<>>
    /\ inbox' = Tail(inbox)
    /\ LET m == Head(inbox)
           v == Effect(m, value[m.of])
       IN  IF v = Off
           THEN pc' = "down" /\ UNCHANGED <<iters, value, ack>>
           ELSE /\ value' = [value EXCEPT ![m.of] = v]
                /\ UNCHANGED ack
                /\ iters' = iters + 1
                /\ pc' = IF Again THEN "select" ELSE "main"
    /\ UNCHANGED <<next, subs, more, arrivals>>

\* lcm_handle blocks until there is a message, and runs its handler.
Handle ==
    /\ pc = "handle" /\ inbox # <<>>
    /\ inbox' = Tail(inbox)
    /\ LET m == Head(inbox)
           v == Effect(m, value[m.of])
       IN  IF v = Off
           THEN pc' = "down" /\ UNCHANGED <<iters, value, ack>>
           ELSE /\ value' = [value EXCEPT ![m.of] = v]
                /\ Ack(m.of, v)
                /\ iters' = iters + 1
                /\ pc' = IF Again THEN "select" ELSE "main"
    /\ UNCHANGED <<next, subs, more, arrivals>>

-----------------------------------------------------------------------------
Startup == CreateFails \/ InitCall \/ InitsDone \/ NullCall \/ NullsDone
LcmCheck == SelectReady \/ SelectTimeout \/ SelectInterrupted \/ Handle

Next == Startup \/ Arrive \/ OwnChange \/ Check \/ LcmCheck

Spec == Init /\ [][Next]_vars

(* The program's thread runs, and its main loop calls settings_check again *)
(* and again.  Nothing is assumed of the network.                          *)
FairSpec ==
    Spec /\ WF_vars(Startup) /\ WF_vars(Check) /\ WF_vars(LcmCheck)

-----------------------------------------------------------------------------
Message == [of : Settings, op : {"set", "reset", "query", "custom"},
            body : Bodies \cup {Off}, id : 1..MaxArrivals]

\* Whatever a setting message carries, it leaves the struct within the bounds
\* of the XML file, except that a NaN passes both comparisons; a value the
\* program itself stores there is not changed by a query.
WithinBounds(v) ==
    \A f \in Fields : v[f] = NaN \/ (Lo[f] <= v[f] /\ v[f] <= Hi[f])

BoundsKept ==
    [][\A s \in Settings : value'[s] # value[s] /\ pc = "handle"
          => WithinBounds(value'[s])]_vars

\* The settings are a store: defaults first, then every accepted request once,
\* in order, each confirmed with the value it left, however init, arrivals and
\* checks interleave and whatever is left for the next check.
Store == INSTANCE SettingStore
           WITH Requests <- Message, Structs <- Bodies, Unset <- Off, Default <- Dflt,
                queue <- inbox, down <- pc = "down"
IsStore == Store!StoreSpec

\* An accepted message is eventually handled, in this check or a later one,
\* unless the process has ended.
EventuallyHandled ==
    \A n \in 1..MaxArrivals :
        (arrivals >= n)
            ~> (pc = "down" \/ \A k \in 1..Len(inbox) : inbox[k].id # n)

=============================================================================
