----------------------------- MODULE SettingStore -----------------------------
(***************************************************************************)
(* What conftron's settings promise (README 3.4, 3.5 and 3.7): every       *)
(* setting starts with its default value; requests take effect one at a    *)
(* time in the order they were accepted; each is answered by one           *)
(* acknowledgement that carries the value it left behind, and nothing else *)
(* is.  The program that owns the structs may change them in between.      *)
(***************************************************************************)
EXTENDS Naturals, Sequences

CONSTANTS
    Settings, Requests, Structs,
    Unset,         \* the value of a setting before its default is set
    Default,
    Effect(_, _)   \* the value a request leaves behind, or Unset: it is fatal

VARIABLES
    value, queue,
    ack,           \* the last acknowledgement, and how many there were
    down           \* the program has ended

storeVars == <<value, queue, ack, down>>

StoreInit ==
    /\ value = [s \in Settings |-> Unset]
    /\ queue = <<>> /\ ack = [n |-> 0, of |-> Unset, value |-> Unset] /\ down = FALSE

Ack(s, v) == ack' = [n |-> ack.n + 1, of |-> s, value |-> v]

Start(s) ==
    /\ ~down /\ value[s] = Unset
    /\ value' = [value EXCEPT ![s] = Default]
    /\ Ack(s, Default)
    /\ UNCHANGED <<queue, down>>

Accept(r) ==
    /\ queue' = Append(queue, r)
    /\ UNCHANGED <<value, ack, down>>

Started == \A s \in Settings : value[s] # Unset

Serve ==
    /\ ~down /\ Started /\ queue # <<>>
    /\ queue' = Tail(queue)
    /\ LET r == Head(queue)
           v == Effect(r, value[r.of])
       IN  IF v = Unset
           THEN /\ down' = TRUE
                /\ UNCHANGED <<value, ack>>
           ELSE /\ value' = [value EXCEPT ![r.of] = v]
                /\ Ack(r.of, v)
                /\ UNCHANGED down

OwnChange(s, v) ==
    /\ ~down /\ value[s] # Unset
    /\ value' = [value EXCEPT ![s] = v]
    /\ UNCHANGED <<queue, ack, down>>

Fail ==
    /\ down' = TRUE
    /\ UNCHANGED <<value, queue, ack>>

StoreNext ==
    \/ \E s \in Settings : Start(s) \/ \E v \in Structs : OwnChange(s, v)
    \/ \E r \in Requests : Accept(r)
    \/ Serve \/ Fail

StoreSpec == StoreInit /\ [][StoreNext]_storeVars
=============================================================================
