------------------------------ MODULE LcmMailbox ------------------------------
(***************************************************************************)
(* What a program sees of an LCM receiver through lcm_get_fileno and       *)
(* lcm_handle (upstream/lcm/lcm.h): accepted messages wait in arrival      *)
(* order; the file descriptor is readable while one waits; a call of       *)
(* lcm_handle that has consumed the readiness delivers the oldest, once.   *)
(* There is no step in which such a call finds nothing.                    *)
(***************************************************************************)
EXTENDS Integers, Sequences

CONSTANT Messages    \* natural numbers, in arrival order

VARIABLES
    pending,     \* accepted and not yet delivered
    ready,       \* 1 while the descriptor is readable
    claimed,     \* a caller has consumed the readiness and not delivered yet
    delivered    \* the messages delivered, in order

boxVars == <<pending, ready, claimed, delivered>>

BoxInit ==
    pending = <<>> /\ ready = 0 /\ claimed = FALSE /\ delivered = <<>>

\* Messages are accepted in the order they arrived; arrivals that are not
\* accepted are lost without a trace.
Newer(m) ==
    /\ \A i \in 1..Len(pending) : pending[i] < m
    /\ \A i \in 1..Len(delivered) : delivered[i] < m

Accept(m) ==
    /\ Newer(m)
    /\ pending' = Append(pending, m)
    /\ ready' = IF pending = <<>> THEN 1 ELSE ready
    /\ UNCHANGED <<claimed, delivered>>

Claim ==
    /\ ready = 1 /\ ~claimed
    /\ ready' = 0 /\ claimed' = TRUE
    /\ UNCHANGED <<pending, delivered>>

Deliver ==
    /\ claimed /\ pending # <<>>
    /\ delivered' = Append(delivered, pending[1])
    /\ pending' = Tail(pending)
    /\ claimed' = FALSE
    /\ ready' = IF Tail(pending) = <<>> THEN 0 ELSE 1

BoxNext == (\E m \in Messages : Accept(m)) \/ Claim \/ Deliver

BoxSpec == BoxInit /\ [][BoxNext]_boxVars

=============================================================================
