----------------------------- MODULE MCLcmDispatch -----------------------------
(***************************************************************************)
(* Instances of LcmDispatch: patterns that match one channel, the other,   *)
(* or both.                                                                *)
(***************************************************************************)
EXTENDS LcmDispatch

MCMatches == [h \in 1..MaxSubs |-> IF h = 3 THEN {"a", "b"} ELSE {"a"}]
=============================================================================
