------------------------------ MODULE MCLcmClient ------------------------------
(***************************************************************************)
(* Two parts of the library under a program, in one run: a behaviour has   *)
(* one of them.                                                            *)
(*   dispatch  subscriptions and dispatches (MCLcmDispatch);               *)
(*   tcpq      two clients of the TCP server, one of which subscribes.     *)
(***************************************************************************)
EXTENDS MCLcmDispatch, LcmTcpq, TLC

CONSTANTS subscriber, publisher

VARIABLE provider

MCSubscriptions == subscriber :> 2 @@ publisher :> 0
MCPublished == subscriber :> 0 @@ publisher :> 2

ClientInit == provider \in {"dispatch", "tcpq"} /\ Init /\ TcpqInit

ClientNext ==
    /\ UNCHANGED provider
    /\ \/ provider = "dispatch" /\ Next /\ UNCHANGED tcpqVars
       \/ provider = "tcpq" /\ TcpqNext /\ UNCHANGED vars

ClientSpec == ClientInit /\ [][ClientNext]_<<provider, vars, tcpqVars>>

MCSymmetry == Permutations(Topics)
=============================================================================
