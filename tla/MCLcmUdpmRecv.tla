---------------------------- MODULE MCLcmUdpmRecv ----------------------------
(***************************************************************************)
(* Instances of LcmUdpmRecv.  Bytes are counted in units of one record     *)
(* header: a datagram's record takes 4 units until it is shrunk to 1 to 4, *)
(* and a ring of 9 units holds two of them and wraps, as the 200 kB ring   *)
(* of the code holds three 64 kB records.                                  *)
(***************************************************************************)
EXTENDS LcmUdpmRecv, TLC

CONSTANTS b1, b2, b3

MCBufs == {b1, b2, b3}
Symmetry == Permutations(MCBufs)
=============================================================================
