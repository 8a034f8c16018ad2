--------------------------- MODULE MCLcmFragments ---------------------------
(***************************************************************************)
(* Two threads publish on one lcm_t and two on others; datagrams of three  *)
(* bytes, and a channel name of two.                                       *)
(***************************************************************************)
EXTENDS LcmFragments

CONSTANTS t1, t2, t3, t4, s1, s2, s3

MCSourceOf == t1 :> s1 @@ t2 :> s1 @@ t3 :> s2 @@ t4 :> s3

\* Messages of one, of two and of three fragments.  A buffer of two bytes leaves
\* the table with room for another; then both may have to go for a third.
MCSizes == [t \in Threads |-> IF t \in {t1, t2} THEN {5} ELSE {1, 2, 3}]

\* The threads of the shared lcm_t may be swapped, and so may the others
\* together with their sources: SourceOf stays as it is.
Same == t1 :> t1 @@ t2 :> t2
Swap == t1 :> t2 @@ t2 :> t1
Others == t3 :> t3 @@ t4 :> t4 @@ s2 :> s2 @@ s3 :> s3
SwapOthers == t3 :> t4 @@ t4 :> t3 @@ s2 :> s3 @@ s3 :> s2

Symmetry == {f @@ g : f \in {Same, Swap}, g \in {Others, SwapOthers}}

=============================================================================
