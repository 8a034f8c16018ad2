------------------------------ MODULE LcmTypes ------------------------------
(***************************************************************************)
(* What all emitters of lcm-gen share: the types that were read, and what  *)
(* of a type enters its fingerprint (src/upstream/lcmgen/lcmgen.c).        *)
(*                                                                         *)
(* The value of a struct is a function of the names of its members, that   *)
(* of an array a sequence (of sequences), of a string its characters'      *)
(* codes (bound: below 2^16, and none is 0), and of a number, a boolean or *)
(* an enum an integer.                                                     *)
(***************************************************************************)
EXTENDS LcmGen

Names(defs) == {defs[k].name : k \in DOMAIN defs}
IsEnum(name) == name \in Names(enums)
StructNames == Names(structs)
Members(name) == structs[CHOOSE k \in DOMAIN structs : structs[k].name = name].members

DimSize(value, dim) == IF dim.const THEN Number(dim.size) ELSE value[dim.size]

IsConstantSizeArray(m) == \A d \in DOMAIN m.dims : m.dims[d].const

Upto(n) == [i \in 1..n |-> i]

(* The octets of an integer, the most significant first. *)
BigEndian(v, width) ==
    LET shifted[k \in 0..width - 1] == IF k = 0 THEN v ELSE shifted[k - 1] \div 256
    IN  [i \in 1..width |-> shifted[width - i] % 256]

Signed(octets) ==
    LET first == IF octets[1] >= 128 THEN octets[1] - 256 ELSE octets[1]
    IN  FoldLeft(LAMBDA v, o : 256 * v + o, first, Tail(octets))

(* The octets of a string in UTF-8. *)
Utf8(string) ==
    LET Octets(c) == CASE c < 128 -> <<c>>
                       [] c \in 128..2047 -> <<192 + c \div 64, 128 + (c % 64)>>
                       [] c > 2047 -> <<224 + c \div 4096, 128 + ((c \div 64) % 64), 128 + (c % 64)>>
    IN  FlattenSeq([k \in DOMAIN string |-> Octets(string[k])])

(* The string of some octets, and whether they are UTF-8 at all. *)
FromUtf8(octets) ==
    LET starts == SelectSeq(Upto(Len(octets)), LAMBDA k : octets[k] \notin 128..191)
        End(i) == IF i = Len(starts) THEN Len(octets) ELSE starts[i + 1] - 1
        Bits(o) == CASE o < 128 -> o
                     [] o \in 128..191 -> o - 128
                     [] o \in 192..223 -> o - 192
                     [] o > 223 -> o - 224
    IN  [i \in DOMAIN starts |->
            FoldLeft(LAMBDA c, o : 64 * c + Bits(o), 0, SubSeq(octets, starts[i], End(i)))]

IsUtf8(octets) == Utf8(FromUtf8(octets)) = octets
-----------------------------------------------------------------------------
(***************************************************************************)
(* A fingerprint is a number of 64 bits.  hash_update makes it from the    *)
(* strings it is given; here it is what it is made from, so that two are   *)
(* equal only if the code cannot tell what they were made from: the types  *)
(* of the members are added, and addition forgets the order.               *)
(***************************************************************************)
Zero == [tag |-> "zero", fed |-> <<>>, added |-> <<>>]

(* lcm_struct_hash: the name of the struct does not enter it, nor those of *)
(* the types of its members, unless they are primitive.                    *)
StructHash(name) ==
    LET ms == Members(name)
        Fed(m) == <<m.name, IF m.type \in Primitives THEN m.type ELSE <<>>,
                    [d \in DOMAIN m.dims |-> <<m.dims[d].const, m.dims[d].size>>]>>
    IN  [k \in DOMAIN ms |-> Fed(ms[k])]

(* lcm_enum_hash: the name without the package; values may be added. *)
EnumHash(name) == [tag |-> "enum", fed |-> <<Shortname(name)>>, added |-> <<>>]

(* The struct's own hash and those of the members, added and rotated. *)
Rotated(own, hashes) ==
    LET kept == {k \in DOMAIN hashes : hashes[k] # Zero}
    IN  [tag |-> "struct", fed |-> own,
         added |-> [h \in {hashes[k] : k \in kept} |->
                        Cardinality({k \in kept : hashes[k] = h})]]
=============================================================================
