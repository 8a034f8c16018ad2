------------------------------ MODULE LcmEmitC ------------------------------
(***************************************************************************)
(* The C code that lcm-gen writes for a type (src/upstream/lcmgen/emit_c.c)*)
(* over the inline functions for the primitive types                       *)
(* (lcm_coretypes.h, in src/upstream/lcm and, the same,                    *)
(* src/upstream/WinSpecific/include/lcm): fingerprint, encoding, decoding, *)
(* size, copies and the blocks of memory that a decoded struct consists of.*)
(*                                                                         *)
(* Encoding works on [buf, pos, err, junk]: the octets, how many have been *)
(* written, whether -1 was returned, and what is found in a variable that  *)
(* nothing was assigned to.  Decoding has the octets in buf, and the       *)
(* blocks it has asked malloc for in heap; a block is named by the path to *)
(* the pointer that holds it.                                              *)
(***************************************************************************)
EXTENDS LcmTypes

CWidth(type) ==
    CASE type \in {<<"byte">>, <<"int8_t">>, <<"boolean">>} -> 1
      [] type = <<"int16_t">> -> 2
      [] type \in {<<"int32_t">>, <<"float">>} -> 4
      [] type \in {<<"int64_t">>, <<"double">>} -> 8

(* Nothing is written unless all of it fits. *)
CPut(st, octets) ==
    IF st.err \/ Len(st.buf) - st.pos < Len(octets) THEN [st EXCEPT !.err = TRUE]
    ELSE [st EXCEPT !.pos = @ + Len(octets),
                    !.buf = [k \in DOMAIN @ |-> IF k \in st.pos + 1..st.pos + Len(octets)
                                                THEN octets[k - st.pos] ELSE @[k]]]

CEncodeInt8s(st, p) == CPut(st, [k \in DOMAIN p |-> p[k] % 256])
CEncodeInt16s(st, p) == CPut(st, FlattenSeq([k \in DOMAIN p |-> BigEndian(p[k], 2)]))
CEncodeInt32s(st, p) == CPut(st, FlattenSeq([k \in DOMAIN p |-> BigEndian(p[k], 4)]))
CEncodeInt64s(st, p) == CPut(st, FlattenSeq([k \in DOMAIN p |-> BigEndian(p[k], 8)]))

(* A string is its octets, which the tutorial says are UTF-8.  The length  *)
(* counts the 0 at the end.                                                *)
CEncodeStrings(st, p) ==
    FoldLeft(LAMBDA s, e : CEncodeInt8s(CEncodeInt32s(s, <<Len(Utf8(e)) + 1>>), Append(Utf8(e), 0)),
             st, p)

CEncodePrimitives(type, st, p) ==
    CASE type = <<"string">> -> CEncodeStrings(st, p)
      [] type # <<"string">> /\ CWidth(type) = 1 -> CEncodeInt8s(st, p)
      [] type # <<"string">> /\ CWidth(type) = 2 -> CEncodeInt16s(st, p)
      [] type # <<"string">> /\ CWidth(type) = 4 -> CEncodeInt32s(st, p)
      [] type # <<"string">> /\ CWidth(type) = 8 -> CEncodeInt64s(st, p)

(* What is returned is the length of the last element, not of all. *)
CEncodeEnums(st, p) ==
    LET w == FoldLeft(LAMBDA s, e : CEncodeInt32s(s, <<e>>), st, p)
    IN  IF w.err THEN w ELSE [w EXCEPT !.pos = st.pos + IF p = <<>> THEN st.junk ELSE 4]

(* The loops over all dimensions but the last: the rows of the last one.   *)
(* A member without dimensions is a row of one element.                    *)
RECURSIVE CRows(_, _, _, _)
CRows(m, s, v, d) ==
    IF m.dims = <<>> THEN << <<v>> >>
    ELSE IF d = Len(m.dims) THEN << SubSeq(v, 1, DimSize(s, m.dims[d])) >>
    ELSE FlattenSeq([i \in 1..DimSize(s, m.dims[d]) |-> CRows(m, s, v[i], d + 1)])

RECURSIVE CEncodeStruct(_, _, _)
CEncodeArray(type, st, p) ==
    IF type \in Primitives THEN CEncodePrimitives(type, st, p)
    ELSE IF IsEnum(type) THEN CEncodeEnums(st, p)
    ELSE FoldLeft(LAMBDA s, e : CEncodeStruct(type, s, e), st, p)

CEncodeStruct(type, st, value) ==
    LET Member(s, m) == FoldLeft(LAMBDA x, row : CEncodeArray(m.type, x, row), s,
                                 CRows(m, value, value[m.name], 1))
    IN  FoldLeft(Member, st, Members(type))
-----------------------------------------------------------------------------
CStringsSize(p) == FoldLeft(LAMBDA n, e : n + 4 + Len(Utf8(e)) + 1, 0, p)

RECURSIVE CStructSize(_, _)
CArraySize(type, p) ==
    IF type = <<"string">> THEN CStringsSize(p)
    ELSE IF type \in Primitives THEN CWidth(type) * Len(p)
    ELSE IF IsEnum(type) THEN 4 * Len(p)
    ELSE FoldLeft(LAMBDA n, e : n + CStructSize(type, e), 0, p)

CStructSize(type, value) ==
    LET Member(n, m) == FoldLeft(LAMBDA x, row : x + CArraySize(m.type, row), n,
                                 CRows(m, value, value[m.name], 1))
    IN  FoldLeft(Member, 0, Members(type))

CEncodedSize(type, value) == 8 + CStructSize(type, value)

(* A type that contains itself adds nothing the second time. *)
RECURSIVE CHashRecursive(_, _)
CHashRecursive(type, parents) ==
    IF type \in Primitives \/ type \in parents THEN Zero
    ELSE IF IsEnum(type) THEN EnumHash(type)
    ELSE LET ms == Members(type)
         IN  Rotated(StructHash(type),
                     [k \in DOMAIN ms |-> CHashRecursive(ms[k].type, parents \union {type})])

CGetHash(type) == CHashRecursive(type, {})

(* The fingerprint stands for its eight octets. *)
CEncode(type, value, max, junk) ==
    IF max < 8 THEN [err |-> TRUE]
    ELSE LET st == CEncodeStruct(type, [buf |-> [k \in 1..max - 8 |-> 0], pos |-> 0,
                                        err |-> FALSE, junk |-> junk], value)
         IN  IF st.err THEN [err |-> TRUE]
             ELSE [err |-> FALSE, hash |-> CGetHash(type), octets |-> SubSeq(st.buf, 1, st.pos)]

(* T_publish: the buffer has the computed size. *)
CPublish(type, value, junk) == CEncode(type, value, CEncodedSize(type, value), junk)
-----------------------------------------------------------------------------
(* Decoding returns where it is, with what was decoded in val. *)
CFail(st) == [st EXCEPT !.err = TRUE, !.val = <<>>]

CGet(st, width, count) ==
    IF st.err \/ Len(st.buf) - st.pos < width * count THEN CFail(st)
    ELSE [st EXCEPT !.pos = @ + width * count,
                    !.val = [k \in 1..count |-> SubSeq(st.buf, st.pos + width * (k - 1) + 1,
                                                                st.pos + width * k)]]

CSigned(st) == [st EXCEPT !.val = [k \in DOMAIN @ |-> Signed(@[k])]]
COnlyElement(st) == IF st.err THEN st ELSE [st EXCEPT !.val = @[1]]

CDecodeBytes(st, count) == LET r == CGet(st, 1, count) IN [r EXCEPT !.val = FlattenSeq(@)]
CDecodeInt8s(st, count) == CSigned(CGet(st, 1, count))
CDecodeInt16s(st, count) == CSigned(CGet(st, 2, count))
CDecodeInt32s(st, count) == CSigned(CGet(st, 4, count))
CDecodeInt64s(st, count) == CSigned(CGet(st, 8, count))

CMalloc(st, size, path) == IF size = 0 THEN st ELSE [st EXCEPT !.heap = Append(@, path)]

(* No character: what octets that are no UTF-8 are to who takes them for it. *)
Malformed == -1

CString(st) ==
    IF st.err THEN st
    ELSE [st EXCEPT !.val = IF IsUtf8(Front(@)) THEN FromUtf8(Front(@)) ELSE <<Malformed>>]

CDecodeString(st, path) ==
    LET length == CDecodeInt32s(st, 1)
    IN  IF length.err THEN length
        ELSE CString(CDecodeBytes(CMalloc(length, 1, path), length.val[1]))

CDecodePrimitives(type, st, count) ==
    CASE type = <<"byte">> -> CDecodeBytes(st, count)
      [] type # <<"byte">> /\ CWidth(type) = 1 -> CDecodeInt8s(st, count)
      [] CWidth(type) = 2 -> CDecodeInt16s(st, count)
      [] CWidth(type) = 4 -> CDecodeInt32s(st, count)
      [] CWidth(type) = 8 -> CDecodeInt64s(st, count)

(* Here too the length that is returned is that of the last element. *)
CDecodeEnums(st, count) ==
    LET r == CDecodeInt32s(st, count)
    IN  IF r.err THEN r ELSE [r EXCEPT !.pos = st.pos + IF count = 0 THEN st.junk ELSE 4]

RECURSIVE CDecodeStruct(_, _, _)
CDecodeArray(type, st, count, path) ==
    LET One(s, k) == IF type = <<"string">> THEN CDecodeString(s, Append(path, k))
                     ELSE CDecodeStruct(type, s, Append(path, k))
        Next(r, k) == IF r.err THEN r ELSE [One(r, k) EXCEPT !.val = Append(r.val, @)]
    IN  IF type \in Primitives \ {<<"string">>} THEN CDecodePrimitives(type, st, count)
        ELSE IF IsEnum(type) THEN CDecodeEnums(st, count)
        ELSE FoldLeft(Next, [st EXCEPT !.val = <<>>], Upto(count))

(* The loops of a member, which ask for the memory of a variable array.    *)
RECURSIVE CDecodeRows(_, _, _, _, _)
CDecodeRows(m, s, st, path, d) ==
    LET size == DimSize(s, m.dims[d])
        st1 == IF IsConstantSizeArray(m) THEN st ELSE CMalloc(st, size, path)
        Next(r, k) ==
            IF r.err THEN r
            ELSE [CDecodeRows(m, s, r, Append(path, k), d + 1) EXCEPT !.val = Append(r.val, @)]
    IN  IF m.dims = <<>> THEN COnlyElement(CDecodeArray(m.type, st, 1, path))
        ELSE IF d = Len(m.dims) THEN CDecodeArray(m.type, st1, size, path)
        ELSE FoldLeft(Next, [st1 EXCEPT !.val = <<>>], Upto(size))

CDecodeStruct(type, st, path) ==
    LET Set(val, name, x) == [n \in DOMAIN val \union {name} |-> IF n = name THEN x ELSE val[n]]
        Member(r, m) ==
            IF r.err THEN r
            ELSE [CDecodeRows(m, r.val, r, Append(path, m.name), 1)
                    EXCEPT !.val = Set(r.val, m.name, @)]
    IN  FoldLeft(Member, [st EXCEPT !.val = <<>>], Members(type))

CDecode(type, wire, junk) ==
    LET st == [buf |-> wire.octets, pos |-> 0, err |-> FALSE, junk |-> junk, heap |-> <<>>,
               val |-> <<>>]
    IN  IF wire.hash # CGetHash(type) THEN CFail(st) ELSE CDecodeStruct(type, st, <<>>)
-----------------------------------------------------------------------------
(* Mutant: the rows are not freed. *)
CFreeOutermost(m, s, path, d) ==
    IF DimSize(s, m.dims[d]) = 0 THEN <<>> ELSE <<path>>

(* The blocks that the loops of a member free, the innermost first. *)
RECURSIVE CFreeRows(_, _, _, _)
CFreeRows(m, s, path, d) ==
    LET size == DimSize(s, m.dims[d])
    IN  (IF d = Len(m.dims) THEN <<>>
         ELSE FlattenSeq([k \in 1..size |-> CFreeRows(m, s, Append(path, k), d + 1)]))
        \o (IF size = 0 THEN <<>> ELSE <<path>>)

(* The paths to the elements of a member, and the elements. *)
RECURSIVE CElements(_, _, _, _, _)
CElements(m, s, v, path, d) ==
    IF d > Len(m.dims) THEN << <<IF m.dims = <<>> THEN Append(path, 1) ELSE path, v>> >>
    ELSE FlattenSeq([k \in 1..DimSize(s, m.dims[d]) |->
                        CElements(m, s, v[k], Append(path, k), d + 1)])

(* decode_array_cleanup: what the elements own, then the arrays. *)
RECURSIVE CCleanup(_, _, _)
CCleanup(type, value, path) ==
    LET Element(m, e) == IF m.type = <<"string">> THEN <<e[1]>>
                         ELSE IF m.type \in Primitives \/ IsEnum(m.type) THEN <<>>
                         ELSE CCleanup(m.type, e[2], e[1])
        Owned(m) == LET es == CElements(m, value, value[m.name], Append(path, m.name), 1)
                    IN  FlattenSeq([k \in DOMAIN es |-> Element(m, es[k])])
        Arrays(m) == IF IsConstantSizeArray(m) THEN <<>>
                     ELSE CFreeRows(m, value, Append(path, m.name), 1)
        ms == Members(type)
    IN  FlattenSeq([k \in DOMAIN ms |-> Owned(ms[k]) \o Arrays(ms[k])])

(* clone_array asks for the arrays of the copy, then copies the elements.  *)
RECURSIVE CCloneRows(_, _, _, _)
CCloneRows(m, s, path, d) ==
    LET size == DimSize(s, m.dims[d])
    IN  (IF size = 0 THEN <<>> ELSE <<path>>)
        \o (IF d = Len(m.dims) THEN <<>>
            ELSE FlattenSeq([k \in 1..size |-> CCloneRows(m, s, Append(path, k), d + 1)]))

RECURSIVE CClone(_, _, _)
CClone(type, value, path) ==
    LET Element(m, e) == IF m.type = <<"string">> THEN <<e[1]>>
                         ELSE IF m.type \in Primitives \/ IsEnum(m.type) THEN <<>>
                         ELSE CClone(m.type, e[2], e[1])
        Owned(m) == LET es == CElements(m, value, value[m.name], Append(path, m.name), 1)
                    IN  FlattenSeq([k \in DOMAIN es |-> Element(m, es[k])])
        Arrays(m) == IF IsConstantSizeArray(m) THEN <<>>
                     ELSE CCloneRows(m, value, Append(path, m.name), 1)
        ms == Members(type)
    IN  FlattenSeq([k \in DOMAIN ms |-> Arrays(ms[k]) \o Owned(ms[k])])

(* T_copy and T_destroy add the struct itself. *)
CCopy(type, value) == << <<>> >> \o CClone(type, value, <<>>)
CDestroy(type, value) == CCleanup(type, value, <<>>) \o << <<>> >>
=============================================================================
