---------------------------- MODULE LcmEmitJava ----------------------------
(***************************************************************************)
(* The Java class that lcm-gen writes for a type                           *)
(* (src/upstream/lcmgen/emit_java.c), over DataOutput and DataInput of the *)
(* Java library, which write and read integers the high octet first.       *)
(***************************************************************************)
EXTENDS LcmTypes

JavaWidth(type) ==
    CASE type \in {<<"byte">>, <<"int8_t">>, <<"boolean">>} -> 1
      [] type = <<"int16_t">> -> 2
      [] type \in {<<"int32_t">>, <<"float">>} -> 4
      [] type \in {<<"int64_t">>, <<"double">>} -> 8

(* Of a character the low octet is written, and the length counts them. *)
JavaWrite(type, v) ==
    CASE type = <<"string">> ->
            BigEndian(Len(v) + 1, 4) \o [k \in DOMAIN v |-> v[k] % 256] \o <<0>>
      [] type = <<"boolean">> -> IF v # 0 THEN <<1>> ELSE <<0>>
      [] type \notin {<<"string">>, <<"boolean">>} -> BigEndian(v, JavaWidth(type))

RECURSIVE JavaEncodeStruct(_, _)
JavaEncodeElement(type, v) ==
    IF type \in Primitives THEN JavaWrite(type, v)
    ELSE IF IsEnum(type) THEN BigEndian(v, 4)
    ELSE JavaEncodeStruct(type, v)

(* The last dimension of an array of octets is written at once. *)
RECURSIVE JavaEncodeRows(_, _, _, _)
JavaEncodeRows(m, s, v, d) ==
    IF d = Len(m.dims) /\ m.type \in {<<"byte">>, <<"int8_t">>}
    THEN [k \in 1..DimSize(s, m.dims[d]) |-> v[k] % 256]
    ELSE IF d > Len(m.dims) THEN JavaEncodeElement(m.type, v)
    ELSE FlattenSeq([k \in 1..DimSize(s, m.dims[d]) |-> JavaEncodeRows(m, s, v[k], d + 1)])

JavaEncodeStruct(type, value) ==
    LET ms == Members(type)
    IN  FlattenSeq([k \in DOMAIN ms |-> JavaEncodeRows(ms[k], value, value[ms[k].name], 1)])

(* The types that were met on the way are taken off the list again. *)
RECURSIVE JavaHashRecursive(_, _)
JavaHashRecursive(type, classes) ==
    IF IsEnum(type) THEN EnumHash(type)
    ELSE IF type \in ToSet(classes) THEN Zero
    ELSE LET ms == SelectSeq(Members(type), LAMBDA m : m.type \notin Primitives)
         IN  Rotated(StructHash(type),
                     [k \in DOMAIN ms |-> JavaHashRecursive(ms[k].type, Append(classes, type))])

JavaEncode(type, value) ==
    [err |-> FALSE, hash |-> JavaHashRecursive(type, <<>>), octets |-> JavaEncodeStruct(type, value)]
-----------------------------------------------------------------------------
(* Reading past the end raises an exception. *)
JavaRead(st, width) ==
    IF st.raised \/ Len(st.left) < width THEN [left |-> <<>>, raised |-> TRUE, val |-> <<>>]
    ELSE [left |-> SubSeq(st.left, width + 1, Len(st.left)), raised |-> FALSE,
          val |-> SubSeq(st.left, 1, width)]

JavaReadSigned(st, width) ==
    LET r == JavaRead(st, width) IN IF r.raised THEN r ELSE [r EXCEPT !.val = Signed(@)]

(* Each octet becomes a character. *)
JavaReadString(st) ==
    LET length == JavaReadSigned(st, 4)
        chars == JavaRead(length, length.val)
    IN  IF length.raised THEN length
        ELSE IF chars.raised THEN chars ELSE [chars EXCEPT !.val = Front(@)]

JavaReadBoolean(st) ==
    LET r == JavaRead(st, 1)
    IN  IF r.raised THEN r ELSE [r EXCEPT !.val = IF @[1] # 0 THEN 1 ELSE 0]

JavaReadOctets(st, size) ==
    LET r == JavaRead(st, size) IN [r EXCEPT !.val = [k \in DOMAIN @ |-> Signed(<<@[k]>>)]]

RECURSIVE JavaDecodeStruct(_, _)
JavaDecodeElement(type, st) ==
    IF type = <<"string">> THEN JavaReadString(st)
    ELSE IF type = <<"boolean">> THEN JavaReadBoolean(st)
    ELSE IF type \in Primitives THEN JavaReadSigned(st, JavaWidth(type))
    ELSE IF IsEnum(type) THEN JavaReadSigned(st, 4)
    ELSE JavaDecodeStruct(type, st)

RECURSIVE JavaDecodeRows(_, _, _, _)
JavaDecodeRows(m, s, st, d) ==
    LET size == DimSize(s, m.dims[d])
        Next(r, k) ==
            IF r.raised THEN r
            ELSE LET x == JavaDecodeRows(m, s, r, d + 1) IN [x EXCEPT !.val = Append(r.val, @)]
    IN  IF d > Len(m.dims) THEN JavaDecodeElement(m.type, st)
        ELSE IF d = Len(m.dims) /\ m.type \in {<<"byte">>, <<"int8_t">>}
             THEN JavaReadOctets(st, size)
        ELSE FoldLeft(Next, [st EXCEPT !.val = <<>>], Upto(size))

JavaDecodeStruct(type, st) ==
    LET Member(r, m) ==
            IF r.raised THEN r
            ELSE LET x == JavaDecodeRows(m, r.val, r, 1)
                 IN  [x EXCEPT !.val = [n \in DOMAIN r.val \union {m.name} |->
                                          IF n = m.name THEN x.val ELSE r.val[n]]]
    IN  FoldLeft(Member, [st EXCEPT !.val = <<>>], Members(type))

JavaDecode(type, wire) ==
    IF wire.hash # JavaHashRecursive(type, <<>>) THEN [left |-> <<>>, raised |-> TRUE, val |-> <<>>]
    ELSE JavaDecodeStruct(type, [left |-> wire.octets, raised |-> FALSE, val |-> <<>>])
=============================================================================
