--------------------------- MODULE LcmEmitPython ---------------------------
(***************************************************************************)
(* The Python class that lcm-gen writes for a type                         *)
(* (src/upstream/lcmgen/emit_python.c).  Members without dimensions are    *)
(* queued, and packed or unpacked together by one statement, which is      *)
(* written before anything else is: before a string, a struct or an array. *)
(***************************************************************************)
EXTENDS LcmTypes

PyHasFormat(type) == type \in Primitives \ {<<"string">>}

PySize(type) ==
    CASE type \in {<<"byte">>, <<"boolean">>, <<"int8_t">>} -> 1
      [] type = <<"int16_t">> -> 2
      [] type \in {<<"int32_t">>, <<"float">>} -> 4
      [] type \in {<<"int64_t">>, <<"double">>} -> 8

PyFlush(queue) == IF queue = <<>> THEN <<>> ELSE << [op |-> "struct", members |-> queue] >>

(* The statements of _encode_one, and of _decode_one. *)
PyStatements(type) ==
    LET Member(r, m) ==
            IF m.dims = <<>> /\ PyHasFormat(m.type)
            THEN [r EXCEPT !.queue = Append(@, m)]
            ELSE [queue |-> <<>>,
                  out |-> r.out \o PyFlush(r.queue) \o << [op |-> "member", members |-> <<m>>] >>]
        end == FoldLeft(Member, [queue |-> <<>>, out |-> <<>>], Members(type))
    IN  end.out \o PyFlush(end.queue)

(* A unicode string, and its length in octets. *)
PyEncodeString(v) == BigEndian(Len(Utf8(v)) + 1, 4) \o Utf8(v) \o <<0>>

(* An array of numbers is packed at once, from as many as are declared. *)
PyEncodeList(type, v, n) == FlattenSeq([k \in 1..n |-> BigEndian(v[k], PySize(type))])

RECURSIVE PyEncodeOne(_, _)
PyEncodeElement(type, v) ==
    IF type = <<"string">> THEN PyEncodeString(v)
    ELSE IF type \in Primitives THEN BigEndian(v, PySize(type))
    ELSE IF IsEnum(type) THEN BigEndian(v, 4)
    ELSE PyEncodeOne(type, v)

RECURSIVE PyEncodeRows(_, _, _, _)
PyEncodeRows(m, s, v, d) ==
    IF d > Len(m.dims) THEN PyEncodeElement(m.type, v)
    ELSE IF d = Len(m.dims) /\ PyHasFormat(m.type)
         THEN PyEncodeList(m.type, v, DimSize(s, m.dims[d]))
    ELSE FlattenSeq([k \in 1..DimSize(s, m.dims[d]) |-> PyEncodeRows(m, s, v[k], d + 1)])

PyEncodeOne(type, value) ==
    LET Written(x) ==
            FlattenSeq([k \in DOMAIN x.members |->
                LET m == x.members[k]
                IN  IF x.op = "struct" THEN BigEndian(value[m.name], PySize(m.type))
                    ELSE PyEncodeRows(m, value, value[m.name], 1)])
        xs == PyStatements(type)
    IN  FlattenSeq([k \in DOMAIN xs |-> Written(xs[k])])

RECURSIVE PyHashRecursive(_, _)
PyHashRecursive(type, parents) ==
    IF type \in parents THEN Zero
    ELSE IF IsEnum(type) THEN EnumHash(type)
    ELSE LET ms == SelectSeq(Members(type), LAMBDA m : m.type \notin Primitives)
         IN  Rotated(StructHash(type),
                     [k \in DOMAIN ms |-> PyHashRecursive(ms[k].type, parents \union {type})])

PyEncode(type, value) ==
    [err |-> FALSE, hash |-> PyHashRecursive(type, {}), octets |-> PyEncodeOne(type, value)]
-----------------------------------------------------------------------------
(* Decoding returns what is left to read, whether an exception was raised, *)
(* and the value.  struct.unpack raises if it is given too few octets.     *)
PyUnpack(st, type, count) ==
    LET n == count * PySize(type)
        Value(o) == IF type = <<"byte">> THEN o[1] ELSE Signed(o)
    IN  IF st.raised \/ Len(st.left) < n THEN [left |-> <<>>, raised |-> TRUE, val |-> <<>>]
        ELSE [left |-> SubSeq(st.left, n + 1, Len(st.left)), raised |-> FALSE,
              val |-> [k \in 1..count |-> Value(SubSeq(st.left, (k - 1) * PySize(type) + 1,
                                                              k * PySize(type)))]]

(* decode raises if it is given octets that are no UTF-8. *)
PyString(st, octets) ==
    IF IsUtf8(octets) THEN [st EXCEPT !.val = FromUtf8(octets)]
    ELSE [left |-> <<>>, raised |-> TRUE, val |-> <<>>]

(* buf.read returns what there is. *)
PyReadSome(st, n) ==
    LET m == IF n < Len(st.left) THEN n ELSE Len(st.left)
    IN  [st EXCEPT !.left = SubSeq(@, m + 1, Len(@)), !.val = SubSeq(st.left, 1, m)]

(* Mutant: the last character is kept. *)
PyDecodeStringWhole(st) ==
    LET length == PyUnpack(st, <<"int32_t">>, 1)
        read == PyReadSome(length, length.val[1])
    IN  IF length.raised THEN length ELSE PyString(read, read.val)

(* The last octet of what was read is cut off. *)
PyDecodeString(st) ==
    LET length == PyUnpack(st, <<"int32_t">>, 1)
        read == PyReadSome(length, length.val[1])
    IN  IF length.raised THEN length ELSE PyString(read, SubSeq(read.val, 1, Len(read.val) - 1))

RECURSIVE PyDecodeOne(_, _)
PyDecodeElement(type, st) ==
    IF type = <<"string">> THEN PyDecodeString(st)
    ELSE IF type \in Primitives \/ IsEnum(type)
         THEN LET r == PyUnpack(st, IF type \in Primitives THEN type ELSE <<"int32_t">>, 1)
              IN  IF r.raised THEN r ELSE [r EXCEPT !.val = @[1]]
    ELSE PyDecodeOne(type, st)

(* The loops of a member.  In a loop that is neither the first nor the     *)
(* last, the new list is appended to an element that is not there yet.     *)
RECURSIVE PyDecodeRows(_, _, _, _)
PyDecodeRows(m, s, st, d) ==
    LET size == DimSize(s, m.dims[d])
        Next(r, k) ==
            IF r.raised THEN r
            ELSE LET x == PyDecodeRows(m, s, r, d + 1) IN [x EXCEPT !.val = Append(r.val, @)]
    IN  IF d > Len(m.dims) THEN PyDecodeElement(m.type, st)
        ELSE IF d >= 2 /\ d < Len(m.dims) THEN [st EXCEPT !.raised = TRUE]
        ELSE IF d = Len(m.dims) /\ PyHasFormat(m.type) THEN PyUnpack(st, m.type, size)
        ELSE FoldLeft(Next, [st EXCEPT !.val = <<>>], Upto(size))

PyDecodeOne(type, st) ==
    LET Set(r, m, x) == [x EXCEPT !.val = [n \in DOMAIN r.val \union {m.name} |->
                                             IF n = m.name THEN x.val ELSE r.val[n]]]
        Member(r, m) == IF r.raised THEN r ELSE Set(r, m, PyDecodeRows(m, r.val, r, 1))
        Scalar(r, m) == IF r.raised THEN r ELSE Set(r, m, PyDecodeElement(m.type, r))
        Read(r, x) == IF x.op = "struct" THEN FoldLeft(Scalar, r, x.members)
                      ELSE Member(r, x.members[1])
    IN  FoldLeft(Read, [st EXCEPT !.val = <<>>], PyStatements(type))

PyDecode(type, wire) ==
    IF wire.hash # PyHashRecursive(type, {}) THEN [left |-> <<>>, raised |-> TRUE, val |-> <<>>]
    ELSE PyDecodeOne(type, [left |-> wire.octets, raised |-> FALSE, val |-> <<>>])
=============================================================================
