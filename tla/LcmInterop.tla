---------------------------- MODULE LcmInterop ----------------------------
(***************************************************************************)
(* From the text of a type to a message received: lcm-gen reads the        *)
(* declarations, programs in C, Python and Java are built from what it     *)
(* emits, one of them publishes a value of one type and one of them        *)
(* receives it under the same or another type.                             *)
(*                                                                         *)
(* A C program owns memory: T_handler_stub decodes into blocks it asks     *)
(* for, calls the handler, which may keep a T_copy of the message for      *)
(* longer than the call, and cleans up.                                    *)
(***************************************************************************)
EXTENDS LcmEmitC, LcmEmitPython, LcmEmitJava, Bags

CONSTANTS
    Samples,    \* the values of some of the types that programs publish
    Junk        \* what may be found in a variable that was never assigned
    \* The sizes that samples give their arrays agree with the arrays.

VARIABLES
    published,  \* the message: language, type, value, and what was sent
    received,   \* what a receiver made of it
    heap,       \* the blocks the C receiver has not freed, each with its owner
    wild,       \* whether it has freed a block that it did not own
    copy        \* of the C receiver's T_copy: none, held or destroyed

interopVars == <<genvars, published, received, heap, wild, copy>>

Languages == {"C", "Python", "Java"}
Published(type) == type \in DOMAIN Samples /\ type \in StructNames

InteropInit ==
    /\ GenInit
    /\ published = <<>> /\ received = <<>>
    /\ heap = EmptyBag /\ wild = FALSE /\ copy = "none"

Generate == GenNext /\ UNCHANGED <<published, received, heap, wild, copy>>

PublishValue(lang, type) ==
    /\ at = "parsed" /\ published = <<>> /\ Published(type)
    /\ \E value \in Samples[type], junk \in Junk :
        LET wire == CASE lang = "C" -> CPublish(type, value, junk)
                      [] lang = "Python" -> PyEncode(type, value)
                      [] lang = "Java" -> JavaEncode(type, value)
        IN  published' = [lang |-> lang, type |-> type, value |-> value, wire |-> wire]
    /\ UNCHANGED <<genvars, received, heap, wild, copy>>

Owned(owner, paths) ==
    [b \in {<<owner, paths[k]>> : k \in DOMAIN paths} |->
        Cardinality({k \in DOMAIN paths : <<owner, paths[k]>> = b})]

Free(blocks) == heap' = heap (-) blocks /\ wild' = (wild \/ ~ blocks \sqsubseteq heap)

CanReceive == published # <<>> /\ received = <<>> /\ ~ published.wire.err

(* T_handler_stub up to the call of the handler.  If the decoder fails, it *)
(* returns, and what the decoder has asked for is lost.                    *)
CReceive(type) ==
    /\ CanReceive /\ Published(type)
    /\ \E junk \in Junk :
        LET r == CDecode(type, published.wire, junk)
        IN  /\ received' = [lang |-> "C", type |-> type, ok |-> ~ r.err, value |-> r.val,
                            handling |-> ~ r.err]
            /\ heap' = Owned("message", r.heap)
    /\ UNCHANGED <<genvars, published, wild, copy>>

CHandlerCopies ==
    /\ received # <<>> /\ received.handling /\ copy = "none"
    /\ copy' = "held"
    /\ heap' = heap (+) Owned("copy", CCopy(received.type, received.value))
    /\ UNCHANGED <<genvars, published, received, wild>>

CHandlerReturns ==
    /\ received # <<>> /\ received.handling
    /\ Free(Owned("message", CCleanup(received.type, received.value, <<>>)))
    /\ received' = [received EXCEPT !.handling = FALSE]
    /\ UNCHANGED <<genvars, published, copy>>

CDestroyCopy ==
    /\ copy = "held"
    /\ copy' = "destroyed"
    /\ Free(Owned("copy", CDestroy(received.type, received.value)))
    /\ UNCHANGED <<genvars, published, received>>

(* The handlers of the other languages leave memory to the collector. *)
OtherReceive(lang, type) ==
    /\ CanReceive /\ Published(type)
    /\ LET r == IF lang = "Python" THEN PyDecode(type, published.wire)
                ELSE JavaDecode(type, published.wire)
       IN  received' = [lang |-> lang, type |-> type, ok |-> ~ r.raised, value |-> r.val,
                        handling |-> FALSE]
    /\ UNCHANGED <<genvars, published, heap, wild, copy>>

InteropNext ==
    \/ Generate
    \/ \E lang \in Languages, type \in DOMAIN Samples : PublishValue(lang, type)
    \/ \E type \in DOMAIN Samples : CReceive(type)
    \/ CHandlerCopies \/ CHandlerReturns \/ CDestroyCopy
    \/ \E lang \in Languages \ {"C"}, type \in DOMAIN Samples : OtherReceive(lang, type)

InteropSpec == InteropInit /\ [][InteropNext]_interopVars
-----------------------------------------------------------------------------
(* The text without its comments, cut at every blank and around every      *)
(* character that is a token by itself: what a reader of the file sees.    *)
RECURSIVE Commented(_, _)
Commented(text, i) ==
    LET n == Len(text)
        opens == {k \in i..n - 1 : text[k] = "/" /\ text[k + 1] \in {"*", "/"}}
        open == Min(opens)
        close == Min(IF text[open + 1] = "*"
                     THEN {k \in open + 3..n : text[k - 1] = "*" /\ text[k] = "/"}
                     ELSE {k \in open + 2..n : text[k] = "newline"})
    IN  IF opens = {} THEN {} ELSE (open..close) \union Commented(text, close + 1)

Seen(text) ==
    LET n == Len(text)
        blank == {k \in 1..n : text[k] \in White} \union Commented(text, 1) \union {0, n + 1}
        starts == {k \in (1..n) \ blank :
                     \/ k - 1 \in blank
                     \/ text[k] \in Singles \/ text[k - 1] \in Singles
                     \/ (text[k] \in Ops) # (text[k - 1] \in Ops)}
        Next(k) == Min({j \in k + 1..n + 1 : j \in blank \union starts})
        order == SelectSeq(Upto(n), LAMBDA k : k \in starts)
    IN  [i \in DOMAIN order |-> SubSeq(text, order[i], Next(order[i]) - 1)]

(* Comments, in whatever style and wherever they stand between two tokens, *)
(* and blanks change nothing in what the parser is given.  (The start and  *)
(* the end of a comment are tokens, not characters: a comment right after  *)
(* an operator is none, and no text here has one.)                         *)
Lexed == [][at = "file" /\ at' = "entity" => toks' = Seen(Head(files))]_interopVars

(* All types that a type consists of. *)
RECURSIVE Parts(_, _)
Parts(type, seen) ==
    IF type \in seen \/ type \notin StructNames THEN seen
    ELSE FoldLeft(LAMBDA s, m : Parts(m.type, s), seen \union {type}, Members(type))

PartMembers(type) == UNION {ToSet(Members(t)) : t \in Parts(type, {})}

(* Two types that differ in their names and in those of the structs they   *)
(* consist of, but in nothing that is encoded.                             *)
RECURSIVE SameFormat(_, _, _)
SameFormat(t, u, seen) ==
    \/ t = u \/ <<t, u>> \in seen
    \/ /\ t \in StructNames /\ u \in StructNames
       /\ Len(Members(t)) = Len(Members(u))
       /\ \A k \in DOMAIN Members(t) :
            /\ Members(t)[k].name = Members(u)[k].name
            /\ Members(t)[k].dims = Members(u)[k].dims
            /\ SameFormat(Members(t)[k].type, Members(u)[k].type, seen \union {<<t, u>>})

(* Two forms that the emitted code does not carry: arrays of enums in C,   *)
(* whose length is that of the last element, and arrays of three and more  *)
(* dimensions in Python, whose decoder indexes an empty list.              *)
Carried(lang, type, reading) ==
    /\ lang = "C" => \A m \in PartMembers(type) : m.dims # <<>> => ~ IsEnum(m.type)
    /\ lang = "Python" /\ reading => \A m \in PartMembers(type) : Len(m.dims) < 3

(* The elements of an array of d dimensions. *)
RECURSIVE ElementsOf(_, _)
ElementsOf(v, d) == IF d = 0 THEN {v} ELSE UNION {ElementsOf(v[k], d - 1) : k \in DOMAIN v}

(* The values of one primitive type that a value consists of. *)
RECURSIVE Contained(_, _, _)
Contained(prim, type, value) ==
    IF type = prim THEN {value}
    ELSE IF type \notin StructNames THEN {}
    ELSE UNION {UNION {Contained(prim, m.type, e) : e \in ElementsOf(value[m.name], Len(m.dims))} :
                m \in ToSet(Members(type))}

(* And values: Java writes the low octet of a character and makes one of   *)
(* every octet, where the others have UTF-8, and has a sign on its octets, *)
(* where the others have none.                                             *)
CarriedValue(from, to, type, value) ==
    /\ "Java" \in {from, to} =>
         \A s \in Contained(<<"string">>, type, value) :
           \A k \in DOMAIN s : s[k] < IF from = to THEN 256 ELSE 128
    /\ to = "Java" => \A o \in Contained(<<"byte">>, type, value) : o < 128

(* What one program publishes, another, in whichever language, receives,   *)
(* and finds the same value: the three emitters and the fingerprints they  *)
(* compute agree, on a type and on every other name of its format, except  *)
(* for the two forms and the strings and octets named above.               *)
Interop ==
    /\ received # <<>>
    /\ SameFormat(published.type, received.type, {})
    /\ Carried(published.lang, published.type, FALSE)
    /\ Carried(received.lang, received.type, TRUE)
    /\ CarriedValue(published.lang, received.lang, published.type, published.value)
    => received.ok /\ received.value = published.value

(* In C: the buffer has exactly the size that the encoding takes, nothing  *)
(* is freed twice or before it was asked for, and when the handler has     *)
(* returned and its copy is destroyed everything is freed.                 *)
MemoryExact ==
    /\ published # <<>> /\ published.lang = "C" /\ Carried("C", published.type, FALSE) =>
        /\ ~ published.wire.err
        /\ 8 + Len(published.wire.octets) = CEncodedSize(published.type, published.value)
    /\ ~ wild
    /\ received # <<>> /\ received.ok /\ ~ received.handling /\ copy # "held" => heap = EmptyBag

(* "Fingerprints ensure that the encoding and decoding methods agree on    *)
(* the format of a data type": who accepts a message has its format.       *)
FingerprintsTell ==
    received # <<>> /\ received.ok => SameFormat(published.type, received.type, {})

(* "The string type encodes a NULL-terminated UTF-8 string": whoever       *)
(* publishes writes what the Python code does, which asks for UTF-8.       *)
StringsAreUtf8 ==
    published # <<>> /\ Carried(published.lang, published.type, FALSE) =>
        published.wire.octets = PyEncodeOne(published.type, published.value)
=============================================================================
