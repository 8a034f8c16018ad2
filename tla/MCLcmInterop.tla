--------------------------- MODULE MCLcmInterop ---------------------------
(* Declarations in several styles, faulty ones, and messages of the types. *)
EXTENDS LcmInterop, TLC

(* A name with a dot is one token of three symbols. *)
Token(s) == CASE s = "p.color" -> <<"p", ".", "color">>
              [] s = "p.point" -> <<"p", ".", "point">>
              [] s \notin {"p.color", "p.point"} -> <<s>>

(* A text, with something between the tokens and after the last one. *)
Text(words, between) == FlattenSeq([k \in DOMAIN words |-> Token(words[k]) \o between])

Blank == <<" ">>
Line == <<" ", "/", "/", " ", "x", ";", "newline">>
Block == <<" ", "/", "*", "*", " ", "x", "*", " ", "/", "newline", "*", "*", "/", " ">>

Brief == <<"package", "p", ";", "struct", "point", "{", "int16_t", "x", ",", "y", ";", "}">>

Basics ==
    <<"package", "p", ";",
      "enum", "color", "{", "RED", ",", "BLUE", "=", "5", ",", "GREEN", "}",
      "struct", "point", "{", "int16_t", "x", ",", "y", ";", "}">>

First ==
    Basics \o
    <<"struct", "line", "{", "string", "name", ";", "int8_t", "n", ";",
                "point", "pts", "[", "n", "]", ";", "color", "c", ";", "}">>

Second ==
    <<"struct", "grid", "{", "const", "int16_t", "A", "=", "1", ",", "B", "=", "2", ";",
                "int8_t", "n", ";", "int64_t", "a", "[", "2", "]", "[", "n", "]", ";",
                "float", "f", "[", "2", "]", ";", "boolean", "b", ";", "int32_t", "i", ";",
                "string", "s", "[", "n", "]", ";", "byte", "raw", "[", "n", "]", ";", "}",
      "package", "q", ";",
      "struct", "pt", "{", "int16_t", "x", ",", "y", ";", "}",
      "struct", "tree", "{", "int8_t", "n", ";", "tree", "kids", "[", "n", "]", ";", "}",
      "struct", "even", "{", "int8_t", "n", ";", "odd", "next", "[", "n", "]", ";", "}",
      "struct", "odd", "{", "even", "next", "[", "1", "]", ";", "}">>

Third ==
    <<"package", "q", ";",
      "struct", "cube", "{", "int8_t", "d", "[", "1", "]", "[", "1", "]", "[", "2", "]", ";", "}",
      "struct", "flags", "{", "int8_t", "n", ";", "p.color", "cs", "[", "n", "]", ";",
                "int16_t", "z", ";", "}",
      "struct", "polar", "{", "int16_t", "r", ",", "t", ";", "}",
      "struct", "pair", "{", "p.point", "a", ";", "polar", "b", ";", "}",
      "struct", "riap", "{", "polar", "a", ";", "p.point", "b", ";", "}">>

Struct(members) == <<"struct", "s", "{">> \o members \o <<"}">>

FaultyTexts ==
    {Struct(<<"byte", "a", "[", "n", "]", ";", "int8_t", "n", ";">>),
     Struct(<<"int8_t", "n", "[", "n", "]", ";">>),
     Struct(<<"int8_t", "n", "[", "2", "]", ";", "byte", "a", "[", "n", "]", ";">>),
     Struct(<<"float", "n", ";", "byte", "a", "[", "n", "]", ";">>),
     Struct(<<"byte", "a", "[", "0", "]", ";">>),
     Struct(<<"byte", "a", ",", "a", ";">>),
     Struct(<<"byte", "a">>),
     Struct(<<"struct", "a", ";">>),
     Struct(<<"const", "int8_t", "K", "=", "200", ";">>),
     Struct(<<"const", "byte", "K", "=", "2", ";">>),
     <<"struct", "s", "{", "byte", "a", ";">>,
     <<"union", "s", "{">>,
     <<"enum", "e", "{", "A", ",", "A", "}">>,
     <<"enum", "e", "{", "A", ",", "B", "=", "1", "}">>,
     <<"enum", "e", "{", "A", ";", "B", "=">>}

MCInputs ==
    {<<Text(First, Blank), Text(Second, Blank), Text(Third, Blank)>>,
     <<Text(Brief, Line)>>, <<Text(Brief, Block)>>}
    \union {<<Text(w, Blank)>> : w \in FaultyTexts}

MCWords ==
    {"package", "struct", "enum", "union", "const",
     "int8_t", "int16_t", "int32_t", "int64_t", "byte", "float", "string", "boolean",
     "p", "q", "s", "e", "x", "y", "n", "a", "b", "c", "d", "f", "i", "z", "r", "t", "polar", "A", "B", "K",
     "RED", "BLUE", "GREEN", "color", "point", "line", "name", "pts", "grid", "raw", "cs",
     "pt", "tree", "kids", "even", "odd", "next", "cube", "flags", "pair", "riap"}

MCNumberOf == "0" :> 0 @@ "1" :> 1 @@ "2" :> 2 @@ "5" :> 5 @@ "200" :> 200

(* Values of the types; a string is the codes of its characters. *)
Point(a, b) == <<"x">> :> a @@ <<"y">> :> b
Polar(r, t) == <<"r">> :> r @@ <<"t">> :> t
LineOf(s, ps, c) == <<"name">> :> s @@ <<"n">> :> Len(ps) @@ <<"pts">> :> ps @@ <<"c">> :> c
Grid(n, row, octet) ==
    <<"n">> :> n @@ <<"a">> :> <<row, row>> @@ <<"f">> :> <<1065353216, 0>>
    @@ <<"b">> :> 1 @@ <<"i">> :> -2147483647
    @@ <<"s">> :> [k \in 1..n |-> [j \in 1..k - 1 |-> 65]] @@ <<"raw">> :> [k \in 1..n |-> octet]
Tree(kids) == <<"n">> :> Len(kids) @@ <<"kids">> :> kids
Even(odds) == <<"n">> :> Len(odds) @@ <<"next">> :> odds
Odd(even) == <<"next">> :> <<even>>
Flags(cs, z) == <<"n">> :> Len(cs) @@ <<"cs">> :> cs @@ <<"z">> :> z
Pair(a, b) == <<"a">> :> a @@ <<"b">> :> b

ALine == LineOf(<<104, 105>>, <<Point(0, 2), Point(3, 1)>>, 6)

MCSamples ==
    <<"p", ".", "point">> :> {Point(-32768, 1), Point(258, -1)}
    @@ <<"q", ".", "pt">> :> {Point(0, 1)}
    @@ <<"p", ".", "line">> :> {ALine, LineOf(<<>>, <<>>, 5), LineOf(<<233>>, <<>>, 5), LineOf(<<8364, 233, 65>>, <<>>, 0)}
    @@ <<"p", ".", "grid">> :> {Grid(0, <<>>, 0), Grid(1, <<-7>>, 200), Grid(2, <<2147483647, -2147483647>>, 127)}
    @@ <<"q", ".", "tree">> :> {Tree(<<>>), Tree(<<Tree(<<>>), Tree(<<Tree(<<>>)>>)>>)}
    @@ <<"q", ".", "even">> :> {Even(<<>>), Even(<<Odd(Even(<<>>)), Odd(Even(<<Odd(Even(<<>>))>>))>>)}
    @@ <<"q", ".", "cube">> :> { <<"d">> :> << << <<1, -2>> >> >> }
    @@ <<"q", ".", "flags">> :> {Flags(<<>>, 3), Flags(<<1>>, 3), Flags(<<1, 5>>, 3)}
    @@ <<"q", ".", "pair">> :> {Pair(Point(0, 2), Polar(3, 4))}
    @@ <<"q", ".", "riap">> :> {Pair(Polar(1, 2), Point(0, 1))}
=============================================================================
