------------------------------- MODULE LcmGen -------------------------------
(***************************************************************************)
(* lcm-gen reads the type declarations (src/upstream/lcmgen/tokenize.c and *)
(* lcmgen.c): the text of each file is cut into tokens, and a recursive    *)
(* descent parser collects the structs and the enums, or gives up at the   *)
(* first error.                                                            *)
(*                                                                         *)
(* A text is a sequence of symbols, and a token a sequence of symbols that *)
(* stand together.  A symbol is one character, except that a word (a name, *)
(* a keyword, a number) is one symbol: it consists of characters the       *)
(* tokenizer treats alike.  Quotes do not occur in the texts.              *)
(***************************************************************************)
EXTENDS Integers, Sequences, FiniteSets, SequencesExt

CONSTANTS
    Inputs,         \* sequences of texts: the files named on the command line
    Words,          \* the symbols that start with a letter or an underscore
    NumberOf        \* the value strtol gives a symbol that starts with a digit

VARIABLES
    files,          \* the texts still to be read
    toks,           \* the tokens of the open file that are still to be read
    package,        \* lcmgen->package, split at the dots
    structs, enums, \* lcmgen->structs and lcmgen->enums
    entity,         \* the struct or the enum that is being read
    mtype,          \* the type of the members that are being read
    at              \* where the parser is

genvars == <<files, toks, package, structs, enums, entity, mtype, at>>

White == {" ", "newline"}
Ops == {"!", "~", "<", ">", "=", "&", "|", "^", "%", "*", "+", "/"}
Singles == {"(", ")", ";", ",", ":", "[", "]"}

EndOfFile == <<>>
-----------------------------------------------------------------------------
(* One token and where the next one starts.  The character that ends a     *)
(* token of operators is given back; at the end of the file what is given  *)
(* back is the last operator, once more.  Braces are no tokens of their    *)
(* own.                                                                    *)
NextInternal(text, i) ==
    LET n == Len(text)
        From(j, S) == {k \in j..n : text[k] \in S}
        Before(S) == IF S = {} THEN n + 1 ELSE Min(S)
        start == Before({k \in i..n : text[k] \notin White})
        endOp == Before({k \in start..n : text[k] \notin Ops})
        endBlob == Before(From(start, White \union Ops \union Singles))
    IN  IF start > n THEN [tok |-> EndOfFile, next |-> n + 1]
        ELSE IF text[start] \in Ops
             THEN [tok |-> SubSeq(text, start, endOp - 1), next |-> IF endOp > n THEN n ELSE endOp]
        ELSE IF text[start] \in Singles
             THEN [tok |-> <<text[start]>>, next |-> start + 1]
        ELSE [tok |-> SubSeq(text, start, endBlob - 1),
              next |-> IF endBlob <= n /\ text[endBlob] \in White THEN endBlob + 1 ELSE endBlob]

\* Mutant: a comment starts with the two characters alone.
IsExactly(tok, s) == tok = s

StartsWith(tok, s) == Len(tok) >= 2 /\ SubSeq(tok, 1, 2) = s
EndsWith(tok, s) == Len(tok) >= 2 /\ SubSeq(tok, Len(tok) - 1, Len(tok)) = s

(* Where reading goes on after the block comment that the token at opener  *)
(* opens.  A comment that is not closed leaves its last token to be read   *)
(* as one more token.  (One that is not closed and ends in an operator is  *)
(* never left: no text here is like that.)                                 *)
AfterBlock(text, opener) ==
    LET after[i, last \in 1..Len(text) + 1] ==
            LET t == NextInternal(text, i)
            IN  IF t.tok = EndOfFile
                THEN [next |-> t.next, left |-> <<NextInternal(text, last).tok>>]
                ELSE IF EndsWith(t.tok, <<"*", "/">>) THEN [next |-> t.next, left |-> <<>>]
                ELSE after[t.next, i]
    IN  after[NextInternal(text, opener).next, opener]

AfterLine(text, i) ==
    LET ends == {k \in i..Len(text) : text[k] = "newline"}
    IN  IF ends = {} THEN Len(text) + 1 ELSE Min(ends) + 1

(* All tokens without the comments.  A file that ends in an operator would *)
(* yield it for ever: one time is enough for the parser to give up.        *)
Tokens(text) ==
    LET from[i \in 1..Len(text) + 1] ==
            LET t == NextInternal(text, i)
            IN  IF t.tok = EndOfFile THEN <<>>
                ELSE IF StartsWith(t.tok, <<"/", "*">>)
                     THEN AfterBlock(text, i).left \o from[AfterBlock(text, i).next]
                ELSE IF StartsWith(t.tok, <<"/", "/">>) THEN from[AfterLine(text, t.next)]
                ELSE IF t.next = i THEN <<t.tok>>
                ELSE <<t.tok>> \o from[t.next]
    IN  from[1]
-----------------------------------------------------------------------------
Primitives == {<<p>> : p \in {"int8_t", "int16_t", "int32_t", "int64_t", "byte",
                              "float", "double", "string", "boolean"}}
DimensionTypes == {<<p>> : p \in {"int8_t", "int16_t", "int32_t", "int64_t"}}

Number(tok) == IF Len(tok) = 1 /\ tok[1] \in DOMAIN NumberOf THEN NumberOf[tok[1]] ELSE 0
IsNumber(tok) == tok # EndOfFile /\ tok[1] \in DOMAIN NumberOf
IsName(tok) == tok # EndOfFile /\ tok[1] \in Words

(* Everything before the last dot is the package; a name without a dot     *)
(* takes the package that was named last.                                  *)
Typename(tok) ==
    LET dots == {k \in DOMAIN tok : tok[k] = "."}
    IN  IF dots # {} THEN tok
        ELSE IF tok \in Primitives \/ package = <<>> THEN tok
        ELSE package \o <<".">> \o tok
Shortname(name) == <<name[Len(name)]>>

Tok(i) == IF i <= Len(toks) THEN toks[i] ELSE EndOfFile
Is(i, s) == Tok(i) = <<s>>

Skip(n) == toks' = SubSeq(toks, n + 1, Len(toks))

(* parse_error and semantic_error: lcm-gen ends, and writes nothing. *)
Refuse ==
    /\ at' = "refused" /\ toks' = <<>> /\ files' = <<>>
    /\ structs' = <<>> /\ enums' = <<>> /\ entity' = <<>> /\ mtype' = <<>> /\ package' = <<>>

GoOn(place, n) == at' = place /\ Skip(n) /\ UNCHANGED files

GenInit ==
    /\ files \in Inputs
    /\ toks = <<>> /\ package = <<>> /\ structs = <<>> /\ enums = <<>>
    /\ entity = <<>> /\ mtype = <<>>
    /\ at = "file"

(* The package named in one file is still in force in the next. *)
HandleFile ==
    /\ at = "file"
    /\ IF files = <<>>
       THEN at' = "parsed" /\ UNCHANGED <<files, toks>>
       ELSE at' = "entity" /\ files' = Tail(files) /\ toks' = Tokens(Head(files))
    /\ UNCHANGED <<package, structs, enums, entity, mtype>>

ParseEntity ==
    /\ at = "entity"
    /\ \/ /\ Tok(1) = EndOfFile
          /\ GoOn("file", 0)
          /\ UNCHANGED <<package, structs, enums, entity, mtype>>
       \/ /\ Is(1, "package") /\ Tok(2) # EndOfFile /\ Is(3, ";")
          /\ package' = Tok(2)
          /\ GoOn("entity", 3)
          /\ UNCHANGED <<structs, enums, entity, mtype>>
       \/ /\ Is(1, "struct") /\ Tok(2) # EndOfFile /\ Is(3, "{")
          /\ entity' = [name |-> Typename(Tok(2)), members |-> <<>>, constants |-> <<>>]
          /\ GoOn("struct", 3)
          /\ UNCHANGED <<package, structs, enums, mtype>>
       \/ /\ Is(1, "enum") /\ Tok(2) # EndOfFile /\ Is(3, "{")
          /\ entity' = [name |-> Typename(Tok(2)), values |-> <<>>]
          /\ GoOn("enum", 3)
          /\ UNCHANGED <<package, structs, enums, mtype>>
       \/ /\ Tok(1) # EndOfFile
          /\ ~ (Is(1, "package") /\ Tok(2) # EndOfFile /\ Is(3, ";"))
          /\ ~ ((Is(1, "struct") \/ Is(1, "enum")) /\ Tok(2) # EndOfFile /\ Is(3, "{"))
          /\ Refuse
-----------------------------------------------------------------------------
ParseStruct ==
    /\ at = "struct"
    /\ \/ /\ Is(1, "}")
          /\ structs' = Append(structs, entity) /\ entity' = <<>>
          /\ GoOn("entity", 1)
          /\ UNCHANGED <<package, enums, mtype>>
       \/ /\ Is(1, "const") /\ Tok(2) \in DimensionTypes \union {<<"float">>, <<"double">>}
          /\ mtype' = Tok(2)
          /\ GoOn("const", 2)
          /\ UNCHANGED <<package, structs, enums, entity>>
       \/ /\ IsName(Tok(1))
          /\ ~ \E s \in {"struct", "enum", "union", "const"} : Is(1, s)
          /\ mtype' = Typename(Tok(1))
          /\ GoOn("member", 1)
          /\ UNCHANGED <<package, structs, enums, entity>>
       \/ /\ \/ Tok(1) = EndOfFile
             \/ ~ IsName(Tok(1)) /\ ~ Is(1, "}")
             \/ \E s \in {"struct", "enum", "union"} : Is(1, s)
             \/ Is(1, "const") /\ Tok(2) \notin DimensionTypes \union {<<"float">>, <<"double">>}
          /\ Refuse

Taken(name) ==
    \/ \E k \in DOMAIN entity.members : entity.members[k].name = name
    \/ \E k \in DOMAIN entity.constants : entity.constants[k].name = name

(* `name = value` and a comma for another of the same type, or the end.    *)
(* (Of the bounds of the types, those of int8_t and int16_t.)              *)
ConstantFits(t, value) ==
    /\ t = <<"int8_t">> => value \in -128..127
    /\ t = <<"int16_t">> => value \in -32768..32767

ParseConst ==
    /\ at = "const"
    /\ IF /\ IsName(Tok(1)) /\ ~ Taken(Tok(1))
          /\ Is(2, "=") /\ IsNumber(Tok(3))
          /\ ConstantFits(mtype, Number(Tok(3)))
          /\ Is(4, ",") \/ Is(4, ";")
       THEN /\ entity' = [entity EXCEPT !.constants =
                            Append(@, [type |-> mtype, name |-> Tok(1), value |-> Number(Tok(3))])]
            /\ GoOn(IF Is(4, ",") THEN "const" ELSE "struct", 4)
            /\ UNCHANGED <<package, structs, enums, mtype>>
       ELSE Refuse

(* The member is added before its dimensions are read. *)
ParseMember ==
    /\ at = "member"
    /\ IF IsName(Tok(1)) /\ ~ Taken(Tok(1))
       THEN /\ entity' = [entity EXCEPT !.members =
                            Append(@, [name |-> Tok(1), type |-> mtype, dims |-> <<>>])]
            /\ GoOn("dims", 1)
            /\ UNCHANGED <<package, structs, enums, mtype>>
       ELSE Refuse

(* Mutant: any member that is not an array will do. *)
LegalSizeOfAnyType(tok) ==
    IF IsNumber(tok) THEN Number(tok) > 0
    ELSE \E k \in DOMAIN entity.members :
            entity.members[k].name = tok /\ entity.members[k].dims = <<>>

(* A variable size must name a member with no dimensions and an integer    *)
(* type among those read so far, which the member itself is one of.        *)
LegalSize(tok) ==
    IF IsNumber(tok) THEN Number(tok) > 0
    ELSE \E k \in DOMAIN entity.members :
            LET m == entity.members[k]
            IN  IsName(tok) /\ m.name = tok /\ m.dims = <<>> /\ m.type \in DimensionTypes

ParseDimension ==
    /\ at = "dims"
    /\ \/ /\ Is(1, "[") /\ Tok(2) # EndOfFile /\ LegalSize(Tok(2)) /\ Is(3, "]")
          /\ LET dim == [const |-> IsNumber(Tok(2)), size |-> Tok(2)]
             IN  entity' = [entity EXCEPT !.members[Len(entity.members)].dims = Append(@, dim)]
          /\ GoOn("dims", 3)
       \/ /\ Is(1, ",") \/ Is(1, ";")
          /\ GoOn(IF Is(1, ",") THEN "member" ELSE "struct", 1)
          /\ UNCHANGED entity
    /\ UNCHANGED <<package, structs, enums, mtype>>

RefuseDimension ==
    /\ at = "dims"
    /\ ~ (Is(1, ",") \/ Is(1, ";"))
    /\ ~ (Is(1, "[") /\ Tok(2) # EndOfFile /\ LegalSize(Tok(2)) /\ Is(3, "]"))
    /\ Refuse

(* A value that is not given is one more than the largest so far, from 1;  *)
(* values and names must differ.  Commas and semicolons are optional.      *)
ParseEnumValue ==
    /\ at = "enum"
    /\ LET given == Is(2, "=")
           largest == Max({0} \union {entity.values[k].value : k \in DOMAIN entity.values})
           value == [name |-> Tok(1), value |-> IF given THEN Number(Tok(3)) ELSE largest + 1]
           used == IF given THEN 3 ELSE 1
           comma == IF Is(used + 1, ",") THEN used + 1 ELSE used
       IN  IF Tok(1) = EndOfFile \/ (given /\ Tok(3) = EndOfFile)
              \/ \E k \in DOMAIN entity.values :
                    \/ entity.values[k].value = value.value
                    \/ entity.values[k].name = value.name
           THEN ~ Is(1, "}") /\ Refuse
           ELSE /\ ~ Is(1, "}")
                /\ entity' = [entity EXCEPT !.values = Append(@, value)]
                /\ GoOn("enum", IF Is(comma + 1, ";") THEN comma + 1 ELSE comma)
                /\ UNCHANGED <<package, structs, enums, mtype>>

ParseEnum ==
    /\ at = "enum" /\ Is(1, "}")
    /\ enums' = Append(enums, entity) /\ entity' = <<>>
    /\ GoOn("entity", 1)
    /\ UNCHANGED <<package, structs, mtype>>

GenNext ==
    \/ HandleFile \/ ParseEntity \/ ParseStruct \/ ParseConst
    \/ ParseMember \/ ParseDimension \/ RefuseDimension \/ ParseEnumValue \/ ParseEnum

GenSpec == GenInit /\ [][GenNext]_genvars
-----------------------------------------------------------------------------
(* The size of a dimension is a positive number, or a scalar integer that  *)
(* stands before the array in the same struct, or, in the first dimension  *)
(* of an array of integers, the array itself, which the parser has already *)
(* entered when it looks the name up (lcmgen.c:514, 545-558); all names in *)
(* a struct differ.                                                        *)
SizesKnown(members) ==
    \A k \in DOMAIN members :
        /\ \A j \in DOMAIN members : j # k => members[j].name # members[k].name
        /\ \A d \in DOMAIN members[k].dims :
            LET dim == members[k].dims[d]
            IN  IF dim.const THEN Number(dim.size) > 0
                ELSE \/ \E j \in 1..k - 1 :
                          /\ members[j].name = dim.size /\ members[j].dims = <<>>
                          /\ members[j].type \in DimensionTypes
                     \/ /\ d = 1 /\ dim.size = members[k].name
                        /\ members[k].type \in DimensionTypes

SizesFirst == \A s \in ToSet(structs) : SizesKnown(s.members)
=============================================================================
