--------------------------- MODULE Configuration ---------------------------
(***************************************************************************)
(* conftron's generator (src/codegen.py, configuration.py, baseio.py,      *)
(* structs.py, settings.py, telemetry.py): it reads the three files of     *)
(* conf/, follows their includes, makes the types, the settings and the    *)
(* telemetry messages of every class, and writes the code.                 *)
(*                                                                         *)
(* An element of a file is [tag, attrs, kids]; attrs is a function of the  *)
(* names of its attributes.  The name of a settings field is the path to   *)
(* the member (a sequence), an enum's fields are a sequence, numbers are   *)
(* integers.  Every exception that nothing catches, and every sys.exit,    *)
(* is the stage "exit".                                                    *)
(***************************************************************************)
EXTENDS Integers, Sequences, FiniteSets, SequencesExt

CONSTANT Configurations     \* what conf/ may hold: the elements of each file

(* The children of an element are in an order. *)
ConfigurationAssumption ==
    \A files \in Configurations : \A f \in DOMAIN files :
        /\ files[f] \in Seq(ToSet(files[f]))
        /\ \A el \in ToSet(files[f]) : el.kids \in Seq(ToSet(el.kids))

ASSUME ConfigurationAssumption

VARIABLES
    conf,       \* the files there are
    stage,      \* the file that is being read, or what comes after
    todo,       \* the elements still to be looked at, or what is to be written
    hash,       \* per file: the elements of each class
    base,       \* the types that are in no class
    left,       \* the classes still to be made
    made        \* per file: the classes made of it, in order

confVars == <<conf, stage, todo, hash, base, left, made>>

Sources == {"types", "telemetry", "settings"}

Reserved == {"array", "comment", "unit", "ptr", "cl", "name", "varname", "type",
             "fields", "structs", "messages", "settings"}

Include(file) == [tag |-> "include", attrs |-> [href |-> file], kids |-> <<>>]

ConfInit ==
    /\ conf \in Configurations
    /\ stage = "types" /\ todo = <<Include("types")>>
    /\ hash = [s \in Sources |-> <<>>]
    /\ base = <<>> /\ left = {}
    /\ made = [s \in Sources |-> <<>>]

(* A dictionary whose entries go before those of another. *)
Over(f, g) == [x \in DOMAIN f \union DOMAIN g |-> IF x \in DOMAIN f THEN f[x] ELSE g[x]]

Exit == stage' = "exit" /\ UNCHANGED <<conf, todo, hash, base, left, made>>
-----------------------------------------------------------------------------
\* Mutant: the second element of a class takes the place of the first.
AddToClassHashOnce(h, el) == Over([c \in {el.attrs.name} |-> <<el>>], h)

(* A class may be given by several elements, in several files. *)
AddToClassHash(h, el) ==
    Over([c \in {el.attrs.name} |-> IF c \in DOMAIN h THEN Append(h[c], el) ELSE <<el>>], h)

(* Only types.xml may have elements outside of the classes. *)
BaseOk == IF stage = "types" THEN {"struct", "enum", "message"} ELSE {}

(* parse_classes, an element at a time: what an included file holds is     *)
(* read in its place.  Elements of any other kind are passed over.         *)
ParseElement ==
    /\ stage \in Sources /\ todo # <<>>
    /\ LET el == Head(todo)
       IN  \/ /\ el.tag = "class"
              /\ hash' = [hash EXCEPT ![stage] = AddToClassHash(@, el)]
              /\ todo' = Tail(todo) /\ UNCHANGED <<conf, stage, base, left, made>>
           \/ /\ el.tag \in BaseOk
              /\ base' = Append(base, el)
              /\ todo' = Tail(todo) /\ UNCHANGED <<conf, stage, hash, left, made>>
           \/ /\ el.tag = "include" /\ el.attrs.href \in DOMAIN conf
              /\ todo' = conf[el.attrs.href] \o Tail(todo)
              /\ UNCHANGED <<conf, stage, hash, base, left, made>>
           \/ /\ el.tag = "include" /\ el.attrs.href \notin DOMAIN conf
              /\ Exit
           \/ /\ el.tag \notin {"class", "include"} \union BaseOk
              /\ todo' = Tail(todo) /\ UNCHANGED <<conf, stage, hash, base, left, made>>

ParseNextFile ==
    /\ stage \in {"types", "telemetry"} /\ todo = <<>>
    /\ stage' = IF stage = "types" THEN "telemetry" ELSE "settings"
    /\ todo' = <<Include(stage')>>
    /\ UNCHANGED <<conf, hash, base, left, made>>

AllParsed ==
    /\ stage = "settings" /\ todo = <<>>
    /\ stage' = "classes"
    /\ left' = UNION {DOMAIN hash[s] : s \in Sources}
    /\ UNCHANGED <<conf, todo, hash, base, made>>
-----------------------------------------------------------------------------
(* Inside of a class includes go one level deep: an include in an included *)
(* file is taken for an element, and has no name.                          *)
InsertIncludes(kids) ==
    FlattenSeq([k \in DOMAIN kids |->
        IF kids[k].tag = "include" THEN conf[kids[k].attrs.href] ELSE <<kids[k]>>])

Readable(kids, ok) ==
    /\ \A kid \in ToSet(kids) :
        \/ kid.tag = "include" /\ kid.attrs.href \in DOMAIN conf
        \/ kid.tag \in ok
    /\ \A el \in ToSet(InsertIncludes(kids)) : "name" \in DOMAIN el.attrs

(* _inherit: what is not reserved and not given by the element itself. *)
Inherit(own, parent) == Over(own, [a \in DOMAIN parent \ Reserved |-> parent[a]])

\* Mutant: the types in no class come after those of the class.
WithBaseBehind(kids) == kids \o base

(* They were reversed, and now each is inserted at the front. *)
WithBase(kids) == FoldLeft(LAMBDA ks, b : <<b>> \o ks, kids, Reverse(base))

MakeType(el) ==
    IF el.tag = "enum"
    THEN [kind |-> "enum", name |-> el.attrs.name, fields |-> el.attrs.fields,
          first |-> IF "first_index" \in DOMAIN el.attrs THEN el.attrs.first_index ELSE 0]
    ELSE LET ms == InsertIncludes(el.kids)
         IN  [kind |-> "struct", name |-> el.attrs.name,
              members |-> [k \in DOMAIN ms |-> [name |-> ms[k].attrs.name, type |-> ms[k].attrs.type]]]

TypesReadable(cl) ==
    LET kids == WithBase(cl.kids)
    IN  /\ Readable(kids, {"struct", "message", "enum"})
        /\ \A el \in ToSet(InsertIncludes(kids)) :
              el.tag # "enum" => Readable(el.kids, {"field", "member"})

MakeTypes(cl) ==
    LET els == InsertIncludes(WithBase(cl.kids)) IN [k \in DOMAIN els |-> MakeType(els[k])]

(* A name that is not found is that of a primitive type, or misspelt. *)
TypeNamed(types, name) ==
    LET found == {k \in DOMAIN types : types[k].name = name}
    IN  IF found = {} THEN [kind |-> "primitive", name |-> name] ELSE types[Min(found)]
-----------------------------------------------------------------------------
NotFound == [kind |-> "none"]

MemberType(type, name) == (CHOOSE m \in ToSet(type.members) : m.name = name).type

(* go_deep: from a struct along the path to a member of a member. *)
GoDeep(path, type, types) ==
    LET Step(t, name) == IF t.kind = "struct" /\ \E m \in ToSet(t.members) : m.name = name
                         THEN TypeNamed(types, MemberType(t, name)) ELSE NotFound
    IN  FoldLeft(Step, type, path)

(* An enum's bounds are those of a list of its fields; absmax comes before *)
(* min and max, wherever it was given.                                     *)
WithBounds(attrs, type) ==
    IF type.kind = "enum" THEN Over([min |-> 0, max |-> Len(type.fields) - 1, step |-> 1], attrs)
    ELSE IF "absmax" \in DOMAIN attrs
         THEN Over([min |-> 0 - attrs.absmax, max |-> attrs.absmax], attrs)
    ELSE attrs

FieldAttrs(f, setting) == Inherit(f.attrs, setting.attrs)

FieldType(f, setting, types) ==
    GoDeep(f.attrs.name, TypeNamed(types, setting.attrs.type), types)

MakeField(f, setting, types) ==
    LET type == FieldType(f, setting, types)
        attrs == WithBounds(FieldAttrs(f, setting), type)
    IN  [path |-> f.attrs.name, type |-> type, default |-> attrs.default,
         min |-> attrs.min, max |-> attrs.max]

DefaultsSane(attrs, type) ==
    IF type.kind = "enum" THEN attrs.default \in ToSet(type.fields)
    ELSE /\ attrs.default \in attrs.min..attrs.max
         /\ attrs.step <= attrs.max - attrs.min

FieldMakes(f, setting, types) ==
    LET type == FieldType(f, setting, types)
        attrs == WithBounds(FieldAttrs(f, setting), type)
    IN  /\ type # NotFound
        /\ {"default", "step", "min", "max"} \subseteq DOMAIN attrs
        /\ DefaultsSane(attrs, type)

(* The type of a setting must be among those of its class. *)
SettingsReadable(cl, types) ==
    /\ Readable(cl.kids, {"struct"})
    /\ \A s \in ToSet(InsertIncludes(cl.kids)) :
        /\ TypeNamed(types, s.attrs.type).kind # "primitive"
        /\ Readable(s.kids, {"member"})
        /\ \A f \in ToSet(InsertIncludes(s.kids)) : FieldMakes(f, s, types)

MakeSettings(cl, types) ==
    LET els == InsertIncludes(cl.kids)
        Fields(s) == LET fs == InsertIncludes(s.kids)
                     IN  [k \in DOMAIN fs |-> MakeField(fs[k], s, types)]
    IN  [k \in DOMAIN els |-> [name |-> els[k].attrs.varname, type |-> els[k].attrs.type,
                               fields |-> Fields(els[k])]]
-----------------------------------------------------------------------------
MessageAttrs(m, cl) == Inherit(m.attrs, cl.attrs)

TelemetryReadable(cl) ==
    /\ Readable(cl.kids, {"message"})
    /\ \A m \in ToSet(InsertIncludes(cl.kids)) :
        /\ {"flightrate", "simrate"} \subseteq DOMAIN MessageAttrs(m, cl)
        /\ "type" \in DOMAIN m.attrs

MakeTelemetry(cl) ==
    LET els == InsertIncludes(cl.kids)
        Channel(a) == IF "channel" \in DOMAIN a THEN <<a.channel>>
                      ELSE <<cl.attrs.name, a.type, a.name>>
        Message(a) == [name |-> a.name, type |-> a.type, channel |-> Channel(a),
                       flightrate |-> a.flightrate, simrate |-> a.simrate]
    IN  [k \in DOMAIN els |-> Message(MessageAttrs(els[k], cl))]

Elements(s, c) == IF c \in DOMAIN hash[s] THEN hash[s][c] ELSE <<>>

(* One class, in all three files; the elements it is given by are merged.  *)
MakeClass(c) ==
    /\ stage = "classes" /\ c \in left
    /\ LET tels == Elements("telemetry", c)
           tys == Elements("types", c)
           sets == Elements("settings", c)
           types == FlattenSeq([k \in DOMAIN tys |-> MakeTypes(tys[k])])
           Made(s, items) == IF Elements(s, c) = <<>> THEN made[s]
                             ELSE Append(made[s], [name |-> c, items |-> items])
       IN  IF /\ \A cl \in ToSet(tys) : TypesReadable(cl)
              /\ \A cl \in ToSet(sets) : tys # <<>> /\ SettingsReadable(cl, types)
              /\ \A cl \in ToSet(tels) : TelemetryReadable(cl)
           THEN /\ made' = [types |-> Made("types", types),
                            settings |-> Made("settings", FlattenSeq(
                                [k \in DOMAIN sets |-> MakeSettings(sets[k], types)])),
                            telemetry |-> Made("telemetry", FlattenSeq(
                                [k \in DOMAIN tels |-> MakeTelemetry(tels[k])]))]
                /\ left' = left \ {c}
                /\ UNCHANGED <<conf, stage, todo, hash, base>>
           ELSE Exit

Codegen ==
    /\ stage = "classes" /\ left = {}
    /\ stage' = "codegen"
    /\ todo' = made.types \o made.settings \o made.telemetry
    /\ UNCHANGED <<conf, hash, base, left, made>>

(* A class of types that has none cannot be written to the end. *)
CodegenClass ==
    /\ stage = "codegen" /\ todo # <<>>
    /\ IF Len(made.types) + Len(made.settings) + Len(made.telemetry) - Len(todo) < Len(made.types)
          /\ Head(todo).items = <<>>
       THEN Exit
       ELSE todo' = Tail(todo) /\ UNCHANGED <<conf, stage, hash, base, left, made>>

(* The headers of all classes come last. *)
CodegenHeaders ==
    /\ stage = "codegen" /\ todo = <<>>
    /\ stage' = "written"
    /\ UNCHANGED <<conf, todo, hash, base, left, made>>

ConfNext ==
    \/ ParseElement \/ ParseNextFile \/ AllParsed
    \/ \E c \in left : MakeClass(c)
    \/ Codegen \/ CodegenClass \/ CodegenHeaders

ConfSpec == ConfInit /\ [][ConfNext]_confVars
-----------------------------------------------------------------------------
(* What the files say, without the order of reading: those that are read   *)
(* are the fewest that have the first one and what they include.           *)
Closed(fs) == \A f \in fs : \A el \in ToSet(conf[f]) : el.tag = "include" => el.attrs.href \in fs

ReadFrom(s) ==
    LET closed == {fs \in SUBSET DOMAIN conf : s \in fs /\ Closed(fs)}
    IN  {f \in DOMAIN conf : \A fs \in closed : f \in fs}

Said(s) == UNION {ToSet(conf[f]) : f \in ReadFrom(s)}
Of(s, c) == {el \in Said(s) : el.tag = "class" /\ el.attrs.name = c}
Shared == {el \in Said("types") : el.tag \in {"struct", "enum", "message"}}
Within(el) == ToSet(InsertIncludes(el.kids))
Given(own, parent, a) == IF a \in DOMAIN own.attrs THEN own.attrs[a] ELSE parent.attrs[a]

Items(s, c) == UNION {ToSet(made[s][k].items) : k \in {k \in DOMAIN made[s] : made[s][k].name = c}}

(* Everything that is declared for a class is generated for it, and        *)
(* nothing else: its types and those in no class; its messages, at the     *)
(* rates that they or the element of the class they are in give; and its   *)
(* settings, with the defaults that the fields or their settings give.     *)
TypesComplete(c) ==
    {t.name : t \in Items("types", c)} =
        UNION {{t.attrs.name : t \in Within(cl) \union Shared} : cl \in Of("types", c)}

MessagesComplete(c) ==
    {<<m.name, m.type, m.flightrate, m.simrate>> : m \in Items("telemetry", c)} =
        UNION {{<<m.attrs.name, m.attrs.type, Given(m, cl, "flightrate"), Given(m, cl, "simrate")>> :
                   m \in Within(cl)} : cl \in Of("telemetry", c)}

SettingsComplete(c) ==
    UNION {{<<s.name, s.type, f.path, f.default>> : f \in ToSet(s.fields)} : s \in Items("settings", c)} =
        UNION {UNION {{<<s.attrs.varname, s.attrs.type, f.attrs.name, Given(f, s, "default")>> :
                          f \in Within(s)} : s \in Within(cl)} : cl \in Of("settings", c)}

ClassNames == UNION {{el.attrs.name : el \in {e \in Said(s) : e.tag = "class"}} : s \in Sources}

(* A configuration that cannot be generated completely is not passed off   *)
(* as one that was.                                                        *)
AsDeclared ==
    stage = "written" =>
        \A c \in ClassNames : TypesComplete(c) /\ MessagesComplete(c) /\ SettingsComplete(c)

(* C and lcm-gen need a type before it is used in another: a type of the   *)
(* class stands after those in no class and after those before it.  (All   *)
(* files here declare before they use; order in a file is order of         *)
(* reading.)                                                               *)
DeclaredBeforeUse ==
    stage = "written" =>
        \A k \in DOMAIN made.types : LET types == made.types[k].items IN
            \A i \in DOMAIN types : types[i].kind = "struct" =>
                \A m \in ToSet(types[i].members) :
                    TypeNamed(types, m.type).kind # "primitive" =>
                        \E j \in 1..i - 1 : types[j].name = m.type
=============================================================================
