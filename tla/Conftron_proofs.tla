---------------------------- MODULE Conftron_proofs ----------------------------
(***************************************************************************)
(* What is proved about conftron's own parts: the settings of a program,   *)
(* for any fields, bounds and messages; the handshake of the settings GUI, *)
(* for any number of messages; the telemetry schedule, for every loop      *)
(* rate, every set of rates and every list of messages; lcm-gen, for any   *)
(* files; and the generator, for any configurations.                       *)
(*                                                                         *)
(* The settings.  Requests may be accepted while the defaults are still    *)
(* being set, and must not be handled before: which settings have a value  *)
(* at each stage of the start is Defaults.                                 *)
(*                                                                         *)
(* The GUI.  What has to be added to the invariants is what the listener   *)
(* knows between select and wait: nobody is handling messages, so that the *)
(* one it saw is still there when the call it posts is made.               *)
(*                                                                         *)
(* The schedule.  The inductive invariant relates the wait of a message to *)
(* the counter: the calls since the last send are the counter's distance   *)
(* from the multiple of the period below it.  When the counter is taken    *)
(* back that relation is lost for one call, and this call sends            *)
(* everything.  For the number of sends per turn, the multiples of the     *)
(* period below the counter are counted (Counted).                         *)
(*                                                                         *)
(* The generator.  Includes are followed in the order of reading, while    *)
(* what the files say is the least closed set of files: the files that     *)
(* were begun are closed but for what is still to be read (Follows), and   *)
(* all that was read stands where MakeClass looks for it (Took).           *)
(***************************************************************************)
EXTENDS Settings, SettingsApp, Telemetry, LcmGen, Configuration, Induction, TLAPS

-----------------------------------------------------------------------------
(* The settings of a program                                               *)

\* Messages that carry a struct exactly if their handler reads it.
Carried == {m \in Message : m.body = Off <=> m.op \in {"reset", "query"}}

Types ==
    /\ pc \in {"init", "null", "main", "select", "handle", "down"}
    /\ next \in Nat \ {0} /\ arrivals \in Nat
    /\ value \in [Settings -> Structs \cup {Off}]
    /\ subs \subseteq Settings \X {"set", "reset", "query", "custom"}
    /\ inbox \in Seq(Carried)

Defaults ==
    /\ pc = "init" => \A s \in Settings : value[s] = Off
    /\ pc = "null" => \A k \in 1..Len(Decl) : value[Decl[k]] = Off <=> k >= next
    /\ pc \in {"main", "select", "handle"} => \A s \in Settings : value[s] # Off

SettingsIInv == Types /\ Defaults

LEMMA BoundsType ==
    ASSUME NEW f \in Fields
    PROVE  /\ Lo[f] \in Int \ {NaN} /\ Hi[f] \in Int \ {NaN} /\ Dflt[f] \in Int \ {NaN}
           /\ Lo[f] <= Dflt[f] /\ Dflt[f] <= Hi[f]
           /\ {Lo[f], Hi[f], Dflt[f]} \subseteq Numbers
<1>1. {Lo[f], Hi[f], Dflt[f]} \subseteq Numbers
  <2>1. {Lo[f], Hi[f], Dflt[f]} \subseteq UNION {{Lo[g], Hi[g], Dflt[g]} : g \in Fields}
      BY Zenon
  <2> QED
      BY <2>1, Zenon DEF Numbers
<1> QED
    BY <1>1, SaneAssumption

LEMMA DefaultWithin == WithinBounds(Dflt)
BY BoundsType DEF WithinBounds

\* What a message leaves behind is the struct it found, a struct within the
\* bounds, or nothing.
LEMMA EffectFacts ==
    ASSUME NEW m \in Carried, NEW old \in Structs \cup {Off}
    PROVE  LET v == Effect(m, old) IN
           /\ v \in Structs \cup {Off}
           /\ v = old \/ v = Off \/ WithinBounds(v)
<1>1. m.op \in {"set", "reset", "query", "custom"}
    BY DEF Carried, Message
<1>2. CASE m.op = "query"
    BY <1>2 DEF Effect
<1>3. CASE m.op = "reset"
    BY <1>3, DefaultWithin, SettingsAssumption DEF Effect
<1>4. CASE m.op \in {"set", "custom"} /\ Fatal(m.body)
    BY <1>4 DEF Effect
<1>5. CASE m.op \in {"set", "custom"} /\ ~Fatal(m.body)
  <2> DEFINE b == m.body
             v == [f \in Fields |-> IF f \in Enums THEN b[f] ELSE Clamped(f, b[f])]
  <2>1. Effect(m, old) = v
      BY <1>5 DEF Effect
  <2>2. b \in Bodies /\ b \in Structs
      BY <1>5, SettingsAssumption DEF Carried, Message
  <2>3. ASSUME NEW f \in Fields
        PROVE  v[f] \in Numbers /\ (v[f] = NaN \/ (Lo[f] <= v[f] /\ v[f] <= Hi[f]))
    <3>1. b[f] \in Numbers /\ b[f] \in Int \cup {NaN}
        BY <2>2, SettingsAssumption DEF Structs
    <3>2. CASE f \in Enums
        BY <1>5, <3>1, <3>2, BoundsType DEF Fatal, Below
    <3>3. CASE f \notin Enums
      <4>1. v[f] = Clamped(f, b[f])
          BY <3>3
      <4> QED
          BY <3>1, <4>1, BoundsType DEF Clamped, Below
    <3> QED
        BY <3>2, <3>3
  <2>4. v \in Structs /\ WithinBounds(v)
      BY <2>3 DEF Structs, WithinBounds
  <2> QED
      BY <2>1, <2>4
<1> QED
    BY <1>1, <1>2, <1>3, <1>4, <1>5

LEMMA DeclFacts ==
    /\ \A k \in 1..Len(Decl) : Decl[k] \in Settings
    /\ \A s \in Settings : \E k \in 1..Len(Decl) : s = Decl[k]
    /\ \A k, l \in 1..Len(Decl) : Decl[k] = Decl[l] => k = l
    /\ Len(Decl) \in Nat
BY SettingsAssumption DEF Settings

LEMMA InitSettings == Init => SettingsIInv
<1> SUFFICES ASSUME Init PROVE SettingsIInv
    OBVIOUS
<1>1. inbox \in Seq(Carried)
    BY DEF Init
<1> QED
    BY <1>1 DEF Init, SettingsIInv, Types, Defaults

LEMMA StartupSettings == SettingsIInv /\ Startup => SettingsIInv'
<1> SUFFICES ASSUME SettingsIInv, Startup PROVE SettingsIInv'
    OBVIOUS
<1>1. CASE CreateFails
    BY <1>1 DEF CreateFails, SettingsIInv, Types, Defaults
<1>2. CASE InitCall
  <2>1. Decl[next] \in Settings
      BY <1>2, DeclFacts DEF InitCall, SettingsIInv, Types
  <2>2. subs' \subseteq Settings \X {"set", "reset", "query", "custom"}
      BY <1>2, <2>1 DEF InitCall, SettingsIInv, Types
  <2> QED
      BY <1>2, <2>2 DEF InitCall, SettingsIInv, Types, Defaults
<1>3. CASE InitsDone
    BY <1>3, DeclFacts DEF InitsDone, SettingsIInv, Types, Defaults
<1>4. CASE NullCall
  <2>1. next \in 1..Len(Decl) /\ Dflt \in Structs \cup {Off} /\ Dflt # Off
      BY <1>4, DeclFacts, SettingsAssumption DEF NullCall, SettingsIInv, Types
  <2>2. Decl[next] \in Settings
      BY <2>1, DeclFacts
  <2>3. Types'
      BY <1>4, <2>1, <2>2 DEF NullCall, Ack, SettingsIInv, Types
  <2>4. ASSUME NEW k \in 1..Len(Decl)
        PROVE  value'[Decl[k]] = Off <=> k >= next'
    <3>1. Decl[k] \in Settings /\ (Decl[k] = Decl[next] <=> k = next)
        BY <2>1, DeclFacts
    <3>2. value[Decl[k]] = Off <=> k >= next
        BY <1>4 DEF NullCall, SettingsIInv, Defaults
    <3>3. value'[Decl[k]] = IF k = next THEN Dflt ELSE value[Decl[k]]
        BY <1>4, <2>2, <3>1 DEF NullCall, SettingsIInv, Types
    <3>4. next' = next + 1
        BY <1>4 DEF NullCall
    <3> QED
        BY <2>1, <3>2, <3>3, <3>4
  <2> QED
      BY <1>4, <2>3, <2>4 DEF NullCall, SettingsIInv, Defaults
<1>5. CASE NullsDone
  <2>1. \A s \in Settings : value[s] # Off
    <3> SUFFICES ASSUME NEW s \in Settings PROVE value[s] # Off
        OBVIOUS
    <3>1. PICK k \in 1..Len(Decl) : s = Decl[k]
        BY DeclFacts
    <3>2. ~(k >= next)
        BY <1>5, DeclFacts DEF NullsDone, SettingsIInv, Types
    <3> QED
        BY <1>5, <3>1, <3>2 DEF NullsDone, SettingsIInv, Defaults
  <2> QED
      BY <1>5, <2>1 DEF NullsDone, SettingsIInv, Types, Defaults
<1> QED
    BY <1>1, <1>2, <1>3, <1>4, <1>5 DEF Startup

\* What arrives is a request of the abstract store.
LEMMA Arrived ==
    ASSUME SettingsIInv, Arrive
    PROVE  \E r \in Carried : inbox' = Append(inbox, r)
<1>1. PICK c \in subs, v \in Bodies \cup {Off} :
         /\ v = Off <=> c[2] \in {"reset", "query"}
         /\ inbox' = Append(inbox, [of |-> c[1], op |-> c[2], body |-> v, id |-> arrivals + 1])
    BY DEF Arrive
<1> DEFINE r == [of |-> c[1], op |-> c[2], body |-> v, id |-> arrivals + 1]
<1>2. c[1] \in Settings /\ c[2] \in {"set", "reset", "query", "custom"}
    BY <1>1 DEF SettingsIInv, Types
<1>3. arrivals + 1 \in 1..MaxArrivals
    BY SettingsAssumption DEF Arrive, SettingsIInv, Types
<1>4. r \in Message
    BY <1>2, <1>3 DEF Message
<1>5. r \in Carried
    BY <1>1, <1>4 DEF Carried
<1> QED
    BY <1>1, <1>5

LEMMA ArriveSettings == SettingsIInv /\ Arrive => SettingsIInv'
<1> SUFFICES ASSUME SettingsIInv, Arrive PROVE SettingsIInv'
    OBVIOUS
<1>1. inbox' \in Seq(Carried)
    BY Arrived DEF SettingsIInv, Types
<1> QED
    BY <1>1 DEF Arrive, SettingsIInv, Types, Defaults

LEMMA OwnChangeSettings == SettingsIInv /\ OwnChange => SettingsIInv'
<1> SUFFICES ASSUME SettingsIInv, OwnChange PROVE SettingsIInv'
    OBVIOUS
<1>1. PICK s \in Settings, v \in Bodies : value' = [value EXCEPT ![s] = v]
    BY DEF OwnChange
<1>2. v \in Structs /\ v # Off
    BY SettingsAssumption
<1> QED
    BY <1>1, <1>2 DEF OwnChange, SettingsIInv, Types, Defaults

\* What lcm_handle does, in the terms of the message at the head.
LEMMA Handled ==
    ASSUME SettingsIInv, Handle
    PROVE  LET m == Head(inbox)
               v == Effect(m, value[m.of])
           IN  /\ m \in Carried /\ m.of \in Settings /\ inbox' \in Seq(Carried)
               /\ v \in Structs \cup {Off}
               /\ v = value[m.of] \/ v = Off \/ WithinBounds(v)
               /\ v = Off => pc' = "down" /\ value' = value /\ ack' = ack
               /\ v # Off => /\ pc' \in {"select", "main"}
                             /\ value' = [value EXCEPT ![m.of] = v]
                             /\ Ack(m.of, v)
<1> DEFINE m == Head(inbox)
           v == Effect(m, value[m.of])
<1>1. m \in Carried /\ inbox' \in Seq(Carried)
    BY DEF Handle, SettingsIInv, Types
<1>2. m.of \in Settings
    BY <1>1 DEF Carried, Message
<1>3. value[m.of] \in Structs \cup {Off}
    BY <1>2 DEF SettingsIInv, Types
<1>4. /\ v \in Structs \cup {Off}
      /\ v = value[m.of] \/ v = Off \/ WithinBounds(v)
    BY <1>1, <1>3, EffectFacts
<1> QED
    BY <1>1, <1>2, <1>4 DEF Handle

LEMMA CheckSettings == SettingsIInv /\ (Check \/ LcmCheck) => SettingsIInv'
<1> SUFFICES ASSUME SettingsIInv, Check \/ LcmCheck PROVE SettingsIInv'
    OBVIOUS
<1>1. CASE Handle
  <2> DEFINE m == Head(inbox)
             v == Effect(m, value[m.of])
  <2>1. m.of \in Settings /\ v \in Structs \cup {Off} /\ inbox' \in Seq(Carried)
      BY <1>1, Handled
  <2>2. CASE v = Off
      BY <1>1, <2>1, <2>2, Handled DEF Handle, SettingsIInv, Types, Defaults
  <2>3. CASE v # Off
    <3>1. pc' \in {"select", "main"} /\ value' = [value EXCEPT ![m.of] = v]
        BY <1>1, <2>3, Handled
    <3> QED
        BY <1>1, <2>1, <2>3, <3>1 DEF Handle, SettingsIInv, Types, Defaults
  <2> QED
      BY <2>2, <2>3
<1>2. CASE Check \/ SelectReady \/ SelectTimeout \/ SelectInterrupted
    BY <1>2 DEF Check, SelectReady, SelectTimeout, SelectInterrupted, SettingsIInv, Types, Defaults
<1> QED
    BY <1>1, <1>2 DEF LcmCheck

LEMMA StepSettings == SettingsIInv /\ [Next]_vars => SettingsIInv'
<1>1. SettingsIInv /\ UNCHANGED vars => SettingsIInv'
    BY DEF vars, SettingsIInv, Types, Defaults
<1> QED
    BY <1>1, StartupSettings, ArriveSettings, OwnChangeSettings, CheckSettings DEF Next

\* Whatever messages carry, for any bounds the generator accepts: what a
\* handler leaves in a setting is within them, or NaN (settings_templates.py:126).
THEOREM SettingsBounded == Spec => BoundsKept
<1>1. SettingsIInv /\ [Next]_vars =>
        [\A s \in Settings : value'[s] # value[s] /\ pc = "handle"
             => WithinBounds(value'[s])]_vars
  <2> SUFFICES ASSUME SettingsIInv, Next, NEW s \in Settings,
                      value'[s] # value[s], pc = "handle"
               PROVE  WithinBounds(value'[s])
      BY DEF vars
  <2>1. CASE Handle
    <3> DEFINE m == Head(inbox)
               v == Effect(m, value[m.of])
    <3>1. v # Off /\ value' = [value EXCEPT ![m.of] = v]
        BY <2>1, Handled
    <3>2. s = m.of /\ value'[s] = v
        BY <3>1 DEF SettingsIInv, Types
    <3> QED
        BY <2>1, <3>1, <3>2, Handled
  <2>2. CASE ~Handle
      BY <2>2 DEF Next, Startup, CreateFails, InitCall, InitsDone, NullCall, NullsDone, Arrive,
                  OwnChange, Check, LcmCheck, SelectReady, SelectTimeout, SelectInterrupted
  <2> QED
      BY <2>1, <2>2
<1> QED
    BY <1>1, InitSettings, StepSettings, PTL DEF Spec, BoundsKept

\* Every step of the program is one of the abstract store, or none.
LEMMA StoreStep == SettingsIInv /\ [Next]_vars => [Store!StoreNext]_(Store!storeVars)
<1> SUFFICES ASSUME SettingsIInv, [Next]_vars PROVE [Store!StoreNext]_(Store!storeVars)
    OBVIOUS
<1> USE DEF Store!storeVars
<1>1. CASE CreateFails
    BY <1>1 DEF CreateFails, Store!StoreNext, Store!Fail
<1>2. CASE InitCall \/ InitsDone \/ NullsDone \/ Check \/ SelectReady \/ SelectTimeout
           \/ SelectInterrupted
    BY <1>2 DEF InitCall, InitsDone, NullsDone, Check, SelectReady, SelectTimeout, SelectInterrupted
<1>3. CASE NullCall
  <2>1. next \in 1..Len(Decl)
      BY <1>3, DeclFacts DEF NullCall, SettingsIInv, Types
  <2>2. Decl[next] \in Settings /\ value[Decl[next]] = Off
      BY <1>3, <2>1, DeclFacts DEF NullCall, SettingsIInv, Types, Defaults
  <2>3. Store!Start(Decl[next])
      BY <1>3, <2>2 DEF NullCall, Ack, Store!Start, Store!Ack
  <2> QED
      BY <2>2, <2>3 DEF Store!StoreNext
<1>4. CASE Arrive
  <2>1. PICK r \in Carried : inbox' = Append(inbox, r)
      BY <1>4, Arrived
  <2>2. r \in Message /\ Store!Accept(r)
      BY <1>4, <2>1 DEF Arrive, Carried, Store!Accept
  <2> QED
      BY <2>2 DEF Store!StoreNext
<1>5. CASE OwnChange
  <2>1. PICK s \in Settings, v \in Bodies : value' = [value EXCEPT ![s] = v]
      BY <1>5 DEF OwnChange
  <2>2. Store!OwnChange(s, v)
      BY <1>5, <2>1 DEF OwnChange, SettingsIInv, Defaults, Store!OwnChange
  <2> QED
      BY <2>2 DEF Store!StoreNext
<1>6. CASE Handle
  <2>1. pc = "handle" /\ Store!Started
      BY <1>6 DEF Handle, SettingsIInv, Defaults, Store!Started
  <2>2. Store!Serve
      BY <1>6, <2>1, Handled DEF Handle, Ack, Store!Serve, Store!Ack
  <2> QED
      BY <2>2 DEF Store!StoreNext
<1>7. CASE UNCHANGED vars
    BY <1>7 DEF vars
<1> QED
    BY <1>1, <1>2, <1>3, <1>4, <1>5, <1>6, <1>7 DEF Next, Startup, LcmCheck

\* The settings are a store (README 3.4, 3.5, 3.7): defaults first, then every
\* accepted request once, in order, each confirmed with the value it left,
\* for any settings, structs and messages, however arrivals, init and checks
\* interleave.
THEOREM ImplementsStore == Spec => IsStore
<1>1. Init => Store!StoreInit
    BY DEF Init, Store!StoreInit
<1> QED
    BY <1>1, InitSettings, StepSettings, StoreStep, PTL DEF Spec, IsStore, Store!StoreSpec

-----------------------------------------------------------------------------
(* The settings GUI                                                        *)

ListenerKnows ==
    /\ lpc \in {"clear", "post"} => mailbox # <<>>
    /\ lpc = "post" => ~event

AppIInv == AppTypeOK /\ Handshake /\ ListenerKnows

LEMMA AppInitIInv == AppInit => AppIInv
<1> SUFFICES ASSUME AppInit PROVE AppIInv
    OBVIOUS
<1>1. mailbox = <<>> /\ mailbox \in Seq(Kinds) /\ Len(mailbox) = 0
    BY DEF AppInit
<1>2. AppTypeOK
  <2>1. arrived \in 0..MaxMessages /\ handled \in 0..arrived
      BY AppAssumption DEF AppInit
  <2>2. Len(mailbox) = arrived - handled
      BY <1>1 DEF AppInit
  <2> QED
      BY <1>1, <2>1, <2>2 DEF AppInit, AppTypeOK
<1>3. Pending = 0
    BY DEF AppInit, Pending
<1> QED
    BY <1>2, <1>3 DEF AppInit, AppIInv, Handshake, ListenerKnows

LEMMA AppArriveIInv == AppIInv /\ AppArrive => AppIInv'
<1> SUFFICES ASSUME AppIInv, AppArrive PROVE AppIInv'
    OBVIOUS
<1>1. PICK k \in Kinds : mailbox' = Append(mailbox, k)
    BY DEF AppArrive
<1>2. /\ mailbox' \in Seq(Kinds) /\ mailbox' # <<>>
      /\ Len(mailbox') = Len(mailbox) + 1
    BY <1>1 DEF AppIInv, AppTypeOK
<1>3. AppTypeOK'
  <2>1. arrived' \in 0..MaxMessages /\ handled' \in 0..arrived'
      BY AppAssumption DEF AppIInv, AppTypeOK, AppArrive
  <2>2. Len(mailbox') = arrived' - handled'
      BY <1>2 DEF AppIInv, AppTypeOK, AppArrive
  <2> QED
      BY <1>2, <2>1, <2>2 DEF AppIInv, AppTypeOK, AppArrive
<1>4. Pending' = Pending
    BY DEF AppArrive, Pending
<1> QED
    BY <1>2, <1>3, <1>4
    DEF AppArrive, AppIInv, Handshake, ListenerKnows

LEMMA AppListenerIInv == AppIInv /\ Listener => AppIInv'
<1> SUFFICES ASSUME AppIInv, Listener PROVE AppIInv'
    OBVIOUS
<1>1. Pending \in Nat
    BY DEF AppIInv, AppTypeOK, Pending
<1>2. CASE Select
  <2>1. Pending' = Pending
      BY <1>2 DEF Select, Pending
  <2> QED
      BY <1>1, <1>2, <2>1
      DEF Select, AppIInv, AppTypeOK, Handshake, ListenerKnows
<1>3. CASE Clear
  <2>1. Pending' = Pending
      BY <1>3 DEF Clear, Pending
  <2> QED
      BY <1>1, <1>3, <2>1
      DEF Clear, AppIInv, AppTypeOK, Handshake, ListenerKnows
<1>4. CASE CallAfter
  <2>1. Pending = 0 /\ mailbox # <<>> /\ ~event
      BY <1>1, <1>4 DEF CallAfter, AppIInv, Handshake, ListenerKnows
  <2>2. Pending' = 1
      BY <1>4, <2>1 DEF CallAfter, Pending, AppIInv, AppTypeOK
  <2> QED
      BY <1>4, <2>1, <2>2
      DEF CallAfter, AppIInv, AppTypeOK, Handshake, ListenerKnows
<1>5. CASE Wait
  <2>1. Pending' = Pending /\ Pending # 1
      BY <1>5 DEF Wait, Pending, AppIInv, Handshake
  <2> QED
      BY <1>1, <1>5, <2>1
      DEF Wait, AppIInv, AppTypeOK, Handshake, ListenerKnows
<1> QED
    BY <1>2, <1>3, <1>4, <1>5 DEF Listener

LEMMA AppGuiIInv == AppIInv /\ Gui => AppIInv'
<1> SUFFICES ASSUME AppIInv, Gui PROVE AppIInv'
    OBVIOUS
<1>1. CASE BeginCall
  <2>1. Pending' = Pending
      BY <1>1 DEF BeginCall, Pending, AppIInv, AppTypeOK
  <2> QED
      BY <1>1, <2>1
      DEF BeginCall, AppIInv, AppTypeOK, Handshake, ListenerKnows
<1>2. CASE LcHandle
  <2>1. posted = 0 /\ Pending = 1 /\ lpc = "wait"
      BY <1>2 DEF LcHandle, Pending, AppIInv, AppTypeOK, Handshake
  <2>2. Pending' = 0
      BY <1>2, <2>1 DEF LcHandle, Pending
  <2>3. /\ mailbox' \in Seq(Kinds) /\ Len(mailbox') = Len(mailbox) - 1
        /\ Len(mailbox) \in Nat \ {0}
      BY <1>2 DEF LcHandle, AppIInv, AppTypeOK
  <2>4. event' \in BOOLEAN /\ unseen' \in BOOLEAN
      BY <1>2 DEF LcHandle, AppIInv, AppTypeOK
  <2>5. handled' \in 0..arrived' /\ Len(mailbox') = arrived' - handled'
      BY <1>2, <2>3 DEF LcHandle, AppIInv, AppTypeOK
  <2>6. AppTypeOK'
      BY <1>2, <2>3, <2>4, <2>5 DEF LcHandle, AppIInv, AppTypeOK
  <2> QED
      BY <1>2, <2>1, <2>2, <2>6
      DEF LcHandle, AppIInv, Handshake, ListenerKnows
<1> QED
    BY <1>1, <1>2 DEF Gui

\* However many messages arrive and of whatever kind, one lc.handle at a time
\* is under way, with the listener waiting for it, and it never blocks the GUI.
THEOREM HandshakeSafe == AppSpec => [](AppTypeOK /\ Handshake)
<1>1. AppIInv /\ [AppNext]_appVars => AppIInv'
  <2> SUFFICES ASSUME AppIInv, [AppNext]_appVars PROVE AppIInv'
      OBVIOUS
  <2>1. CASE UNCHANGED appVars
      BY <2>1 DEF appVars, AppIInv, AppTypeOK, Handshake,
                  ListenerKnows, Pending
  <2> QED
      BY <2>1, AppArriveIInv, AppListenerIInv, AppGuiIInv DEF AppNext
<1>2. AppIInv => AppTypeOK /\ Handshake
    BY DEF AppIInv
<1> QED
    BY <1>1, <1>2, AppInitIInv, PTL DEF AppSpec

-----------------------------------------------------------------------------
(* The telemetry schedule                                                  *)

\* Division with remainder, as the send functions use it.
LEMMA DivMod ==
    ASSUME NEW a \in Nat, NEW p \in Nat \ {0}
    PROVE  /\ a % p \in 0..p - 1 /\ a \div p \in Nat
           /\ a = ((a \div p) * p) + (a % p)
OBVIOUS

LEMMA MultipleMod ==
    ASSUME NEW q \in Nat, NEW p \in Nat \ {0}
    PROVE  (q * p) % p = 0
OBVIOUS

\* A multiple of a multiple is a multiple.
LEMMA DividesTransitive ==
    ASSUME NEW a \in Nat, NEW n \in Nat \ {0}, NEW m \in Nat \ {0},
           n % m = 0, a % n = 0
    PROVE  a % m = 0
<1> DEFINE x == a \div n
           y == n \div m
<1>1. x \in Nat /\ y \in Nat /\ a = x * n /\ n = y * m
    BY DivMod, SMT
<1>2. a = (x * y) * m
    BY <1>1, SMT
<1>3. x * y \in Nat
    BY <1>1
<1> QED
    BY <1>2, <1>3, MultipleMod

\* A period is a natural number.
LEMMA PeriodNat ==
    ASSUME NEW m \in Messages, rate \in [Messages -> Rates]
    PROVE  Period(m) \in Nat
<1>1. rate[m] \in Nat \ {0}
    BY TelemetryAssumption
<1>2. Hz \in Nat /\ Scale \in Nat
    BY TelemetryAssumption
<1>3. Hz * Scale \in Nat
    BY <1>2
<1> QED
    BY <1>1, <1>3, DivMod DEF Period

-----------------------------------------------------------------------------
\* While the counter is not zero, the message was last sent when the counter
\* was the multiple of its period below counter - 1.
Aligned(m) ==
    Period(m) > 0 =>
        /\ waited[m] < Period(m)
        /\ counter > 0 => \E q \in Nat : counter = q * Period(m) + waited[m] + 1

IInv == TypeOK /\ InPhase /\ (~down => \A m \in Messages : Aligned(m))

LEMMA InitIInv == TelemetryInit => IInv
<1> SUFFICES ASSUME TelemetryInit PROVE IInv
    OBVIOUS
<1>1. \A m \in Messages : Period(m) \in Nat
    BY PeriodNat DEF TelemetryInit
<1>2. TypeOK
  <2>1. 0 \in 0..Hz /\ 0 \in 0..MaxCalls /\ 0 \in 0..0
      BY TelemetryAssumption
  <2>2. waited \in [Messages -> 0..calls] /\ sent \in [Messages -> 0..calls]
      BY <2>1 DEF TelemetryInit
  <2> QED
      BY <2>1, <2>2 DEF TelemetryInit, TypeOK
<1>3. InPhase
    BY DEF TelemetryInit, InPhase
<1>4. \A m \in Messages : Aligned(m)
    BY <1>1 DEF TelemetryInit, Aligned
<1> QED
    BY <1>2, <1>3, <1>4 DEF IInv

\* What a call sends, when it does not end the process.
LEMMA SendOut ==
    ASSUME TypeOK, Send, ~down'
    PROVE  /\ counter' = NextCounter
           /\ \A m \in Messages :
                  Period(m) > 0 => (m \in out' <=> counter % Period(m) = 0)
           /\ \A m \in Messages : Period(m) = 0 => (m \in out' <=> counter = 0)
<1>1. /\ counter' = NextCounter
      /\ out' = {Declared[j] : j \in {k \in 1..Len(Declared) :
                     IF k \in Faulty THEN counter = 0 ELSE Due(k)}}
    BY DEF Send
<1>2. ASSUME NEW m \in Messages
      PROVE  m \in out' <=> IF Period(m) = 0 THEN counter = 0
                            ELSE counter % Period(m) = 0
  <2>1. PICK i \in 1..Len(Declared) : m = Declared[i]
      BY DEF Messages
  <2>2. \A j \in 1..Len(Declared) : Declared[j] = m => j = i
      BY <2>1, TelemetryAssumption
  <2>3. m \in out' <=> IF i \in Faulty THEN counter = 0 ELSE Due(i)
      BY <1>1, <2>1, <2>2
  <2> QED
      BY <2>1, <2>3 DEF Faulty, Due
<1> QED
    BY <1>1, <1>2

LEMMA SendType == TypeOK /\ Send => TypeOK'
<1> SUFFICES ASSUME TypeOK, Send PROVE TypeOK'
    OBVIOUS
<1>1. rate' \in [Messages -> Rates] /\ down' \in BOOLEAN
    BY DEF TypeOK, Send
<1>2. calls \in Nat /\ calls' = calls + 1 /\ calls' \in 0..MaxCalls
    BY TelemetryAssumption DEF TypeOK, Send
<1>3. counter' \in 0..Hz
    BY TelemetryAssumption DEF TypeOK, Send, NextCounter
<1>4. out' \subseteq Messages
    BY DEF Send, Messages, Faulty
<1>5. waited' \in [Messages -> 0..calls']
    BY <1>2 DEF TypeOK, Send
<1>6. sent' \in [Messages -> 0..calls']
    BY <1>2 DEF TypeOK, Send
<1> QED
    BY <1>1, <1>2, <1>3, <1>4, <1>5, <1>6 DEF TypeOK

LEMMA SendAligned ==
    ASSUME IInv, Send, ~down', NEW m \in Messages
    PROVE  Aligned(m)'
<1> DEFINE p == Period(m)
<1>1. /\ ~down /\ TypeOK /\ Aligned(m) /\ rate' = rate
      /\ waited' = [n \in Messages |-> IF n \in out' THEN 0 ELSE waited[n] + 1]
    BY DEF IInv, Send
<1>2. p \in Nat /\ Period(m)' = p
    BY <1>1, PeriodNat DEF TypeOK, Period
<1>3. counter \in Nat /\ waited[m] \in Nat /\ counter \in 0..Hz /\ Hz \in Nat
    BY <1>1, TelemetryAssumption DEF TypeOK
<1>4. counter' = IF counter >= Hz THEN 0 ELSE counter + 1
    BY <1>1, SendOut DEF NextCounter
<1> SUFFICES ASSUME p > 0
             PROVE  /\ waited[m]' < p
                    /\ counter' > 0 =>
                          \E q \in Nat : counter' = q * p + waited[m]' + 1
    BY <1>2 DEF Aligned
<1>5. m \in out' <=> counter % p = 0
    BY <1>1, <1>2, SendOut
<1> HIDE DEF p
<1>6. CASE counter % p = 0
  <2>1. waited'[m] = 0
      BY <1>1, <1>5, <1>6
  <2>2. counter \div p \in Nat /\ counter = (counter \div p) * p
    <3>1. p \in Nat \ {0} /\ counter \in Nat
        BY <1>2, <1>3
    <3>2. /\ counter \div p \in Nat
          /\ counter = ((counter \div p) * p) + (counter % p)
        BY <3>1, DivMod
    <3>3. (counter \div p) * p \in Nat
        BY <3>1, <3>2
    <3> QED
        BY <1>6, <3>2, <3>3
  <2>3. counter' > 0 => counter' = (counter \div p) * p + 0 + 1
      BY <1>3, <1>4, <2>2
  <2> QED
      BY <1>2, <2>1, <2>2, <2>3
<1>7. CASE counter % p # 0
  <2>1. waited'[m] = waited[m] + 1
      BY <1>1, <1>5, <1>7
  <2>2. counter > 0
    <3>1. (0 * p) % p = 0 /\ 0 * p = 0
        BY <1>2, MultipleMod
    <3> QED
        BY <1>3, <1>7, <3>1
  <2>3. PICK q \in Nat : counter = q * p + waited[m] + 1
      BY <1>1, <2>2 DEF Aligned, p
  <2>4. waited[m] + 1 < p
    <3>1. waited[m] < p
        BY <1>1 DEF Aligned, p
    <3>2. (q + 1) * p = q * p + p /\ q * p \in Nat
        BY <1>2
    <3>3. waited[m] + 1 # p
      <4> SUFFICES ASSUME waited[m] + 1 = p PROVE FALSE
          OBVIOUS
      <4>1. counter = (q + 1) * p
          BY <1>2, <1>3, <2>3, <3>2
      <4> QED
          BY <1>2, <1>7, <4>1, MultipleMod
    <3> QED
        BY <1>2, <1>3, <3>1, <3>3
  <2>5. counter' > 0 => counter' = q * p + (waited[m] + 1) + 1
      BY <1>2, <1>3, <1>4, <2>3
  <2> QED
      BY <2>1, <2>3, <2>4, <2>5
<1> QED
    BY <1>6, <1>7

LEMMA SendInPhase ==
    ASSUME IInv, Send, ~down'
    PROVE  InPhase'
<1>1. TypeOK /\ rate' = rate
    BY DEF IInv, Send
<1> SUFFICES ASSUME NEW m \in Messages, NEW n \in Messages,
                    Period(m) > 0, Period(n) % Period(m) = 0, n \in out'
             PROVE  m \in out'
    BY <1>1 DEF InPhase, Period
<1>2. Period(m) \in Nat \ {0} /\ Period(n) \in Nat /\ counter \in Nat
    BY <1>1, PeriodNat DEF TypeOK
<1>3. counter % Period(m) = 0
  <2>1. CASE Period(n) = 0
    <3>1. counter = 0 * Period(m)
        BY <1>1, <1>2, <2>1, SendOut
    <3> QED
        BY <1>2, <3>1, MultipleMod
  <2>2. CASE Period(n) > 0
    <3>1. counter % Period(n) = 0
        BY <1>1, <2>2, SendOut
    <3> QED
        BY <1>2, <2>2, <3>1, DividesTransitive
  <2> QED
      BY <1>2, <2>1, <2>2
<1> QED
    BY <1>1, <1>3, SendOut

LEMMA StepIInv == IInv /\ [TelemetryNext]_telemetryVars => IInv'
<1> SUFFICES ASSUME IInv, [TelemetryNext]_telemetryVars PROVE IInv'
    OBVIOUS
<1>1. CASE Send
  <2>1. TypeOK'
      BY <1>1, SendType DEF IInv
  <2>2. InPhase'
      BY <1>1, SendInPhase DEF InPhase
  <2>3. ~down' => \A m \in Messages : Aligned(m)'
      BY <1>1, SendAligned
  <2> QED
      BY <2>1, <2>2, <2>3 DEF IInv
<1>2. CASE UNCHANGED telemetryVars
    BY <1>2 DEF IInv, TypeOK, InPhase, Aligned, Period, telemetryVars
<1> QED
    BY <1>1, <1>2 DEF TelemetryNext

\* For every loop rate, configuration and class, a message never waits longer
\* than its period and messages of dividing periods go out together.
THEOREM ScheduleSafe == TelemetrySpec => [](TypeOK /\ GapBounded /\ InPhase)
<1>1. IInv => TypeOK /\ GapBounded /\ InPhase
    BY DEF IInv, GapBounded, Aligned
<1> QED
    BY <1>1, InitIInv, StepIInv, PTL DEF TelemetrySpec

-----------------------------------------------------------------------------
(* How often a message is sent.                                            *)

LEMMA TimesMonotone ==
    ASSUME NEW a \in Nat, NEW b \in Nat, NEW p \in Nat, a <= b
    PROVE  a * p <= b * p
<1>1. b - a \in Nat /\ (b - a) * p \in Nat /\ b = a + (b - a)
    OBVIOUS
<1>2. (a + (b - a)) * p = a * p + (b - a) * p
    BY <1>1
<1> QED
    BY <1>1, <1>2

\* The multiple of p in an interval of length p is unique.
LEMMA OneMultiple ==
    ASSUME NEW a \in Nat, NEW b \in Nat, NEW p \in Nat \ {0}, NEW c \in Nat,
           a * p <= c, c < (a + 1) * p, b * p <= c, c < (b + 1) * p
    PROVE  a = b
<1>1. a * p \in Nat /\ b * p \in Nat /\ (a + 1) * p \in Nat /\ (b + 1) * p \in Nat
    OBVIOUS
<1>2. ~(a + 1 <= b)
    BY <1>1, TimesMonotone
<1>3. ~(b + 1 <= a)
    BY <1>1, TimesMonotone
<1> QED
    BY <1>2, <1>3

\* k multiples of p are below c.
MultiplesBelow(k, p, c) ==
    IF c = 0 THEN k = 0 ELSE k > 0 /\ (k - 1) * p < c /\ c <= k * p

LEMMA NextBelow ==
    ASSUME NEW k \in Nat, NEW p \in Nat \ {0}, NEW c \in Nat, MultiplesBelow(k, p, c)
    PROVE  MultiplesBelow(k + (IF c % p = 0 THEN 1 ELSE 0), p, c + 1)
<1>1. k * p \in Nat /\ (k + 1) * p = k * p + p /\ (k + 1) - 1 = k
    OBVIOUS
<1>2. CASE c = 0
  <2>1. k = 0 /\ 0 * p = 0 /\ 1 * p = p
      BY <1>2 DEF MultiplesBelow
  <2>2. c % p = 0
      BY <1>2, <2>1, MultipleMod
  <2> QED
      BY <1>2, <2>1, <2>2 DEF MultiplesBelow
<1>3. CASE c > 0 /\ c % p = 0
  <2> DEFINE q == c \div p
  <2>1. q \in Nat /\ c = q * p
      BY <1>3, DivMod
  <2>2. k > 0 /\ k - 1 \in Nat /\ (k - 1) * p < c /\ c <= k * p
      BY <1>3 DEF MultiplesBelow
  <2> HIDE DEF q
  <2>3. ~(q <= k - 1)
      BY <2>1, <2>2, TimesMonotone
  <2>4. ~(k + 1 <= q)
      BY <1>1, <2>1, <2>2, TimesMonotone
  <2>5. q = k
      BY <2>1, <2>3, <2>4
  <2> QED
      BY <1>1, <1>3, <2>1, <2>5 DEF MultiplesBelow
<1>4. CASE c > 0 /\ c % p # 0
  <2>1. k > 0 /\ (k - 1) * p < c /\ c <= k * p /\ (k - 1) * p \in Int
      BY <1>4 DEF MultiplesBelow
  <2>2. c # k * p
      BY <1>4, MultipleMod
  <2>3. (k - 1) * p < c + 1 /\ c + 1 <= k * p
      BY <1>1, <2>1, <2>2
  <2> QED
      BY <1>4, <2>1, <2>3 DEF MultiplesBelow
<1> QED
    BY <1>2, <1>3, <1>4

PerTurn(m) == (Hz \div Period(m)) + 1

Counted(m) ==
    Period(m) > 0 =>
        \E turn \in Nat, k \in Nat :
            /\ calls = turn * (Hz + 1) + counter
            /\ sent[m] = turn * PerTurn(m) + k
            /\ MultiplesBelow(k, Period(m), counter)

CInv == TypeOK /\ (~down => \A m \in Messages : Counted(m))

LEMMA SendCounted ==
    ASSUME CInv, Send, ~down', NEW m \in Messages
    PROVE  Counted(m)'
<1> DEFINE p == Period(m)
           d == PerTurn(m)
<1>1. /\ ~down /\ TypeOK /\ Counted(m) /\ rate' = rate /\ calls' = calls + 1
      /\ sent' = [n \in Messages |-> sent[n] + (IF n \in out' THEN 1 ELSE 0)]
    BY DEF CInv, Send
<1>2. p \in Nat /\ Period(m)' = p /\ PerTurn(m)' = d
    BY <1>1, PeriodNat DEF TypeOK, Period, PerTurn
<1>3. counter \in Nat /\ counter \in 0..Hz /\ Hz \in Nat /\ calls \in Nat
    BY <1>1, TelemetryAssumption DEF TypeOK
<1>4. counter' = IF counter >= Hz THEN 0 ELSE counter + 1
    BY <1>1, SendOut DEF NextCounter
<1> SUFFICES ASSUME p > 0
             PROVE  \E turn \in Nat, k \in Nat :
                        /\ calls' = turn * (Hz + 1) + counter'
                        /\ sent'[m] = turn * d + k
                        /\ MultiplesBelow(k, p, counter')
    BY <1>2 DEF Counted, MultiplesBelow
<1>5. m \in out' <=> counter % p = 0
    BY <1>1, <1>2, SendOut
<1>6. PICK turn \in Nat, k \in Nat :
            /\ calls = turn * (Hz + 1) + counter
            /\ sent[m] = turn * d + k
            /\ MultiplesBelow(k, p, counter)
    BY <1>1 DEF Counted
<1>7. d \in Nat /\ d = (Hz \div p) + 1 /\ Hz \div p \in Nat
    BY SMTT(30), <1>2, <1>3, DivMod DEF PerTurn
<1>8. (Hz \div p) * p <= Hz /\ Hz < ((Hz \div p) + 1) * p
  <2> DEFINE e == Hz \div p
             r == Hz % p
  <2> HIDE DEF p
  <2>1. e \in Nat /\ r \in 0..p - 1 /\ Hz = e * p + r
    <3>1. p \in Nat \ {0} /\ Hz \in Nat
        BY <1>2, <1>3
    <3> QED
        BY <3>1, DivMod
  <2> HIDE DEF e, r
  <2>2. e * p \in Nat /\ (e + 1) * p = e * p + p
      BY <1>2, <2>1
  <2>3. e * p <= Hz /\ Hz < (e + 1) * p
      BY <1>2, <2>1, <2>2
  <2> QED
      BY <2>3 DEF e
<1> DEFINE n == k + (IF counter % p = 0 THEN 1 ELSE 0)
<1>9. n \in Nat /\ MultiplesBelow(n, p, counter + 1)
    BY <1>2, <1>3, <1>6, NextBelow
<1>10. sent'[m] = turn * d + n
  <2>1. sent'[m] = sent[m] + (IF counter % p = 0 THEN 1 ELSE 0)
      BY <1>1, <1>5
  <2>2. turn * d \in Nat
      BY <1>7
  <2> QED
      BY <1>6, <2>1, <2>2
<1> HIDE DEF n, p, d
<1>11. CASE counter < Hz
  <2>1. calls' = turn * (Hz + 1) + counter'
    <3>1. turn * (Hz + 1) \in Nat
        BY <1>3
    <3> QED
        BY <1>1, <1>3, <1>4, <1>6, <1>11, <3>1
  <2>2. MultiplesBelow(n, p, counter')
      BY <1>3, <1>4, <1>9, <1>11
  <2> QED
      BY <1>9, <1>10, <2>1, <2>2
<1>12. CASE counter = Hz
  <2>1. n > 0 /\ (n - 1) * p < Hz + 1 /\ Hz + 1 <= n * p
      BY <1>3, <1>9, <1>12 DEF MultiplesBelow
  <2>2. n - 1 \in Nat /\ (n - 1) + 1 = n /\ (n - 1) * p \in Nat /\ n * p \in Nat
      BY <1>2, <1>9, <2>1
  <2>3. (n - 1) * p <= Hz /\ Hz < ((n - 1) + 1) * p
      BY <1>3, <2>1, <2>2
  <2>4. n - 1 = Hz \div p
      BY <1>2, <1>3, <1>7, <1>8, <2>2, <2>3, OneMultiple
  <2>5. n = d
      BY <1>7, <1>9, <2>4
  <2>6. sent'[m] = (turn + 1) * d + 0
      BY <1>7, <1>10, <2>5
  <2>7. calls' = (turn + 1) * (Hz + 1) + 0
      BY <1>1, <1>3, <1>6, <1>12
  <2>8. counter' = 0 /\ MultiplesBelow(0, p, 0)
      BY <1>3, <1>4, <1>12 DEF MultiplesBelow
  <2> QED
      BY <2>6, <2>7, <2>8
<1> QED
    BY <1>3, <1>11, <1>12

\* At the end of a turn everything has been counted.
LEMMA TurnEnds ==
    ASSUME CInv, ~down, calls % (Hz + 1) = 0, NEW m \in Messages, Period(m) > 0
    PROVE  sent[m] = (calls \div (Hz + 1)) * ((Hz \div Period(m)) + 1)
<1>1. PICK turn \in Nat, k \in Nat :
            /\ calls = turn * (Hz + 1) + counter
            /\ sent[m] = turn * PerTurn(m) + k
            /\ MultiplesBelow(k, Period(m), counter)
    BY DEF CInv, Counted
<1> DEFINE h == Hz + 1
           t == calls \div h
<1>2. h \in Nat \ {0} /\ calls \in Nat /\ counter \in Nat /\ counter < h
    BY TelemetryAssumption DEF CInv, TypeOK
<1>3. calls = turn * h + counter /\ calls % h = 0
    BY <1>1
<1> HIDE DEF h
<1>4. t \in Nat /\ calls = t * h
  <2>1. t \in Nat /\ calls = t * h + (calls % h)
      BY <1>2, DivMod
  <2> HIDE DEF t
  <2>2. t * h \in Nat
      BY <1>2, <2>1
  <2> QED
      BY <1>2, <1>3, <2>1, <2>2
<1> HIDE DEF t
<1>5. turn * h \in Nat /\ (turn + 1) * h = turn * h + h /\ (t + 1) * h = t * h + h
    BY <1>2, <1>4
<1>6. turn = t
  <2>1. turn * h <= calls /\ calls < (turn + 1) * h
      BY <1>2, <1>3, <1>5
  <2>2. t * h <= calls /\ calls < (t + 1) * h
      BY <1>2, <1>4, <1>5
  <2>3. h \in Nat \ {0} /\ calls \in Nat /\ turn \in Nat /\ t \in Nat
      BY <1>1, <1>2, <1>4
  <2> QED
      BY <2>1, <2>2, <2>3, OneMultiple
<1>7. counter = 0
    BY <1>2, <1>4, <1>3, <1>6
<1>8. k = 0
    BY <1>1, <1>7 DEF MultiplesBelow
<1>9. sent[m] = t * PerTurn(m)
  <2>1. Period(m) \in Nat \ {0} /\ Hz \in Nat
      BY PeriodNat, TelemetryAssumption DEF CInv, TypeOK
  <2>2. PerTurn(m) \in Nat
    <3>1. Hz \div Period(m) \in Nat
        BY <2>1, DivMod
    <3> QED
        BY <3>1 DEF PerTurn
  <2>3. t * PerTurn(m) \in Nat
      BY <1>4, <2>2
  <2> QED
      BY <1>1, <1>6, <1>8, <2>3
<1> QED
    BY <1>9 DEF t, h, PerTurn

\* For every loop rate, configuration and class, a message is sent in each turn of
\* the counter as often as its period fits into it, and once more.
THEOREM TurnsCounted == TelemetrySpec => []TurnCounts
<1>1. TelemetryInit => CInv
  <2> SUFFICES ASSUME TelemetryInit PROVE CInv
      OBVIOUS
  <2>1. TypeOK
      BY InitIInv DEF IInv
  <2>2. ASSUME NEW m \in Messages PROVE Counted(m)
    <3>1. Period(m) \in Nat
        BY <2>1, PeriodNat DEF TypeOK
    <3>3. ASSUME Period(m) > 0
          PROVE  /\ 0 = 0 * (Hz + 1) + 0
                 /\ 0 = 0 * PerTurn(m) + 0
                 /\ MultiplesBelow(0, Period(m), 0)
      <4>1. Hz + 1 \in Int /\ Hz \in Nat
          BY TelemetryAssumption
      <4>2. Period(m) \in Nat \ {0}
          BY <3>1, <3>3
      <4>3. PerTurn(m) \in Int
          BY <4>1, <4>2, DivMod DEF PerTurn
      <4> QED
          BY <4>1, <4>3 DEF MultiplesBelow
    <3>4. calls = 0 /\ counter = 0 /\ sent[m] = 0
        BY DEF TelemetryInit
    <3> QED
        BY <3>3, <3>4 DEF Counted
  <2> QED
      BY <2>1, <2>2 DEF CInv
<1>2. CInv /\ [TelemetryNext]_telemetryVars => CInv'
  <2> SUFFICES ASSUME CInv, [TelemetryNext]_telemetryVars PROVE CInv'
      OBVIOUS
  <2>1. CASE Send
    <3>1. TypeOK'
        BY <2>1, SendType DEF CInv
    <3>2. ~down' => \A m \in Messages : Counted(m)'
        BY <2>1, SendCounted
    <3> QED
        BY <3>1, <3>2 DEF CInv
  <2>2. CASE UNCHANGED telemetryVars
      BY <2>2 DEF CInv, TypeOK, Counted, PerTurn, Period, MultiplesBelow, telemetryVars
  <2> QED
      BY <2>1, <2>2 DEF TelemetryNext
<1>3. CInv => TurnCounts
    BY TurnEnds DEF TurnCounts
<1> QED
    BY <1>1, <1>2, <1>3, PTL DEF TelemetrySpec

-----------------------------------------------------------------------------
(* lcm-gen                                                                 *)

IsMember(m) ==
    m = [name |-> m.name, type |-> m.type, dims |-> m.dims] /\ IsSequence(m.dims)

\* The struct that is being read is as sound as those that were read: the last
\* member may still get dimensions.
MembersRead(ms) ==
    IsSequence(ms) /\ (\A k \in DOMAIN ms : IsMember(ms[k])) /\ SizesKnown(ms)

ReadsStruct == at \in {"struct", "const", "member", "dims"}

GenIInv ==
    /\ IsSequence(structs) /\ SizesFirst
    /\ ReadsStruct =>
         /\ entity = [name |-> entity.name, members |-> entity.members, constants |-> entity.constants]
         /\ MembersRead(entity.members)
    /\ at = "dims" => Len(entity.members) > 0

\* A member with a new name is added.
LEMMA MemberAdded ==
    ASSUME NEW ms, MembersRead(ms), NEW m, IsMember(m), m.dims = <<>>,
           \A k \in DOMAIN ms : ms[k].name # m.name
    PROVE  MembersRead(Append(ms, m)) /\ Len(Append(ms, m)) > 0
<1> DEFINE n == Len(ms)
           new == Append(ms, m)
<1>1. /\ IsSequence(new) /\ n \in Nat /\ DOMAIN ms = 1..n /\ DOMAIN new = 1..n + 1 /\ Len(new) = n + 1
      /\ \A k \in 1..n : new[k] = ms[k]
      /\ new[n + 1] = m
    BY Appended DEF MembersRead
<1> HIDE DEF n, new
<1>2. \A k \in 1..n + 1 : k \in 1..n \/ k = n + 1
    BY <1>1
<1>3. \A k \in DOMAIN new : IsMember(new[k])
    BY <1>1, <1>2 DEF MembersRead
<1>4. ASSUME NEW k \in DOMAIN new, NEW j \in DOMAIN new, j # k PROVE new[j].name # new[k].name
    BY <1>1, <1>2, <1>4 DEF MembersRead, SizesKnown
<1>5. ASSUME NEW k \in DOMAIN new, NEW d \in DOMAIN new[k].dims
      PROVE  LET dim == new[k].dims[d] IN
             IF dim.const THEN Number(dim.size) > 0
             ELSE \/ \E j \in 1..k - 1 : /\ new[j].name = dim.size /\ new[j].dims = <<>>
                                         /\ new[j].type \in DimensionTypes
                  \/ d = 1 /\ dim.size = new[k].name /\ new[k].type \in DimensionTypes
  <2>1. k \in 1..n
    <3>1. DOMAIN <<>> = {}
        OBVIOUS
    <3> QED
        BY <1>1, <1>2, <1>5, <3>1
  <2>2. new[k] = ms[k] /\ k \in DOMAIN ms /\ \A j \in 1..k - 1 : j \in 1..n
      BY <1>1, <2>1
  <2> QED
      BY <1>1, <2>2 DEF MembersRead, SizesKnown
<1>6. SizesKnown(new)
    BY <1>4, <1>5 DEF SizesKnown
<1> QED
    BY <1>1, <1>3, <1>6 DEF MembersRead, new

\* The last member gets a dimension whose size is legal.
LEMMA DimensionAdded ==
    ASSUME NEW ms, MembersRead(ms), Len(ms) > 0, NEW tok,
           IF IsNumber(tok) THEN Number(tok) > 0
           ELSE \E k \in DOMAIN ms : ms[k].name = tok /\ ms[k].dims = <<>> /\ ms[k].type \in DimensionTypes
    PROVE  MembersRead([ms EXCEPT ![Len(ms)].dims = Append(@, [const |-> IsNumber(tok), size |-> tok])])
<1> DEFINE n == Len(ms)
           dim == [const |-> IsNumber(tok), size |-> tok]
           dims == ms[n].dims
           new == [ms EXCEPT ![n].dims = Append(@, dim)]
           last == [name |-> ms[n].name, type |-> ms[n].type, dims |-> Append(dims, dim)]
<1>1. PICK S : ms \in Seq(S)
    BY DEF MembersRead, IsSequence
<1>2. n \in Nat /\ DOMAIN ms = 1..n /\ n \in 1..n /\ ms = [k \in 1..n |-> ms[k]]
    BY <1>1
<1>3. ms[n] = [name |-> ms[n].name, type |-> ms[n].type, dims |-> ms[n].dims] /\ IsSequence(dims)
    BY <1>2 DEF MembersRead, IsMember
<1>4. /\ IsSequence(Append(dims, dim)) /\ Len(dims) \in Nat /\ DOMAIN dims = 1..Len(dims)
      /\ DOMAIN Append(dims, dim) = 1..Len(dims) + 1
      /\ \A i \in 1..Len(dims) : Append(dims, dim)[i] = dims[i]
      /\ Append(dims, dim)[Len(dims) + 1] = dim
  <2> HIDE DEF dim, dims
  <2> QED
      BY <1>3, Appended
<1>5. dim.const = IsNumber(tok) /\ dim.size = tok
    OBVIOUS
<1>6. DOMAIN new = 1..n /\ new[n] = last /\ \A k \in 1..n : k # n => new[k] = ms[k]
  <2> HIDE DEF dim
  <2>1. [ms[n] EXCEPT !.dims = Append(@, dim)] = last
      BY <1>3
  <2>2. new = [ms EXCEPT ![n] = [ms[n] EXCEPT !.dims = Append(@, dim)]]
      BY <1>2
  <2> HIDE DEF last, n, new
  <2> QED
      BY <1>2, <2>1, <2>2
<1>7. IsSequence(new)
  <2>1. new \in Seq(S \cup {last})
    <3>1. new = [k \in DOMAIN ms |-> new[k]]
        OBVIOUS
    <3> HIDE DEF last, new, n
    <3>2. \A k \in 1..n : new[k] \in S \cup {last}
        BY <1>1, <1>2, <1>6, ElementOfSeq
    <3> QED
        BY <1>2, <3>1, <3>2
  <2> QED
      BY <2>1 DEF IsSequence
<1>8. last.name = ms[n].name /\ last.type = ms[n].type /\ last.dims = Append(dims, dim) /\ IsMember(last)
    BY <1>4 DEF IsMember
<1> HIDE DEF new, last, dim
<1>9. \A k \in 1..n : /\ IsMember(new[k]) /\ new[k].name = ms[k].name /\ new[k].type = ms[k].type
                      /\ k # n => new[k].dims = ms[k].dims
    BY <1>2, <1>6, <1>8 DEF MembersRead
<1>10. ASSUME NEW k \in 1..n, NEW j \in 1..n, j # k PROVE new[j].name # new[k].name
    BY <1>2, <1>9, <1>10 DEF MembersRead, SizesKnown
<1> DEFINE Known(k, d, x, m) ==
             IF x.const THEN Number(x.size) > 0
             ELSE \/ \E j \in 1..k - 1 : /\ m[j].name = x.size /\ m[j].dims = <<>>
                                         /\ m[j].type \in DimensionTypes
                  \/ d = 1 /\ x.size = m[k].name /\ m[k].type \in DimensionTypes
<1>11. \A k \in 1..n : \A d \in DOMAIN ms[k].dims : Known(k, d, ms[k].dims[d], ms)
    BY <1>2 DEF MembersRead, SizesKnown
<1>12. \A k \in 1..n : \A j \in 1..k - 1 : j \in 1..n /\ j # n
    BY <1>2
<1>13. ASSUME NEW k \in 1..n, NEW d, NEW x, Known(k, d, x, ms) PROVE Known(k, d, x, new)
    BY <1>9, <1>12, <1>13
<1>14. ASSUME NEW k \in 1..n, NEW d \in DOMAIN new[k].dims
       PROVE  Known(k, d, new[k].dims[d], new)
  <2>1. CASE k # n
    <3>1. new[k].dims = ms[k].dims
        BY <1>9, <2>1
    <3> HIDE DEF Known
    <3> QED
        BY <1>11, <1>13, <1>14, <3>1
  <2>2. CASE k = n /\ d \in 1..Len(dims)
    <3>1. new[k].dims[d] = ms[k].dims[d] /\ d \in DOMAIN ms[k].dims
        BY <1>4, <1>6, <1>8, <2>2
    <3> HIDE DEF Known
    <3> QED
        BY <1>11, <1>13, <3>1
  <2>3. CASE k = n /\ d = Len(dims) + 1
    <3>1. new[k].dims[d] = dim
        BY <1>4, <1>6, <1>8, <2>3
    <3>2. Known(n, d, dim, ms)
      <4>1. CASE IsNumber(tok)
          BY <1>5, <4>1
      <4>2. CASE ~IsNumber(tok)
        <5>1. PICK j \in 1..n : ms[j].name = tok /\ ms[j].dims = <<>> /\ ms[j].type \in DimensionTypes
            BY <1>2, <4>2
        <5>2. CASE j = n
          <6>1. Len(dims) = 0
              BY <5>1, <5>2
          <6>2. d = 1
              BY <2>3, <6>1
          <6> QED
              BY <1>5, <4>2, <5>1, <5>2, <6>2
        <5>3. CASE j # n
          <6>1. j \in 1..n - 1
              BY <1>2, <5>3
          <6> QED
              BY <1>5, <4>2, <5>1, <6>1
        <5> QED
            BY <5>2, <5>3
      <4> QED
          BY <4>1, <4>2
    <3> HIDE DEF Known
    <3> QED
        BY <1>13, <2>3, <3>1, <3>2
  <2>4. k = n => d \in 1..Len(dims) \/ d = Len(dims) + 1
      BY <1>4, <1>6, <1>8, <1>14
  <2> QED
      BY <2>1, <2>2, <2>3, <2>4
<1>15. SizesKnown(new)
    BY <1>6, <1>10, <1>14 DEF SizesKnown
<1>16. MembersRead(new)
    BY <1>6, <1>7, <1>9, <1>15 DEF MembersRead
<1> QED
    BY <1>16 DEF new, dim

LEMMA NoneRefused == structs = <<>> /\ ~ReadsStruct => GenIInv
<1>1. <<>> \in Seq({}) /\ ToSet(<<>>) = {}
    BY DEF ToSet
<1> QED
    BY <1>1 DEF GenIInv, IsSequence, SizesFirst, ReadsStruct

LEMMA RefuseInv == Refuse => GenIInv'
<1> SUFFICES ASSUME Refuse PROVE GenIInv'
    OBVIOUS
<1>1. structs' = <<>> /\ at' = "refused"
    BY DEF Refuse
<1>2. <<>> \in Seq({}) /\ ToSet(<<>>) = {}
    BY DEF ToSet
<1> QED
    BY <1>1, <1>2 DEF GenIInv, IsSequence, SizesFirst, ReadsStruct

\* Where no struct is added and none is being changed.
LEMMA GenKept ==
    ASSUME GenIInv, structs' = structs,
           ReadsStruct' => ReadsStruct /\ entity' = entity, at' = "dims" => at = "dims"
    PROVE  GenIInv'
<1>1. (IsSequence(structs) /\ SizesFirst)'
    BY DEF GenIInv, SizesFirst
<1>2. CASE ReadsStruct'
  <2>1. entity' = entity /\ (at' = "dims" => at = "dims") /\ ReadsStruct
      BY <1>2
  <2>2. ReadsStruct' =>
         /\ entity' = [name |-> entity'.name, members |-> entity'.members, constants |-> entity'.constants]
         /\ MembersRead(entity'.members)
      BY <2>1 DEF GenIInv
  <2>3. at' = "dims" => Len(entity'.members) > 0
      BY <2>1 DEF GenIInv
  <2> QED
      BY <1>1, <2>2, <2>3 DEF GenIInv
<1>3. CASE ~ReadsStruct'
  <2>1. at' # "dims"
      BY <1>3 DEF ReadsStruct
  <2> QED
      BY <1>1, <1>3, <2>1 DEF GenIInv
<1> QED
    BY <1>2, <1>3

LEMMA GenStep == GenIInv /\ [GenNext]_genvars => GenIInv'
<1> SUFFICES ASSUME GenIInv, [GenNext]_genvars PROVE GenIInv'
    OBVIOUS
<1>1. CASE HandleFile
    BY <1>1, GenKept DEF HandleFile, ReadsStruct
<1>2. CASE ParseEntity
  <2>1. CASE Refuse
      BY <2>1, RefuseInv
  <2>2. CASE at' \in {"file", "entity", "enum"} /\ structs' = structs
      BY <2>2, GenKept DEF ReadsStruct
  <2>3. CASE /\ entity' = [name |-> Typename(Tok(2)), members |-> <<>>, constants |-> <<>>]
             /\ structs' = structs /\ at' = "struct"
    <3>1. PICK e : e = entity'
        OBVIOUS
    <3>2. e = [name |-> e.name, members |-> e.members, constants |-> e.constants] /\ e.members = <<>>
        BY <2>3, <3>1
    <3>3. <<>> \in Seq({}) /\ DOMAIN <<>> = {}
        OBVIOUS
    <3>4. MembersRead(<<>>)
        BY <3>3 DEF MembersRead, IsSequence, SizesKnown
    <3> QED
        BY <2>3, <3>1, <3>2, <3>4 DEF GenIInv, SizesFirst
  <2> QED
      BY <1>2, <2>1, <2>2, <2>3 DEF ParseEntity, GoOn
<1>3. CASE ParseStruct
  <2>1. CASE Refuse
      BY <2>1, RefuseInv
  <2>2. CASE structs' = Append(structs, entity) /\ at' = "entity"
    <3>1. IsSequence(structs') /\ ToSet(structs') = ToSet(structs) \cup {entity}
        BY <2>2, Appended DEF GenIInv
    <3>2. SizesKnown(entity.members)
        BY <1>3 DEF GenIInv, ReadsStruct, MembersRead, ParseStruct
    <3> QED
        BY <2>2, <3>1, <3>2 DEF GenIInv, SizesFirst, ReadsStruct
  <2>3. CASE structs' = structs /\ entity' = entity /\ at' \in {"const", "member"}
      BY <1>3, <2>3, GenKept DEF ReadsStruct, ParseStruct
  <2> QED
      BY <1>3, <2>1, <2>2, <2>3 DEF ParseStruct, GoOn
<1>4. CASE ParseConst
  <2>1. CASE Refuse
      BY <2>1, RefuseInv
  <2>2. CASE ~Refuse
    <3>1. PICK c : entity' = [entity EXCEPT !.constants = c]
      <4>1. entity' = [entity EXCEPT !.constants =
                         Append(@, [type |-> mtype, name |-> Tok(1), value |-> Number(Tok(3))])]
          BY <1>4, <2>2 DEF ParseConst
      <4> QED
          BY <4>1
    <3>2. structs' = structs /\ at' \in {"const", "struct"} /\ at = "const"
        BY <1>4, <2>2 DEF ParseConst, GoOn
    <3>3. /\ entity = [name |-> entity.name, members |-> entity.members, constants |-> entity.constants]
          /\ MembersRead(entity.members)
        BY <3>2 DEF GenIInv, ReadsStruct
    <3>4. entity' = [name |-> entity.name, members |-> entity.members, constants |-> c]
        BY <3>1, <3>3
    <3> QED
        BY <3>2, <3>3, <3>4 DEF GenIInv, SizesFirst
  <2> QED
      BY <2>1, <2>2
<1>5. CASE ParseMember
  <2>1. CASE Refuse
      BY <2>1, RefuseInv
  <2>2. CASE ~Refuse
    <3> DEFINE m == [name |-> Tok(1), type |-> mtype, dims |-> <<>>]
    <3>1. /\ ~Taken(Tok(1)) /\ entity' = [entity EXCEPT !.members = Append(@, m)]
          /\ structs' = structs /\ at = "member" /\ at' = "dims"
        BY <1>5, <2>2 DEF ParseMember, GoOn
    <3>2. /\ entity = [name |-> entity.name, members |-> entity.members, constants |-> entity.constants]
          /\ MembersRead(entity.members)
        BY <3>1 DEF GenIInv, ReadsStruct
    <3>3. m.name = Tok(1) /\ m.dims = <<>> /\ IsMember(m)
      <4>1. <<>> \in Seq({})
          OBVIOUS
      <4> QED
          BY <4>1 DEF IsMember, IsSequence
    <3> HIDE DEF m
    <3>4. PICK ms : ms = entity.members
        OBVIOUS
    <3>5. MembersRead(Append(ms, m)) /\ Len(Append(ms, m)) > 0
        BY <3>1, <3>2, <3>3, <3>4, MemberAdded DEF Taken
    <3>6. entity' = [name |-> entity.name, members |-> Append(ms, m), constants |-> entity.constants]
        BY <3>1, <3>2, <3>4
    <3>7. PICK e : e = entity'
        OBVIOUS
    <3>8. /\ e.members = Append(ms, m)
          /\ e = [name |-> e.name, members |-> e.members, constants |-> e.constants]
        BY <3>6, <3>7
    <3> QED
        BY <3>1, <3>5, <3>7, <3>8 DEF GenIInv, SizesFirst
  <2> QED
      BY <2>1, <2>2
<1>6. CASE ParseDimension
  <2>1. structs' = structs /\ at = "dims" /\ at' \in {"dims", "member", "struct"}
      BY <1>6 DEF ParseDimension, GoOn
  <2>2. CASE entity' = entity
      BY <2>1, <2>2, GenKept DEF ReadsStruct
  <2>3. CASE entity' # entity
    <3> DEFINE dim == [const |-> IsNumber(Tok(2)), size |-> Tok(2)]
    <3>1. /\ LegalSize(Tok(2))
          /\ entity' = [entity EXCEPT !.members[Len(entity.members)].dims = Append(@, dim)]
        BY <1>6, <2>3 DEF ParseDimension
    <3>2. /\ entity = [name |-> entity.name, members |-> entity.members, constants |-> entity.constants]
          /\ MembersRead(entity.members) /\ Len(entity.members) > 0
        BY <2>1 DEF GenIInv, ReadsStruct
    <3>3. PICK ms : ms = entity.members
        OBVIOUS
    <3> DEFINE new == [ms EXCEPT ![Len(ms)].dims = Append(@, dim)]
    <3>4. MembersRead(new)
        BY <3>1, <3>2, <3>3, DimensionAdded DEF LegalSize
    <3>5. entity' = [entity EXCEPT !.members = new]
        BY <3>1, <3>2, <3>3
    <3>6. Len(new) = Len(ms)
      <4>1. PICK S : ms \in Seq(S)
          BY <3>2, <3>3 DEF MembersRead, IsSequence
      <4>2. PICK T : new \in Seq(T)
          BY <3>4 DEF MembersRead, IsSequence
      <4>3. DOMAIN new = DOMAIN ms
          OBVIOUS
      <4> HIDE DEF new
      <4> QED
          BY <4>1, <4>2, <4>3
    <3> HIDE DEF new
    <3>7. entity' = [name |-> entity.name, members |-> new, constants |-> entity.constants]
        BY <3>2, <3>5
    <3> QED
        BY <2>1, <3>2, <3>3, <3>4, <3>6, <3>7 DEF GenIInv, SizesFirst
  <2> QED
      BY <2>2, <2>3
<1>7. CASE RefuseDimension
    BY <1>7, RefuseInv DEF RefuseDimension
<1>8. CASE ParseEnumValue
    BY <1>8, RefuseInv, GenKept DEF ParseEnumValue, GoOn, ReadsStruct
<1>9. CASE ParseEnum
    BY <1>9, GenKept DEF ParseEnum, GoOn, ReadsStruct
<1>10. CASE UNCHANGED genvars
    BY <1>10, GenKept DEF genvars, ReadsStruct
<1> QED
    BY <1>1, <1>2, <1>3, <1>4, <1>5, <1>6, <1>7, <1>8, <1>9, <1>10 DEF GenNext

\* Whatever files the parser is given, it refuses a dimension that is not a positive
\* number of elements, a scalar integer declared before the array or, as the first
\* one of an integer array, the array's own name; and a name that is taken
\* (lcmgen.c, parse_member and parse_const).
THEOREM SizesComeFirst == GenSpec => []SizesFirst
<1>1. GenInit => GenIInv
    BY NoneRefused DEF GenInit, ReadsStruct
<1>2. GenIInv => SizesFirst
    BY DEF GenIInv
<1> QED
    BY <1>1, <1>2, GenStep, PTL DEF GenSpec

-----------------------------------------------------------------------------
(* The generator.                                                          *)

ClassesStages == {"classes", "codegen", "written"}

\* The files that have been read to the end.
Behind ==
    {s \in Sources : \/ stage \in ClassesStages
                     \/ s = "types" /\ stage \in {"telemetry", "settings"}
                     \/ s = "telemetry" /\ stage = "settings"}

\* An element that was read is where MakeClass looks for it.
Took(s, el) ==
    /\ el.tag = "class" => /\ el.attrs.name \in DOMAIN hash[s]
                           /\ el \in ToSet(hash[s][el.attrs.name])
    /\ s = "types" /\ el.tag \in {"struct", "enum", "message"} => el \in ToSet(base)

\* Every element of the files in fs was read, or will be.
Follows(fs) ==
    /\ stage \in fs \/ Include(stage) \in ToSet(todo)
    /\ \A f \in fs : \A el \in ToSet(conf[f]) :
        el \in ToSet(todo) \/ (Took(stage, el) /\ (el.tag = "include" => el.attrs.href \in fs))

Reads ==
    stage \in Sources =>
        /\ \A el \in ToSet(todo) : el = Include(stage) \/ el \in Said(stage)
        /\ \E fs \in SUBSET DOMAIN conf : Follows(fs)
        /\ \A s \in Sources : made[s] = <<>>

CompleteFor(c) == TypesComplete(c) /\ MessagesComplete(c) /\ SettingsComplete(c)

Makes ==
    /\ stage \in ClassesStages =>
        /\ \A s \in Sources : \A k \in DOMAIN made[s] : made[s][k].name \notin left
        /\ \A c \in ClassNames \ left : CompleteFor(c)
    /\ stage \in {"codegen", "written"} => left = {}

Shape ==
    /\ conf \in Configurations
    /\ stage \in Sources \cup ClassesStages \cup {"exit"}
    /\ IsSequence(base) /\ (stage \in Sources => IsSequence(todo))
    /\ hash = [s \in Sources |-> hash[s]] /\ made = [s \in Sources |-> made[s]]
    /\ \A s \in Sources :
        /\ IsSequence(made[s])
        /\ \A c \in DOMAIN hash[s] : /\ IsSequence(hash[s][c]) /\ ToSet(hash[s][c]) # {}
                                     /\ ToSet(hash[s][c]) \subseteq Of(s, c)
    /\ ToSet(base) \subseteq Shared

ConfIInv ==
    /\ Shape /\ Reads /\ Makes
    /\ \A s \in Behind : \A el \in Said(s) : Took(s, el)

\* What the files say stays the same.
LEMMA SameFiles ==
    ASSUME conf' = conf
    PROVE  /\ \A s : Said(s)' = Said(s)
           /\ \A s, c : Of(s, c)' = Of(s, c)
           /\ Shared' = Shared /\ ClassNames' = ClassNames
           /\ \A el : Within(el)' = Within(el)
<1>1. ASSUME NEW s PROVE Said(s)' = Said(s)
    BY DEF Said, ReadFrom, Closed
<1>2. \A s, c : Of(s, c)' = Of(s, c)
    BY <1>1 DEF Of
<1>3. Shared' = Shared
    BY <1>1 DEF Shared
<1>4. ClassNames' = ClassNames
    BY <1>1 DEF ClassNames
<1>5. ASSUME NEW el PROVE Within(el)' = Within(el)
    BY DEF Within, InsertIncludes
<1> QED
    BY <1>1, <1>2, <1>3, <1>4, <1>5

LEMMA FilesFacts ==
    ASSUME conf \in Configurations, NEW f \in DOMAIN conf
    PROVE  /\ IsSequence(conf[f])
           /\ \A el \in ToSet(conf[f]) : IsSequence(el.kids)
BY ConfigurationAssumption DEF ConfigurationAssumption, IsSequence

\* What a file says that is read is said.
LEMMA SaidByIncluded ==
    ASSUME NEW s, NEW el, NEW f \in DOMAIN conf,
           f = s \/ (el \in Said(s) /\ el.tag = "include" /\ f = el.attrs.href)
    PROVE  ToSet(conf[f]) \subseteq Said(s)
<1>1. f \in ReadFrom(s)
  <2> SUFFICES ASSUME NEW fs \in SUBSET DOMAIN conf, s \in fs, Closed(fs) PROVE f \in fs
      BY DEF ReadFrom
  <2>1. CASE f = s
      BY <2>1
  <2>2. CASE el \in Said(s) /\ el.tag = "include" /\ f = el.attrs.href
    <3>1. PICK g \in ReadFrom(s) : el \in ToSet(conf[g])
        BY <2>2 DEF Said
    <3>2. g \in fs
        BY <3>1 DEF ReadFrom
    <3> QED
        BY <2>2, <3>1, <3>2 DEF Closed
  <2> QED
      BY <2>1, <2>2
<1> QED
    BY <1>1 DEF Said

\* When there is nothing left to read, all that is said was read.
LEMMA AllTook ==
    ASSUME NEW fs \in SUBSET DOMAIN conf, Follows(fs), ToSet(todo) = {}
    PROVE  \A el \in Said(stage) : Took(stage, el)
<1>1. stage \in fs /\ Closed(fs)
    BY DEF Follows, Closed
<1>2. ReadFrom(stage) \subseteq fs
    BY <1>1 DEF ReadFrom
<1> SUFFICES ASSUME NEW el \in Said(stage) PROVE Took(stage, el)
    OBVIOUS
<1>3. PICK f \in fs : el \in ToSet(conf[f])
    BY <1>2 DEF Said
<1> QED
    BY <1>3 DEF Follows

LEMMA OverFacts ==
    ASSUME NEW f, NEW g
    PROVE  /\ DOMAIN Over(f, g) = DOMAIN f \cup DOMAIN g
           /\ \A x \in DOMAIN f : Over(f, g)[x] = f[x]
           /\ \A x \in DOMAIN g \ DOMAIN f : Over(f, g)[x] = g[x]
BY DEF Over

LEMMA HashAdded ==
    ASSUME NEW h, NEW el, el.attrs.name \in DOMAIN h => IsSequence(h[el.attrs.name])
    PROVE  /\ \A c \in DOMAIN h : c # el.attrs.name => AddToClassHash(h, el)[c] = h[c]
           /\ IsSequence(AddToClassHash(h, el)[el.attrs.name])
           /\ ToSet(AddToClassHash(h, el)[el.attrs.name]) =
                {el} \cup (IF el.attrs.name \in DOMAIN h THEN ToSet(h[el.attrs.name]) ELSE {})
<1> DEFINE name == el.attrs.name
           new == AddToClassHash(h, el)
           one == [c \in {name} |-> IF c \in DOMAIN h THEN Append(h[c], el) ELSE <<el>>]
<1>1. new = Over(one, h) /\ DOMAIN one = {name}
    BY DEF AddToClassHash
<1>2. one[name] = IF name \in DOMAIN h THEN Append(h[name], el) ELSE <<el>>
    OBVIOUS
<1> HIDE DEF one, new
<1>3. /\ DOMAIN new = {name} \cup DOMAIN h /\ new[name] = one[name]
      /\ \A c \in DOMAIN h : c # name => new[c] = h[c]
  <2>1. /\ DOMAIN Over(one, h) = DOMAIN one \cup DOMAIN h
        /\ \A x \in DOMAIN one : Over(one, h)[x] = one[x]
        /\ \A x \in DOMAIN h \ DOMAIN one : Over(one, h)[x] = h[x]
      BY OverFacts
  <2> QED
      BY <1>1, <2>1
<1>4. CASE name \in DOMAIN h
  <2>1. /\ IsSequence(Append(h[name], el))
        /\ ToSet(Append(h[name], el)) = ToSet(h[name]) \cup {el}
      BY <1>4, Appended
  <2> QED
      BY <1>2, <1>3, <1>4, <2>1 DEF new
<1>5. CASE name \notin DOMAIN h
  <2>1. <<el>> \in Seq({el}) /\ ToSet(<<el>>) = {el}
      BY DEF ToSet
  <2>2. IsSequence(<<el>>)
      BY <2>1 DEF IsSequence
  <2> QED
      BY <1>2, <1>3, <1>5, <2>1, <2>2 DEF new
<1> QED
    BY <1>4, <1>5

\* An element that is not an include has been read.
LEMMA ReadsOn ==
    ASSUME ConfIInv, stage \in Sources, todo # <<>>, todo' = Tail(todo),
           UNCHANGED <<conf, stage, made>>, NEW head, head = Head(todo), head.tag # "include",
           \A el : Took(stage, el) => Took(stage, el)', Took(stage, head)'
    PROVE  Reads' /\ IsSequence(todo)'
<1>1. /\ IsSequence(Tail(todo))
      /\ ToSet(todo) = {head} \cup ToSet(Tail(todo))
    BY TailElements DEF ConfIInv, Shape
<1>2. PICK fs \in SUBSET DOMAIN conf : Follows(fs)
    BY DEF ConfIInv, Reads
<1>3. head # Include(stage)
    BY DEF Include
<1>4. Follows(fs)'
  <2>1. (stage \in fs \/ Include(stage) \in ToSet(todo))'
    <3>1. stage \in fs \/ Include(stage) \in ToSet(todo)
        BY <1>2 DEF Follows
    <3>2. stage \in fs \/ Include(stage) \in ToSet(todo')
        BY <1>1, <1>3, <3>1
    <3> QED
        BY <3>2 DEF ToSet, Include
  <2>2. ASSUME NEW f \in fs, NEW el \in ToSet(conf[f])
        PROVE  el \in ToSet(todo') \/ (Took(stage, el)' /\ (el.tag = "include" => el.attrs.href \in fs))
    <3>1. el \in ToSet(todo) \/ (Took(stage, el) /\ (el.tag = "include" => el.attrs.href \in fs))
        BY <1>2, <2>2 DEF Follows
    <3>2. CASE el \in ToSet(todo')
        BY <3>2
    <3>3. CASE el = head
        BY <3>3
    <3>4. CASE Took(stage, el) /\ (el.tag = "include" => el.attrs.href \in fs)
        BY <3>4
    <3> QED
        BY <1>1, <3>1, <3>2, <3>3, <3>4
  <2> QED
      BY <2>1, <2>2 DEF Follows, ToSet
<1>5. \A el \in ToSet(todo') : el = Include(stage) \/ el \in Said(stage)'
    BY <1>1, SameFiles DEF ConfIInv, Reads
<1> QED
    BY <1>1, <1>2, <1>4, <1>5 DEF ConfIInv, Reads, ToSet, IsSequence, Include

\* What was read to the end stays read, while the others are.
LEMMA BehindKept ==
    ASSUME ConfIInv, stage \in Sources, UNCHANGED <<conf, stage>>,
           \A s \in Sources \ {stage} : hash'[s] = hash[s],
           stage # "types" => base' = base
    PROVE  /\ \A s \in Behind' : \A el \in Said(s)' : Took(s, el)'
           /\ Makes'
<1>1. stage \in {"types", "telemetry", "settings"} /\ stage \notin ClassesStages
    BY DEF Sources, ClassesStages
<1>2. Behind' = Behind /\ Behind \subseteq Sources \ {stage}
    BY <1>1 DEF Behind
<1>3. ASSUME NEW s \in Behind, NEW el \in Said(s) PROVE Took(s, el)'
  <2>1. Took(s, el) /\ hash'[s] = hash[s] /\ (s = "types" => base' = base)
    <3>1. s = "types" => stage # "types"
        BY <1>2
    <3> QED
        BY <1>2, <1>3, <3>1 DEF ConfIInv
  <2> QED
      BY <2>1 DEF Took, ToSet
<1>4. Makes'
    BY <1>1 DEF Makes, ClassesStages
<1> QED
    BY <1>2, <1>3, <1>4, SameFiles

LEMMA ExitKept == ASSUME ConfIInv, Exit PROVE ConfIInv'
<1>1. /\ stage' = "exit" /\ stage' \notin Sources /\ stage' \notin ClassesStages
      /\ UNCHANGED <<conf, todo, hash, base, left, made>>
    BY DEF Exit, Sources, ClassesStages
<1>2. Reads' /\ Makes'
    BY <1>1 DEF Reads, Makes, Sources, ClassesStages
<1>3. Behind' = {}
    BY <1>1 DEF Behind, ClassesStages
<1>4. Shape'
  <2>1. Shape
      BY DEF ConfIInv
  <2>2. (conf \in Configurations)' /\ (stage \in Sources \cup ClassesStages \cup {"exit"})'
      BY <1>1, <2>1 DEF Shape, Sources, ClassesStages
  <2>3. (ToSet(base) \subseteq Shared)'
      BY <1>1, <2>1, SameFiles DEF Shape, ToSet
  <2> QED
      BY <1>1, <2>1, <2>2, <2>3, SameFiles DEF Shape, ToSet, Sources, ClassesStages, IsSequence
<1> QED
    BY <1>2, <1>3, <1>4 DEF ConfIInv

LEMMA TakeClass ==
    ASSUME ConfIInv, stage \in Sources, todo # <<>>, NEW el, el = Head(todo), el.tag = "class",
           hash' = [hash EXCEPT ![stage] = AddToClassHash(@, el)],
           todo' = Tail(todo), UNCHANGED <<conf, stage, base, left, made>>
    PROVE  ConfIInv'
<1> DEFINE name == el.attrs.name
           new == AddToClassHash(hash[stage], el)
<1>1. Shape
    BY DEF ConfIInv
<1>2. el \in Of(stage, name)
  <2>1. el \in ToSet(todo) /\ el # Include(stage)
      BY <1>1, TailElements DEF Shape, Include
  <2> QED
      BY <2>1 DEF ConfIInv, Reads, Of
<1>3. /\ hash'[stage] = new /\ hash' = [s \in Sources |-> hash'[s]]
      /\ \A s \in Sources \ {stage} : hash'[s] = hash[s]
  <2>1. DOMAIN hash = Sources
      BY <1>1 DEF Shape
  <2> QED
      BY <2>1
<1>4. /\ DOMAIN new = DOMAIN hash[stage] \cup {name}
      /\ \A c \in DOMAIN hash[stage] : c # name => new[c] = hash[stage][c]
      /\ IsSequence(new[name])
      /\ ToSet(new[name]) = {el} \cup (IF name \in DOMAIN hash[stage] THEN ToSet(hash[stage][name]) ELSE {})
  <2>1. name \in DOMAIN hash[stage] => IsSequence(hash[stage][name])
      BY <1>1 DEF Shape
  <2>2. IsSequence(AddToClassHash(hash[stage], el)[el.attrs.name])
      BY <2>1, HashAdded
  <2>5. DOMAIN new = DOMAIN hash[stage] \cup {name}
      BY DEF AddToClassHash, Over
  <2>3. \A c \in DOMAIN hash[stage] : c # name => new[c] = hash[stage][c]
      BY <2>1, HashAdded
  <2>4. ToSet(new[name]) = {el} \cup (IF name \in DOMAIN hash[stage] THEN ToSet(hash[stage][name]) ELSE {})
      BY <2>1, HashAdded
  <2> QED
      BY <2>2, <2>3, <2>4, <2>5
<1> HIDE DEF new, name
<1>5. ASSUME NEW s \in Sources, NEW c \in DOMAIN hash'[s]
      PROVE  /\ IsSequence(hash'[s][c]) /\ ToSet(hash'[s][c]) # {}
             /\ ToSet(hash'[s][c]) \subseteq Of(s, c)
  <2>1. \A d \in DOMAIN hash[s] : /\ IsSequence(hash[s][d]) /\ ToSet(hash[s][d]) # {}
                                  /\ ToSet(hash[s][d]) \subseteq Of(s, d)
      BY <1>1 DEF Shape
  <2>2. CASE s # stage
      BY <1>3, <1>5, <2>1, <2>2
  <2>3. CASE s = stage /\ c = name
      BY <1>2, <1>3, <1>4, <2>1, <2>3
  <2>4. CASE s = stage /\ c # name
      BY <1>3, <1>4, <1>5, <2>1, <2>4
  <2> QED
      BY <2>2, <2>3, <2>4
<1>6. ASSUME NEW e, Took(stage, e) \/ e = el PROVE Took(stage, e)'
  <2>1. CASE e = el
    <3>1. name \in DOMAIN hash'[stage] /\ el \in ToSet(hash'[stage][name])
        BY <1>3, <1>4
    <3> QED
        BY <2>1, <3>1 DEF Took, ToSet, name
  <2>2. CASE Took(stage, e)
    <3>1. e.tag = "class" => /\ e.attrs.name \in DOMAIN hash'[stage]
                             /\ e \in ToSet(hash'[stage][e.attrs.name])
        BY <1>3, <1>4, <2>2 DEF Took
    <3>2. stage = "types" /\ e.tag \in {"struct", "enum", "message"} => e \in ToSet(base')
        BY <2>2 DEF Took
    <3> QED
        BY <3>1, <3>2 DEF Took, ToSet
  <2> QED
      BY <1>6, <2>1, <2>2
<1>7. Reads' /\ IsSequence(todo)'
  <2>1. /\ \A e : Took(stage, e) => Took(stage, e)'
        /\ Took(stage, el)' /\ el.tag # "include"
      BY <1>6
  <2> QED
      BY <2>1, ReadsOn
<1>8. Makes' /\ \A s \in Behind' : \A e \in Said(s)' : Took(s, e)'
    BY <1>3, BehindKept
<1>9. Shape'
  <2>1. (ToSet(base) \subseteq Shared)'
      BY <1>1, SameFiles DEF Shape, ToSet
  <2>2. \A s \in Sources : IsSequence(made[s])'
      BY <1>1 DEF Shape, IsSequence
  <2>3. ASSUME NEW s \in Sources, NEW c \in DOMAIN hash'[s]
        PROVE  (/\ IsSequence(hash[s][c]) /\ ToSet(hash[s][c]) # {}
                /\ ToSet(hash[s][c]) \subseteq Of(s, c))'
    <3>1. Of(s, c)' = Of(s, c)
        BY SameFiles
    <3>2. IsSequence(hash[s][c])' /\ ToSet(hash[s][c])' = ToSet(hash'[s][c])
        BY <1>5 DEF IsSequence, ToSet
    <3> QED
        BY <1>5, <3>1, <3>2
  <2> QED
      BY <1>1, <1>3, <1>7, <2>1, <2>2, <2>3 DEF Shape, Sources, ClassesStages, IsSequence
<1> QED
    BY <1>7, <1>8, <1>9 DEF ConfIInv

LEMMA TakeBase ==
    ASSUME ConfIInv, stage \in Sources, todo # <<>>, NEW el, el = Head(todo), el.tag \in BaseOk,
           base' = Append(base, el),
           todo' = Tail(todo), UNCHANGED <<conf, stage, hash, left, made>>
    PROVE  ConfIInv'
<1>1. Shape
    BY DEF ConfIInv
<1>2. stage = "types" /\ el.tag \in {"struct", "enum", "message"}
    BY DEF BaseOk
<1>3. el \in Shared
  <2>1. el \in ToSet(todo) /\ el # Include(stage)
      BY <1>1, <1>2, TailElements DEF Shape, Include
  <2> QED
      BY <1>2, <2>1 DEF ConfIInv, Reads, Shared
<1>4. IsSequence(base') /\ ToSet(base') = ToSet(base) \cup {el}
    BY <1>1, Appended DEF Shape
<1>5. ASSUME NEW e, Took(stage, e) \/ e = el PROVE Took(stage, e)'
  <2>1. e = el \/ e \in ToSet(base) => e \in ToSet(base')
      BY <1>4
  <2>2. e = el => e.tag # "class"
      BY <1>2
  <2> QED
      BY <1>5, <2>1, <2>2 DEF Took, ToSet
<1>6. Reads' /\ IsSequence(todo)'
  <2>1. /\ \A e : Took(stage, e) => Took(stage, e)'
        /\ Took(stage, el)' /\ el.tag # "include"
      BY <1>2, <1>5
  <2> QED
      BY <2>1, ReadsOn
<1>7. Makes' /\ \A s \in Behind' : \A e \in Said(s)' : Took(s, e)'
    BY <1>2, BehindKept
<1>8. Shape'
  <2>1. (ToSet(base) \subseteq Shared)' /\ IsSequence(base)'
      BY <1>1, <1>3, <1>4, SameFiles DEF Shape, ToSet, IsSequence
  <2>2. \A s \in Sources :
           /\ IsSequence(made[s])'
           /\ \A c \in DOMAIN hash[s]' : /\ IsSequence(hash[s][c])' /\ ToSet(hash[s][c])' # {}
                                          /\ ToSet(hash[s][c])' \subseteq Of(s, c)'
      BY <1>1, SameFiles DEF Shape, IsSequence, ToSet
  <2>3. (hash = [s \in Sources |-> hash[s]] /\ made = [s \in Sources |-> made[s]])'
      BY <1>1 DEF Shape
  <2>4. (conf \in Configurations /\ stage \in Sources \cup ClassesStages \cup {"exit"})'
      BY <1>1 DEF Shape, Sources, ClassesStages
  <2> QED
      BY <1>6, <2>1, <2>2, <2>3, <2>4 DEF Shape
<1> QED
    BY <1>6, <1>7, <1>8 DEF ConfIInv

LEMMA PassOver ==
    ASSUME ConfIInv, stage \in Sources, todo # <<>>, NEW el, el = Head(todo),
           el.tag \notin {"class", "include"} \union BaseOk,
           todo' = Tail(todo), UNCHANGED <<conf, stage, hash, base, left, made>>
    PROVE  ConfIInv'
<1>1. Shape
    BY DEF ConfIInv
<1>2. Took(stage, el) /\ el.tag # "include"
    BY DEF Took, BaseOk
<1>3. \A e : Took(stage, e) => Took(stage, e)'
    BY DEF Took, ToSet
<1>4. Reads' /\ IsSequence(todo)'
  <2>1. Took(stage, el)'
      BY <1>2, <1>3
  <2> QED
      BY <1>2, <1>3, <2>1, ReadsOn
<1>5. Makes' /\ \A s \in Behind' : \A e \in Said(s)' : Took(s, e)'
    BY BehindKept
<1>6. Shape'
  <2>1. (ToSet(base) \subseteq Shared)'
      BY <1>1, SameFiles DEF Shape, ToSet
  <2> QED
      BY <1>1, <1>4, <2>1, SameFiles DEF Shape, Sources, ClassesStages, IsSequence, ToSet
<1> QED
    BY <1>4, <1>5, <1>6 DEF ConfIInv

LEMMA TakeInclude ==
    ASSUME ConfIInv, stage \in Sources, todo # <<>>, NEW el, el = Head(todo), el.tag = "include",
           NEW f, f = el.attrs.href, f \in DOMAIN conf,
           todo' = conf[f] \o Tail(todo), UNCHANGED <<conf, stage, hash, base, left, made>>
    PROVE  ConfIInv'
<1>1. Shape
    BY DEF ConfIInv
<1>2. /\ IsSequence(Tail(todo)) /\ ToSet(todo) = {el} \cup ToSet(Tail(todo))
      /\ IsSequence(conf[f])
    BY <1>1, TailElements, FilesFacts DEF Shape
<1>3. IsSequence(todo') /\ ToSet(todo') = ToSet(conf[f]) \cup ToSet(Tail(todo))
    BY <1>2, ConcatElements
<1>4. \A e \in ToSet(todo') : e = Include(stage) \/ e \in Said(stage)
  <2>1. ToSet(conf[f]) \subseteq Said(stage)
    <3>1. el = Include(stage) \/ el \in Said(stage)
        BY <1>2 DEF ConfIInv, Reads
    <3>2. el = Include(stage) => f = stage
        BY DEF Include
    <3> QED
        BY <3>1, <3>2, SaidByIncluded
  <2> QED
      BY <1>2, <1>3, <2>1 DEF ConfIInv, Reads
<1>5. PICK fs \in SUBSET DOMAIN conf : Follows(fs)
    BY DEF ConfIInv, Reads
<1>6. PICK gs \in SUBSET DOMAIN conf : gs = fs \cup {f}
    OBVIOUS
<1>7. \A e : Took(stage, e) => Took(stage, e)'
    BY DEF Took, ToSet
<1>8. Follows(gs)'
  <2>1. stage \in gs \/ Include(stage) \in ToSet(todo')
    <3>1. stage \in fs \/ Include(stage) \in ToSet(todo)
        BY <1>5 DEF Follows
    <3>2. Include(stage) = el => stage = f
        BY DEF Include
    <3> QED
        BY <1>2, <1>3, <1>6, <3>1, <3>2
  <2>2. ASSUME NEW g \in gs, NEW e \in ToSet(conf[g])
        PROVE  e \in ToSet(todo') \/ (Took(stage, e)' /\ (e.tag = "include" => e.attrs.href \in gs))
    <3>1. CASE g = f
        BY <1>3, <2>2, <3>1
    <3>2. CASE g \in fs
      <4>1. e \in ToSet(todo) \/ (Took(stage, e) /\ (e.tag = "include" => e.attrs.href \in fs))
          BY <1>5, <2>2, <3>2 DEF Follows
      <4>2. e = el => Took(stage, e)
          BY DEF Took
      <4> QED
          BY <1>2, <1>3, <1>6, <1>7, <4>1, <4>2
    <3> QED
        BY <1>6, <3>1, <3>2
  <2> QED
      BY <2>1, <2>2 DEF Follows, ToSet, Include
<1>9. Reads'
    BY <1>4, <1>8, SameFiles DEF ConfIInv, Reads, ToSet, Include
<1>10. Makes' /\ \A s \in Behind' : \A e \in Said(s)' : Took(s, e)'
    BY BehindKept
<1>11. Shape'
  <2>1. (ToSet(base) \subseteq Shared)' /\ IsSequence(todo)'
      BY <1>1, <1>3, SameFiles DEF Shape, ToSet, IsSequence
  <2> QED
      BY <1>1, <2>1, SameFiles DEF Shape, Sources, ClassesStages, IsSequence, ToSet
<1> QED
    BY <1>9, <1>10, <1>11 DEF ConfIInv

LEMMA ParseElementKept == ASSUME ConfIInv, ParseElement PROVE ConfIInv'
<1>1. PICK el : el = Head(todo)
    OBVIOUS
<1>2. stage \in Sources /\ todo # <<>>
    BY DEF ParseElement
<1>3. CASE /\ el.tag = "class"
           /\ hash' = [hash EXCEPT ![stage] = AddToClassHash(@, el)]
           /\ todo' = Tail(todo) /\ UNCHANGED <<conf, stage, base, left, made>>
    BY <1>1, <1>2, <1>3, TakeClass
<1>4. CASE /\ el.tag \in BaseOk /\ base' = Append(base, el)
           /\ todo' = Tail(todo) /\ UNCHANGED <<conf, stage, hash, left, made>>
    BY <1>1, <1>2, <1>4, TakeBase
<1>5. CASE /\ el.tag = "include" /\ el.attrs.href \in DOMAIN conf
           /\ todo' = conf[el.attrs.href] \o Tail(todo)
           /\ UNCHANGED <<conf, stage, hash, base, left, made>>
    BY <1>1, <1>2, <1>5, TakeInclude
<1>6. CASE Exit
    BY <1>6, ExitKept
<1>7. CASE /\ el.tag \notin {"class", "include"} \union BaseOk
           /\ todo' = Tail(todo) /\ UNCHANGED <<conf, stage, hash, base, left, made>>
    BY <1>1, <1>2, <1>7, PassOver
<1> QED
    BY <1>1, <1>3, <1>4, <1>5, <1>6, <1>7 DEF ParseElement

\* Nothing is left to read: what was said was read.
LEMMA FileEnds ==
    ASSUME ConfIInv, stage \in Sources, todo = <<>>
    PROVE  \A s \in Behind \cup {stage} : \A el \in Said(s) : Took(s, el)
<1>1. ToSet(todo) = {}
    BY DEF ToSet
<1>2. PICK fs \in SUBSET DOMAIN conf : Follows(fs)
    BY DEF ConfIInv, Reads
<1> QED
    BY <1>1, <1>2, AllTook DEF ConfIInv

LEMMA ParseNextFileKept == ASSUME ConfIInv, ParseNextFile PROVE ConfIInv'
<1>1. /\ stage \in {"types", "telemetry"} /\ todo = <<>>
      /\ stage' = IF stage = "types" THEN "telemetry" ELSE "settings"
      /\ todo' = <<Include(stage')>> /\ UNCHANGED <<conf, hash, base, left, made>>
    BY DEF ParseNextFile
<1>2. /\ Shape /\ stage \in Sources /\ stage' \in Sources
      /\ stage \notin ClassesStages /\ stage' \notin ClassesStages
    BY <1>1 DEF ConfIInv, Sources, ClassesStages
<1>3. Behind' \subseteq Behind \cup {stage}
    BY <1>1 DEF Behind, Sources, ClassesStages
<1>4. \A s, el : Took(s, el) => Took(s, el)'
    BY <1>1 DEF Took, ToSet
<1>5. \A s \in Behind' : \A el \in Said(s)' : Took(s, el)'
    BY <1>1, <1>2, <1>3, <1>4, FileEnds, SameFiles
<1>6. IsSequence(todo') /\ ToSet(todo') = {Include(stage')}
  <2>1. PICK i : i = Include(stage')
      OBVIOUS
  <2>2. <<i>> \in Seq({i}) /\ ToSet(<<i>>) = {i}
      BY DEF ToSet
  <2> QED
      BY <1>1, <2>1, <2>2 DEF IsSequence
<1>7. Reads'
  <2>1. Follows({})'
      BY <1>6 DEF Follows, ToSet, Include
  <2>2. \A s \in Sources : made'[s] = <<>>
      BY <1>1, <1>2 DEF ConfIInv, Reads
  <2> QED
      BY <1>6, <2>1, <2>2 DEF Reads, ToSet, Include, Sources
<1>8. Makes'
    BY <1>2 DEF Makes, ClassesStages
<1>9. Shape'
  <2>1. (ToSet(base) \subseteq Shared)' /\ IsSequence(todo)'
      BY <1>1, <1>2, <1>6, SameFiles DEF Shape, ToSet, IsSequence
  <2> QED
      BY <1>1, <1>2, <2>1, SameFiles DEF Shape, Sources, ClassesStages, IsSequence, ToSet
<1> QED
    BY <1>5, <1>7, <1>8, <1>9 DEF ConfIInv

LEMMA AllParsedKept == ASSUME ConfIInv, AllParsed PROVE ConfIInv'
<1>1. /\ stage = "settings" /\ todo = <<>> /\ stage' = "classes"
      /\ left' = UNION {DOMAIN hash[s] : s \in Sources}
      /\ UNCHANGED <<conf, todo, hash, base, made>>
    BY DEF AllParsed
<1>2. /\ Shape /\ stage \in Sources /\ stage' \notin Sources /\ stage' \in ClassesStages
      /\ stage' \notin {"codegen", "written"}
    BY <1>1 DEF ConfIInv, Sources, ClassesStages
<1>3. Behind \cup {stage} = Sources /\ Behind' \subseteq Sources
    BY <1>1 DEF Behind, Sources, ClassesStages
<1>4. \A s \in Sources : \A el \in Said(s) : Took(s, el)
    BY <1>1, <1>2, <1>3, FileEnds
<1>5. \A s \in Behind' : \A el \in Said(s)' : Took(s, el)'
  <2>1. \A s, el : Took(s, el) => Took(s, el)'
      BY <1>1 DEF Took, ToSet
  <2> QED
      BY <1>1, <1>3, <1>4, <2>1, SameFiles
<1>6. ClassNames \subseteq left'
    BY <1>1, <1>4 DEF ClassNames, Took
<1>7. Makes'
  <2>1. ClassNames' \ left' = {}
      BY <1>1, <1>6, SameFiles
  <2>2. \A s \in Sources : made'[s] = <<>>
      BY <1>1, <1>2 DEF ConfIInv, Reads
  <2> QED
      BY <1>2, <2>1, <2>2 DEF Makes
<1>8. Reads'
    BY <1>2 DEF Reads
<1>9. Shape'
  <2>1. (ToSet(base) \subseteq Shared)'
      BY <1>1, <1>2, SameFiles DEF Shape, ToSet
  <2> QED
      BY <1>1, <1>2, <2>1, SameFiles DEF Shape, IsSequence, ToSet
<1> QED
    BY <1>5, <1>7, <1>8, <1>9 DEF ConfIInv

\* The includes among the children of an element can be read.
Includable(kids) ==
    IsSequence(kids) /\ \A kid \in ToSet(kids) : kid.tag = "include" => kid.attrs.href \in DOMAIN conf

LEMMA InsertFacts ==
    ASSUME conf \in Configurations, NEW kids, Includable(kids)
    PROVE  /\ IsSequence(InsertIncludes(kids))
           /\ ToSet(InsertIncludes(kids)) =
                UNION {IF kid.tag = "include" THEN ToSet(conf[kid.attrs.href]) ELSE {kid} : kid \in ToSet(kids)}
<1> DEFINE Part(kid) == IF kid.tag = "include" THEN conf[kid.attrs.href] ELSE <<kid>>
           In(kid) == IF kid.tag = "include" THEN ToSet(conf[kid.attrs.href]) ELSE {kid}
           parts == [k \in DOMAIN kids |-> Part(kids[k])]
<1>1. InsertIncludes(kids) = FlattenSeq(parts)
    BY DEF InsertIncludes
<1>2. ASSUME NEW kid \in ToSet(kids) PROVE IsSequence(Part(kid)) /\ ToSet(Part(kid)) = In(kid)
  <2>1. CASE kid.tag = "include"
    <3>1. IsSequence(conf[kid.attrs.href])
        BY <2>1, FilesFacts DEF Includable
    <3> QED
        BY <2>1, <3>1
  <2>2. CASE kid.tag # "include"
    <3>1. <<kid>> \in Seq({kid}) /\ ToSet(<<kid>>) = {kid}
        BY DEF ToSet
    <3> QED
        BY <2>2, <3>1 DEF IsSequence
  <2> QED
      BY <2>1, <2>2
<1>3. DOMAIN parts = DOMAIN kids /\ \A k \in DOMAIN kids : parts[k] = Part(kids[k]) /\ kids[k] \in ToSet(kids)
    BY DEF ToSet
<1>4. IsSequence(parts)
    BY SameDomain DEF Includable
<1> HIDE DEF parts, Part, In
<1>5. \A k \in DOMAIN parts : IsSequence(parts[k]) /\ ToSet(parts[k]) = In(kids[k])
    BY <1>2, <1>3
<1>6. /\ IsSequence(FlattenSeq(parts))
      /\ ToSet(FlattenSeq(parts)) = UNION {ToSet(parts[k]) : k \in DOMAIN parts}
    BY <1>4, <1>5, FlattenFacts
<1>7. UNION {ToSet(parts[k]) : k \in DOMAIN parts} = UNION {In(kid) : kid \in ToSet(kids)}
    BY <1>3, <1>5 DEF ToSet
<1> QED
    BY <1>1, <1>6, <1>7 DEF In

\* The fold of WithBase is a recursive function of the positions that had their turn.
Inserts(f, kids, s) ==
    f = [p \in SUBSET DOMAIN s |-> IF p = {} THEN kids ELSE <<s[Max(p)]>> \o f[p \ {Max(p)}]]

LEMMA InsertsExists ==
    ASSUME NEW kids, IsSequence(kids), NEW s, IsSequence(s)
    PROVE  \E f : Inserts(f, kids, s)
<1> DEFINE D == DOMAIN s
           T == ToSet(kids) \cup ToSet(s)
           V == Seq(T)
           c == [p \in SUBSET D |-> Max(p)]
           g == [q \in (SUBSET D) \X V |-> IF q[1] = {} THEN kids ELSE <<s[c[q[1]]]>> \o q[2]]
<1>1. Len(s) \in Nat /\ D = 1..Len(s) /\ IsFiniteSet(D)
  <2>1. Len(s) \in Nat /\ D = 1..Len(s)
      BY SequenceFacts
  <2> QED
      BY <2>1, FS_Interval
<1>2. ASSUME NEW p \in SUBSET D, p # {} PROVE c[p] = Max(p) /\ c[p] \in p
  <2>1. p \in SUBSET (0..Len(s))
      BY <1>1
  <2>2. Max(p) \in p
      BY <1>1, <1>2, <2>1, MaxGreatest
  <2> QED
      BY <2>2
<1>3. kids \in V /\ \A k \in D : s[k] \in T
  <2>1. kids \in Seq(ToSet(kids))
      BY SequenceFacts
  <2> QED
      BY <2>1 DEF ToSet
<1> HIDE DEF c, T
<1>4. g \in [(SUBSET D) \X V -> V]
  <2> SUFFICES ASSUME NEW q \in (SUBSET D) \X V
               PROVE  (IF q[1] = {} THEN kids ELSE <<s[c[q[1]]]>> \o q[2]) \in V
      OBVIOUS
  <2>1. q[1] \in SUBSET D /\ q[2] \in Seq(T)
      OBVIOUS
  <2>2. CASE q[1] = {}
      BY <1>3, <2>2
  <2>3. CASE q[1] # {}
    <3>1. s[c[q[1]]] \in T
        BY <1>2, <1>3, <2>1, <2>3
    <3> QED
        BY <2>1, <2>3, <3>1
  <2> QED
      BY <2>2, <2>3
<1>5. PICK f : SolvesOn(f, D, V, kids, c, g)
  <2>1. \A p \in SUBSET D : p # {} => c[p] \in p
      BY <1>2
  <2> HIDE DEF D, V, g
  <2> QED
      BY <1>1, <1>3, <1>4, <2>1, SetRecursion
<1>6. f \in [SUBSET D -> V] /\ f[{}] = kids
  <2> HIDE DEF g
  <2> QED
      BY <1>5 DEF SolvesOn
<1>7. ASSUME NEW p \in SUBSET D
      PROVE  f[p] = IF p = {} THEN kids ELSE <<s[Max(p)]>> \o f[p \ {Max(p)}]
  <2>1. CASE p = {}
      BY <1>6, <2>1
  <2>2. CASE p # {}
    <3>1. f[p] = g[<<p, f[p \ {c[p]}]>>]
      <4> HIDE DEF g
      <4> QED
          BY <1>5, <2>2 DEF SolvesOn
    <3>2. <<p, f[p \ {c[p]}]>> \in (SUBSET D) \X V
        BY <1>6
    <3>3. g[<<p, f[p \ {c[p]}]>>] = <<s[c[p]]>> \o f[p \ {c[p]}]
        BY <2>2, <3>2
    <3>4. c[p] = Max(p)
        BY <1>2, <2>2
    <3> HIDE DEF g
    <3> QED
        BY <2>2, <3>1, <3>3, <3>4
  <2> QED
      BY <2>1, <2>2
<1>8. f = [p \in SUBSET D |-> f[p]]
    BY <1>6
<1>9. Inserts(f, kids, s)
    BY <1>7, <1>8 DEF Inserts
<1> QED
    BY <1>9

LEMMA WithBaseFacts ==
    ASSUME NEW kids, IsSequence(kids), IsSequence(base)
    PROVE  IsSequence(WithBase(kids)) /\ ToSet(WithBase(kids)) = ToSet(kids) \cup ToSet(base)
<1> DEFINE s == Reverse(base)
           D == DOMAIN s
           f == CHOOSE f : Inserts(f, kids, s)
<1>1. Len(base) \in Nat /\ DOMAIN base = 1..Len(base)
    BY SequenceFacts
<1>2. PICK n \in Nat : n = Len(base) /\ D = 1..n
    BY <1>1 DEF Reverse
<1>3. IsSequence(s) /\ ToSet(s) = ToSet(base)
  <2>1. \A i \in 1..n : s[i] = base[n - i + 1] /\ n - i + 1 \in 1..n
      BY <1>2 DEF Reverse
  <2>2. \A i \in 1..n : n - (n - i + 1) + 1 = i /\ n - i + 1 \in 1..n
      BY <1>2
  <2>3. \A i \in 1..n : s[n - i + 1] = base[i]
      BY <2>1, <2>2
  <2>4. ToSet(s) = ToSet(base)
      BY <1>1, <1>2, <2>1, <2>2, <2>3 DEF ToSet
  <2>5. s = [i \in DOMAIN base |-> s[i]]
      BY <1>1, <1>2 DEF Reverse
  <2> HIDE DEF s
  <2>6. IsSequence(s)
      BY <2>5, SameDomain
  <2> QED
      BY <2>4, <2>6
<1>4. WithBase(kids) = f[D]
    BY DEF WithBase, FoldLeft, MapThenFoldSet, Inserts
<1> HIDE DEF s
<1>5. Inserts(f, kids, s)
  <2>1. \E h : Inserts(h, kids, s)
      BY <1>3, InsertsExists
  <2> QED
      BY <2>1
<1> HIDE DEF f
<1> DEFINE U(k) == {s[i] : i \in 1..k}
           N == {k \in Nat : k <= n => IsSequence(f[1..k]) /\ ToSet(f[1..k]) = ToSet(kids) \cup U(k)}
<1>6. 0 \in N
  <2>1. f[1..0] = kids
      BY <1>5 DEF Inserts
  <2> QED
      BY <2>1
<1>7. ASSUME NEW k \in Nat, k \in N PROVE k + 1 \in N
  <2> SUFFICES ASSUME k + 1 <= n
               PROVE  IsSequence(f[1..k + 1]) /\ ToSet(f[1..k + 1]) = ToSet(kids) \cup U(k + 1)
      OBVIOUS
  <2>1. IsSequence(f[1..k]) /\ ToSet(f[1..k]) = ToSet(kids) \cup U(k)
      BY <1>2, <1>7
  <2>2. Max(1..k + 1) = k + 1
    <3>1. /\ k + 1 \in Nat /\ 1..k + 1 \in SUBSET (0..k + 1)
          /\ 1..k + 1 # {} /\ k + 1 \in 1..k + 1
        OBVIOUS
    <3>2. Max(1..k + 1) \in 1..k + 1 /\ k + 1 <= Max(1..k + 1)
        BY <3>1, MaxGreatest
    <3> QED
        BY <3>2
  <2>3. (1..k + 1) \ {k + 1} = 1..k /\ 1..k + 1 # {} /\ 1..k + 1 \in SUBSET D
    <3>1. n \in Int /\ k + 1 <= n /\ 1 \in 1..k + 1
        BY <1>2
    <3>2. \A i \in 1..k + 1 : i \in 1..n
        BY <3>1
    <3>3. (1..k + 1) \ {k + 1} = 1..k
        OBVIOUS
    <3> HIDE DEF D
    <3> QED
        BY <1>2, <3>1, <3>2, <3>3
  <2>4. f[1..k + 1] = <<s[k + 1]>> \o f[1..k]
    <3>1. f[1..k + 1] = <<s[Max(1..k + 1)]>> \o f[(1..k + 1) \ {Max(1..k + 1)}]
        BY <1>5, <2>3 DEF Inserts
    <3> QED
        BY <2>2, <2>3, <3>1
  <2>5. PICK e : e = s[k + 1]
      OBVIOUS
  <2>6. IsSequence(<<e>>) /\ ToSet(<<e>>) = {e}
    <3>1. <<e>> \in Seq({e}) /\ ToSet(<<e>>) = {e}
        BY DEF ToSet
    <3> QED
        BY <3>1 DEF IsSequence
  <2>7. U(k + 1) = U(k) \cup {e}
    <3>1. 1..k + 1 = (1..k) \cup {k + 1}
        OBVIOUS
    <3> QED
        BY <2>5, <3>1
  <2> HIDE DEF U
  <2>8. IsSequence(<<e>> \o f[1..k]) /\ ToSet(<<e>> \o f[1..k]) = {e} \cup ToSet(f[1..k])
      BY <2>1, <2>6, ConcatElements
  <2> QED
      BY <2>1, <2>4, <2>5, <2>7, <2>8
<1>8. n \in N
  <2> HIDE DEF N
  <2> QED
      BY <1>6, <1>7, NatSetInduction
<1>9. U(n) = ToSet(s)
    BY <1>2 DEF ToSet
<1> QED
    BY <1>2, <1>3, <1>4, <1>8, <1>9

\* When the classes are made, the elements of a class are those that are said.
LEMMA ElementsFacts ==
    ASSUME ConfIInv, stage = "classes", NEW s \in Sources, NEW c
    PROVE  /\ IsSequence(Elements(s, c)) /\ ToSet(Elements(s, c)) = Of(s, c)
           /\ \A cl \in Of(s, c) : IsSequence(cl.kids)
<1>1. Shape /\ s \in Behind
    BY DEF ConfIInv, Behind, ClassesStages
<1>2. \A el \in Of(s, c) : c \in DOMAIN hash[s] /\ el \in ToSet(hash[s][c])
    BY <1>1 DEF ConfIInv, Took, Of
<1>3. IsSequence(Elements(s, c)) /\ ToSet(Elements(s, c)) = Of(s, c)
  <2>1. CASE c \in DOMAIN hash[s]
      BY <1>1, <1>2, <2>1 DEF Elements, Shape
  <2>2. CASE c \notin DOMAIN hash[s]
    <3>1. <<>> \in Seq({}) /\ ToSet(<<>>) = {}
        BY DEF ToSet
    <3>2. Of(s, c) = {}
        BY <1>2, <2>2
    <3> QED
        BY <2>2, <3>1, <3>2 DEF Elements, IsSequence
  <2> QED
      BY <2>1, <2>2
<1>4. ASSUME NEW cl \in Of(s, c) PROVE IsSequence(cl.kids)
  <2>1. PICK f \in DOMAIN conf : cl \in ToSet(conf[f])
      BY <1>4 DEF Of, Said, ReadFrom
  <2> QED
      BY <1>1, <2>1, FilesFacts DEF Shape
<1> QED
    BY <1>3, <1>4

\* What is made of the elements of a class, one behind the other.
LEMMA Merged ==
    ASSUME NEW els, IsSequence(els), NEW parts, parts = [k \in DOMAIN els |-> parts[k]],
           \A k \in DOMAIN els : IsSequence(parts[k])
    PROVE  ToSet(FlattenSeq(parts)) = UNION {ToSet(parts[k]) : k \in DOMAIN els}
<1>1. DOMAIN parts = DOMAIN els /\ IsSequence(parts)
    BY SameDomain
<1> QED
    BY <1>1, FlattenFacts

LEMMA ReadableFacts ==
    ASSUME conf \in Configurations, NEW kids, IsSequence(kids), NEW ok, "include" \notin ok, Readable(kids, ok)
    PROVE  /\ Includable(kids) /\ IsSequence(InsertIncludes(kids))
           /\ \A el \in ToSet(InsertIncludes(kids)) : "name" \in DOMAIN el.attrs
<1>1. Includable(kids)
    BY DEF Readable, Includable
<1> QED
    BY <1>1, InsertFacts DEF Readable

LEMMA TypeNames ==
    ASSUME ConfIInv, stage = "classes", NEW cl, IsSequence(cl.kids), TypesReadable(cl)
    PROVE  /\ IsSequence(MakeTypes(cl))
           /\ {t.name : t \in ToSet(MakeTypes(cl))} = {t.attrs.name : t \in Within(cl) \union Shared}
<1> DEFINE kids == WithBase(cl.kids)
           els == InsertIncludes(kids)
           In(kid) == IF kid.tag = "include" THEN ToSet(conf[kid.attrs.href]) ELSE {kid}
<1>1. Shape /\ "types" \in Behind /\ conf \in Configurations
    BY DEF ConfIInv, Shape, Behind, ClassesStages, Sources
<1>2. ToSet(base) = Shared
  <2>1. \A el \in Shared : el \in ToSet(base)
      BY <1>1 DEF ConfIInv, Took, Shared
  <2> QED
      BY <1>1, <2>1 DEF Shape
<1>3. IsSequence(kids) /\ ToSet(kids) = ToSet(cl.kids) \cup Shared
    BY <1>1, <1>2, WithBaseFacts DEF Shape
<1>4. Readable(kids, {"struct", "message", "enum"})
    BY DEF TypesReadable
<1> HIDE DEF kids
<1>5. Includable(kids) /\ IsSequence(els)
  <2>1. "include" \notin {"struct", "message", "enum"}
      OBVIOUS
  <2> QED
      BY <1>1, <1>3, <1>4, <2>1, ReadableFacts
<1>6. Includable(cl.kids)
    BY <1>3, <1>5 DEF Includable
<1>7. ToSet(els) = UNION {In(kid) : kid \in ToSet(kids)}
    BY <1>1, <1>5, InsertFacts
<1>8. Within(cl) = UNION {In(kid) : kid \in ToSet(cl.kids)}
    BY <1>1, <1>6, InsertFacts DEF Within
<1>9. \A kid \in Shared : In(kid) = {kid}
    BY DEF Shared
<1> HIDE DEF els, In
<1>10. ToSet(els) = Within(cl) \cup Shared
    BY <1>3, <1>7, <1>8, <1>9
<1>11. MakeTypes(cl) = [k \in DOMAIN els |-> MakeType(els[k])]
    BY DEF MakeTypes, els, kids
<1>12. \A el : MakeType(el).name = el.attrs.name
    BY DEF MakeType
<1>13. IsSequence(MakeTypes(cl)) /\ DOMAIN MakeTypes(cl) = DOMAIN els
  <2>1. MakeTypes(cl) = [k \in DOMAIN els |-> MakeTypes(cl)[k]]
      BY <1>11
  <2> QED
      BY <1>5, <2>1, SameDomain
<1>14. \A k \in DOMAIN els : MakeTypes(cl)[k].name = els[k].attrs.name
    BY <1>11, <1>12
<1>15. {t.name : t \in ToSet(MakeTypes(cl))} = {t.attrs.name : t \in ToSet(els)}
    BY <1>13, <1>14 DEF ToSet
<1> QED
    BY <1>10, <1>13, <1>15

LEMMA TypesMade ==
    ASSUME ConfIInv, stage = "classes", NEW c, NEW els, els = Elements("types", c),
           \A cl \in ToSet(els) : TypesReadable(cl)
    PROVE  {t.name : t \in ToSet(FlattenSeq([k \in DOMAIN els |-> MakeTypes(els[k])]))} =
             UNION {{t.attrs.name : t \in Within(cl) \union Shared} : cl \in Of("types", c)}
<1> DEFINE parts == [k \in DOMAIN els |-> MakeTypes(els[k])]
           Names(cl) == {t.attrs.name : t \in Within(cl) \union Shared}
<1>1. IsSequence(els) /\ ToSet(els) = Of("types", c) /\ \A cl \in ToSet(els) : IsSequence(cl.kids)
  <2>1. "types" \in Sources
      BY DEF Sources
  <2> QED
      BY <2>1, ElementsFacts
<1>2. \A k \in DOMAIN els : IsSequence(parts[k]) /\ {t.name : t \in ToSet(parts[k])} = Names(els[k])
  <2> SUFFICES ASSUME NEW k \in DOMAIN els
               PROVE  IsSequence(parts[k]) /\ {t.name : t \in ToSet(parts[k])} = Names(els[k])
      OBVIOUS
  <2>1. els[k] \in ToSet(els) /\ parts[k] = MakeTypes(els[k])
      BY DEF ToSet
  <2> QED
      BY <1>1, <2>1, TypeNames
<1>3. parts = [k \in DOMAIN els |-> parts[k]]
    OBVIOUS
<1> HIDE DEF parts, Names
<1>4. ToSet(FlattenSeq(parts)) = UNION {ToSet(parts[k]) : k \in DOMAIN els}
    BY <1>1, <1>2, <1>3, Merged
<1>5. {t.name : t \in ToSet(FlattenSeq(parts))} = UNION {{t.name : t \in ToSet(parts[k])} : k \in DOMAIN els}
    BY <1>4
<1>6. UNION {{t.name : t \in ToSet(parts[k])} : k \in DOMAIN els} = UNION {Names(cl) : cl \in ToSet(els)}
    BY <1>2 DEF ToSet
<1> QED
    BY <1>1, <1>5, <1>6 DEF parts, Names

\* What an element inherits is what is said of it, or else of the one it is in.
LEMMA Inherited ==
    ASSUME NEW own, NEW parent, NEW a, a \in DOMAIN Inherit(own.attrs, parent.attrs)
    PROVE  a \notin Reserved => Inherit(own.attrs, parent.attrs)[a] = Given(own, parent, a)
BY DEF Inherit, Over, Given

LEMMA MessageFacts ==
    ASSUME conf \in Configurations, NEW cl, IsSequence(cl.kids), TelemetryReadable(cl)
    PROVE  /\ IsSequence(MakeTelemetry(cl))
           /\ {<<m.name, m.type, m.flightrate, m.simrate>> : m \in ToSet(MakeTelemetry(cl))} =
                {<<m.attrs.name, m.attrs.type, Given(m, cl, "flightrate"), Given(m, cl, "simrate")>> :
                    m \in Within(cl)}
<1> DEFINE els == InsertIncludes(cl.kids)
           made1 == MakeTelemetry(cl)
<1>1. IsSequence(els) /\ \A m \in ToSet(els) : "name" \in DOMAIN m.attrs
  <2>1. Readable(cl.kids, {"message"}) /\ "include" \notin {"message"}
      BY DEF TelemetryReadable
  <2> QED
      BY <2>1, ReadableFacts
<1>2. \A m \in ToSet(els) : /\ {"flightrate", "simrate"} \subseteq DOMAIN MessageAttrs(m, cl)
                            /\ "type" \in DOMAIN m.attrs
    BY DEF TelemetryReadable
<1>3. IsSequence(made1) /\ DOMAIN made1 = DOMAIN els
  <2>1. made1 = [k \in DOMAIN els |-> made1[k]] /\ DOMAIN made1 = DOMAIN els
      BY DEF MakeTelemetry
  <2> HIDE DEF made1, els
  <2> QED
      BY <1>1, <2>1, SameDomain
<1>4. ASSUME NEW k \in DOMAIN els
      PROVE  LET m == els[k]
             IN  /\ made1[k].name = m.attrs.name /\ made1[k].type = m.attrs.type
                 /\ made1[k].flightrate = Given(m, cl, "flightrate")
                 /\ made1[k].simrate = Given(m, cl, "simrate")
  <2> DEFINE m == els[k]
             a == MessageAttrs(m, cl)
  <2>1. /\ made1[k].name = a.name /\ made1[k].type = a.type
        /\ made1[k].flightrate = a.flightrate /\ made1[k].simrate = a.simrate
      BY <1>4 DEF MakeTelemetry
  <2>2. m \in ToSet(els)
      BY <1>4 DEF ToSet
  <2> HIDE DEF made1, els
  <2>3. a = Inherit(m.attrs, cl.attrs)
      BY DEF MessageAttrs
  <2>4. "flightrate" \notin Reserved /\ "simrate" \notin Reserved
      BY DEF Reserved
  <2>5. /\ "name" \in DOMAIN m.attrs /\ "type" \in DOMAIN m.attrs
        /\ {"flightrate", "simrate", "name", "type"} \subseteq DOMAIN a
    <3>1. "name" \in DOMAIN m.attrs /\ "type" \in DOMAIN m.attrs
        BY <1>1, <1>2, <2>2
    <3>2. DOMAIN m.attrs \subseteq DOMAIN a
        BY <2>3 DEF Inherit, Over
    <3>3. {"flightrate", "simrate"} \subseteq DOMAIN a
        BY <1>2, <2>2
    <3> QED
        BY <3>1, <3>2, <3>3
  <2>6. a["flightrate"] = Given(m, cl, "flightrate") /\ a["simrate"] = Given(m, cl, "simrate")
      BY <2>3, <2>4, <2>5, Inherited
  <2>7. a["name"] = m.attrs["name"] /\ a["type"] = m.attrs["type"]
      BY <2>3, <2>5 DEF Inherit, Over
  <2> QED
      BY <2>1, <2>6, <2>7
<1> HIDE DEF made1, els
<1>5. {<<m.name, m.type, m.flightrate, m.simrate>> : m \in ToSet(made1)} =
         {<<m.attrs.name, m.attrs.type, Given(m, cl, "flightrate"), Given(m, cl, "simrate")>> :
             m \in ToSet(els)}
    BY <1>3, <1>4 DEF ToSet
<1> QED
    BY <1>3, <1>5 DEF made1, els, Within

LEMMA TelemetryMade ==
    ASSUME ConfIInv, stage = "classes", NEW c, NEW els, els = Elements("telemetry", c),
           \A cl \in ToSet(els) : TelemetryReadable(cl)
    PROVE  {<<m.name, m.type, m.flightrate, m.simrate>> :
               m \in ToSet(FlattenSeq([k \in DOMAIN els |-> MakeTelemetry(els[k])]))} =
             UNION {{<<m.attrs.name, m.attrs.type, Given(m, cl, "flightrate"), Given(m, cl, "simrate")>> :
                        m \in Within(cl)} : cl \in Of("telemetry", c)}
<1> DEFINE parts == [k \in DOMAIN els |-> MakeTelemetry(els[k])]
           Said1(cl) == {<<m.attrs.name, m.attrs.type, Given(m, cl, "flightrate"), Given(m, cl, "simrate")>> :
                            m \in Within(cl)}
           Data(ms) == {<<m.name, m.type, m.flightrate, m.simrate>> : m \in ms}
<1>1. IsSequence(els) /\ ToSet(els) = Of("telemetry", c) /\ \A cl \in ToSet(els) : IsSequence(cl.kids)
  <2>1. "telemetry" \in Sources
      BY DEF Sources
  <2> QED
      BY <2>1, ElementsFacts
<1>2. \A k \in DOMAIN els : IsSequence(parts[k]) /\ Data(ToSet(parts[k])) = Said1(els[k])
  <2> SUFFICES ASSUME NEW k \in DOMAIN els
               PROVE  IsSequence(parts[k]) /\ Data(ToSet(parts[k])) = Said1(els[k])
      OBVIOUS
  <2>1. els[k] \in ToSet(els) /\ parts[k] = MakeTelemetry(els[k])
      BY DEF ToSet
  <2>2. conf \in Configurations
      BY DEF ConfIInv, Shape
  <2> QED
      BY <1>1, <2>1, <2>2, MessageFacts
<1>3. parts = [k \in DOMAIN els |-> parts[k]]
    OBVIOUS
<1> HIDE DEF parts, Said1
<1>4. ToSet(FlattenSeq(parts)) = UNION {ToSet(parts[k]) : k \in DOMAIN els}
    BY <1>1, <1>2, <1>3, Merged
<1>5. Data(ToSet(FlattenSeq(parts))) = UNION {Data(ToSet(parts[k])) : k \in DOMAIN els}
    BY <1>4
<1>6. UNION {Data(ToSet(parts[k])) : k \in DOMAIN els} = UNION {Said1(cl) : cl \in ToSet(els)}
  <2>1. \A k \in DOMAIN els : Data(ToSet(parts[k])) = Said1(els[k])
      BY <1>2
  <2>2. ToSet(els) = {els[k] : k \in DOMAIN els}
      BY DEF ToSet
  <2> HIDE DEF Data
  <2> QED
      BY <2>1, <2>2
<1> QED
    BY <1>1, <1>5, <1>6 DEF parts, Said1

LEMMA FieldFacts ==
    ASSUME NEW f, NEW s, NEW types, FieldMakes(f, s, types)
    PROVE  /\ MakeField(f, s, types).path = f.attrs.name
           /\ MakeField(f, s, types).default = Given(f, s, "default")
<1> DEFINE type == FieldType(f, s, types)
           own == FieldAttrs(f, s)
           attrs == WithBounds(own, type)
<1>1. "default" \in DOMAIN attrs
    BY DEF FieldMakes
<1>2. /\ MakeField(f, s, types).path = f.attrs.name
      /\ MakeField(f, s, types).default = attrs.default
    BY DEF MakeField
<1> HIDE DEF type, own
<1>3. "default" \in DOMAIN own /\ attrs["default"] = own["default"]
  <2>1. CASE type.kind = "enum"
    <3>1. attrs = Over([min |-> 0, max |-> Len(type.fields) - 1, step |-> 1], own)
        BY <2>1 DEF WithBounds
    <3>2. "default" \notin DOMAIN [min |-> 0, max |-> Len(type.fields) - 1, step |-> 1]
        OBVIOUS
    <3> HIDE DEF attrs
    <3> QED
        BY <1>1, <3>1, <3>2 DEF Over
  <2>2. CASE type.kind # "enum" /\ "absmax" \in DOMAIN own
    <3>1. attrs = Over([min |-> 0 - own.absmax, max |-> own.absmax], own)
        BY <2>2 DEF WithBounds
    <3>2. "default" \notin DOMAIN [min |-> 0 - own.absmax, max |-> own.absmax]
        OBVIOUS
    <3> HIDE DEF attrs
    <3> QED
        BY <1>1, <3>1, <3>2 DEF Over
  <2>3. CASE type.kind # "enum" /\ "absmax" \notin DOMAIN own
    <3>1. attrs = own
        BY <2>3 DEF WithBounds
    <3> HIDE DEF attrs
    <3> QED
        BY <1>1, <3>1
  <2> QED
      BY <2>1, <2>2, <2>3
<1>4. own = Inherit(f.attrs, s.attrs) /\ "default" \notin Reserved
    BY DEF own, FieldAttrs, Reserved
<1>5. own["default"] = Given(f, s, "default")
    BY <1>3, <1>4, Inherited
<1> QED
    BY <1>2, <1>3, <1>5

\* The fields of settings that were made, and those of an element.
SettingsIn(ss) ==
    UNION {{<<s.name, s.type, f.path, f.default>> : f \in ToSet(s.fields)} : s \in ss}

SettingsOf(cl) ==
    UNION {{<<s.attrs.varname, s.attrs.type, f.attrs.name, Given(f, s, "default")>> :
               f \in Within(s)} : s \in Within(cl)}

LEMMA SettingFacts ==
    ASSUME conf \in Configurations, NEW cl, IsSequence(cl.kids), NEW types, SettingsReadable(cl, types)
    PROVE  /\ IsSequence(MakeSettings(cl, types))
           /\ SettingsIn(ToSet(MakeSettings(cl, types))) = SettingsOf(cl)
<1> DEFINE els == InsertIncludes(cl.kids)
           made1 == MakeSettings(cl, types)
           FieldsOf(s) == InsertIncludes(s.kids)
           Made1(s) == {<<s.name, s.type, f.path, f.default>> : f \in ToSet(s.fields)}
           Said1(s) == {<<s.attrs.varname, s.attrs.type, f.attrs.name, Given(f, s, "default")>> :
                           f \in ToSet(FieldsOf(s))}
<1>1. IsSequence(els)
  <2>1. Readable(cl.kids, {"struct"}) /\ "include" \notin {"struct"}
      BY DEF SettingsReadable
  <2> QED
      BY <2>1, ReadableFacts
<1>2. \A s \in ToSet(els) : \A f \in ToSet(FieldsOf(s)) : FieldMakes(f, s, types)
    BY DEF SettingsReadable
<1>3. \A k \in DOMAIN els :
         /\ made1[k].name = els[k].attrs.varname /\ made1[k].type = els[k].attrs.type
         /\ made1[k].fields = [j \in DOMAIN FieldsOf(els[k]) |-> MakeField(FieldsOf(els[k])[j], els[k], types)]
    BY DEF MakeSettings
<1>4. IsSequence(made1) /\ DOMAIN made1 = DOMAIN els
  <2>1. made1 = [k \in DOMAIN els |-> made1[k]] /\ DOMAIN made1 = DOMAIN els
      BY DEF MakeSettings
  <2> HIDE DEF made1, els
  <2> QED
      BY <1>1, <2>1, SameDomain
<1> HIDE DEF made1, els, FieldsOf
<1>5. ASSUME NEW k \in DOMAIN els PROVE Made1(made1[k]) = Said1(els[k])
  <2> DEFINE s == els[k]
             m == made1[k]
             fs == FieldsOf(s)
  <2>1. s \in ToSet(els)
      BY <1>5 DEF ToSet
  <2>2. /\ m.name = s.attrs.varname /\ m.type = s.attrs.type
        /\ m.fields = [j \in DOMAIN fs |-> MakeField(fs[j], s, types)]
      BY <1>3, <1>5
  <2>3. \A j \in DOMAIN fs : fs[j] \in ToSet(fs)
      BY DEF ToSet
  <2> HIDE DEF s, m, fs
  <2>4. \A j \in DOMAIN fs : /\ m.fields[j].path = fs[j].attrs.name
                             /\ m.fields[j].default = Given(fs[j], s, "default")
    <3> SUFFICES ASSUME NEW j \in DOMAIN fs
                 PROVE  /\ m.fields[j].path = fs[j].attrs.name
                        /\ m.fields[j].default = Given(fs[j], s, "default")
        OBVIOUS
    <3>1. FieldMakes(fs[j], s, types)
        BY <1>2, <2>1, <2>3 DEF fs
    <3>2. m.fields[j] = MakeField(fs[j], s, types)
        BY <2>2
    <3> QED
        BY <3>1, <3>2, FieldFacts
  <2>5. DOMAIN m.fields = DOMAIN fs
      BY <2>2
  <2>6. Made1(m) = {<<m.name, m.type, m.fields[j].path, m.fields[j].default>> : j \in DOMAIN fs}
      BY <2>5 DEF ToSet
  <2>7. Said1(s) = {<<s.attrs.varname, s.attrs.type, fs[j].attrs.name, Given(fs[j], s, "default")>> :
                       j \in DOMAIN fs}
      BY DEF ToSet, fs
  <2> HIDE DEF Made1, Said1
  <2>8. Made1(m) = Said1(s)
      BY <2>2, <2>4, <2>6, <2>7
  <2> QED
      BY <2>8 DEF m, s
<1>6. ToSet(made1) = {made1[k] : k \in DOMAIN els} /\ ToSet(els) = {els[k] : k \in DOMAIN els}
    BY <1>4 DEF ToSet
<1>7. UNION {Made1(s) : s \in ToSet(made1)} = UNION {Said1(s) : s \in ToSet(els)}
  <2> HIDE DEF Made1, Said1
  <2> QED
      BY <1>5, <1>6
<1> QED
    BY <1>4, <1>7 DEF made1, els, FieldsOf, Within, SettingsIn, SettingsOf

LEMMA SettingsMade ==
    ASSUME ConfIInv, stage = "classes", NEW c, NEW els, els = Elements("settings", c), NEW types,
           \A cl \in ToSet(els) : SettingsReadable(cl, types)
    PROVE  SettingsIn(ToSet(FlattenSeq([k \in DOMAIN els |-> MakeSettings(els[k], types)]))) =
             UNION {SettingsOf(cl) : cl \in Of("settings", c)}
<1> DEFINE parts == [k \in DOMAIN els |-> MakeSettings(els[k], types)]
<1>1. IsSequence(els) /\ ToSet(els) = Of("settings", c) /\ \A cl \in ToSet(els) : IsSequence(cl.kids)
  <2>1. "settings" \in Sources
      BY DEF Sources
  <2> QED
      BY <2>1, ElementsFacts
<1>2. \A k \in DOMAIN els : IsSequence(parts[k]) /\ SettingsIn(ToSet(parts[k])) = SettingsOf(els[k])
  <2> SUFFICES ASSUME NEW k \in DOMAIN els
               PROVE  IsSequence(parts[k]) /\ SettingsIn(ToSet(parts[k])) = SettingsOf(els[k])
      OBVIOUS
  <2>1. els[k] \in ToSet(els) /\ parts[k] = MakeSettings(els[k], types)
      BY DEF ToSet
  <2>2. conf \in Configurations
      BY DEF ConfIInv, Shape
  <2> QED
      BY <1>1, <2>1, <2>2, SettingFacts
<1>3. parts = [k \in DOMAIN els |-> parts[k]]
    OBVIOUS
<1> HIDE DEF parts
<1>4. ToSet(FlattenSeq(parts)) = UNION {ToSet(parts[k]) : k \in DOMAIN els}
    BY <1>1, <1>2, <1>3, Merged
<1>5. SettingsIn(ToSet(FlattenSeq(parts))) = UNION {SettingsIn(ToSet(parts[k])) : k \in DOMAIN els}
    BY <1>4 DEF SettingsIn
<1>6. UNION {SettingsIn(ToSet(parts[k])) : k \in DOMAIN els} = UNION {SettingsOf(cl) : cl \in ToSet(els)}
  <2>1. \A k \in DOMAIN els : SettingsIn(ToSet(parts[k])) = SettingsOf(els[k])
      BY <1>2
  <2>2. ToSet(els) = {els[k] : k \in DOMAIN els}
      BY DEF ToSet
  <2> QED
      BY <2>1, <2>2
<1> QED
    BY <1>1, <1>5, <1>6 DEF parts

\* Nothing is made of a class that a file does not have.
LEMMA NothingMade ==
    ASSUME NEW els, els = <<>>, NEW parts, parts = [k \in DOMAIN els |-> parts[k]]
    PROVE  ToSet(FlattenSeq(parts)) = {}
<1>1. IsSequence(els) /\ DOMAIN els = {}
  <2>1. <<>> \in Seq({})
      OBVIOUS
  <2> QED
      BY <2>1 DEF IsSequence
<1>2. \A k \in DOMAIN els : IsSequence(parts[k])
    BY <1>1
<1>3. ToSet(FlattenSeq(parts)) = UNION {ToSet(parts[k]) : k \in DOMAIN els}
    BY <1>1, <1>2, Merged
<1> QED
    BY <1>1, <1>3

\* A class is added to those made of a file, if it has any elements in it.
LEMMA ItemsAdded ==
    ASSUME NEW s, IsSequence(made[s]), NEW c, NEW items,
           \A k \in DOMAIN made[s] : made[s][k].name # c,
           \/ made'[s] = made[s] /\ ToSet(items) = {}
           \/ made'[s] = Append(made[s], [name |-> c, items |-> items])
    PROVE  /\ Items(s, c)' = ToSet(items) /\ \A d : d # c => Items(s, d)' = Items(s, d)
           /\ IsSequence(made'[s])
           /\ \A k \in DOMAIN made'[s] :
                made'[s][k].name = c \/ \E j \in DOMAIN made[s] : made'[s][k] = made[s][j]
<1> DEFINE m == made[s]
           n == Len(m)
           e == [name |-> c, items |-> items]
<1>1. \A d : /\ Items(s, d) = UNION {ToSet(m[k].items) : k \in {k \in DOMAIN m : m[k].name = d}}
             /\ Items(s, d)' = UNION {ToSet(made'[s][k].items) :
                                         k \in {k \in DOMAIN made'[s] : made'[s][k].name = d}}
    BY DEF Items, ToSet
<1>2. CASE made'[s] = m /\ ToSet(items) = {}
  <2>1. {k \in DOMAIN made'[s] : made'[s][k].name = c} = {}
      BY <1>2
  <2>2. Items(s, c)' = {}
      BY <1>1, <2>1
  <2>3. ASSUME NEW d PROVE Items(s, d)' = Items(s, d)
    <3>1. PICK ks : ks = {k \in DOMAIN m : m[k].name = d}
        OBVIOUS
    <3>2. {k \in DOMAIN made'[s] : made'[s][k].name = d} = ks /\ \A k \in ks : made'[s][k].items = m[k].items
        BY <1>2, <3>1
    <3>3. Items(s, d) = UNION {ToSet(m[k].items) : k \in ks}
        BY <1>1, <3>1
    <3>4. Items(s, d)' = UNION {ToSet(made'[s][k].items) : k \in ks}
        BY <1>1, <3>2
    <3> HIDE DEF m
    <3> QED
        BY <3>2, <3>3, <3>4
  <2> QED
      BY <1>2, <2>2, <2>3
<1>3. CASE made'[s] = Append(m, e)
  <2>1. /\ n \in Nat /\ DOMAIN m = 1..n /\ DOMAIN made'[s] = 1..n + 1
        /\ \A i \in 1..n : made'[s][i] = m[i]
        /\ made'[s][n + 1] = e /\ IsSequence(made'[s])
      BY <1>3, Appended
  <2>2. e.name = c /\ e.items = items
      OBVIOUS
  <2> HIDE DEF e, n
  <2>3. \A i \in 1..n + 1 : i \in 1..n \/ i = n + 1
      BY <2>1
  <2>4. \A i \in 1..n : i \in 1..n + 1 /\ i # n + 1
      BY <2>1
  <2>5. {k \in DOMAIN made'[s] : made'[s][k].name = c} = {n + 1}
      BY <2>1, <2>2, <2>3
  <2>6. Items(s, c)' = ToSet(items)
    <3>1. Items(s, c)' = UNION {ToSet(made'[s][k].items) : k \in {n + 1}}
        BY <1>1, <2>5
    <3>2. made'[s][n + 1].items = items
        BY <2>1, <2>2
    <3> QED
        BY <3>1, <3>2
  <2>7. ASSUME NEW d, d # c PROVE Items(s, d)' = Items(s, d)
    <3>1. {k \in DOMAIN made'[s] : made'[s][k].name = d} = {k \in DOMAIN m : m[k].name = d}
        BY <2>1, <2>2, <2>3, <2>4, <2>7
    <3>2. \A k \in {k \in DOMAIN m : m[k].name = d} : made'[s][k].items = m[k].items
        BY <2>1
    <3>3. PICK ks : ks = {k \in DOMAIN m : m[k].name = d}
        OBVIOUS
    <3>4. Items(s, d)' = UNION {ToSet(made'[s][k].items) : k \in ks}
        BY <1>1, <3>1, <3>3
    <3>5. Items(s, d) = UNION {ToSet(m[k].items) : k \in ks}
        BY <1>1, <3>3
    <3> HIDE DEF m
    <3> QED
        BY <3>2, <3>3, <3>4, <3>5
  <2> QED
      BY <2>1, <2>2, <2>3, <2>6, <2>7
<1> QED
    BY <1>2, <1>3

\* What a class has depends on the files and on what was made of it.
LEMMA CompleteKept ==
    ASSUME conf' = conf, NEW c, CompleteFor(c),
           \A s \in Sources : Items(s, c)' = Items(s, c)
    PROVE  CompleteFor(c)'
<1>1. /\ Items("types", c)' = Items("types", c) /\ Items("telemetry", c)' = Items("telemetry", c)
      /\ Items("settings", c)' = Items("settings", c)
    BY DEF Sources
<1>2. TypesComplete(c)'
  <2>1. /\ Shared' = Shared /\ Of("types", c)' = Of("types", c)
        /\ \A cl : Within(cl)' = Within(cl)
      BY SameFiles
  <2>2. TypesComplete(c)
      BY DEF CompleteFor
  <2> DEFINE Names(cl) == {t.attrs.name : t \in Within(cl) \union Shared}
  <2>3. \A cl : Names(cl)' = Names(cl)
      BY <2>1
  <2>4. {t.name : t \in Items("types", c)} = UNION {Names(cl) : cl \in Of("types", c)}
      BY <2>2 DEF TypesComplete
  <2>5. {t.name : t \in Items("types", c)}' = {t.name : t \in Items("types", c)}
      BY <1>1
  <2>6. TypesComplete(c)' <=>
            {t.name : t \in Items("types", c)}' = (UNION {Names(cl) : cl \in Of("types", c)})'
      BY DEF TypesComplete
  <2> HIDE DEF Names
  <2>7. (UNION {Names(cl) : cl \in Of("types", c)})' = UNION {Names(cl) : cl \in Of("types", c)}
      BY <2>1, <2>3
  <2> QED
      BY <2>4, <2>5, <2>6, <2>7
<1>3. MessagesComplete(c)'
  <2>1. /\ Of("telemetry", c)' = Of("telemetry", c)
        /\ \A el : Within(el)' = Within(el)
      BY SameFiles
  <2>2. MessagesComplete(c)
      BY DEF CompleteFor
  <2> QED
      BY <1>1, <2>1, <2>2 DEF MessagesComplete, Given
<1>4. SettingsComplete(c)'
  <2>1. /\ Of("settings", c)' = Of("settings", c)
        /\ \A el : Within(el)' = Within(el)
      BY SameFiles
  <2>2. SettingsComplete(c)
      BY DEF CompleteFor
  <2> QED
      BY <1>1, <2>1, <2>2 DEF SettingsComplete, Given, ToSet
<1> QED
    BY <1>2, <1>3, <1>4 DEF CompleteFor

LEMMA MakeClassKept == ASSUME ConfIInv, NEW c \in left, MakeClass(c) PROVE ConfIInv'
<1> DEFINE tels == Elements("telemetry", c)
           tys == Elements("types", c)
           sets == Elements("settings", c)
           types == FlattenSeq([k \in DOMAIN tys |-> MakeTypes(tys[k])])
           groups == FlattenSeq([k \in DOMAIN sets |-> MakeSettings(sets[k], types)])
           messages == FlattenSeq([k \in DOMAIN tels |-> MakeTelemetry(tels[k])])
           Made(s, items) == IF Elements(s, c) = <<>> THEN made[s]
                             ELSE Append(made[s], [name |-> c, items |-> items])
<1>1. CASE Exit
    BY <1>1, ExitKept
<1>2. CASE /\ \A cl \in ToSet(tys) : TypesReadable(cl)
           /\ \A cl \in ToSet(sets) : SettingsReadable(cl, types)
           /\ \A cl \in ToSet(tels) : TelemetryReadable(cl)
           /\ made' = [types |-> Made("types", types), settings |-> Made("settings", groups),
                       telemetry |-> Made("telemetry", messages)]
           /\ left' = left \ {c} /\ stage = "classes"
           /\ UNCHANGED <<conf, stage, todo, hash, base>>
  <2>1. /\ Shape /\ stage \notin Sources /\ stage \in ClassesStages
        /\ stage \notin {"codegen", "written"}
      BY <1>2 DEF ConfIInv, Sources, ClassesStages
  <2>2. /\ {t.name : t \in ToSet(types)} =
             UNION {{t.attrs.name : t \in Within(cl) \union Shared} : cl \in Of("types", c)}
        /\ {<<m.name, m.type, m.flightrate, m.simrate>> : m \in ToSet(messages)} =
             UNION {{<<m.attrs.name, m.attrs.type, Given(m, cl, "flightrate"), Given(m, cl, "simrate")>> :
                        m \in Within(cl)} : cl \in Of("telemetry", c)}
        /\ SettingsIn(ToSet(groups)) = UNION {SettingsOf(cl) : cl \in Of("settings", c)}
    <3>1. /\ \A cl \in ToSet(tys) : TypesReadable(cl)
          /\ \A cl \in ToSet(sets) : SettingsReadable(cl, types)
          /\ \A cl \in ToSet(tels) : TelemetryReadable(cl)
        BY <1>2
    <3>2. stage = "classes"
        BY <1>2
    <3>3. {t.name : t \in ToSet(types)} =
            UNION {{t.attrs.name : t \in Within(cl) \union Shared} : cl \in Of("types", c)}
        BY <3>1, <3>2, TypesMade
    <3>4. {<<m.name, m.type, m.flightrate, m.simrate>> : m \in ToSet(messages)} =
             UNION {{<<m.attrs.name, m.attrs.type, Given(m, cl, "flightrate"), Given(m, cl, "simrate")>> :
                        m \in Within(cl)} : cl \in Of("telemetry", c)}
        BY <3>1, <3>2, TelemetryMade
    <3>5. SettingsIn(ToSet(groups)) = UNION {SettingsOf(cl) : cl \in Of("settings", c)}
      <4>1. PICK ts : ts = types
          OBVIOUS
      <4>2. \A cl \in ToSet(sets) : SettingsReadable(cl, ts)
          BY <3>1, <4>1
      <4>3. groups = FlattenSeq([k \in DOMAIN sets |-> MakeSettings(sets[k], ts)])
          BY <4>1
      <4> HIDE DEF types, groups
      <4>4. SettingsIn(ToSet(FlattenSeq([k \in DOMAIN sets |-> MakeSettings(sets[k], ts)]))) =
               UNION {SettingsOf(cl) : cl \in Of("settings", c)}
          BY <3>2, <4>2, SettingsMade
      <4> QED
          BY <4>3, <4>4
    <3> QED
        BY <3>3, <3>4, <3>5
  <2>3. /\ Elements("types", c) = <<>> => ToSet(types) = {}
        /\ Elements("settings", c) = <<>> => ToSet(groups) = {}
        /\ Elements("telemetry", c) = <<>> => ToSet(messages) = {}
      BY NothingMade
  <2>4. /\ made'["types"] = Made("types", types) /\ made'["settings"] = Made("settings", groups)
        /\ made'["telemetry"] = Made("telemetry", messages)
        /\ made' = [s \in Sources |-> made'[s]]
      BY <1>2 DEF Sources
  <2> HIDE DEF types, groups, messages
  <2>5. \A s \in Sources : IsSequence(made[s]) /\ \A k \in DOMAIN made[s] : made[s][k].name # c
      BY <2>1 DEF ConfIInv, Shape, Makes
  <2> DEFINE Added(s, items) ==
          /\ Items(s, c)' = ToSet(items) /\ \A d : d # c => Items(s, d)' = Items(s, d)
          /\ IsSequence(made'[s])
          /\ \A k \in DOMAIN made'[s] :
               made'[s][k].name = c \/ \E j \in DOMAIN made[s] : made'[s][k] = made[s][j]
  <2>6. ASSUME NEW s \in Sources, NEW items, made'[s] = Made(s, items),
               Elements(s, c) = <<>> => ToSet(items) = {}
        PROVE  Added(s, items)
    <3>1. \/ made'[s] = made[s] /\ ToSet(items) = {}
          \/ made'[s] = Append(made[s], [name |-> c, items |-> items])
        BY <2>6
    <3> QED
        BY <2>5, <3>1, ItemsAdded
  <2>7. "types" \in Sources /\ "settings" \in Sources /\ "telemetry" \in Sources
      BY DEF Sources
  <2>8. Added("types", types) /\ Added("settings", groups) /\ Added("telemetry", messages)
    <3> HIDE DEF Added, Made
    <3> QED
        BY <2>3, <2>4, <2>6, <2>7
  <2>9. CompleteFor(c)'
    <3>1. TypesComplete(c)'
      <4>1. /\ Shared' = Shared /\ Of("types", c)' = Of("types", c)
            /\ \A cl : Within(cl)' = Within(cl)
          BY <1>2, SameFiles
      <4>2. Items("types", c)' = ToSet(types)
          BY <2>8
      <4>3. {t.name : t \in ToSet(types)} =
               UNION {{t.attrs.name : t \in Within(cl) \union Shared} : cl \in Of("types", c)}
          BY <2>2
      <4>4. {t.name : t \in Items("types", c)'} =
               UNION {{t.attrs.name : t \in Within(cl) \union Shared} : cl \in Of("types", c)}
          BY <4>2, <4>3
      <4> QED
          BY <4>1, <4>4 DEF TypesComplete
    <3>2. MessagesComplete(c)'
        BY <1>2, <2>2, <2>8, SameFiles DEF MessagesComplete, Given
    <3>3. SettingsComplete(c)'
      <4>1. /\ Of("settings", c)' = Of("settings", c)
            /\ \A cl : Within(cl)' = Within(cl)
          BY <1>2, SameFiles
      <4>2. Items("settings", c)' = ToSet(groups)
          BY <2>8
      <4>3. SettingsIn(Items("settings", c)') = UNION {SettingsOf(cl) : cl \in Of("settings", c)}
          BY <2>2, <4>2
      <4> QED
          BY <4>1, <4>3 DEF SettingsComplete, SettingsIn, SettingsOf, Given, ToSet
    <3> QED
        BY <3>1, <3>2, <3>3 DEF CompleteFor
  <2>10. \A s \in Sources : \E items : Added(s, items)
    <3> HIDE DEF Added
    <3> QED
        BY <2>8 DEF Sources
  <2>11. ASSUME NEW d \in ClassNames' \ left' PROVE CompleteFor(d)'
    <3>1. CASE d = c
        BY <2>9, <3>1
    <3>2. CASE d # c
      <4>1. CompleteFor(d)
          BY <1>2, <2>1, <2>11, <3>2, SameFiles DEF ConfIInv, Makes
      <4>2. \A s \in Sources : Items(s, d)' = Items(s, d)
          BY <2>10, <3>2
      <4> QED
          BY <1>2, <4>1, <4>2, CompleteKept
    <3> QED
        BY <3>1, <3>2
  <2>12. ASSUME NEW s \in Sources, NEW k \in DOMAIN made'[s] PROVE made'[s][k].name \notin left'
    <3>1. made'[s][k].name = c \/ \E j \in DOMAIN made[s] : made'[s][k] = made[s][j]
        BY <2>10, <2>12
    <3>2. \A j \in DOMAIN made[s] : made[s][j].name \notin left
        BY <2>1 DEF ConfIInv, Makes
    <3> QED
        BY <1>2, <3>1, <3>2
  <2>13. Makes'
      BY <1>2, <2>1, <2>11, <2>12 DEF Makes
  <2>14. Reads'
      BY <1>2, <2>1 DEF Reads, Sources
  <2>15. \A s \in Behind' : \A el \in Said(s)' : Took(s, el)'
    <3>1. Behind' = Behind
        BY <1>2 DEF Behind
    <3>2. \A s, el : Took(s, el) => Took(s, el)'
        BY <1>2 DEF Took, ToSet
    <3> QED
        BY <1>2, <3>1, <3>2, SameFiles DEF ConfIInv
  <2>16. Shape'
    <3>1. \A s \in Sources : IsSequence(made'[s])
        BY <2>10
    <3>2. (ToSet(base) \subseteq Shared)'
        BY <1>2, <2>1, SameFiles DEF Shape, ToSet
    <3> QED
        BY <1>2, <2>1, <2>4, <3>1, <3>2, SameFiles DEF Shape, IsSequence, ToSet, Sources, ClassesStages
  <2> QED
      BY <2>13, <2>14, <2>15, <2>16 DEF ConfIInv
<1>3. ASSUME ~Exit
      PROVE  /\ \A cl \in ToSet(tys) : TypesReadable(cl)
             /\ \A cl \in ToSet(sets) : SettingsReadable(cl, types)
             /\ \A cl \in ToSet(tels) : TelemetryReadable(cl)
             /\ made' = [types |-> Made("types", types), settings |-> Made("settings", groups),
                         telemetry |-> Made("telemetry", messages)]
             /\ left' = left \ {c} /\ stage = "classes"
             /\ UNCHANGED <<conf, stage, todo, hash, base>>
    BY <1>3 DEF MakeClass
<1> QED
    BY <1>1, <1>2, <1>3

\* From the last class on, what was made is only written.
LEMMA WritingKept ==
    ASSUME ConfIInv, stage \in ClassesStages, left = {}, UNCHANGED <<conf, hash, base, left, made>>,
           stage' \in {"codegen", "written"}
    PROVE  ConfIInv'
<1>1. stage' \in ClassesStages /\ stage' \notin Sources
    BY DEF Sources, ClassesStages
<1>2. Shape /\ Behind' = Behind
    BY <1>1 DEF ConfIInv, Behind
<1>3. Reads'
    BY <1>1 DEF Reads, Sources
<1>4. \A s \in Behind' : \A el \in Said(s)' : Took(s, el)'
  <2>1. \A s, el : Took(s, el) => Took(s, el)'
      BY DEF Took, ToSet
  <2> QED
      BY <1>2, <2>1, SameFiles DEF ConfIInv
<1>5. Makes'
  <2>1. ASSUME NEW c \in ClassNames' PROVE CompleteFor(c)'
    <3>1. CompleteFor(c)
        BY <2>1, SameFiles DEF ConfIInv, Makes
    <3>2. \A s \in Sources : Items(s, c)' = Items(s, c)
        BY DEF Items, ToSet
    <3> QED
        BY <3>1, <3>2, CompleteKept
  <2> QED
      BY <1>1, <2>1 DEF Makes
<1>6. Shape'
  <2>1. (ToSet(base) \subseteq Shared)'
      BY <1>2, SameFiles DEF Shape, ToSet
  <2> QED
      BY <1>1, <1>2, <2>1, SameFiles DEF Shape, IsSequence, ToSet, Sources, ClassesStages
<1> QED
    BY <1>3, <1>4, <1>5, <1>6 DEF ConfIInv

LEMMA ConfStep == ConfIInv /\ [ConfNext]_confVars => ConfIInv'
<1> SUFFICES ASSUME ConfIInv, [ConfNext]_confVars PROVE ConfIInv'
    OBVIOUS
<1>1. CASE ParseElement
    BY <1>1, ParseElementKept
<1>2. CASE ParseNextFile
    BY <1>2, ParseNextFileKept
<1>3. CASE AllParsed
    BY <1>3, AllParsedKept
<1>4. ASSUME NEW c \in left, MakeClass(c) PROVE ConfIInv'
    BY <1>4, MakeClassKept
<1>5. CASE Codegen
    BY <1>5, WritingKept DEF Codegen, ClassesStages
<1>6. CASE CodegenClass
  <2>1. CASE Exit
      BY <2>1, ExitKept
  <2>2. CASE UNCHANGED <<conf, stage, hash, base, left, made>>
    <3>1. stage = "codegen" /\ left = {}
        BY <1>6 DEF CodegenClass, ConfIInv, Makes
    <3> QED
        BY <2>2, <3>1, WritingKept DEF ClassesStages
  <2> QED
      BY <1>6, <2>1, <2>2 DEF CodegenClass
<1>7. CASE CodegenHeaders
  <2>1. stage = "codegen" /\ left = {}
      BY <1>7 DEF CodegenHeaders, ConfIInv, Makes
  <2> QED
      BY <1>7, <2>1, WritingKept DEF CodegenHeaders, ClassesStages
<1>8. CASE UNCHANGED confVars
  <2> SUFFICES ASSUME UNCHANGED <<conf, stage, todo, hash, base, left, made>> PROVE ConfIInv'
      BY <1>8 DEF confVars
  <2>1. /\ Behind' = Behind /\ \A s, el : Took(s, el)' = Took(s, el)
        /\ \A s, c : Items(s, c)' = Items(s, c)
      BY DEF Behind, Took, Items, ToSet
  <2>2. Makes'
      BY <2>1, CompleteKept, SameFiles DEF ConfIInv, Makes
  <2>3. Reads'
      BY <2>1, SameFiles DEF ConfIInv, Reads, Follows, ToSet, Include
  <2>4. Shape'
      BY SameFiles DEF ConfIInv, Shape, IsSequence, ToSet
  <2> QED
      BY <2>1, <2>2, <2>3, <2>4, SameFiles DEF ConfIInv
<1> QED
    BY <1>1, <1>2, <1>3, <1>4, <1>5, <1>6, <1>7, <1>8 DEF ConfNext

LEMMA ConfStart == ConfInit => ConfIInv
<1> SUFFICES ASSUME ConfInit PROVE ConfIInv
    OBVIOUS
<1>1. /\ conf \in Configurations /\ stage = "types" /\ todo = <<Include("types")>>
      /\ hash = [s \in Sources |-> <<>>] /\ base = <<>> /\ made = [s \in Sources |-> <<>>]
    BY DEF ConfInit
<1>2. IsSequence(<<>>) /\ ToSet(<<>>) = {} /\ DOMAIN <<>> = {}
  <2>1. <<>> \in Seq({}) /\ ToSet(<<>>) = {}
      BY DEF ToSet
  <2> QED
      BY <2>1 DEF IsSequence
<1>3. IsSequence(todo) /\ ToSet(todo) = {Include("types")}
  <2>1. PICK i : i = Include("types")
      OBVIOUS
  <2>2. <<i>> \in Seq({i}) /\ ToSet(<<i>>) = {i}
      BY DEF ToSet
  <2> QED
      BY <1>1, <2>1, <2>2 DEF IsSequence
<1>4. stage \in Sources /\ stage \notin ClassesStages /\ Behind = {}
    BY <1>1 DEF Sources, ClassesStages, Behind
<1>5. Follows({})
    BY <1>1, <1>3 DEF Follows
<1>6. Reads
    BY <1>1, <1>3, <1>5 DEF Reads
<1>7. Makes
    BY <1>4 DEF Makes, ClassesStages
<1>8. Shape
    BY <1>1, <1>2, <1>3, <1>4 DEF Shape
<1> QED
    BY <1>4, <1>6, <1>7, <1>8 DEF ConfIInv

\* What is written is what the files of conf/ declare, however it is spread over them
\* and in whatever order the classes are made: its types with those in no class, its
\* messages with the rates they have or inherit, its settings with their defaults; and
\* a configuration that cannot be made completely is not written (configuration.py,
\* parse_classes and parse_types).
THEOREM WrittenAsDeclared == ConfSpec => []AsDeclared
<1>1. ConfIInv => AsDeclared
    BY DEF ConfIInv, Makes, AsDeclared, CompleteFor, ClassesStages
<1> QED
    BY <1>1, ConfStart, ConfStep, PTL DEF ConfSpec
=============================================================================
