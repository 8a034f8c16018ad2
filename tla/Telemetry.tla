------------------------------ MODULE Telemetry ------------------------------
(***************************************************************************)
(* The telemetry schedule of one class: the code that telemetry.py         *)
(* generates from telemetry_templates.py.  The program calls               *)
(* <class>_telemetry_send once in every round of its loop of period DT; a  *)
(* static counter decides which messages go out in which call.             *)
(*                                                                         *)
(* The counter runs from 0 to (int)(1.0/DT), both included, and a message  *)
(* of r per second goes out when the counter is a multiple of              *)
(* (int)(1.0/(DT*r)).  Here 1/DT is Hz, and the rate that is compiled in   *)
(* (flightrate or simrate) is a multiple of 1/Scale.                       *)
(***************************************************************************)
EXTENDS Integers, Sequences

CONSTANTS
    Declared,    \* the messages of the class in the order of the XML file
    Hz,          \* (int)(1.0/DT)
    Rates,       \* rates a configuration may give, times Scale
    Scale,       \* the unit of rates
    MaxCalls     \* bound: calls in a behaviour

ASSUME TelemetryAssumption ==
    /\ \A i, j \in 1..Len(Declared) : Declared[i] = Declared[j] => i = j
    /\ Hz \in Nat \ {0} /\ Scale \in Nat \ {0}
    /\ Rates \subseteq Nat \ {0} /\ MaxCalls \in Nat

Messages == {Declared[i] : i \in 1..Len(Declared)}

VARIABLES
    rate,        \* the rates of the configuration
    counter,     \* the static counter of <class>_telemetry_send
    down,        \* the process was ended by a division by zero
    out,         \* history: the messages sent in the last call
    waited,      \* history: calls since each message was last sent
    sent,        \* history: how often each message was sent
    calls        \* calls so far

telemetryVars == <<rate, counter, down, out, waited, sent, calls>>

TelemetryInit ==
    /\ rate \in [Messages -> Rates]
    /\ counter = 0
    /\ down = FALSE /\ out = {} /\ calls = 0
    /\ waited = [m \in Messages |-> 0] /\ sent = waited

\* (int) (1.0/(DT * rate)): 0 when the rate is above 1/DT.
Period(m) == (Hz * Scale) \div rate[m]

\* The condition of the i-th message's send function.
Due(i) == counter % Period(Declared[i]) = 0

\* Mutant: the counter starts again at one.
CounterFromOne == IF counter >= Hz THEN 1 ELSE counter + 1

NextCounter == IF counter >= Hz THEN 0 ELSE counter + 1

\* Messages whose period is zero.
Faulty == {i \in 1..Len(Declared) : Period(Declared[i]) = 0}

\* <class>_telemetry_send: every message's send function, then the counter.
\* counter % 0 is undefined: either the process ends there, with the messages
\* before already sent, or (as on ARM, where the quotient is 0) the remainder
\* is the counter itself.
Send ==
    /\ ~down /\ calls < MaxCalls
    /\ \/ \E i \in Faulty :
            /\ \A j \in Faulty : i <= j
            /\ down' = TRUE
            /\ out' = {Declared[j] : j \in {k \in 1..i - 1 : Due(k)}}
            /\ UNCHANGED counter
       \/ /\ out' = {Declared[j] : j \in {k \in 1..Len(Declared) :
                        IF k \in Faulty THEN counter = 0 ELSE Due(k)}}
          /\ counter' = NextCounter
          /\ UNCHANGED down
    /\ waited' = [m \in Messages |-> IF m \in out' THEN 0 ELSE waited[m] + 1]
    /\ sent' = [m \in Messages |-> sent[m] + (IF m \in out' THEN 1 ELSE 0)]
    /\ calls' = calls + 1
    /\ UNCHANGED rate

TelemetryNext == Send

TelemetrySpec == TelemetryInit /\ [][TelemetryNext]_telemetryVars

-----------------------------------------------------------------------------
TypeOK ==
    /\ rate \in [Messages -> Rates]
    /\ counter \in 0..Hz
    /\ sent \in [Messages -> 0..calls] /\ waited \in [Messages -> 0..calls]
    /\ down \in BOOLEAN /\ out \subseteq Messages /\ calls \in 0..MaxCalls

\* No message waits longer than its period between two sends, not even when
\* the counter is taken back in the middle of a period: the receiver of a
\* message of r per second may take r per second for granted.
GapBounded ==
    ~down => \A m \in Messages : Period(m) > 0 => waited[m] < Period(m)

\* Messages whose periods divide each other stay together, also after the
\* counter was taken back: whenever the slower one is sent, so is the faster
\* one, in the same call, so that a receiver may pair them.
InPhase ==
    calls > 0 /\ ~down =>
        \A m, n \in Messages :
            Period(m) > 0 /\ Period(n) % Period(m) = 0 /\ n \in out => m \in out

\* What the rate of a message really is: in every turn of the counter, which
\* takes Hz + 1 calls, it is sent Hz \div Period + 1 times, since the counter
\* takes both 0 and Hz as values and 0 is a multiple of every period
\* (telemetry_templates.py:72).  README:98-100 promises the configured rate,
\* which this is only nearly: a message of 1 per second is sent twice in a turn.
TurnCounts ==
    ~down /\ calls % (Hz + 1) = 0 =>
        \A m \in Messages : Period(m) > 0 =>
            sent[m] = (calls \div (Hz + 1)) * ((Hz \div Period(m)) + 1)

=============================================================================
