------------------------------- MODULE MCParts -------------------------------
(***************************************************************************)
(* Parts that do not act on one another, in one run: a behaviour has one   *)
(* of them.                                                                *)
(*   ring       40 bytes in units of 4: up to ten records of one to four   *)
(*              units, which wrap and are refused space either way;        *)
(*   queue      four structs, which give the race all of its outcomes;     *)
(*   telemetry  a loop of twelve calls a second and a class of three       *)
(*              messages, rates (in halves) below once a second, dividing  *)
(*              the twelve and not, at and above that of the loop; three   *)
(*              turns of the counter;                                      *)
(*   types      lcm-gen and programs of its code (MCLcmInterop);           *)
(*   config     conftron's generator (MCConfiguration).                    *)
(***************************************************************************)
EXTENDS Telemetry, LcmRingbuf, LcmBufQueue, MCLcmInterop, MCConfiguration

CONSTANTS m1, m2, m3, b1, b2, b3, b4

VARIABLE part

MCDecl == <<m1, m2, m3>>
MCRates == {1, 2, 3, 4, 6, 10, 12, 14, 24, 26}

memoryVars == <<ringVars, listVars>>
generatorVars == <<telemetryVars, interopVars, confVars>>

\* A part that has no turn starts in one state.
InOrder4 == cell[HeadField] = b1 /\ cell[b1] = b2 /\ cell[b2] = b3

PartsInit ==
    /\ part \in {"ring", "queue", "telemetry", "types", "config"}
    /\ RingInit /\ QueueInit /\ (part # "queue" => InOrder4)
    /\ TelemetryInit /\ (part # "telemetry" => \A m \in Messages : rate[m] = 1)
    /\ InteropInit /\ (part # "types" => files = <<Text(Brief, Line)>>)
    /\ ConfInit /\ (part # "config" => conf = Files)

PartsNext ==
    /\ UNCHANGED part
    /\ \/ part = "ring" /\ RingNext /\ UNCHANGED <<listVars, generatorVars>>
       \/ part = "queue" /\ QueueNext /\ UNCHANGED <<ringVars, generatorVars>>
       \/ part = "telemetry" /\ TelemetryNext /\ UNCHANGED <<interopVars, confVars, memoryVars>>
       \/ part = "types" /\ InteropNext /\ UNCHANGED <<telemetryVars, confVars, memoryVars>>
       \/ part = "config" /\ ConfNext /\ UNCHANGED <<telemetryVars, interopVars, memoryVars>>

PartsSpec == PartsInit /\ [][PartsNext]_<<part, memoryVars, generatorVars>>
=============================================================================
