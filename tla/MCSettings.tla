------------------------------ MODULE MCSettings ------------------------------
(***************************************************************************)
(* Three programs that do not act on one another, in one run: a behaviour  *)
(* has one of them.                                                        *)
(*   settings  a class with an ordinary setting and one with a channel of  *)
(*             its own, whose struct has a number x in 1..2 and an enum e  *)
(*             of two values;                                              *)
(*   gui       the listener and the GUI thread of settings_app.py;         *)
(*   life      the UDP provider under a thread that sets it up: five       *)
(*             messages, two setups that fail, room for one large message  *)
(*             in the table of fragment buffers.                           *)
(***************************************************************************)
EXTENDS Settings, SettingsApp, LcmUdpmLife

VARIABLE program

MCDecl == <<"foobar", "quux">>
MCLo == [x |-> 1, e |-> 0]
MCHi == [x |-> 2, e |-> 1]
MCBodies == {[x |-> 2, e |-> 2], [x |-> 0, e |-> 0], [x |-> 3, e |-> 1], [x |-> NaN, e |-> 0]}
MCDflt == [x |-> 1, e |-> 1]

ProgramInit == program \in {"settings", "gui", "life"} /\ Init /\ AppInit /\ LifeInit

ProgramNext ==
    /\ UNCHANGED program
    /\ \/ program = "settings" /\ Next /\ UNCHANGED <<appVars, lifeVars>>
       \/ program = "gui" /\ AppNext /\ UNCHANGED <<vars, lifeVars>>
       \/ program = "life" /\ LifeNext /\ UNCHANGED <<vars, appVars>>

\* The fairness of the program that runs: the others do not have to go on.  (No
\* fair action of LcmUdpmLife is enabled where the provider has not been called.)
ProgramSpec ==
    /\ ProgramInit /\ [][ProgramNext]_<<program, vars, appVars, lifeVars>>
    /\ WF_vars(program = "settings" /\ Startup)
    /\ WF_vars(program = "settings" /\ Check)
    /\ WF_vars(program = "settings" /\ LcmCheck)
    /\ WF_appVars(program = "gui" /\ Listener)
    /\ WF_appVars(program = "gui" /\ Gui)
    /\ LifeFairness
=============================================================================
