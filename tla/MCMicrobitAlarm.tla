-------------------------- MODULE MCMicrobitAlarm --------------------------
(* Small instances of MicrobitAlarm for TLC. *)
EXTENDS MicrobitAlarm

Line(cmd, arg) == [cmd |-> cmd, arg |-> arg]

\* Two commands of the protocol that matter to the script, the two that
\* delimit it.
ScriptBodies == {Line("a", 1), Line("e", 0), Line("s", 45)}

\* The least that sets an alarm.
ArmBodies == {Line("a", 1)}

\* Every command, for the runs with few tokens.
AllBodies == {Line("a", 0), Line("a", 2), Line("e", 0), Line("s", 45),
              Line("p", 5), Line("m", 0), Line("junk", 0)}
=============================================================================
