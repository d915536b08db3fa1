----------------------------- MODULE AlarmClock -----------------------------
(***************************************************************************)
(* What the alarm promises its user, with the radio, the receive buffer,   *)
(* the echo and the clock left out: lines are heard one at a time, a line  *)
(* "a" opens a script, a line "e" closes it, a line heard in between is    *)
(* recorded, any other line is performed at once; an armed alarm may ring, *)
(* and a ring performs the lines recorded so far, in order, exactly once.  *)
(***************************************************************************)
EXTENDS Sequences

CONSTANT Lines     \* the lines a user may send: records with cmd and arg

VARIABLES
    script,        \* the recorded lines
    recording,     \* TRUE between a line "a" and the next line "e"
    armed,         \* an alarm is set and has not rung
    playing,       \* what a ring has still to perform
    servo          \* the position of the servo

clockVars == <<script, recording, armed, playing, servo>>

Performed(l) == IF l.cmd = "s" THEN l.arg ELSE servo

ClockInit ==
    /\ script = <<>>
    /\ recording = FALSE
    /\ armed = FALSE
    /\ playing = <<>>
    /\ servo = 90

Arm(l) ==
    /\ l.cmd = "a"
    /\ script' = <<>>
    /\ recording' = TRUE
    /\ armed' = TRUE
    /\ UNCHANGED <<playing, servo>>

Close(l) ==
    /\ l.cmd = "e"
    /\ recording' = FALSE
    /\ UNCHANGED <<script, armed, playing, servo>>

Record(l) ==
    /\ l.cmd \notin {"a", "e"}
    /\ recording
    /\ script' = Append(script, l)
    /\ UNCHANGED <<recording, armed, playing, servo>>

Perform(l) ==
    /\ l.cmd \notin {"a", "e"}
    /\ ~recording
    /\ servo' = Performed(l)
    /\ UNCHANGED <<script, recording, armed, playing>>

Hear(l) ==
    /\ playing = <<>>
    /\ Arm(l) \/ Close(l) \/ Record(l) \/ Perform(l)

Ring ==
    /\ armed
    /\ playing = <<>>
    /\ armed' = FALSE
    /\ playing' = script
    /\ UNCHANGED <<script, recording, servo>>

Play ==
    /\ playing # <<>>
    /\ servo' = Performed(Head(playing))
    /\ playing' = Tail(playing)
    /\ UNCHANGED <<script, recording, armed>>

ClockNext ==
    \/ \E l \in Lines : Hear(l)
    \/ Ring
    \/ Play

ClockSafe == ClockInit /\ [][ClockNext]_clockVars

\* A script that has started to play is played to its end.
ClockSpec == ClockSafe /\ WF_clockVars(Play)
=============================================================================
