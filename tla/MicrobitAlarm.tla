--------------------------- MODULE MicrobitAlarm ---------------------------
(***************************************************************************)
(* The application (MicrobitAlarm/source/MicrobitAlarm.cpp): the main      *)
(* fiber that polls the BLE UART, echoes what it reads, splits it into     *)
(* lines, records or performs them and rings the alarm; the two handlers   *)
(* of the connection events; the central at the other end of the link.     *)
(*                                                                         *)
(* Interrupts (the radio's and the timer's) may run between any two steps  *)
(* of the main fiber; the handlers are fibers and run only while the main  *)
(* fiber is blocked, for scheduling is cooperative.                        *)
(*                                                                         *)
(* Data: the text of a line up to its newline is one token, a record with  *)
(* the command letter and the number after it.  Time is counted modulo W   *)
(* (an unsigned long, W = 2^32 on the device), in milliseconds.            *)
(***************************************************************************)
EXTENDS Integers, Sequences

CONSTANTS
    Bodies,        \* the line bodies the central may send
    W,             \* the range of an unsigned long
    RxCapacity,    \* what the UART's receive buffer holds (64 on the device)
    Horizon,       \* bound: the last value of the clock
    MaxTokens,     \* bound: how many tokens the central writes
    MaxSessions    \* bound: how often the central connects

\* The first character of a line: a command, some other letter, a newline.
Commands == {"a", "e", "s", "p", "m", "junk", "nl"}
Lines == [cmd : Commands, arg : Nat]
NL == [cmd |-> "nl", arg |-> 0]
Tokens == Bodies \cup {NL}
NEVER == W - 1     \* unsigned long alarmmil = -1L
LinkEvents == {"CONNECTED", "DISCONNECTED"}

ASSUME BodiesAssumption ==
    \A b \in Bodies : b \in Lines /\ b.cmd # "nl"
ASSUME BoundsAssumption ==
    /\ W \in Nat \ {0}
    /\ RxCapacity \in Nat \ {0}
    /\ Horizon \in 0 .. W
    /\ MaxTokens \in Nat
    /\ MaxSessions \in Nat

VARIABLES
    \* the world outside the application
    now,           \* uBit.systemTime()
    link,          \* the GAP connection is up
    updates,       \* the central has enabled indications on this connection
    indicating,    \* an indication is waiting for its confirmation
    sessions,      \* how often the central has connected
    written,       \* how many tokens the central has written
    \* shared with the interrupts and the handlers
    events,        \* how many events of each kind have handlers to come
    connected,
    rx,            \* the UART's receive buffer
    \* the main fiber
    pc,            \* where it is
    gotc,          \* the token read last
    line,          \* the first token of the line being assembled, if any
    recordmode,
    recscr,        \* the recorded script: the first token of each line
    alarmmil,
    c,             \* the line of recscr that alarm() is about to perform
    servovalue,
    \* history
    said,          \* the lines processed from the last "a" to the first "e"
    req            \* the last line "a": when it was processed, and its number

world == <<now, link, updates, indicating, sessions, written>>
shared == <<events, connected, rx>>
script == <<recordmode, recscr, alarmmil, servovalue, said, req>>
vars == <<world, shared, pc, gotc, line, c, script>>

\* The places at which the main fiber is suspended and other fibers run:
\* uBit.sleep() in the outer loop, in the inner loop and in alarm(), and
\* schedule() in uart->send().
Blocked == {"sleep", "rest", "alarmSleep", "wait"}
PCs == Blocked \cup {"while", "alarm", "poll", "send", "write", "parse"}

Init ==
    /\ now = 0
    /\ link = FALSE
    /\ updates = FALSE
    /\ indicating = FALSE
    /\ sessions = 0
    /\ written = 0
    /\ events = [e \in LinkEvents |-> 0]
    /\ connected = FALSE
    /\ rx = <<>>
    /\ pc = "sleep"
    /\ gotc = NL
    /\ line = <<>>
    /\ recordmode = FALSE
    /\ recscr = <<>>
    /\ alarmmil = NEVER
    /\ c = 1
    /\ servovalue = 90
    /\ said = <<[cmd |-> "e", arg |-> 0]>>
    /\ req = [at |-> 0, delta |-> 0]

-----------------------------------------------------------------------------
(* Interrupts: the timer and what the central does.                        *)

Tick ==
    /\ now # Horizon
    /\ now' = (now + 1) % W
    /\ UNCHANGED <<link, updates, indicating, sessions, written>>
    /\ UNCHANGED <<shared, pc, gotc, line, c, script>>

Connect ==
    /\ ~link
    /\ sessions < MaxSessions
    /\ link' = TRUE
    /\ sessions' = sessions + 1
    /\ events' = [events EXCEPT !["CONNECTED"] = @ + 1]
    /\ UNCHANGED <<now, updates, indicating, written, connected, rx>>
    /\ UNCHANGED <<pc, gotc, line, c, script>>

\* The stack forgets the subscription and the unconfirmed indication; the
\* bytes in rx stay.
Disconnect ==
    /\ link
    /\ link' = FALSE
    /\ updates' = FALSE
    /\ indicating' = FALSE
    /\ events' = [events EXCEPT !["DISCONNECTED"] = @ + 1]
    /\ UNCHANGED <<now, sessions, written, connected, rx>>
    /\ UNCHANGED <<pc, gotc, line, c, script>>

\* The central writes the client configuration of the TX characteristic.
SetIndications ==
    /\ link
    /\ updates' = ~updates
    /\ UNCHANGED <<now, link, indicating, sessions, written>>
    /\ UNCHANGED <<shared, pc, gotc, line, c, script>>

\* A byte that finds the buffer full is dropped.
Put_Unchecked(t) == Append(rx, t)
Put(t) == IF Len(rx) < RxCapacity THEN Append(rx, t) ELSE rx

onDataWritten(t) ==
    /\ link
    /\ written < MaxTokens
    /\ written' = written + 1
    /\ rx' = Put(t)
    /\ UNCHANGED <<now, link, updates, indicating, sessions>>
    /\ UNCHANGED <<events, connected, pc, gotc, line, c, script>>

\* The confirmation raises TX_EMPTY, which makes the main fiber runnable.
on_confirmation ==
    /\ indicating
    /\ indicating' = FALSE
    /\ pc' = IF pc = "wait" THEN "parse" ELSE pc
    /\ UNCHANGED <<now, link, updates, sessions, written>>
    /\ UNCHANGED <<shared, gotc, line, c, script>>

-----------------------------------------------------------------------------
(* The handlers.  Each scrolls a letter before it sets connected, and may   *)
(* wait for the display meanwhile for as long as it likes: the handlers of  *)
(* two events may end in either order (module LinkHandlers).                *)

Handle(event, value) ==
    /\ pc \in Blocked
    /\ events[event] > 0
    /\ events' = [events EXCEPT ![event] = @ - 1]
    /\ connected' = value
    /\ UNCHANGED <<world, rx, pc, gotc, line, c, script>>

onConnected == Handle("CONNECTED", TRUE)
onDisconnected == Handle("DISCONNECTED", FALSE)

-----------------------------------------------------------------------------
(* The main fiber.                                                         *)

Deadline_NoOffset(l) == l.arg
Deadline(l) == (l.arg + now) % W

\* (variant: the recorder is asked before the command is looked at)
processline_RecordFirst(l, mode) ==
    \/ /\ mode
       /\ recscr' = Append(recscr, l)
       /\ UNCHANGED <<alarmmil, servovalue, req>>
    \/ /\ ~mode
       /\ recscr' = IF l.cmd = "a" THEN <<>> ELSE recscr
       /\ alarmmil' = IF l.cmd = "a" THEN Deadline(l) ELSE alarmmil
       /\ UNCHANGED <<servovalue, req>>

\* What processline(l, mode) does to the script, the alarm and the servo.
processline(l, mode) ==
    \/ /\ l.cmd = "e"
       /\ UNCHANGED <<recscr, alarmmil, servovalue, req>>
    \/ /\ l.cmd = "a"
       /\ recscr' = <<>>
       /\ alarmmil' = Deadline(l)
       /\ req' = [at |-> now, delta |-> l.arg]
       /\ UNCHANGED servovalue
    \/ /\ l.cmd \notin {"a", "e"}
       /\ mode
       /\ recscr' = Append(recscr, l)
       /\ UNCHANGED <<alarmmil, servovalue, req>>
    \/ /\ l.cmd \notin {"a", "e"}
       /\ ~mode
       /\ servovalue' = IF l.cmd = "s" THEN l.arg ELSE servovalue
       /\ UNCHANGED <<recscr, alarmmil, req>>

\* What it returns: the new recordmode.
processResult_Forgets(l, mode) == l.cmd = "a"
processResult(l, mode) == l.cmd = "a" \/ (l.cmd # "e" /\ mode)

\* uBit.sleep(1) of the outer loop ends; the line is a new, empty one.
WakeOuter ==
    /\ pc = "sleep"
    /\ line' = <<>>
    /\ pc' = "while"
    /\ UNCHANGED <<world, shared, gotc, c, script>>

\* while(connected) fails: whatever of a line was read is given up.
LeaveLoop ==
    /\ pc = "while"
    /\ ~connected
    /\ pc' = "sleep"
    /\ UNCHANGED <<world, shared, gotc, line, c, script>>

Due_Exactly == alarmmil = now
Due == alarmmil <= now

NotDue ==
    /\ pc = "while"
    /\ connected
    /\ ~Due
    /\ pc' = "poll"
    /\ UNCHANGED <<world, shared, gotc, line, c, script>>

StartAlarm_KeepsDeadline ==
    /\ pc = "while"
    /\ connected
    /\ Due
    /\ c' = 1
    /\ pc' = "alarm"
    /\ UNCHANGED <<world, shared, gotc, line, script>>

StartAlarm ==
    /\ pc = "while"
    /\ connected
    /\ Due
    /\ alarmmil' = NEVER
    /\ c' = 1
    /\ pc' = "alarm"
    /\ UNCHANGED <<world, shared, gotc, line>>
    /\ UNCHANGED <<recordmode, recscr, servovalue, said, req>>

\* One line of the script, then uBit.sleep().
PlayLine ==
    /\ pc = "alarm"
    /\ c <= Len(recscr)
    /\ processline(recscr[c], FALSE)
    /\ c' = c + 1
    /\ pc' = "alarmSleep"
    /\ UNCHANGED <<world, shared, gotc, line, recordmode, said>>

WakePlay ==
    /\ pc = "alarmSleep"
    /\ pc' = "alarm"
    /\ UNCHANGED <<world, shared, gotc, line, c, script>>

EndAlarm ==
    /\ pc = "alarm"
    /\ c > Len(recscr)
    /\ c' = 1
    /\ pc' = "poll"
    /\ UNCHANGED <<world, shared, gotc, line, script>>

PollNothing_OffByOne ==
    /\ pc = "poll"
    /\ Len(rx) <= 1
    /\ pc' = "rest"
    /\ UNCHANGED <<world, shared, gotc, line, c, script>>

PollNothing ==
    /\ pc = "poll"
    /\ rx = <<>>
    /\ pc' = "rest"
    /\ UNCHANGED <<world, shared, gotc, line, c, script>>

getc ==
    /\ pc = "poll"
    /\ rx # <<>>
    /\ gotc' = Head(rx)
    /\ rx' = Tail(rx)
    /\ pc' = "send"
    /\ UNCHANGED <<world, events, connected, line, c, script>>

\* uart->send(charbuf), SYNC_SLEEP: without a subscribed central it returns
\* at once.
SendNothing ==
    /\ pc = "send"
    /\ ~(link /\ updates)
    /\ pc' = "parse"
    /\ UNCHANGED <<world, shared, gotc, line, c, script>>

\* Otherwise the fiber goes onto the wait queue for TX_EMPTY ...
SendBegin ==
    /\ pc = "send"
    /\ link /\ updates
    /\ pc' = "write"
    /\ UNCHANGED <<world, shared, gotc, line, c, script>>

\* ... hands the byte to the stack, which refuses it when the link or the
\* subscription has gone meanwhile or an indication is unconfirmed, and
\* suspends itself either way.
Accepted == link /\ updates /\ ~indicating
SendWrite_NoWait ==
    /\ pc = "write"
    /\ indicating' = (indicating \/ Accepted)
    /\ pc' = "parse"
    /\ UNCHANGED <<now, link, updates, sessions, written>>
    /\ UNCHANGED <<shared, gotc, line, c, script>>

SendWrite ==
    /\ pc = "write"
    /\ indicating' = (indicating \/ Accepted)
    /\ pc' = "wait"
    /\ UNCHANGED <<now, link, updates, sessions, written>>
    /\ UNCHANGED <<shared, gotc, line, c, script>>

\* line = line + charbuf; a newline completes it.
Extended == IF line = <<>> THEN <<gotc>> ELSE line

ParseMore ==
    /\ pc = "parse"
    /\ gotc # NL
    /\ line' = Extended
    /\ pc' = "rest"
    /\ UNCHANGED <<world, shared, gotc, c, script>>

Closed == \E i \in 1 .. Len(said) : said[i].cmd = "e"
Heard(l) ==
    IF l.cmd = "a" THEN <<>> ELSE IF Closed THEN said ELSE Append(said, l)

ParseLine ==
    /\ pc = "parse"
    /\ gotc = NL
    /\ LET l == Head(Extended) IN
         /\ processline(l, recordmode)
         /\ recordmode' = processResult(l, recordmode)
         /\ said' = Heard(l)
    /\ line' = Extended
    /\ pc' = "sleep"
    /\ UNCHANGED <<world, shared, gotc, c>>

\* uBit.sleep(1) at the end of the inner loop.
WakeInner ==
    /\ pc = "rest"
    /\ pc' = "while"
    /\ UNCHANGED <<world, shared, gotc, line, c, script>>

-----------------------------------------------------------------------------
Main ==
    \/ WakeOuter \/ LeaveLoop \/ NotDue
    \/ StartAlarm \/ PlayLine \/ WakePlay \/ EndAlarm
    \/ PollNothing \/ getc \/ SendNothing \/ SendBegin \/ SendWrite
    \/ ParseMore \/ ParseLine \/ WakeInner

Handlers == onConnected \/ onDisconnected

Central ==
    \/ Connect \/ Disconnect \/ SetIndications
    \/ \E t \in Tokens : onDataWritten(t)
    \/ on_confirmation

Next == Main \/ Handlers \/ Central \/ Tick

Spec == Init /\ [][Next]_vars

\* The scheduler runs the main fiber whenever it is runnable and ends every
\* sleep; the timer ticks; a central that is sent an indication confirms it
\* while the link lasts (the attribute protocol obliges it to).
Fairness ==
    /\ WF_vars(Main)
    /\ WF_vars(Tick)
    /\ WF_vars(on_confirmation)

FairSpec == Spec /\ Fairness


\* No sum of the clock and a requested number reaches NEVER: the device has
\* been up for less than 2^32 milliseconds, the requests included.
NoWrap ==
    /\ Horizon < NEVER
    /\ \A b \in Bodies : b.cmd = "a" => Horizon + b.arg < NEVER

-----------------------------------------------------------------------------
(* Properties.                                                             *)

FlagsOK ==
    /\ link \in BOOLEAN /\ updates \in BOOLEAN /\ indicating \in BOOLEAN
    /\ connected \in BOOLEAN /\ recordmode \in BOOLEAN

WorldOK ==
    /\ now \in 0 .. W - 1
    /\ sessions \in 0 .. MaxSessions /\ written \in 0 .. MaxTokens

SharedOK ==
    /\ events \in [LinkEvents -> Nat]
    /\ rx \in Seq(Tokens) /\ Len(rx) <= RxCapacity

MainOK ==
    /\ pc \in PCs
    /\ gotc \in Tokens
    /\ line \in Seq(Tokens) /\ Len(line) <= 1
    /\ c \in Nat \ {0}

ScriptOK ==
    /\ recscr \in Seq(Tokens)
    /\ alarmmil \in 0 .. W - 1
    /\ servovalue \in Nat
    /\ said \in Seq(Lines)
    /\ req \in [at : Nat, delta : Nat]

\* Every variable has its type, the receive buffer never exceeds its capacity
\* and at most the first token of a line is kept.
TypeOK == FlagsOK /\ WorldOK /\ SharedOK /\ MainOK /\ ScriptOK

\* alarm()'s cursor stays within the script, and is at its start whenever
\* alarm() is not running; no line of the script is a command that would
\* reset the script or the alarm while it is being played.
Ringing == pc \in {"alarm", "alarmSleep"}
ScriptIsPlayable ==
    /\ c <= Len(recscr) + 1
    /\ ~Ringing => c = 1
    /\ \A i \in 1 .. Len(recscr) : recscr[i].cmd \notin {"a", "e"}

\* The script is exactly what was said between the last line "a" and the
\* first line "e" after it, and the recorder is on until that "e", whatever
\* reconnections, rings and lost lines came between (processline, main).
Recorded == IF Closed THEN SubSeq(said, 1, Len(said) - 1) ELSE said
ScriptIsWhatWasSaid ==
    /\ recordmode = ~Closed
    /\ recscr = Recorded

\* At most one indication is outstanding, and only while main waits for it:
\* the write in send() never meets a busy stack.
OneIndication == indicating => pc = "wait"

\* Under NoWrap: an alarm rings no earlier than its number of
\* milliseconds after the line "a" that set it (processline, main's test).
DeadlineIsSum ==
    /\ now <= Horizon
    /\ alarmmil # NEVER => alarmmil = req.at + req.delta
Rings == pc = "while" /\ pc' = "alarm"
NeverEarly == [][Rings => now >= req.at + req.delta]_vars

LeftToPlay == IF Ringing THEN SubSeq(recscr, c, Len(recscr)) ELSE <<>>

\* The application implements AlarmClock: whatever the link, the buffer, the
\* echo and the clock do, a line is heard whole, a ring consumes its alarm,
\* and a script once started is played in order, unaltered, to its end.
Clock == INSTANCE AlarmClock WITH
            Lines <- Tokens,
            script <- recscr,
            recording <- recordmode,
            armed <- alarmmil # NEVER,
            playing <- LeftToPlay,
            servo <- servovalue
ImplementsAlarmClock == Clock!ClockSpec

\* send() has gone to sleep for a confirmation that will not come: the stack
\* refused the byte, or the link went before the confirmation.
EchoLost == pc = "wait" /\ ~indicating

\* An alarm that is set rings, or is set again to a time behind the horizon,
\* once connected stays on, unless an echo is lost
\* (main: the alarm is only looked at while connected, between echoes).
AlarmRings ==
    <>[]connected => (alarmmil <= Horizon ~> alarmmil > Horizon \/ EchoLost)

\* What has been received is read once connected stays on, unless an echo is
\* lost (main's polling loop).
InputIsRead == <>[]connected => (rx # <<>> ~> rx = <<>> \/ EchoLost)

\* "a<Delta Second>\n ~~~ \ne\n: Set alarm(transaction)" (README.md:9): an alarm
\* rings when its script is whole and its number of seconds has passed.
Second == 1000
RingsAsDocumented ==
    [][Rings => ~recordmode /\ now >= req.at + Second * req.delta]_vars

\* "Will perform a cooperative blocking wait until all given characters have
\* been received by the connected device", with a result for "no connected
\* device" (send): a call of send() returns.
SendReturns == pc = "send" ~> pc = "parse"
=============================================================================
