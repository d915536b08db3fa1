------------------------ MODULE MicrobitAlarmProofs ------------------------
(***************************************************************************)
(* What is proved of the application for every choice of the constants.    *)
(***************************************************************************)
EXTENDS MicrobitAlarm, TLAPS

\* Every token the main fiber handles is a line's first token.
LEMMA TokenIsLine == /\ NL \in Lines
                     /\ \A t \in Tokens : /\ t \in Lines
                                          /\ t.cmd \in Commands
                                          /\ t.arg \in Nat
  BY BodiesAssumption DEF Tokens, NL, Lines, Commands

\* An action leaves a part of the type invariant alone with its variables.
LEMMA Frames ==
    /\ FlagsOK /\ UNCHANGED <<link, updates, indicating, connected, recordmode>> => FlagsOK'
    /\ WorldOK /\ UNCHANGED world => WorldOK'
    /\ SharedOK /\ UNCHANGED shared => SharedOK'
    /\ MainOK /\ UNCHANGED <<pc, gotc, line, c>> => MainOK'
    /\ ScriptOK /\ UNCHANGED script => ScriptOK'
<1>0. FlagsOK /\ UNCHANGED <<link, updates, indicating, connected, recordmode>> => FlagsOK'
  BY DEF FlagsOK
<1>1. WorldOK /\ UNCHANGED world => WorldOK'
  BY DEF WorldOK, world
<1>2. SharedOK /\ UNCHANGED shared => SharedOK'
  BY DEF SharedOK, shared
<1>3. MainOK /\ UNCHANGED <<pc, gotc, line, c>> => MainOK'
  BY DEF MainOK
<1>4. ScriptOK /\ UNCHANGED script => ScriptOK'
  BY DEF ScriptOK, script
<1> QED
  BY <1>0, <1>1, <1>2, <1>3, <1>4

LEMMA TypeInit == Init => TypeOK
<1> SUFFICES ASSUME Init PROVE TypeOK
  OBVIOUS
<1>0. FlagsOK
  BY DEF Init, FlagsOK
<1>1. WorldOK
  BY BoundsAssumption DEF Init, WorldOK
<1>2. SharedOK
  BY BoundsAssumption DEF Init, SharedOK
<1>3. MainOK
  BY DEF Init, MainOK, PCs, Blocked, Tokens
<1>4. ScriptOK
  <2>1. <<[cmd |-> "e", arg |-> 0]>> \in Seq(Lines)
    BY DEF Lines, Commands
  <2> QED
    BY <2>1, BoundsAssumption DEF Init, ScriptOK, NEVER
<1> QED
  BY <1>0, <1>1, <1>2, <1>3, <1>4 DEF TypeOK

\* Every assignment to a flag is a Boolean.
LEMMA FlagsStep == FlagsOK /\ [Next]_vars => FlagsOK'
<1> SUFFICES ASSUME FlagsOK, [Next]_vars PROVE FlagsOK'
  OBVIOUS
<1> USE DEF FlagsOK, world, shared, script
<1>1. CASE Tick \/ Connect \/ Disconnect \/ SetIndications \/ on_confirmation
  BY <1>1 DEF Tick, Connect, Disconnect, SetIndications, on_confirmation
<1>2. ASSUME NEW t \in Tokens, onDataWritten(t) PROVE FlagsOK'
  BY <1>2 DEF onDataWritten
<1>3. CASE Handlers
  BY <1>3 DEF Handlers, onConnected, onDisconnected, Handle
<1>4. CASE WakeOuter \/ LeaveLoop \/ NotDue \/ StartAlarm \/ WakePlay \/ EndAlarm
  BY <1>4 DEF WakeOuter, LeaveLoop, NotDue, StartAlarm, WakePlay, EndAlarm
<1>5. CASE PollNothing \/ getc \/ SendNothing \/ SendBegin \/ ParseMore \/ WakeInner
  BY <1>5 DEF PollNothing, getc, SendNothing, SendBegin, ParseMore, WakeInner
<1>6. CASE PlayLine \/ SendWrite
  BY <1>6 DEF PlayLine, SendWrite, Accepted
<1>7. CASE ParseLine
  BY <1>7 DEF ParseLine, processResult
<1>8. CASE UNCHANGED vars
  BY <1>8 DEF vars
<1> QED
  BY <1>1, <1>2, <1>3, <1>4, <1>5, <1>6, <1>7, <1>8 DEF Next, Main, Central

\* processline() keeps the types of what it assigns.
LEMMA ProcesslineType ==
  ASSUME WorldOK, ScriptOK, NEW l \in Tokens, NEW mode \in BOOLEAN, processline(l, mode)
  PROVE  /\ recscr' \in Seq(Tokens)
         /\ alarmmil' \in 0 .. W - 1
         /\ servovalue' \in Nat
         /\ req' \in [at : Nat, delta : Nat]
<1>1. l.arg \in Nat /\ now \in Nat /\ W \in Nat /\ W > 0
  BY TokenIsLine, BoundsAssumption DEF WorldOK
<1>2. recscr' \in Seq(Tokens)
  <2>1. recscr' = recscr \/ recscr' = <<>> \/ recscr' = Append(recscr, l)
    BY Zenon DEF processline
  <2>2. <<>> \in Seq(Tokens) /\ recscr \in Seq(Tokens) /\ Append(recscr, l) \in Seq(Tokens)
    BY DEF ScriptOK
  <2> QED
    BY <2>1, <2>2
<1>3. alarmmil' \in 0 .. W - 1
  <2>1. alarmmil' = alarmmil \/ alarmmil' = (l.arg + now) % W
    BY Zenon DEF processline, Deadline
  <2> QED
    BY <1>1, <2>1 DEF ScriptOK
<1>4. servovalue' \in Nat
  <2>1. servovalue' = servovalue \/ servovalue' = l.arg
    BY Zenon DEF processline
  <2> QED
    BY <1>1, <2>1 DEF ScriptOK
<1>5. req' \in [at : Nat, delta : Nat]
  <2>1. req' = req \/ req' = [at |-> now, delta |-> l.arg]
    BY Zenon DEF processline
  <2> QED
    BY <1>1, <2>1 DEF ScriptOK
<1> QED
  BY <1>2, <1>3, <1>4, <1>5

LEMMA TypeStep == TypeOK /\ [Next]_vars => TypeOK'
<1> SUFFICES ASSUME TypeOK, [Next]_vars PROVE TypeOK'
  OBVIOUS
<1>0. FlagsOK'
  BY FlagsStep DEF TypeOK
<1> USE Frames, <1>0 DEF TypeOK
<1>1. CASE Tick
  <2>1. WorldOK'
    BY <1>1, BoundsAssumption DEF Tick, WorldOK
  <2> QED
    BY <1>1, <2>1 DEF Tick
<1>2. CASE Connect \/ Disconnect \/ SetIndications
  <2>1. WorldOK'
    BY <1>2, BoundsAssumption DEF Connect, Disconnect, SetIndications, WorldOK, shared
  <2>2. SharedOK'
    <3>1. \/ events' = events
          \/ \E e \in LinkEvents : events' = [events EXCEPT ![e] = @ + 1]
      BY <1>2 DEF Connect, Disconnect, SetIndications, shared, LinkEvents
    <3>2. rx' = rx
      BY <1>2 DEF Connect, Disconnect, SetIndications, shared
    <3> QED
      BY <3>1, <3>2 DEF SharedOK
  <2> QED
    BY <1>2, <2>1, <2>2 DEF Connect, Disconnect, SetIndications
<1>3. ASSUME NEW t \in Tokens, onDataWritten(t) PROVE TypeOK'
  <2>1. WorldOK'
    BY <1>3, BoundsAssumption DEF onDataWritten, WorldOK
  <2>2. SharedOK'
    BY <1>3, BoundsAssumption DEF onDataWritten, Put, SharedOK
  <2> QED
    BY <1>3, <2>1, <2>2 DEF onDataWritten
<1>4. CASE on_confirmation
  <2>1. WorldOK'
    BY <1>4 DEF on_confirmation, WorldOK
  <2>2. MainOK'
    BY <1>4 DEF on_confirmation, MainOK, PCs, Blocked
  <2> QED
    BY <1>4, <2>1, <2>2 DEF on_confirmation
<1>5. CASE Handlers
  <2>1. /\ \E e \in LinkEvents :
              events[e] > 0 /\ events' = [events EXCEPT ![e] = @ - 1]
        /\ rx' = rx
    BY <1>5 DEF Handlers, onConnected, onDisconnected, Handle, LinkEvents
  <2>2. SharedOK'
    BY <2>1 DEF SharedOK
  <2> QED
    BY <1>5, <2>2 DEF Handlers, onConnected, onDisconnected, Handle
<1>6. CASE \/ WakeOuter \/ LeaveLoop \/ NotDue \/ SendNothing \/ SendBegin
           \/ WakeInner \/ PollNothing
  <2> USE <1>6 DEF WakeOuter, LeaveLoop, NotDue, SendNothing, SendBegin,
                   WakeInner, PollNothing
  <2>1. pc' \in PCs
    BY DEF MainOK, PCs, Blocked
  <2>2. line' \in {line, <<>>} /\ gotc' = gotc /\ c' = c
    OBVIOUS
  <2>3. /\ <<>> \in Seq(Tokens) /\ line \in Seq(Tokens)
        /\ Len(<<>>) <= 1 /\ Len(line) <= 1
    BY DEF MainOK
  <2>4. line' \in Seq(Tokens) /\ Len(line') <= 1
    BY <2>2, <2>3
  <2>5. MainOK'
    BY <2>1, <2>2, <2>4 DEF MainOK
  <2> QED
    BY <2>5
<1>14. CASE ParseMore
  <2>1. Extended \in Seq(Tokens) /\ Len(Extended) <= 1
    BY DEF Extended, MainOK
  <2>2. MainOK'
    BY <1>14, <2>1 DEF ParseMore, MainOK, PCs, Blocked
  <2> QED
    BY <1>14, <2>2 DEF ParseMore
<1>7. CASE StartAlarm
  <2>1. MainOK'
    BY <1>7 DEF StartAlarm, MainOK, PCs
  <2>2. ScriptOK'
    BY <1>7, BoundsAssumption DEF StartAlarm, ScriptOK, NEVER
  <2> QED
    BY <1>7, <2>1, <2>2 DEF StartAlarm
<1>8. CASE PlayLine
  <2>0. recscr[c] \in Tokens
    BY <1>8 DEF PlayLine, ScriptOK, MainOK
  <2>1. MainOK'
    BY <1>8 DEF PlayLine, MainOK, PCs, Blocked
  <2>2. ScriptOK'
    <3>1. processline(recscr[c], FALSE) /\ said' = said
      BY <1>8 DEF PlayLine
    <3> QED
      BY <2>0, <3>1, ProcesslineType DEF ScriptOK
  <2> QED
    BY <1>8, <2>1, <2>2 DEF PlayLine
<1>9. CASE WakePlay \/ EndAlarm
  <2>1. MainOK'
    BY <1>9 DEF WakePlay, EndAlarm, MainOK, PCs
  <2> QED
    BY <1>9, <2>1 DEF WakePlay, EndAlarm
<1>10. CASE getc
  <2>1. Head(rx) \in Tokens /\ Tail(rx) \in Seq(Tokens) /\ Len(Tail(rx)) = Len(rx) - 1
    BY <1>10 DEF getc, SharedOK
  <2>3. SharedOK'
    BY <1>10, <2>1, BoundsAssumption DEF getc, SharedOK
  <2>4. MainOK'
    BY <1>10, <2>1 DEF getc, MainOK, PCs
  <2> QED
    BY <1>10, <2>3, <2>4 DEF getc
<1>11. CASE SendWrite
  <2>1. WorldOK'
    BY <1>11 DEF SendWrite, Accepted, WorldOK
  <2>2. MainOK'
    BY <1>11 DEF SendWrite, MainOK, PCs, Blocked
  <2> QED
    BY <1>11, <2>1, <2>2 DEF SendWrite
<1>12. CASE ParseLine
  <2> DEFINE l == Head(Extended)
  <2>1. l \in Tokens
    BY DEF Extended, MainOK
  <2>2. MainOK'
    BY <1>12 DEF ParseLine, MainOK, Extended, PCs, Blocked
  <2>3. said' \in Seq(Lines)
    BY <1>12, <2>1, TokenIsLine DEF ParseLine, Heard, ScriptOK
  <2>4. ScriptOK'
    <3> HIDE DEF l
    <3>1. processline(l, recordmode)
      BY <1>12 DEF ParseLine, l
    <3> QED
      BY <2>1, <2>3, <3>1, ProcesslineType DEF ScriptOK, FlagsOK
  <2> QED
    BY <1>12, <2>2, <2>4 DEF ParseLine
<1>13. CASE UNCHANGED vars
  BY <1>13 DEF vars
<1> QED
  BY <1>1, <1>2, <1>3, <1>4, <1>5, <1>6, <1>7, <1>8, <1>9, <1>10, <1>11,
     <1>12, <1>13, <1>14
     DEF Next, Main, Central

\* Every variable of the application keeps its type.
THEOREM TypeCorrect == Spec => []TypeOK
  BY TypeInit, TypeStep, PTL DEF Spec

-----------------------------------------------------------------------------
(* The script.                                                             *)

ScriptInv == ScriptIsPlayable /\ ScriptIsWhatWasSaid

\* An action that keeps the script, the cursor and whether alarm() is running
\* keeps what is said of the script.
LEMMA ScriptFrame ==
  ASSUME ScriptInv, UNCHANGED <<c, script>>, Ringing' = Ringing
  PROVE  ScriptInv'
<1>1. ScriptIsPlayable'
  BY DEF ScriptInv, ScriptIsPlayable, script
<1>2. ScriptIsWhatWasSaid'
  BY DEF ScriptInv, ScriptIsWhatWasSaid, Recorded, Closed, script
<1> QED
  BY <1>1, <1>2 DEF ScriptInv

LEMMA ScriptInit == Init => ScriptInv
<1> SUFFICES ASSUME Init PROVE ScriptInv
  OBVIOUS
<1>1. ScriptIsPlayable
  BY DEF Init, ScriptIsPlayable, Ringing
<1>2. Closed
  BY DEF Init, Closed
<1>3. Recorded = <<>>
  BY <1>2 DEF Recorded, Init
<1> QED
  BY <1>1, <1>2, <1>3 DEF ScriptInv, ScriptIsWhatWasSaid, Init

\* A line that completes: the script and what was said change together.
LEMMA ScriptParse ==
  ASSUME TypeOK, ScriptInv, ParseLine
  PROVE  ScriptInv'
<1> DEFINE l == Head(Extended)
<1>1. /\ l \in Tokens /\ l.cmd \in Commands
      /\ processline(l, recordmode)
      /\ recordmode' = processResult(l, recordmode)
      /\ said' = Heard(l)
      /\ pc' = "sleep" /\ c' = c /\ c = 1
  BY TokenIsLine DEF ParseLine, Extended, TypeOK, MainOK, ScriptInv, ScriptIsPlayable, Ringing
<1>2. said \in Seq(Lines) /\ recscr \in Seq(Tokens) /\ l \in Lines
  BY <1>1, TokenIsLine DEF TypeOK, ScriptOK
<1> HIDE DEF l
<1>3. recordmode = ~Closed /\ recscr = Recorded
  BY DEF ScriptInv, ScriptIsWhatWasSaid
<1>4. CASE l.cmd = "a"
  <2>1. recscr' = <<>> /\ said' = <<>> /\ recordmode' = TRUE
    BY <1>1, <1>4 DEF processline, processResult, Heard
  <2>2. ~Closed' /\ Recorded' = <<>>
    BY <2>1 DEF Closed, Recorded
  <2>3. ScriptIsPlayable'
    BY <1>1, <2>1 DEF ScriptIsPlayable, Ringing
  <2> QED
    BY <2>1, <2>2, <2>3 DEF ScriptInv, ScriptIsWhatWasSaid
<1>5. CASE l.cmd # "a" /\ Closed
  <2>1. recscr' = recscr /\ said' = said /\ recordmode' = FALSE
    BY <1>1, <1>3, <1>5 DEF processline, processResult, Heard
  <2>2. Closed' /\ Recorded' = Recorded
    BY <2>1, <1>5 DEF Closed, Recorded
  <2>3. ScriptIsPlayable'
    BY <1>1, <2>1 DEF ScriptInv, ScriptIsPlayable, Ringing
  <2> QED
    BY <1>3, <2>1, <2>2, <2>3 DEF ScriptInv, ScriptIsWhatWasSaid
<1>6. CASE l.cmd = "e" /\ ~Closed
  <2>1. recscr' = recscr /\ said' = Append(said, l) /\ recordmode' = FALSE
    BY <1>1, <1>6 DEF processline, processResult, Heard
  <2>2. Len(said') = Len(said) + 1 /\ said'[Len(said) + 1] = l
    BY <1>2, <2>1
  <2>3. Closed'
    BY <1>2, <1>6, <2>2 DEF Closed
  <2>4. SubSeq(said', 1, Len(said') - 1) = said
    BY <1>2, <2>1
  <2>5. Recorded' = recscr
    BY <1>3, <1>6, <2>3, <2>4 DEF Recorded
  <2>6. ScriptIsPlayable'
    BY <1>1, <2>1 DEF ScriptInv, ScriptIsPlayable, Ringing
  <2> QED
    BY <2>1, <2>3, <2>5, <2>6 DEF ScriptInv, ScriptIsWhatWasSaid
<1>7. CASE l.cmd \notin {"a", "e"} /\ ~Closed
  <2>1. recscr' = Append(recscr, l) /\ said' = Append(said, l) /\ recordmode' = TRUE
    BY <1>1, <1>3, <1>7 DEF processline, processResult, Heard
  <2>2. ~Closed'
    BY <1>2, <1>7, <2>1 DEF Closed
  <2>3. Recorded' = recscr'
    BY <1>3, <1>7, <2>1, <2>2 DEF Recorded
  <2>4. ScriptIsPlayable'
    BY <1>1, <1>2, <1>7, <2>1 DEF ScriptInv, ScriptIsPlayable, Ringing
  <2> QED
    BY <2>1, <2>2, <2>3, <2>4 DEF ScriptInv, ScriptIsWhatWasSaid
<1> QED
  BY <1>4, <1>5, <1>6, <1>7

\* alarm() plays one line: never a command that would disturb the script.
LEMMA PlayKeeps ==
  ASSUME TypeOK, ScriptInv, PlayLine
  PROVE  /\ recscr[c].cmd \notin {"a", "e"}
         /\ UNCHANGED <<recscr, alarmmil, req>>
         /\ servovalue' = IF recscr[c].cmd = "s" THEN recscr[c].arg ELSE servovalue
<1>1. recscr[c].cmd \notin {"a", "e"}
  BY DEF PlayLine, ScriptInv, ScriptIsPlayable, TypeOK, MainOK, ScriptOK
<1>2. processline(recscr[c], FALSE)
  BY DEF PlayLine
<1> QED
  BY <1>1, <1>2 DEF processline

LEMMA ScriptStep == TypeOK /\ ScriptInv /\ [Next]_vars => ScriptInv'
<1> SUFFICES ASSUME TypeOK, ScriptInv, [Next]_vars PROVE ScriptInv'
  OBVIOUS
<1>1. CASE Tick \/ Central
  <2>1. /\ UNCHANGED <<c, script>>
        /\ pc' = pc \/ (pc = "wait" /\ pc' = "parse")
    BY <1>1 DEF Tick, Central, Connect, Disconnect, SetIndications,
                onDataWritten, on_confirmation
  <2> QED
    BY <2>1, ScriptFrame DEF Ringing
<1>2. CASE Handlers
  BY <1>2, ScriptFrame DEF Handlers, onConnected, onDisconnected, Handle, Ringing
<1>3. CASE WakeOuter \/ LeaveLoop \/ NotDue \/ WakePlay \/ PollNothing \/ getc
  BY <1>3, ScriptFrame
     DEF WakeOuter, LeaveLoop, NotDue, WakePlay, PollNothing, getc, Ringing
<1>4. CASE SendNothing \/ SendBegin \/ SendWrite \/ ParseMore \/ WakeInner
  BY <1>4, ScriptFrame
     DEF SendNothing, SendBegin, SendWrite, ParseMore, WakeInner, Ringing
<1>5. CASE StartAlarm \/ EndAlarm
  <2>1. c' = 1 /\ UNCHANGED <<recscr, recordmode, said>>
    BY <1>5 DEF StartAlarm, EndAlarm, script
  <2>2. ScriptIsPlayable'
    BY <2>1 DEF ScriptInv, ScriptIsPlayable, TypeOK, ScriptOK
  <2>3. ScriptIsWhatWasSaid'
    BY <2>1 DEF ScriptInv, ScriptIsWhatWasSaid, Recorded, Closed
  <2> QED
    BY <2>2, <2>3 DEF ScriptInv
<1>6. CASE PlayLine
  <2>1. /\ c <= Len(recscr) /\ c' = c + 1 /\ pc' = "alarmSleep"
        /\ UNCHANGED <<recscr, recordmode, said>>
    BY <1>6, PlayKeeps DEF PlayLine
  <2>2. ScriptIsPlayable'
    BY <2>1 DEF ScriptInv, ScriptIsPlayable, Ringing, TypeOK, ScriptOK, MainOK
  <2>3. ScriptIsWhatWasSaid'
    BY <2>1 DEF ScriptInv, ScriptIsWhatWasSaid, Recorded, Closed
  <2> QED
    BY <2>2, <2>3 DEF ScriptInv
<1>7. CASE ParseLine
  BY <1>7, ScriptParse
<1>8. CASE UNCHANGED vars
  BY <1>8, ScriptFrame DEF vars, Ringing
<1> QED
  BY <1>1, <1>2, <1>3, <1>4, <1>5, <1>6, <1>7, <1>8 DEF Next, Main

\* The script is what was said since the last line "a", and playing it never
\* meets a command that would reset it.
THEOREM ScriptSafe == Spec => [](ScriptIsWhatWasSaid /\ ScriptIsPlayable)
<1>1. Init => TypeOK /\ ScriptInv
  BY TypeInit, ScriptInit
<1>2. (TypeOK /\ ScriptInv) /\ [Next]_vars => (TypeOK /\ ScriptInv)'
  BY TypeStep, ScriptStep
<1>3. TypeOK /\ ScriptInv => ScriptIsWhatWasSaid /\ ScriptIsPlayable
  BY DEF ScriptInv
<1> QED
  BY <1>1, <1>2, <1>3, PTL DEF Spec

\* No line of the script starts or ends a recording while an alarm may play it.
THEOREM ScriptPlayable == Spec => []ScriptIsPlayable
<1> QED
  BY ScriptSafe, PTL

-----------------------------------------------------------------------------
(* The echo.                                                               *)

LEMMA IndicationStep == OneIndication /\ [Next]_vars => OneIndication'
<1> SUFFICES ASSUME OneIndication, [Next]_vars PROVE OneIndication'
  OBVIOUS
<1> USE DEF OneIndication, world, shared
<1>1. CASE Tick \/ Central
  BY <1>1 DEF Tick, Central, Connect, Disconnect, SetIndications,
              onDataWritten, on_confirmation
<1>2. CASE Handlers
  BY <1>2 DEF Handlers, onConnected, onDisconnected, Handle
<1>3. CASE WakeOuter \/ LeaveLoop \/ NotDue \/ WakePlay \/ PollNothing \/ getc
  BY <1>3 DEF WakeOuter, LeaveLoop, NotDue, WakePlay, PollNothing, getc
<1>4. CASE SendNothing \/ SendBegin \/ SendWrite \/ ParseMore \/ WakeInner
  BY <1>4 DEF SendNothing, SendBegin, SendWrite, ParseMore, WakeInner
<1>5. CASE StartAlarm \/ EndAlarm \/ PlayLine \/ ParseLine
  BY <1>5 DEF StartAlarm, EndAlarm, PlayLine, ParseLine
<1>6. CASE UNCHANGED vars
  BY <1>6 DEF vars
<1> QED
  BY <1>1, <1>2, <1>3, <1>4, <1>5, <1>6 DEF Next, Main

\* The stack is never handed a second indication before the first is confirmed.
THEOREM EchoSafe == Spec => []OneIndication
<1>1. Init => OneIndication
  BY DEF Init, OneIndication
<1> QED
  BY <1>1, IndicationStep, PTL DEF Spec

-----------------------------------------------------------------------------
(* The deadline, while the clock does not wrap.                            *)

LEMMA DeadlineInit == Init => DeadlineIsSum
  BY BoundsAssumption DEF Init, DeadlineIsSum

\* Under NoWrap the modulus of the sum in processline() has no effect.
LEMMA DeadlineOfArm ==
  ASSUME NoWrap, TypeOK, DeadlineIsSum, NEW l \in Tokens, l.cmd = "a"
  PROVE  Deadline(l) = l.arg + now /\ Deadline(l) # NEVER
<1>1. l \in Bodies
  BY DEF Tokens, NL
<1>2. Horizon + l.arg < NEVER /\ l.arg \in Nat /\ now \in Nat /\ now <= Horizon
  BY <1>1, TokenIsLine DEF NoWrap, TypeOK, WorldOK, DeadlineIsSum
<1>3. W \in Nat /\ W > 0 /\ Horizon \in Nat
  BY BoundsAssumption
<1> QED
  BY <1>2, <1>3 DEF Deadline, NEVER

LEMMA DeadlineStep ==
  ASSUME NoWrap
  PROVE  TypeOK /\ ScriptInv /\ DeadlineIsSum /\ [Next]_vars => DeadlineIsSum'
<1> SUFFICES ASSUME TypeOK, ScriptInv, DeadlineIsSum, [Next]_vars
             PROVE  DeadlineIsSum'
  OBVIOUS
<1>1. CASE Tick
  <2>1. now' <= Horizon
    BY <1>1, BoundsAssumption DEF Tick, TypeOK, WorldOK, DeadlineIsSum, NoWrap, NEVER
  <2>2. UNCHANGED <<alarmmil, req>>
    BY <1>1 DEF Tick, script
  <2> QED
    BY <2>1, <2>2 DEF DeadlineIsSum
<1>2. CASE Central \/ Handlers
  <2>1. UNCHANGED <<now, alarmmil, req>>
    BY <1>2 DEF Central, Connect, Disconnect, SetIndications, onDataWritten,
                on_confirmation, Handlers, onConnected, onDisconnected, Handle,
                world, script
  <2> QED
    BY <2>1 DEF DeadlineIsSum
<1>3. CASE \/ WakeOuter \/ LeaveLoop \/ NotDue \/ WakePlay \/ PollNothing \/ getc
           \/ SendNothing \/ SendBegin \/ SendWrite \/ ParseMore \/ WakeInner
           \/ EndAlarm
  <2>1. UNCHANGED <<now, alarmmil, req>>
    BY <1>3 DEF WakeOuter, LeaveLoop, NotDue, WakePlay, PollNothing, getc,
                SendNothing, SendBegin, SendWrite, ParseMore, WakeInner,
                EndAlarm, world, script
  <2> QED
    BY <2>1 DEF DeadlineIsSum
<1>4. CASE StartAlarm
  <2>1. now' = now /\ alarmmil' = NEVER
    BY <1>4 DEF StartAlarm, world
  <2> QED
    BY <2>1 DEF DeadlineIsSum, NEVER
<1>5. CASE PlayLine
  <2>1. UNCHANGED <<now, alarmmil, req>>
    BY <1>5, PlayKeeps DEF PlayLine, world
  <2> QED
    BY <2>1 DEF DeadlineIsSum
<1>6. CASE ParseLine
  <2> DEFINE l == Head(Extended)
  <2>1. l \in Tokens /\ processline(l, recordmode) /\ now' = now
    BY <1>6 DEF ParseLine, Extended, TypeOK, MainOK, world
  <2> HIDE DEF l
  <2>2. CASE l.cmd = "a"
    <3>1. alarmmil' = Deadline(l) /\ req' = [at |-> now, delta |-> l.arg]
      BY <2>1, <2>2 DEF processline
    <3>2. Deadline(l) = now + l.arg
      BY <2>1, <2>2, DeadlineOfArm, TokenIsLine DEF TypeOK, WorldOK
    <3> QED
      BY <2>1, <3>1, <3>2 DEF DeadlineIsSum, NEVER
  <2>3. CASE l.cmd # "a"
    <3>1. UNCHANGED <<now, alarmmil, req>>
      BY <2>1, <2>3 DEF processline
    <3> QED
      BY <3>1 DEF DeadlineIsSum
  <2> QED
    BY <2>2, <2>3
<1>7. CASE UNCHANGED vars
  <2>1. UNCHANGED <<now, alarmmil, req>>
    BY <1>7 DEF vars, world, script
  <2> QED
    BY <2>1 DEF DeadlineIsSum
<1> QED
  BY <1>1, <1>2, <1>3, <1>4, <1>5, <1>6, <1>7 DEF Next, Main

\* Only main's test of the deadline starts the alarm.
LEMMA OnlyStartRings == ASSUME [Next]_vars, Rings PROVE StartAlarm
<1> USE DEF Rings, Blocked
<1>1. ~Tick /\ ~Central /\ ~Handlers
  BY DEF Tick, Central, Connect, Disconnect, SetIndications, onDataWritten,
         on_confirmation, Handlers, onConnected, onDisconnected, Handle
<1>2. ~(WakeOuter \/ LeaveLoop \/ NotDue \/ WakePlay \/ PollNothing \/ getc)
  BY DEF WakeOuter, LeaveLoop, NotDue, WakePlay, PollNothing, getc
<1>3. ~(SendNothing \/ SendBegin \/ SendWrite \/ ParseMore \/ WakeInner \/ EndAlarm)
  BY DEF SendNothing, SendBegin, SendWrite, ParseMore, WakeInner, EndAlarm
<1>4. ~PlayLine /\ ~ParseLine /\ ~UNCHANGED vars
  BY DEF PlayLine, ParseLine, vars
<1> QED
  BY <1>1, <1>2, <1>3, <1>4 DEF Next, Main

\* A test that succeeds finds a deadline that was set and has passed.
LEMMA DueIsArmed ==
  ASSUME NoWrap, TypeOK, DeadlineIsSum, StartAlarm
  PROVE  alarmmil # NEVER /\ now >= req.at + req.delta
<1>1. alarmmil <= now /\ now <= Horizon /\ Horizon < NEVER
  BY DEF StartAlarm, Due, DeadlineIsSum, NoWrap
<1>2. /\ alarmmil \in Nat /\ now \in Nat /\ Horizon \in Nat /\ W \in Nat
      /\ req.at \in Nat /\ req.delta \in Nat
  BY BoundsAssumption DEF TypeOK, WorldOK, ScriptOK
<1>3. alarmmil # NEVER
  BY <1>1, <1>2 DEF NEVER
<1> QED
  BY <1>1, <1>2, <1>3 DEF DeadlineIsSum

ClockInv == TypeOK /\ ScriptInv /\ DeadlineIsSum

LEMMA ClockInvariance == ASSUME NoWrap PROVE Spec => []ClockInv
<1>1. Init => ClockInv
  BY TypeInit, ScriptInit, DeadlineInit DEF ClockInv
<1>2. ClockInv /\ [Next]_vars => ClockInv'
  BY TypeStep, ScriptStep, DeadlineStep DEF ClockInv
<1> QED
  BY <1>1, <1>2, PTL DEF Spec

\* While the clock does not wrap, no alarm rings before its time.
THEOREM RingsInTime == ASSUME NoWrap PROVE Spec => NeverEarly
<1>1. ClockInv /\ [Next]_vars => [Rings => now >= req.at + req.delta]_vars
  BY OnlyStartRings, DueIsArmed DEF ClockInv
<1> QED
  BY <1>1, ClockInvariance, PTL DEF Spec, NeverEarly

-----------------------------------------------------------------------------
(* The application implements the abstract alarm clock.                    *)

\* A step that keeps the script, the alarm, the servo and the cursor is no
\* step of the abstract clock.
LEMMA ClockFrame ==
  ASSUME UNCHANGED <<c, script>>, Ringing' = Ringing
  PROVE  UNCHANGED Clock!clockVars
<1>1. LeftToPlay' = LeftToPlay
  BY DEF LeftToPlay, script
<1> QED
  BY <1>1 DEF Clock!clockVars, script

LEMMA ClockStart == Init => Clock!ClockInit
  BY DEF Init, Clock!ClockInit, LeftToPlay, Ringing

LEMMA ClockRings ==
  ASSUME NoWrap, ClockInv, StartAlarm
  PROVE  Clock!Ring
<1>1. alarmmil # NEVER /\ ~Ringing
  BY DueIsArmed DEF ClockInv, StartAlarm, Ringing
<1>2. /\ alarmmil' = NEVER /\ c' = 1 /\ Ringing'
      /\ UNCHANGED <<recscr, recordmode, servovalue>>
  BY DEF StartAlarm, Ringing
<1>3. LeftToPlay = <<>>
  BY <1>1 DEF LeftToPlay
<1>4. LeftToPlay' = recscr
  <2>1. recscr \in Seq(Tokens)
    BY DEF ClockInv, TypeOK, ScriptOK
  <2>2. LeftToPlay' = SubSeq(recscr, 1, Len(recscr))
    BY <1>2 DEF LeftToPlay
  <2> QED
    BY <2>1, <2>2
<1> QED
  BY <1>1, <1>2, <1>3, <1>4 DEF Clock!Ring

LEMMA ClockPlays ==
  ASSUME ClockInv, PlayLine
  PROVE  Clock!Play
<1>1. /\ recscr \in Seq(Tokens) /\ c \in Nat \ {0} /\ c <= Len(recscr)
      /\ c' = c + 1 /\ Ringing /\ Ringing'
  BY DEF PlayLine, Ringing, ClockInv, TypeOK, ScriptOK, MainOK
<1>2. /\ UNCHANGED <<recscr, alarmmil, recordmode>>
      /\ servovalue' = IF recscr[c].cmd = "s" THEN recscr[c].arg ELSE servovalue
  BY PlayKeeps DEF PlayLine, ClockInv
<1>3. LeftToPlay = SubSeq(recscr, c, Len(recscr))
  BY <1>1 DEF LeftToPlay
<1>4. LeftToPlay' = SubSeq(recscr, c + 1, Len(recscr))
  BY <1>1, <1>2 DEF LeftToPlay
<1>5. LeftToPlay # <<>> /\ Head(LeftToPlay) = recscr[c]
  <2>1. SubSeq(recscr, c, Len(recscr)) \in Seq(Tokens)
    BY <1>1
  <2>2. /\ Len(SubSeq(recscr, c, Len(recscr))) = Len(recscr) - c + 1
        /\ SubSeq(recscr, c, Len(recscr))[1] = recscr[c]
    BY <1>1
  <2>3. Len(LeftToPlay) > 0 /\ LeftToPlay[1] = recscr[c] /\ LeftToPlay \in Seq(Tokens)
    BY <1>1, <1>3, <2>1, <2>2
  <2> QED
    BY <2>3
<1>6. LeftToPlay' = Tail(LeftToPlay)
  BY <1>1, <1>3, <1>4
<1> QED
  BY <1>2, <1>5, <1>6 DEF Clock!Play, Clock!Performed

LEMMA ClockHears ==
  ASSUME NoWrap, ClockInv, ParseLine
  PROVE  \E l \in Tokens : Clock!Hear(l)
<1> DEFINE l == Head(Extended)
<1>1. /\ l \in Tokens
      /\ processline(l, recordmode)
      /\ recordmode' = processResult(l, recordmode)
  BY DEF ParseLine, Extended, ClockInv, TypeOK, MainOK
<1> HIDE DEF l
<1>2. LeftToPlay = <<>> /\ LeftToPlay' = <<>>
  BY DEF ParseLine, LeftToPlay, Ringing
<1>3. recordmode \in BOOLEAN
  BY DEF ClockInv, TypeOK, FlagsOK
<1>4. CASE l.cmd = "a"
  <2>1. alarmmil' # NEVER
    <3>1. alarmmil' = Deadline(l)
      BY <1>1, <1>4 DEF processline
    <3> QED
      BY <1>1, <1>4, <3>1, DeadlineOfArm DEF ClockInv
  <2>2. recscr' = <<>> /\ servovalue' = servovalue /\ recordmode' = TRUE
    BY <1>1, <1>4 DEF processline, processResult
  <2>3. Clock!Arm(l)
    BY <1>2, <1>4, <2>1, <2>2 DEF Clock!Arm
  <2> QED
    BY <1>1, <1>2, <2>3 DEF Clock!Hear
<1>5. CASE l.cmd = "e"
  <2>1. UNCHANGED <<recscr, alarmmil, servovalue>> /\ recordmode' = FALSE
    BY <1>1, <1>5 DEF processline, processResult
  <2>2. Clock!Close(l)
    BY <1>2, <1>5, <2>1 DEF Clock!Close
  <2> QED
    BY <1>1, <1>2, <2>2 DEF Clock!Hear
<1>6. CASE l.cmd \notin {"a", "e"} /\ recordmode
  <2>1. /\ recscr' = Append(recscr, l) /\ UNCHANGED <<alarmmil, servovalue>>
        /\ recordmode' = recordmode
    BY <1>1, <1>3, <1>6 DEF processline, processResult
  <2>2. Clock!Record(l)
    BY <1>2, <1>6, <2>1 DEF Clock!Record
  <2> QED
    BY <1>1, <1>2, <2>2 DEF Clock!Hear
<1>7. CASE l.cmd \notin {"a", "e"} /\ ~recordmode
  <2>1. /\ UNCHANGED <<recscr, alarmmil>>
        /\ servovalue' = IF l.cmd = "s" THEN l.arg ELSE servovalue
        /\ recordmode' = recordmode
    BY <1>1, <1>3, <1>7 DEF processline, processResult
  <2>2. Clock!Perform(l)
    BY <1>2, <1>7, <2>1 DEF Clock!Perform, Clock!Performed
  <2> QED
    BY <1>1, <1>2, <2>2 DEF Clock!Hear
<1> QED
  BY <1>4, <1>5, <1>6, <1>7

LEMMA ClockStep ==
  ASSUME NoWrap
  PROVE  ClockInv /\ [Next]_vars => [Clock!ClockNext]_(Clock!clockVars)
<1> SUFFICES ASSUME ClockInv, [Next]_vars
             PROVE  Clock!ClockNext \/ UNCHANGED Clock!clockVars
  OBVIOUS
<1>1. CASE Tick \/ Central \/ Handlers
  <2>1. /\ UNCHANGED <<c, script>>
        /\ pc' = pc \/ (pc = "wait" /\ pc' = "parse")
    BY <1>1 DEF Tick, Central, Connect, Disconnect, SetIndications,
                onDataWritten, on_confirmation, Handlers, onConnected,
                onDisconnected, Handle
  <2> QED
    BY <2>1, ClockFrame DEF Ringing
<1>2. CASE WakeOuter \/ LeaveLoop \/ NotDue \/ WakePlay \/ PollNothing \/ getc
  BY <1>2, ClockFrame
     DEF WakeOuter, LeaveLoop, NotDue, WakePlay, PollNothing, getc, Ringing
<1>3. CASE SendNothing \/ SendBegin \/ SendWrite \/ ParseMore \/ WakeInner
  BY <1>3, ClockFrame
     DEF SendNothing, SendBegin, SendWrite, ParseMore, WakeInner, Ringing
<1>4. CASE StartAlarm
  BY <1>4, ClockRings DEF Clock!ClockNext
<1>5. CASE PlayLine
  BY <1>5, ClockPlays DEF Clock!ClockNext
<1>6. CASE EndAlarm
  <2>1. recscr \in Seq(Tokens) /\ c \in Nat \ {0} /\ c > Len(recscr)
    BY <1>6 DEF EndAlarm, ClockInv, TypeOK, ScriptOK, MainOK
  <2>2. SubSeq(recscr, c, Len(recscr)) = <<>>
    BY <2>1
  <2>3. LeftToPlay = <<>> /\ LeftToPlay' = <<>>
    BY <1>6, <2>2 DEF EndAlarm, LeftToPlay, Ringing
  <2> QED
    BY <1>6, <2>3 DEF EndAlarm, Clock!clockVars, script
<1>7. CASE ParseLine
  BY <1>7, ClockHears DEF Clock!ClockNext
<1>8. CASE UNCHANGED vars
  BY <1>8, ClockFrame DEF vars, Ringing
<1> QED
  BY <1>1, <1>2, <1>3, <1>4, <1>5, <1>6, <1>7, <1>8 DEF Next, Main

\* While the clock does not wrap, the application implements the abstract
\* alarm clock (the safety part of ImplementsAlarmClock).
THEOREM AlarmImplementsClock == ASSUME NoWrap PROVE Spec => Clock!ClockSafe
<1> QED
  BY ClockStart, ClockStep, ClockInvariance, PTL DEF Spec, Clock!ClockSafe
=============================================================================
