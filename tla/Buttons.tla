------------------------------- MODULE Buttons -------------------------------
(***************************************************************************)
(* MicroBitButton.cpp, MicroBitMultiButton.cpp and the reflection of        *)
(* MicroBit.cpp that hands the clicks of A and B over to A+B.  The system   *)
(* timer's interrupt ticks A and then B; the multi button handles their     *)
(* events at once, in the same interrupt.  The fiber that registers a       *)
(* listener for A+B is interrupted between any two of its three calls.      *)
(***************************************************************************)
EXTENDS Integers, Sequences

CONSTANTS
    SIGMA_MAX, THRESH_HI, THRESH_LO,    \* 12, 8 and 2 ticks
    LONG_CLICK_TIME, HOLD_TIME          \* in ticks

\* What the constants may be.
ConstantsOK ==
    /\ SIGMA_MAX \in Nat /\ THRESH_HI \in 0 .. SIGMA_MAX - 1
    /\ THRESH_LO \in 1 .. THRESH_HI
    /\ LONG_CLICK_TIME \in Nat \ {0} /\ HOLD_TIME \in Nat /\ HOLD_TIME > LONG_CLICK_TIME

VARIABLES
    turn,                  \* whose systemTick() comes next in the tick
    sigma, down, held,     \* of A and B: the counter and the status bits
    age,                   \* ticks since downStartTime, up to HOLD_TIME
    subDown, subHeld, supressed,   \* what the multi button notes of each
    stage,                 \* how many calls of the hand-over are done
    \* history of the last press of each
    stable,                \* ticks since the button last changed, capped
    began, ended,          \* the stage when it went down, and up
    own,                   \* its clicks of its own
    combined               \* it has been part of a click of A+B

multi == <<subDown, subHeld, supressed>>
history == <<stable, began, ended, own, combined>>
vars == <<turn, sigma, down, held, age, multi, stage, history>>

Names == {"A", "B"}
other(b) == IF b = "A" THEN "B" ELSE "A"
Debounce == THRESH_HI - THRESH_LO + 2

\* MICROBIT_BUTTON_ALL_EVENTS: A and B have it until calls 1 and 2, A+B from call 3.
AllEvents(b) == IF b = "A" THEN stage < 1 ELSE stage < 2
AllEventsAB == stage = 3

Init ==
    /\ turn = "A"
    /\ sigma = [b \in Names |-> 0] /\ age = [b \in Names |-> 0]
    /\ down = [b \in Names |-> FALSE] /\ held = down
    /\ subDown = down /\ subHeld = down /\ supressed = down
    /\ stage = 0
    /\ stable = [b \in Names |-> Debounce]
    /\ began = [b \in Names |-> 0] /\ ended = [b \in Names |-> -1]
    /\ own = [b \in Names |-> <<>>] /\ combined = down

-----------------------------------------------------------------------------
\* One call of onListenerRegisteredEvent.
setEventConfiguration ==
    /\ turn = "A" /\ stage < 3
    /\ stage' = stage + 1
    /\ UNCHANGED <<turn, sigma, down, held, age, multi, history>>

-----------------------------------------------------------------------------
(* systemTick() of b, with the pin touched or not.                         *)

Least(x, y) == IF x < y THEN x ELSE y
Follows_Unbounded(b, touched) ==
    IF touched THEN sigma[b] + 1 ELSE IF sigma[b] > 0 THEN sigma[b] - 1 ELSE 0
Follows(b, touched) ==
    IF touched THEN Least(sigma[b] + 1, SIGMA_MAX)
    ELSE IF sigma[b] > 0 THEN sigma[b] - 1 ELSE 0

GoesDown(b, s) == s > THRESH_HI /\ ~down[b]
GoesUp(b, s) == s < THRESH_LO /\ down[b]
Older(b) == Least(age[b] + 1, HOLD_TIME)
Holds(b) == down[b] /\ ~held[b] /\ Older(b) >= HOLD_TIME

\* What all ticks of b do.
Ticks(b, s) ==
    /\ turn = b /\ turn' = other(b)
    /\ sigma' = [sigma EXCEPT ![b] = s]
    /\ UNCHANGED stage

Stay(b, s) ==
    /\ ~GoesDown(b, s) /\ ~GoesUp(b, s) /\ ~Holds(b)
    /\ age' = [age EXCEPT ![b] = IF down[b] THEN Older(b) ELSE 0]
    /\ stable' = [stable EXCEPT ![b] = Least(@ + 1, Debounce)]
    /\ UNCHANGED <<down, held, multi, began, ended, own, combined>>

\* EVT_DOWN, and onButtonEvent's case of it.
Press(b, s) ==
    /\ GoesDown(b, s)
    /\ down' = [down EXCEPT ![b] = TRUE]
    /\ age' = [age EXCEPT ![b] = 0]
    /\ subDown' = [subDown EXCEPT ![b] = TRUE]
    /\ stable' = [stable EXCEPT ![b] = 1]
    /\ began' = [began EXCEPT ![b] = stage]
    /\ own' = [own EXCEPT ![b] = <<>>] /\ combined' = [combined EXCEPT ![b] = FALSE]
    /\ UNCHANGED <<held, subHeld, supressed, ended>>

\* EVT_HOLD.
Hold(b, s) ==
    /\ ~GoesUp(b, s) /\ Holds(b)
    /\ held' = [held EXCEPT ![b] = TRUE]
    /\ age' = [age EXCEPT ![b] = Older(b)]
    /\ subHeld' = [subHeld EXCEPT ![b] = TRUE]
    /\ stable' = [stable EXCEPT ![b] = Least(@ + 1, Debounce)]
    /\ UNCHANGED <<down, subDown, supressed, began, ended, own, combined>>

\* EVT_UP: the multi button raises a click of A+B and supresses the other's own,
\* or raises b's own; then the button raises its own, unless it has handed over.
CombinedClick(b) == subDown[other(b)]
MultiClick(b) ==
    IF ~CombinedClick(b) /\ ~supressed[b] /\ AllEventsAB
    THEN <<IF subHeld[b] THEN "long" ELSE "click">> ELSE <<>>
ButtonClick(b) ==
    IF AllEvents(b) THEN <<IF Older(b) >= LONG_CLICK_TIME THEN "long" ELSE "click">> ELSE <<>>

Suppresses_Nobody(b) == [supressed EXCEPT ![b] = FALSE]
Suppresses(b) ==
    [supressed EXCEPT ![other(b)] = @ \/ CombinedClick(b), ![b] = FALSE]

Release(b, s) ==
    /\ GoesUp(b, s)
    /\ down' = [down EXCEPT ![b] = FALSE] /\ held' = [held EXCEPT ![b] = FALSE]
    /\ age' = [age EXCEPT ![b] = 0]
    /\ subDown' = [subDown EXCEPT ![b] = FALSE]
    /\ subHeld' = [subHeld EXCEPT ![b] = FALSE]
    /\ supressed' = Suppresses(b)
    /\ own' = [own EXCEPT ![b] = MultiClick(b) \o ButtonClick(b)]
    /\ combined' = [n \in Names |-> combined[n] \/ CombinedClick(b)]
    /\ stable' = [stable EXCEPT ![b] = 1]
    /\ ended' = [ended EXCEPT ![b] = stage]
    /\ UNCHANGED began

systemTick(b, touched) ==
    LET s == Follows(b, touched)
    IN  Ticks(b, s) /\ (Stay(b, s) \/ Press(b, s) \/ Hold(b, s) \/ Release(b, s))

Next == setEventConfiguration \/ \E b \in Names, touched \in BOOLEAN : systemTick(b, touched)
Spec == Init /\ [][Next]_vars

-----------------------------------------------------------------------------
(* What the buttons promise.                                               *)

TypeOK ==
    /\ turn \in Names /\ stage \in 0 .. 3
    /\ sigma \in [Names -> 0 .. SIGMA_MAX]
    /\ down \in [Names -> BOOLEAN] /\ held \in [Names -> BOOLEAN]
    /\ age \in [Names -> 0 .. HOLD_TIME] /\ stable \in [Names -> 1 .. Debounce]
    /\ subDown = down /\ subHeld = held

\* A press that begins and ends before the hand-over gives one click of the button
\* itself; one that begins and ends after it gives one of its own or is part of a
\* click of A+B, never neither and never both.
EachPressClicksOnce ==
    \A b \in Names : ~down[b] /\ began[b] = ended[b] =>
        /\ began[b] = 0 => Len(own[b]) = 1
        /\ began[b] = 3 => Len(own[b]) = (IF combined[b] THEN 0 ELSE 1)

\* A press is one click, and a button changes only after it has kept its state for
\* the ticks that the counter takes from one threshold to the other, however the pin
\* bounces.
PressesClick ==
    [][/\ EachPressClicksOnce'
       /\ \A b \in Names : down'[b] /= down[b] => stable[b] >= Debounce]_vars

=============================================================================
