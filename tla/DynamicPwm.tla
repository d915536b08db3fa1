----------------------------- MODULE DynamicPwm -----------------------------
(***************************************************************************)
(* DynamicPwm.cpp and what MicroBitPin.cpp does with it: a few PWM channels *)
(* that any number of pins take from each other.  A pin that lost its       *)
(* channel finds out when it next uses it; a channel is deleted when the    *)
(* pin it drives is put to another use, whoever else still points to it.    *)
(* All channels are transient: obtainAnalogChannel asks for nothing else.   *)
(***************************************************************************)
EXTENDS Integers

CONSTANTS NO_PWMS, Pins, None, Freed

Channels == 0 .. NO_PWMS - 1

\* What the constants may be.
ConstantsOK ==
    /\ NO_PWMS \in Nat \ {0}
    /\ None \notin Pins \cup Channels /\ Freed \notin Pins \cup Channels

VARIABLES
    pwms,       \* the pin each channel drives, None where there is no object
    lastUsed,
    status,     \* what a pin is: nothing, ANALOG_OUT, or one of the other modes
    pin,        \* the channel a pin points to, Freed if that has been deleted
    \* history
    latest,     \* the pin that was last given a value, while it is in that use
    dangled     \* a freed object has looked like the caller's

vars == <<pwms, lastUsed, status, pin, latest, dangled>>

Init ==
    /\ pwms = [i \in Channels |-> None] /\ lastUsed = NO_PWMS + 1
    /\ status = [p \in Pins |-> "none"] /\ pin = [p \in Pins |-> None]
    /\ latest = None /\ dangled = FALSE

-----------------------------------------------------------------------------
\* getPinName() == name, of an object that is there.
Focused_Always(p) == pin[p] \in Channels
Focused(p) == pin[p] \in Channels /\ pwms[pin[p]] = p

\* disconnect(): the channel goes if it drives this pin, and leaves the pointers
\* that other pins have to it.
Released(p) == IF status[p] = "analog" /\ Focused(p) THEN {pin[p]} ELSE {}
After(p) == [i \in Channels |-> IF i \in Released(p) THEN None ELSE pwms[i]]
Pointers(p) ==
    [q \in Pins |-> IF q = p THEN None ELSE IF pin[q] \in Released(p) THEN Freed ELSE pin[q]]

\* allocate(): the first blank spot, else the one after the last used.
Gives(of, i) ==
    IF \E j \in Channels : of[j] = None
    THEN of[i] = None /\ \A j \in 0 .. i - 1 : of[j] /= None
    ELSE i = IF lastUsed + 1 > NO_PWMS - 1 THEN 0 ELSE lastUsed + 1

\* setAnalogValue, setServoValue, setServoPulseUs.
KeepChannel(p) ==
    /\ ~dangled /\ status[p] = "analog" /\ Focused(p)
    /\ latest' = p
    /\ UNCHANGED <<pwms, lastUsed, status, pin, dangled>>

obtainAnalogChannel(p) ==
    /\ ~dangled /\ ~(status[p] = "analog" /\ Focused(p))
    /\ \E i \in Channels :
           /\ Gives(After(p), i)
           /\ pwms' = [After(p) EXCEPT ![i] = p]
           /\ lastUsed' = i
           /\ pin' = [Pointers(p) EXCEPT ![p] = i]
    /\ status' = [status EXCEPT ![p] = "analog"]
    /\ latest' = p
    /\ UNCHANGED dangled

\* setDigitalValue, getDigitalValue, getAnalogValue, isTouched, eventOn: the pin
\* disconnects and gets an object of its own.
OtherMode(p) ==
    /\ ~dangled /\ status[p] /= "other"
    /\ pwms' = After(p)
    /\ pin' = Pointers(p)
    /\ status' = [status EXCEPT ![p] = "other"]
    /\ latest' = IF latest = p THEN None ELSE latest
    /\ UNCHANGED <<lastUsed, dangled>>

\* The memory behind a freed pointer holds the caller's name by chance: what the
\* pin does with it is not followed any further.
ReadFreed(p) ==
    /\ ~dangled /\ status[p] = "analog" /\ pin[p] = Freed
    /\ dangled' = TRUE
    /\ UNCHANGED <<pwms, lastUsed, status, pin, latest>>

Next == \E p \in Pins :
    KeepChannel(p) \/ obtainAnalogChannel(p) \/ OtherMode(p) \/ ReadFreed(p)
Spec == Init /\ [][Next]_vars

-----------------------------------------------------------------------------
TypeOK ==
    /\ pwms \in [Channels -> Pins \cup {None}]
    /\ lastUsed \in Channels \cup {NO_PWMS + 1}
    /\ status \in [Pins -> {"none", "analog", "other"}]
    /\ pin \in [Pins -> Channels \cup {None, Freed}]
    /\ latest \in Pins \cup {None} /\ dangled \in BOOLEAN
    /\ \A p \in Pins : status[p] /= "analog" => pin[p] = None

\* Every channel drives a pin that is an analog output and knows it as its own, so
\* none drives a pin that is in another use and no two drive one pin; and the pin
\* that was given a value last has its channel, whichever pins have taken channels
\* from each other and given them back.
ChannelsFollowPins ==
    ~dangled =>
        /\ \A i \in Channels : pwms[i] /= None =>
            status[pwms[i]] = "analog" /\ pin[pwms[i]] = i
        /\ latest /= None => Focused(latest)

=============================================================================
