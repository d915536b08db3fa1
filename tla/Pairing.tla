------------------------------ MODULE Pairing ------------------------------
(***************************************************************************)
(* The pairing mode of MicroBitBLEManager.cpp: pairingMode(), the loop of  *)
(* the main fiber that asks for the button, shows the passkey and resets   *)
(* the device in the end, with the callbacks of the stack, which come as   *)
(* interrupts between any two of its steps, and idleTick(), which the idle *)
(* fiber calls while main sleeps.                                          *)
(***************************************************************************)
EXTENDS Naturals

CONSTANTS
    PASSKEY_LEN,   \* digits of a passkey
    Timeout,       \* MICROBIT_BLE_PAIRING_TIMEOUT * 30
    MaxRequests    \* bound: how many pairings are begun

\* What the constants may be.
ConstantsOK == PASSKEY_LEN \in Nat \ {0} /\ Timeout \in Nat \ {0} /\ MaxRequests \in Nat

VARIABLES
    \* the central
    peer,          \* "away", "linked", "pairing", or "asked" for the passkey
    requests,      \* history: how many pairings were begun; the number of the last one
    \* the manager
    pairingStatus, passKey, timeInPairingMode,
    ticking,       \* how often the manager is in the list of idle components
    \* the main fiber
    pc,
    i,             \* the digit that is shown
    loaded,        \* pairingStatus as main has read it to change it
    \* history
    authorised,    \* the passkey for which the button was pressed
    overtaken,     \* a request has come between the button and the last of the digits
    unanswered     \* a request stays pending although nobody is pairing

central == <<peer, requests>>
manager == <<pairingStatus, passKey, timeInPairingMode, ticking>>
locals == <<i, loaded>>
history == <<authorised, overtaken, unanswered>>
vars == <<central, manager, pc, locals, history>>

Flags == {"REQUEST", "PASSCODE", "COMPLETE", "SUCCESSFUL"}
Asleep == {"digit", "gap", "shown", "tick", "wait"}   \* in fiber_sleep()
Showing == {"code", "digit", "gap"}                   \* in the loop over the digits
Pressed == {"press", "store"}                         \* the button is, the flags do not know yet
PCs == Asleep \cup Pressed \cup {"request", "passcode", "code", "complete", "off", "reset"}

Init ==
    /\ peer = "away" /\ requests = 0
    /\ pairingStatus = {} /\ passKey = 0 /\ timeInPairingMode = 0 /\ ticking = 0
    /\ pc = "off" /\ i = 0 /\ loaded = {}
    /\ authorised = 0 /\ overtaken = FALSE /\ unanswered = FALSE

Pending == pairingStatus \cap {"REQUEST", "PASSCODE"} /= {}

-----------------------------------------------------------------------------
(* The stack and its callbacks.                                            *)

On == pc \notin {"off", "reset"}

Connect ==
    /\ On /\ peer = "away"
    /\ peer' = "linked"
    /\ UNCHANGED <<requests, manager, pc, locals, history>>

\* The central begins to pair, with a passkey if it wants one.
Begin ==
    /\ On /\ peer = "linked" /\ requests < MaxRequests
    /\ peer' = "pairing" /\ requests' = requests + 1
    /\ UNCHANGED <<manager, pc, locals, history>>

\* passkeyDisplayCallback
pairingRequested_Adds ==
    /\ On /\ peer = "pairing"
    /\ peer' = "asked"
    /\ passKey' = requests
    /\ pairingStatus' = pairingStatus \cup {"REQUEST"}
    /\ overtaken' = (overtaken \/ pc \in Showing \cup Pressed)
    /\ unanswered' = FALSE
    /\ UNCHANGED <<requests, timeInPairingMode, ticking, pc, locals, authorised>>
pairingRequested ==
    /\ On /\ peer = "pairing"
    /\ peer' = "asked"
    /\ passKey' = requests
    /\ pairingStatus' = {"REQUEST"}
    /\ overtaken' = (overtaken \/ pc \in Showing \cup Pressed)
    /\ unanswered' = FALSE
    /\ UNCHANGED <<requests, timeInPairingMode, ticking, pc, locals, authorised>>

\* securitySetupCompletedCallback.  One that comes after the button and before the
\* flags are written is written over, or has PASSCODE added to it.
Completed(success) == {"COMPLETE"} \cup (IF success THEN {"SUCCESSFUL"} ELSE {})
pairingComplete(success) ==
    /\ On /\ peer \in {"pairing", "asked"}
    /\ peer' = "linked"
    /\ pairingStatus' = Completed(success)
    /\ ticking' = IF success THEN ticking + 1 ELSE ticking
    /\ unanswered' = (pc \in Pressed)
    /\ UNCHANGED <<requests, passKey, timeInPairingMode, pc, locals, authorised, overtaken>>

\* The link is lost; a pairing that was under way ends without a callback.
LinkLost ==
    /\ On /\ peer /= "away"
    /\ peer' = "away"
    /\ unanswered' = (unanswered \/ peer = "asked")
    /\ UNCHANGED <<requests, manager, pc, locals, authorised, overtaken>>

\* idleTick() ends the connection, with the same effect as above.
idleTick ==
    /\ pc \in Asleep /\ ticking > 0
    /\ ticking' = ticking - 1
    /\ peer' = "away"
    /\ unanswered' = (unanswered \/ peer = "asked")
    /\ UNCHANGED <<requests, pairingStatus, passKey, timeInPairingMode, pc, locals, authorised,
                   overtaken>>

-----------------------------------------------------------------------------
(* pairingMode(), in the main fiber.                                       *)

Goto(l) == pc' = l
Keeps == UNCHANGED <<central, ticking, passKey>>

\* A and B have been held for a second after the reset.
Enter ==
    /\ pc = "off"
    /\ Goto("request")
    /\ UNCHANGED <<central, manager, locals, history>>

\* An arrow asks for the button; it is looked at once in each round.
Request ==
    /\ pc = "request" /\ Keeps
    /\ timeInPairingMode' = IF "REQUEST" \in pairingStatus THEN 0 ELSE timeInPairingMode
    /\ \/ /\ "REQUEST" \in pairingStatus
          /\ authorised' = passKey /\ overtaken' = FALSE
          /\ Goto("press")
       \/ Goto("passcode") /\ UNCHANGED <<authorised, overtaken>>
    /\ UNCHANGED <<pairingStatus, locals, unanswered>>

\* The button is pressed: the flags are read, changed and written.
Press ==
    /\ pc = "press" /\ Keeps
    /\ loaded' = pairingStatus
    /\ Goto("store")
    /\ UNCHANGED <<pairingStatus, timeInPairingMode, i, history>>

Store ==
    /\ pc = "store" /\ Keeps
    /\ pairingStatus' = (loaded \ {"REQUEST"}) \cup {"PASSCODE"}
    /\ loaded' = {}
    /\ Goto("passcode")
    /\ UNCHANGED <<timeInPairingMode, i, history>>

Passcode ==
    /\ pc = "passcode" /\ Keeps
    /\ IF "PASSCODE" \in pairingStatus
       THEN timeInPairingMode' = 0 /\ Goto("code")
       ELSE Goto("complete") /\ UNCHANGED timeInPairingMode
    /\ i' = 0
    /\ UNCHANGED <<pairingStatus, loaded, history>>

\* The digits, one after another, until they have been shown or are not needed.
ShowDigit ==
    /\ pc = "code" /\ Keeps
    /\ Goto(IF i < PASSKEY_LEN THEN "digit" ELSE "shown")
    /\ UNCHANGED <<pairingStatus, timeInPairingMode, locals, history>>

DigitOff ==
    /\ pc = "digit" /\ Keeps
    /\ Goto("gap")
    /\ UNCHANGED <<pairingStatus, timeInPairingMode, locals, history>>

NextDigit ==
    /\ pc = "gap" /\ Keeps
    /\ IF "COMPLETE" \in pairingStatus
       THEN Goto("shown") /\ UNCHANGED i
       ELSE Goto("code") /\ i' = i + 1
    /\ UNCHANGED <<pairingStatus, timeInPairingMode, loaded, history>>

Shown ==
    /\ pc = "shown" /\ Keeps
    /\ Goto("complete")
    /\ UNCHANGED <<pairingStatus, timeInPairingMode, locals, history>>

\* A tick for a success, after which the device is reset, a cross for a failure.
Complete ==
    /\ pc = "complete" /\ Keeps
    /\ Goto(IF {"COMPLETE", "SUCCESSFUL"} \subseteq pairingStatus THEN "tick" ELSE "wait")
    /\ UNCHANGED <<pairingStatus, timeInPairingMode, locals, history>>

Ticked ==
    /\ pc = "tick" /\ Keeps
    /\ timeInPairingMode' = Timeout
    /\ Goto("wait")
    /\ UNCHANGED <<pairingStatus, locals, history>>

Wait ==
    /\ pc = "wait" /\ Keeps
    /\ timeInPairingMode' = timeInPairingMode + 1
    /\ Goto(IF timeInPairingMode' >= Timeout THEN "reset" ELSE "request")
    /\ UNCHANGED <<pairingStatus, locals, history>>

pairingMode ==
    \/ Request \/ Press \/ Store \/ Passcode \/ ShowDigit \/ DigitOff \/ NextDigit \/ Shown
    \/ Complete \/ Ticked \/ Wait

Next ==
    \/ Connect \/ Begin \/ pairingRequested \/ LinkLost \/ idleTick
    \/ \E success \in BOOLEAN : pairingComplete(success)
    \/ Enter \/ pairingMode

\* Main sleeps its time and goes on.
Spec == Init /\ [][Next]_vars /\ WF_vars(pairingMode)

-----------------------------------------------------------------------------
(* Properties.                                                             *)

TypeOK ==
    /\ peer \in {"away", "linked", "pairing", "asked"} /\ requests \in 0 .. MaxRequests
    /\ pairingStatus \subseteq Flags /\ loaded \subseteq Flags
    /\ passKey \in 0 .. requests /\ authorised \in 0 .. requests
    /\ timeInPairingMode \in 0 .. Timeout + 1 /\ ticking \in 0 .. MaxRequests
    /\ pc \in PCs /\ i \in 0 .. PASSKEY_LEN
    /\ overtaken \in BOOLEAN /\ unanswered \in BOOLEAN

\* A digit that is shown belongs to the passkey for which the button was pressed,
\* unless another request came after that: the flags and the passkey are replaced
\* under the loop, which goes on with the digits of the new one.
DigitsAuthorised == pc = "digit" => passKey = authorised \/ overtaken

\* While a request is pending somebody is pairing, but for an answer that came
\* between the button and the change of the flags, or never came.
PendingIsReal == Pending \/ pc \in Pressed => peer = "asked" \/ unanswered

\* The passkey is shown to whom the button allows it, while he waits for it.
PasskeyOnDemand == DigitsAuthorised /\ PendingIsReal

\* Pairing mode ends, and the device is reset, unless a central keeps it waiting
\* for an answer or an answer was lost.
PairingEnds == []<>(pc \in {"off", "reset"} \/ peer = "asked" \/ unanswered)

=============================================================================
