--------------------------- MODULE DriversProofs ---------------------------
(***************************************************************************)
(* The drivers of MCDrivers, each for all values of its constants: the     *)
(* passkey is shown on demand, and strings arrive.                         *)
(***************************************************************************)
EXTENDS MCDrivers, QueueProofs, SequenceTheorems

-----------------------------------------------------------------------------
(* The pairing mode.  While the flags say that a passkey may be shown, or  *)
(* main is about to set them so, it is the one the button was pressed for. *)

Authorised ==
    round \in Pair!Showing \cup Pair!Pressed \/ "PASSCODE" \in pairingStatus
        => passKey = authorised \/ overtaken

\* A request that is under way is not among those that have succeeded.
Requested ==
    /\ peer \in {"away", "linked", "pairing", "asked"}
    /\ requests \in 0 .. MaxRequests /\ passKey \in 0 .. requests /\ authorised \in 0 .. requests
    /\ ticking \in 0 .. requests
    /\ peer \in {"pairing", "asked"} => ticking < requests

Main ==
    /\ round \in Pair!PCs /\ digit \in 0 .. PASSKEY_LEN
    /\ round \in {"digit", "gap"} => digit < PASSKEY_LEN
    /\ timeInPairingMode \in 0 .. Timeout + 1
    /\ round \notin {"wait", "reset"} => timeInPairingMode < Timeout
    /\ round # "reset" => timeInPairingMode <= Timeout

FlagTypes ==
    /\ pairingStatus \subseteq Pair!Flags /\ loaded \subseteq Pair!Flags
    /\ overtaken \in BOOLEAN /\ unanswered \in BOOLEAN

PairInv == Authorised /\ Pair!PendingIsReal /\ Requested /\ Main /\ FlagTypes

LEMMA PairInit ==
    ASSUME Pair!ConstantsOK, Pair!Init
    PROVE  PairInv
<1> USE DEF Pair!Init
<1>1. Requested
  BY DEF Pair!ConstantsOK, Requested
<1>2. Main
  BY DEF Pair!ConstantsOK, Main, Pair!PCs, Pair!Asleep
<1>3. FlagTypes
  BY Zenon DEF FlagTypes
<1>4. Authorised /\ Pair!PendingIsReal
  BY DEF Authorised, Pair!PendingIsReal, Pair!Pending, Pair!Showing, Pair!Pressed
<1> QED
  BY <1>1, <1>2, <1>3, <1>4 DEF PairInv

\* What the central and the stack do leaves main where it is.
LEMMA PeerStep ==
    ASSUME Pair!ConstantsOK, PairInv,
           \/ Pair!Connect \/ Pair!Begin \/ Pair!pairingRequested \/ Pair!LinkLost
           \/ Pair!idleTick \/ \E success \in BOOLEAN : Pair!pairingComplete(success)
    PROVE  PairInv'
<1> USE DEF PairInv
<1>0. /\ requests \in Nat /\ MaxRequests \in Nat /\ passKey \in Nat /\ authorised \in Nat
      /\ ticking \in Nat /\ passKey <= requests /\ authorised <= requests
      /\ requests <= MaxRequests
  BY DEF Requested, Pair!ConstantsOK
<1> DEFINE Kept == UNCHANGED <<round, digit, loaded, timeInPairingMode, authorised>>
<1>1. ASSUME Pair!Connect \/ Pair!Begin \/ Pair!LinkLost \/ Pair!idleTick
      PROVE  PairInv'
  <2>1. Kept /\ UNCHANGED <<pairingStatus, passKey, overtaken>>
    BY <1>1 DEF Pair!Connect, Pair!Begin, Pair!LinkLost, Pair!idleTick, Pair!manager,
       Pair!locals, Pair!history
  <2>2. Requested'
    BY <1>0, <1>1, <2>1 DEF Pair!Connect, Pair!Begin, Pair!LinkLost, Pair!idleTick, Pair!manager,
       Requested
  <2>3. /\ unanswered' \in {unanswered, unanswered \/ peer = "asked"}
        /\ peer = "asked" => peer' = "asked" \/ unanswered'
    BY <1>1, Zenon DEF Pair!Connect, Pair!Begin, Pair!LinkLost, Pair!idleTick, Pair!history
  <2>4. Main' /\ Authorised'
    BY <2>1 DEF Main, Authorised
  <2>5. FlagTypes'
    BY <2>1, <2>3, Zenon DEF FlagTypes
  <2>6. Pair!PendingIsReal'
    BY <2>1, <2>3, Zenon DEF Pair!PendingIsReal, Pair!Pending
  <2> QED
    BY <2>2, <2>4, <2>5, <2>6
<1>2. ASSUME Pair!pairingRequested
      PROVE  PairInv'
  <2>1. /\ Kept /\ UNCHANGED <<requests, ticking>>
        /\ peer = "pairing" /\ peer' = "asked" /\ passKey' = requests
        /\ pairingStatus' = {"REQUEST"}
    BY <1>2 DEF Pair!pairingRequested, Pair!locals
  <2>2. /\ overtaken' = (overtaken \/ round \in Pair!Showing \cup Pair!Pressed)
        /\ unanswered' = FALSE
    BY <1>2, Zenon DEF Pair!pairingRequested
  <2>3. Requested'
    BY <1>0, <2>1 DEF Requested
  <2>4. Main'
    BY <2>1 DEF Main
  <2>5. Authorised' /\ Pair!PendingIsReal'
    BY <2>1, <2>2 DEF Authorised, Pair!PendingIsReal
  <2>6. FlagTypes'
    <3>1. overtaken' \in BOOLEAN /\ unanswered' \in BOOLEAN
      BY <2>2, Zenon
    <3> QED
      BY <2>1, <3>1 DEF FlagTypes, Pair!Flags
  <2> QED
    BY <2>3, <2>4, <2>5, <2>6
<1>3. ASSUME NEW success \in BOOLEAN, Pair!pairingComplete(success)
      PROVE  PairInv'
  <2>1. /\ Kept /\ UNCHANGED <<requests, passKey, overtaken>>
        /\ peer \in {"pairing", "asked"} /\ peer' = "linked"
        /\ pairingStatus' = Pair!Completed(success)
        /\ ticking' \in {ticking, ticking + 1}
    BY <1>3 DEF Pair!pairingComplete, Pair!locals
  <2>2. unanswered' = (round \in Pair!Pressed)
    BY <1>3, Zenon DEF Pair!pairingComplete
  <2>3. /\ Pair!Completed(success) \subseteq Pair!Flags
        /\ Pair!Completed(success) \cap {"REQUEST", "PASSCODE"} = {}
    BY DEF Pair!Completed, Pair!Flags
  <2>4. Requested'
    <3>1. /\ peer \in {"pairing", "asked"} /\ peer' = "linked"
          /\ UNCHANGED <<requests, passKey, authorised>> /\ ticking' \in {ticking, ticking + 1}
      BY <2>1
    <3> QED
      BY <1>0, <3>1 DEF Requested
  <2>5. Main'
    BY <2>1 DEF Main
  <2>6. Authorised'
    <3>1. "PASSCODE" \notin pairingStatus' /\ UNCHANGED <<round, passKey, authorised, overtaken>>
      BY <2>1, <2>3
    <3> QED
      BY <3>1 DEF Authorised
  <2>8. Pair!PendingIsReal'
    <3>1. ~Pair!Pending'
      BY <2>1, <2>3 DEF Pair!Pending
    <3>2. UNCHANGED round
      BY <2>1
    <3> QED
      BY <2>2, <3>1, <3>2, Zenon DEF Pair!PendingIsReal
  <2>7. FlagTypes'
    <3>1. unanswered' \in BOOLEAN
      BY <2>2
    <3>2. UNCHANGED <<loaded, overtaken>>
      BY <2>1
    <3>3. pairingStatus' \subseteq Pair!Flags /\ loaded' \subseteq Pair!Flags
      BY <2>1, <2>3, <3>2 DEF FlagTypes
    <3>4. overtaken' \in BOOLEAN
      BY <3>2 DEF FlagTypes
    <3> QED
      BY <3>1, <3>3, <3>4 DEF FlagTypes
  <2> QED
    BY <2>4, <2>5, <2>6, <2>7, <2>8
<1> QED
  BY <1>1, <1>2, <1>3

\* What main does leaves the central where it is.
LEMMA MainStep ==
    ASSUME Pair!ConstantsOK, PairInv, Pair!Enter \/ Pair!pairingMode
    PROVE  PairInv'
<1> USE DEF PairInv
<1>0. /\ PASSKEY_LEN \in Nat \ {0} /\ Timeout \in Nat \ {0}
      /\ digit \in Nat /\ digit <= PASSKEY_LEN /\ timeInPairingMode \in Nat
  BY DEF Main, Pair!ConstantsOK
<1>1. UNCHANGED <<peer, requests, ticking, passKey>>
  BY DEF Pair!Enter, Pair!pairingMode, Pair!Request, Pair!Press, Pair!Store, Pair!Passcode,
         Pair!ShowDigit, Pair!DigitOff, Pair!NextDigit, Pair!Shown, Pair!Complete, Pair!Ticked,
         Pair!Wait, Pair!Keeps, Pair!central, Pair!manager
<1>2. authorised' \in {authorised, passKey} /\ unanswered' = unanswered
  BY DEF Pair!Enter, Pair!pairingMode, Pair!Request, Pair!Press, Pair!Store, Pair!Passcode,
         Pair!ShowDigit, Pair!DigitOff, Pair!NextDigit, Pair!Shown, Pair!Complete, Pair!Ticked,
         Pair!Wait, Pair!history
<1>3. Requested'
  BY <1>1, <1>2 DEF Requested
<1>4. Main'
  <2>1. CASE Pair!Enter \/ Pair!Request \/ Pair!Press \/ Pair!Store
    BY <1>0, <2>1 DEF Main, Pair!Enter, Pair!Request, Pair!Press, Pair!Store, Pair!Goto,
       Pair!PCs, Pair!Asleep, Pair!Pressed, Pair!manager, Pair!locals
  <2>2. CASE Pair!Passcode \/ Pair!ShowDigit \/ Pair!DigitOff
    BY <1>0, <2>2 DEF Main, Pair!Passcode, Pair!ShowDigit, Pair!DigitOff, Pair!Goto,
       Pair!PCs, Pair!Asleep, Pair!Pressed, Pair!locals
  <2>3. CASE Pair!NextDigit \/ Pair!Shown \/ Pair!Complete
    BY <1>0, <2>3 DEF Main, Pair!NextDigit, Pair!Shown, Pair!Complete, Pair!Goto,
       Pair!PCs, Pair!Asleep, Pair!Pressed, Pair!locals
  <2>4. CASE Pair!Ticked \/ Pair!Wait
    BY <1>0, <2>4 DEF Main, Pair!Ticked, Pair!Wait, Pair!Goto,
       Pair!PCs, Pair!Asleep, Pair!Pressed, Pair!locals
  <2> QED
    BY <2>1, <2>2, <2>3, <2>4 DEF Pair!pairingMode
<1>5. FlagTypes'
  BY DEF Pair!Enter, Pair!pairingMode, Pair!Request, Pair!Press, Pair!Store, Pair!Passcode,
         Pair!ShowDigit, Pair!DigitOff, Pair!NextDigit, Pair!Shown, Pair!Complete, Pair!Ticked,
         Pair!Wait, Pair!history, Pair!locals, Pair!manager, FlagTypes, Pair!Flags
<1>6. Authorised'
  BY <1>1 DEF Pair!Enter, Pair!pairingMode, Pair!Request, Pair!Press, Pair!Store, Pair!Passcode,
         Pair!ShowDigit, Pair!DigitOff, Pair!NextDigit, Pair!Shown, Pair!Complete, Pair!Ticked,
         Pair!Wait, Pair!history, Pair!manager, Pair!Goto, Authorised, Pair!Showing, Pair!Pressed
<1>7. Pair!PendingIsReal'
  BY <1>1, <1>2 DEF Pair!Enter, Pair!pairingMode, Pair!Request, Pair!Press, Pair!Store,
         Pair!Passcode, Pair!ShowDigit, Pair!DigitOff, Pair!NextDigit, Pair!Shown, Pair!Complete,
         Pair!Ticked, Pair!Wait, Pair!manager, Pair!Goto, Pair!PendingIsReal, Pair!Pending,
         Pair!Pressed
<1> QED
  BY <1>3, <1>4, <1>5, <1>6, <1>7

LEMMA PairStutter == PairInv /\ UNCHANGED pairingVars => PairInv'
BY DEF pairingVars, PairInv, Authorised, Requested, Main, FlagTypes, Pair!PendingIsReal,
       Pair!Pending

LEMMA PairInvariance == DriversSpec => []PairInv
<1>1. DriversInit => PairInv
  BY PairInit, DriversAssumption DEF DriversInit
<1> DEFINE v == <<part, vars, portVars, radioVars, pairingVars>>
<1>2. PairInv /\ [DriversNext]_v => PairInv'
  <2>1. UNCHANGED v => UNCHANGED pairingVars
    OBVIOUS
  <2>2. DriversNext => UNCHANGED pairingVars \/ Pair!Next
    BY DEF DriversNext, Others
  <2> QED
    BY <2>1, <2>2, PeerStep, MainStep, PairStutter, DriversAssumption DEF Pair!Next
<1> QED
  BY <1>1, <1>2, PTL DEF DriversSpec

\* The digits that are shown are those of the passkey the button was pressed for, unless
\* another request has come since and replaced it (overtaken: MicroBitBLEManager.cpp:551),
\* and a request that is pending is somebody's, unless its answer was written over
\* (unanswered): for any digits, timeout and number of requests.
THEOREM PasskeyIsShownOnDemand == DriversSpec => []PasskeyOnDemand
<1>1. PairInv => PasskeyOnDemand
  BY DEF PairInv, Authorised, PasskeyOnDemand, Pair!PasskeyOnDemand, Pair!DigitsAuthorised,
         Pair!Showing
<1> QED
  BY <1>1, PairInvariance, PTL

-----------------------------------------------------------------------------
(* The UART service's sender.  Where the fibers are, whatever has been     *)
(* mixed: one has the processor, and its iterator is between what it has   *)
(* written and the end of its string.                                      *)

FiberTypes ==
    /\ running \in Senders \cup {None} /\ pc \in [Senders -> PCs]
    /\ running # None => pc[running] \notin {"idle", "sleep"}
    /\ \A s \in Senders : pc[s] \notin {"idle", "sleep"} => running = s
    /\ waiting \subseteq {s \in Senders : pc[s] \in {"write", "sleep"}}
    /\ call \in [Senders -> [n : Nat, len : Nat, mode : Modes]]
    /\ bytesWritten \in [Senders -> Nat] /\ i \in Nat /\ calls \in Nat
    /\ \A s \in Senders :
           /\ bytesWritten[s] <= call[s].len
           /\ pc[s] = "fill" => bytesWritten[s] <= i /\ i <= call[s].len
           /\ pc[s] = "register" \/ s \in waiting => call[s].mode = "SLEEP"

Characters == [call : Nat, at : Nat]

BufferTypes ==
    /\ tx \in Seq(Characters) /\ temp \in Seq(Characters) /\ payload \in Seq(Characters)
    /\ received \in Seq(Characters) /\ size \in 0 .. Capacity + 1
    /\ carried \in Nat /\ Len(tx) <= Capacity /\ Len(payload) <= carried
    /\ indicating => link

\* The calls that are under way have numbers of their own.
Numbered ==
    /\ \A s \in Senders : pc[s] # "idle" => call[s].n \in 1 .. calls
    /\ \A s, t \in Senders : pc[s] # "idle" /\ pc[t] # "idle" /\ call[s].n = call[t].n => s = t

\* A character comes after all earlier ones of its call, unless one was cut off.
InCall(q) ==
    /\ \A k \in 1 .. Len(q) : q[k].call \in 1 .. calls /\ q[k].at >= 1
    /\ \A j, k \in 1 .. Len(q) : j < k /\ q[j].call = q[k].call => q[j].at < q[k].at
    /\ \A k \in 1 .. Len(q) : q[k].call \notin cut =>
           \A a \in 1 .. q[k].at : \E j \in 1 .. Len(q) : q[j] = [call |-> q[k].call, at |-> a]

\* The characters of call n in q are of its first m, and all of them if none was cut off.
OfCall(q, n, m) ==
    /\ \A k \in 1 .. Len(q) : q[k].call = n => q[k].at <= m
    /\ n \notin cut => \A a \in 1 .. m : \E k \in 1 .. Len(q) : q[k] = [call |-> n, at |-> a]

\* What has been confirmed and what has not: a confirmation moves the border, and
\* drops what was not carried.
Given == received \o tx

\* What an indication that is out carries of the buffer.
Indicated == IF indicating THEN Fitting(tx) ELSE <<>>

\* As long as nothing is mixed, the fiber that fills the buffer has it to itself,
\* what is indicated is the first part of what is in the buffer, and a fiber that is
\* not waiting any more has nothing left in it.
Sending(s) ==
    /\ pc[s] # "idle" => OfCall(Given, call[s].n, bytesWritten[s])
    /\ pc[s] \in {"fill", "size", "copy", "register", "write"} => ~indicating
    /\ pc[s] = "fill" /\ Len(tx) < Capacity => i = bytesWritten[s]
    /\ pc[s] = "size" /\ tx = <<>> => size = 0
    /\ pc[s] = "copy" => size = Len(tx)
    /\ pc[s] \in {"register", "write"} => temp = tx
    /\ pc[s] = "write" /\ call[s].mode = "SLEEP" => s \in waiting
    /\ (pc[s] = "sleep" /\ s \notin waiting) \/ (pc[s] = "while" /\ call[s].mode = "SLEEP") =>
           \A k \in 1 .. Len(tx) : tx[k].call # call[s].n

Unmixed ==
    ~mixed =>
        /\ payload = Indicated
        /\ InCall(Given)
        /\ \A s \in Senders : Sending(s)

TxInv == FiberTypes /\ BufferTypes /\ Numbered /\ Unmixed

\* A first part is one that fits.
LEMMA FittingIs ==
    ASSUME NEW q \in Seq(Characters), carried \in Nat
    PROVE  /\ Fitting(q) \in Seq(Characters) /\ Len(Fitting(q)) <= carried
           /\ Len(Fitting(q)) \in Nat /\ Len(Fitting(q)) <= Len(q)
           /\ \A k \in 1 .. Len(Fitting(q)) : Fitting(q)[k] = q[k]
           /\ \A k \in 1 .. Len(q) : k \in 1 .. Len(Fitting(q)) \/ k \in carried + 1 .. Len(q)
<1> DEFINE m == IF Len(q) < carried THEN Len(q) ELSE carried
<1>1. m \in 0 .. Len(q) /\ m <= carried /\ m \in Nat /\ Len(q) \in Nat
      /\ (m < Len(q) => m = carried)
  OBVIOUS
<1> HIDE DEF m
<1>2. /\ SubSeq(q, 1, m) \in Seq(Characters) /\ Len(SubSeq(q, 1, m)) = m
      /\ \A k \in 1 .. m : SubSeq(q, 1, m)[k] = q[k]
  BY <1>1
<1>3. Fitting(q) = SubSeq(q, 1, m)
  BY DEF Fitting, m
<1> QED
  BY <1>1, <1>2, <1>3

LEMMA TxInit == Init => TxInv
<1> SUFFICES ASSUME Init PROVE TxInv
  OBVIOUS
<1> USE DEF Init
<1>1. FiberTypes
  BY NoneAssumption DEF FiberTypes, PCs, Modes
<1>2. BufferTypes
  BY CapacityAssumption, CarriesAssumption DEF BufferTypes, Characters
<1>3. Numbered
  BY DEF Numbered
<1>4. Unmixed
  <2>1. Len(Given) = 0
    BY DEF Given
  <2> QED
    BY <2>1 DEF Unmixed, InCall, Sending, Indicated
<1> QED
  BY <1>1, <1>2, <1>3, <1>4 DEF TxInv

\* The place of the one fiber that moves.
LEMMA OneMoves ==
    ASSUME FiberTypes, NEW s \in Senders, running = s \/ running = None,
           NEW l \in PCs, Goto(s, l),
           \/ l \in {"idle", "sleep"} /\ running' = None
           \/ l \notin {"idle", "sleep"} /\ running' = s,
           waiting' \subseteq waiting \cup (IF l \in {"write", "sleep"} THEN {s} ELSE {}),
           l \notin {"write", "sleep"} => s \notin waiting'
    PROVE  /\ pc' \in [Senders -> PCs] /\ running' \in Senders \cup {None}
           /\ running' # None => pc'[running'] \notin {"idle", "sleep"}
           /\ \A t \in Senders : pc'[t] \notin {"idle", "sleep"} => running' = t
           /\ waiting' \subseteq {t \in Senders : pc'[t] \in {"write", "sleep"}}
           /\ pc'[s] = l /\ \A t \in Senders \ {s} : pc'[t] = pc[t]
           /\ \A t \in Senders \ {s} : pc'[t] \in {"idle", "sleep"}
<1> USE DEF FiberTypes
<1>1. pc' = [pc EXCEPT ![s] = l] /\ pc \in [Senders -> PCs]
  BY DEF Goto
<1>2. /\ pc' \in [Senders -> PCs]
      /\ pc'[s] = l /\ \A t \in Senders \ {s} : pc'[t] = pc[t]
  BY <1>1
<1>3. \A t \in Senders \ {s} : pc[t] \in {"idle", "sleep"}
  BY NoneAssumption
<1> QED
  BY <1>2, <1>3, NoneAssumption

\* The types, action by action.
LEMMA FiberTypesStay ==
    ASSUME TxInv, Next
    PROVE  FiberTypes'
<1> USE DEF TxInv
<1>1. /\ running \in Senders \cup {None} /\ pc \in [Senders -> PCs]
      /\ call \in [Senders -> [n : Nat, len : Nat, mode : Modes]]
      /\ bytesWritten \in [Senders -> Nat] /\ i \in Nat /\ calls \in Nat
      /\ \A s \in Senders : call[s].len \in Nat /\ bytesWritten[s] \in Nat /\ bytesWritten[s] <= call[s].len
      /\ \A s \in Senders : pc[s] = "fill" => bytesWritten[s] <= i /\ i <= call[s].len
  BY DEF FiberTypes
<1>2. ASSUME NEW s \in Senders, NEW len \in Lengths, NEW m \in Modes, send(s, len, m)
      PROVE  FiberTypes'
  <2>1. /\ Goto(s, "while") /\ "while" \in PCs /\ running = None /\ running' = s
        /\ waiting' = waiting /\ pc[s] = "idle"
        /\ calls' = calls + 1 /\ i' = i
        /\ call' = [call EXCEPT ![s] = [n |-> calls + 1, len |-> len, mode |-> m]]
        /\ bytesWritten' = [bytesWritten EXCEPT ![s] = 0]
    BY <1>2 DEF send, PCs, locals
  <2>2. s \notin waiting'
    BY <2>1 DEF FiberTypes
  <2>3. len \in Nat
    BY LengthsAssumption
  <2>4. /\ call' \in [Senders -> [n : Nat, len : Nat, mode : Modes]]
        /\ bytesWritten' \in [Senders -> Nat]
        /\ call'[s].len = len /\ bytesWritten'[s] = 0
        /\ \A t \in Senders \ {s} : call'[t] = call[t] /\ bytesWritten'[t] = bytesWritten[t]
    BY <1>1, <2>1, <2>3
  <2>5. \A t \in Senders : /\ bytesWritten'[t] <= call'[t].len
                           /\ pc'[t] = "fill" => bytesWritten'[t] <= i' /\ i' <= call'[t].len
    BY <1>1, <2>1, <2>3, <2>4 DEF Goto
  <2>6. \A t \in Senders : pc'[t] = "register" \/ t \in waiting' => call'[t].mode = "SLEEP"
    BY <1>1, <2>1, <2>2, <2>4 DEF Goto, FiberTypes
  <2> QED
    BY <1>1, <2>1, <2>2, <2>4, <2>5, <2>6, OneMoves DEF FiberTypes
<1>3. ASSUME NEW s \in Senders, Fill(s)
      PROVE  FiberTypes'
  <2>1. /\ UNCHANGED <<waiting, running, pc, call, calls>>
        /\ i' = i + 1 /\ i < call[s].len /\ pc[s] = "fill" /\ running = s
        /\ bytesWritten' \in {bytesWritten, [bytesWritten EXCEPT ![s] = @ + 1]}
    BY <1>3 DEF Fill, At
  <2>2. \A t \in Senders \ {s} : pc[t] # "fill" /\ bytesWritten'[t] = bytesWritten[t]
    BY <1>1, <2>1, NoneAssumption DEF FiberTypes
  <2>3. bytesWritten'[s] \in {bytesWritten[s], bytesWritten[s] + 1}
    BY <1>1, <2>1
  <2>4. \A t \in Senders : /\ bytesWritten'[t] <= call'[t].len
                           /\ pc'[t] = "fill" => bytesWritten'[t] <= i' /\ i' <= call'[t].len
    BY <1>1, <2>1, <2>2, <2>3
  <2>5. bytesWritten' \in [Senders -> Nat] /\ i' \in Nat
    BY <1>1, <2>1
  <2> QED
    BY <2>1, <2>4, <2>5 DEF FiberTypes
<1>4. ASSUME NEW s \in Senders,
             Return(s) \/ Enter(s) \/ IsWrapped(s) \/ txBufferedSize(s) \/ circularCopy(s)
             \/ fiber_wake_on_event(s) \/ write(s) \/ Resume(s)
      PROVE  FiberTypes'
  <2>1. PICK l \in PCs : /\ Goto(s, l)
                         /\ \/ l \in {"idle", "sleep"} /\ running' = None
                            \/ l \notin {"idle", "sleep"} /\ running' = s
                         /\ l = "fill" => i' = bytesWritten[s] /\ bytesWritten[s] < call[s].len
    BY <1>4 DEF Return, Enter, IsWrapped, txBufferedSize, circularCopy, fiber_wake_on_event, write,
       Resume, At, PCs
  <2>2. /\ running = s \/ running = None
        /\ UNCHANGED <<call, bytesWritten, calls>>
        /\ i' \in {i, bytesWritten[s], 0}
        /\ waiting' \in {waiting, waiting \cup {s}, waiting \ {s}}
    BY <1>4 DEF Return, Enter, IsWrapped, txBufferedSize, circularCopy, fiber_wake_on_event, write,
       Resume, At, locals
  <2>3. /\ waiting' \subseteq waiting \cup (IF l \in {"write", "sleep"} THEN {s} ELSE {})
        /\ l \notin {"write", "sleep"} => s \notin waiting'
    <3>1. pc'[s] = l
      BY <1>1, <2>1 DEF Goto
    <3>2. CASE Return(s) \/ Enter(s) \/ IsWrapped(s) \/ txBufferedSize(s) \/ circularCopy(s)
      BY <3>1, <3>2 DEF FiberTypes, Return, Enter, IsWrapped, txBufferedSize, circularCopy, At
    <3>3. CASE fiber_wake_on_event(s)
      BY <1>1, <3>1, <3>3 DEF fiber_wake_on_event, Goto
    <3>4. CASE write(s)
      <4>1. l \in {"sleep", "idle"} /\ waiting' = waiting /\ (l = "idle" => call[s].mode # "SLEEP")
        BY <1>1, <3>1, <3>4 DEF write, Goto
      <4> QED
        BY <4>1 DEF FiberTypes
    <3>5. CASE Resume(s)
      BY <1>1, <3>1, <3>5 DEF Resume, Goto
    <3> QED
      BY <1>4, <3>2, <3>3, <3>4, <3>5
  <2>4. /\ pc' \in [Senders -> PCs] /\ running' \in Senders \cup {None}
        /\ running' # None => pc'[running'] \notin {"idle", "sleep"}
        /\ \A t \in Senders : pc'[t] \notin {"idle", "sleep"} => running' = t
        /\ waiting' \subseteq {t \in Senders : pc'[t] \in {"write", "sleep"}}
        /\ pc'[s] = l /\ \A t \in Senders \ {s} : pc'[t] \in {"idle", "sleep"}
    BY <2>1, <2>2, <2>3, OneMoves
  <2>5. \A t \in Senders : /\ bytesWritten'[t] <= call'[t].len
                           /\ pc'[t] = "fill" => bytesWritten'[t] <= i' /\ i' <= call'[t].len
    BY <1>1, <2>1, <2>2, <2>4
  <2>6. i' \in Nat
    BY <1>1, <2>2
  <2>7. \A t \in Senders : pc'[t] = "register" \/ t \in waiting' => call'[t].mode = "SLEEP"
    <3>1. call[s].mode = "SLEEP" \/ (pc'[s] # "register" /\ s \notin waiting')
      <4>1. CASE circularCopy(s) \/ fiber_wake_on_event(s)
        BY <1>1, <2>4, <4>1 DEF FiberTypes, circularCopy, fiber_wake_on_event, Goto, At
      <4>2. CASE Return(s) \/ Enter(s) \/ IsWrapped(s) \/ txBufferedSize(s) \/ write(s) \/ Resume(s)
        BY <1>1, <2>4, <4>2 DEF FiberTypes, Return, Enter, IsWrapped, txBufferedSize, write, Resume,
           Goto, At
      <4> QED
        BY <1>4, <4>1, <4>2
    <3>2. \A t \in Senders \ {s} : t \in waiting' => t \in waiting
      BY <2>2
    <3> QED
      BY <2>2, <2>4, <3>1, <3>2 DEF FiberTypes
  <2> QED
    BY <1>1, <2>2, <2>4, <2>5, <2>6, <2>7 DEF FiberTypes
<1>5. CASE Connect \/ Disconnect \/ SetIndications \/ on_confirmation
  <2>1. UNCHANGED <<running, pc, call, bytesWritten, i, calls>> /\ waiting' \in {waiting, {}}
    BY <1>5 DEF Connect, Disconnect, SetIndications, on_confirmation, fibers, locals
  <2> QED
    BY <2>1 DEF FiberTypes
<1> QED
  BY <1>2, <1>3, <1>4, <1>5 DEF Next, Fiber

LEMMA BufferTypesStay ==
    ASSUME TxInv, Next
    PROVE  BufferTypes'
<1> USE DEF TxInv
<1>1. /\ tx \in Seq(Characters) /\ temp \in Seq(Characters) /\ payload \in Seq(Characters)
      /\ received \in Seq(Characters) /\ size \in 0 .. Capacity + 1 /\ size \in Nat
      /\ carried \in Nat /\ Len(tx) \in Nat /\ Len(tx) <= Capacity /\ Len(payload) <= carried
      /\ Capacity \in Nat /\ (indicating => link) /\ i \in Nat
  BY CapacityAssumption DEF BufferTypes, FiberTypes
<1>2. CASE Connect \/ Disconnect \/ SetIndications
  <2>1. /\ UNCHANGED <<tx, temp, received, size, carried>> /\ payload' \in {payload, <<>>}
        /\ indicating' => link'
    BY <1>1, <1>2 DEF Connect, Disconnect, SetIndications, locals, told
  <2>2. <<>> \in Seq(Characters) /\ Len(<<>>) = 0
    OBVIOUS
  <2>3. payload' \in Seq(Characters) /\ Len(payload') <= carried
    <3>1. CASE payload' = payload
      BY <1>1, <3>1
    <3>2. CASE payload' = <<>>
      BY <1>1, <2>2, <3>2
    <3> QED
      BY <2>1, <3>1, <3>2
  <2> QED
    BY <1>1, <2>1, <2>3 DEF BufferTypes
<1>3. CASE on_confirmation
  <2>1. received \o payload \in Seq(Characters) /\ <<>> \in Seq(Characters) /\ Len(<<>>) = 0
    BY <1>1
  <2>2. /\ UNCHANGED <<temp, size, carried>> /\ payload' = <<>> /\ tx' = <<>> /\ ~indicating'
        /\ received' = received \/ received' = received \o payload
    BY <1>3 DEF on_confirmation, Deliver, told, locals
  <2>3. received' \in Seq(Characters)
    BY <1>1, <2>1, <2>2
  <2> QED
    BY <1>1, <2>1, <2>2, <2>3 DEF BufferTypes
<1>4. ASSUME NEW s \in Senders, NEW len \in Lengths, NEW m \in Modes, send(s, len, m)
      PROVE  BufferTypes'
  BY <1>1, <1>4 DEF send, stack, locals, told, BufferTypes
<1>5. ASSUME NEW s \in Senders, Return(s) \/ Enter(s) \/ fiber_wake_on_event(s) \/ Resume(s)
      PROVE  BufferTypes'
  BY <1>1, <1>5 DEF Return, Enter, fiber_wake_on_event, Resume, stack, locals, told, BufferTypes
<1>6. ASSUME NEW s \in Senders, Fill(s)
      PROVE  BufferTypes'
  <2> DEFINE c == [call |-> call[s].n, at |-> i + 1]
  <2>1. c \in Characters
    BY <1>1 DEF FiberTypes, Characters
  <2>2. Append(tx, c) \in Seq(Characters) /\ Len(Append(tx, c)) = Len(tx) + 1
    BY <1>1, <2>1
  <2>3. /\ UNCHANGED <<temp, payload, received, size, indicating, link, carried>>
        /\ tx' = tx \/ (tx' = Append(tx, c) /\ Len(tx) < Capacity)
    BY <1>6 DEF Fill, HasRoom, stack, told
  <2> HIDE DEF c
  <2>4. tx' \in Seq(Characters) /\ Len(tx') <= Capacity
    <3>1. CASE tx' = tx
      BY <1>1, <3>1
    <3>2. CASE tx' = Append(tx, c) /\ Len(tx) < Capacity
      BY <1>1, <2>2, <3>2
    <3> QED
      BY <2>3, <3>1, <3>2
  <2> QED
    BY <1>1, <2>3, <2>4 DEF BufferTypes
<1>7. ASSUME NEW s \in Senders, IsWrapped(s) \/ txBufferedSize(s)
      PROVE  BufferTypes'
  <2>1. /\ UNCHANGED <<tx, temp, payload, received, indicating, link, carried>>
        /\ size' \in {0, Capacity + 1, size, Len(tx)}
    BY <1>7 DEF IsWrapped, txBufferedSize, stack, told
  <2> QED
    BY <1>1, <2>1 DEF BufferTypes
<1>8. ASSUME NEW s \in Senders, circularCopy(s)
      PROVE  BufferTypes'
  <2>1. temp' = [k \in 1 .. size |-> IF k <= Len(tx) THEN tx[k] ELSE Zero]
    BY <1>8 DEF circularCopy
  <2>2. Zero \in Characters
    BY DEF Zero, Characters
  <2>3. \A k \in 1 .. size : (IF k <= Len(tx) THEN tx[k] ELSE Zero) \in Characters
    BY <1>1, <2>2
  <2>4. temp' \in Seq(Characters)
    BY <1>1, <2>1, <2>3
  <2> QED
    BY <1>1, <1>8, <2>4 DEF circularCopy, stack, told, BufferTypes
<1>9. ASSUME NEW s \in Senders, write(s)
      PROVE  BufferTypes'
  <2>1. /\ UNCHANGED <<link, carried, tx, received>> /\ temp' = <<>> /\ size' = 0
        /\ indicating' => link
        /\ payload' \in {payload, Fitting(temp)}
    BY <1>1, <1>9 DEF write, Accepted, told
  <2>2. /\ Fitting(temp) \in Seq(Characters) /\ Len(Fitting(temp)) <= carried
        /\ <<>> \in Seq(Characters)
    BY <1>1, FittingIs
  <2>3. payload' \in Seq(Characters) /\ Len(payload') <= carried
    BY <1>1, <2>1, <2>2
  <2> QED
    BY <1>1, <2>1, <2>2, <2>3 DEF BufferTypes
<1> QED
  BY <1>2, <1>3, <1>4, <1>5, <1>6, <1>7, <1>8, <1>9 DEF Next, Fiber

LEMMA NumbersStay ==
    ASSUME TxInv, Next
    PROVE  Numbered'
<1> USE DEF TxInv, Numbered
<1>1. calls \in Nat /\ pc \in [Senders -> PCs]
      /\ call \in [Senders -> [n : Nat, len : Nat, mode : Modes]]
  BY DEF FiberTypes
<1>2. ASSUME NEW s \in Senders, NEW len \in Lengths, NEW m \in Modes, send(s, len, m)
      PROVE  Numbered'
  BY <1>1, <1>2 DEF send, Goto
<1>3. ASSUME NEW s \in Senders, Fiber(s)
      PROVE  Numbered'
  <2>1. /\ UNCHANGED <<call, calls>>
        /\ \A t \in Senders : pc'[t] # "idle" => pc[t] # "idle"
    BY <1>1, <1>3 DEF Fiber, Return, Enter, Fill, IsWrapped, txBufferedSize, circularCopy,
       fiber_wake_on_event, write, Resume, Goto, At
  <2> QED
    BY <2>1
<1>4. CASE Connect \/ Disconnect \/ SetIndications \/ on_confirmation
  BY <1>4 DEF Connect, Disconnect, SetIndications, on_confirmation, fibers
<1> QED
  BY <1>2, <1>3, <1>4 DEF Next

LEMMA GivenAt ==
    ASSUME BufferTypes
    PROVE  /\ Given \in Seq(Characters) /\ Len(Given) = Len(received) + Len(tx)
           /\ Len(received) \in Nat /\ Len(tx) \in Nat
           /\ \A k \in 1 .. Len(received) : k \in 1 .. Len(Given) /\ Given[k] = received[k]
           /\ \A k \in 1 .. Len(tx) :
                  Len(received) + k \in 1 .. Len(Given) /\ Given[Len(received) + k] = tx[k]
<1>1. received \in Seq(Characters) /\ tx \in Seq(Characters)
  BY DEF BufferTypes
<1> QED
  BY <1>1 DEF Given

\* A fiber that does not move, while the buffer stays as it is.
LEMMA OtherSends ==
    ASSUME ~mixed, Unmixed, NEW t \in Senders,
           pc[t] \in {"idle", "sleep"}, pc'[t] = pc[t],
           call'[t] = call[t], bytesWritten'[t] = bytesWritten[t],
           Given' = Given, tx' = tx, cut' = cut, t \in waiting => t \in waiting'
    PROVE  Sending(t)'
<1>1. pc[t] # "idle" => OfCall(Given, call[t].n, bytesWritten[t])
  BY DEF Unmixed, Sending
<1>2. (pc[t] # "idle" => OfCall(Given, call[t].n, bytesWritten[t]))'
  BY <1>1 DEF OfCall
<1>3. pc[t] = "sleep" /\ t \notin waiting => \A k \in 1 .. Len(tx) : tx[k].call # call[t].n
  BY DEF Unmixed, Sending
<1> QED
  BY <1>2, <1>3 DEF Sending

\* The fiber that has the processor moves, and the buffer stays as it is.
LEMMA MoverSends ==
    ASSUME TxInv, NEW s \in Senders,
           Return(s) \/ Enter(s) \/ IsWrapped(s) \/ txBufferedSize(s) \/ circularCopy(s)
           \/ fiber_wake_on_event(s) \/ write(s) \/ Resume(s)
    PROVE  Unmixed'
<1> USE DEF TxInv
<1> SUFFICES ASSUME ~mixed' PROVE Unmixed'
  BY DEF Unmixed
<1>1. /\ running \in Senders \cup {None} /\ pc \in [Senders -> PCs]
      /\ tx \in Seq(Characters) /\ Len(tx) \in Nat /\ size \in Nat
      /\ i \in Nat /\ bytesWritten[s] \in Nat
  BY DEF FiberTypes, BufferTypes
<1>2. /\ UNCHANGED <<tx, received, cut, carried, call, bytesWritten, calls>>
      /\ ~mixed /\ (Enter(s) => ~indicating)
      /\ \A t \in Senders \ {s} : pc'[t] = pc[t] /\ (t \in waiting => t \in waiting')
  <2>1. Enter(s) => ~mixed /\ ~indicating
    BY Zenon DEF Enter
  <2>2. ~Enter(s) => ~mixed
    BY DEF Return, IsWrapped, txBufferedSize, circularCopy, fiber_wake_on_event, write, Resume
  <2>3. UNCHANGED <<tx, received, cut, carried, call, bytesWritten, calls>>
    BY DEF Return, Enter, IsWrapped, txBufferedSize, circularCopy, fiber_wake_on_event, write,
       Resume, stack, told
  <2>4. \A t \in Senders \ {s} : pc'[t] = pc[t] /\ (t \in waiting => t \in waiting')
    BY <1>1 DEF Return, Enter, IsWrapped, txBufferedSize, circularCopy, fiber_wake_on_event, write,
       Resume, Goto
  <2> QED
    BY <2>1, <2>2, <2>3, <2>4
<1>3. /\ payload = Indicated
      /\ InCall(Given) /\ \A t \in Senders : Sending(t)
  BY <1>2 DEF Unmixed
<1>4. Given' = Given /\ InCall(Given)'
  <2>1. Given' = Given /\ calls' = calls /\ cut' = cut
    BY <1>2 DEF Given
  <2> QED
    BY <1>3, <2>1 DEF InCall
<1>5. \A t \in Senders \ {s} : pc[t] \in {"idle", "sleep"}
  BY <1>1, NoneAssumption DEF FiberTypes, Return, Enter, IsWrapped, txBufferedSize, circularCopy,
     fiber_wake_on_event, write, Resume, At
<1>6. \A t \in Senders \ {s} : Sending(t)'
  BY <1>2, <1>4, <1>5, OtherSends
<1>7. pc'[s] # "idle" => pc[s] # "idle"
  BY <1>1 DEF Return, Enter, IsWrapped, txBufferedSize, circularCopy, fiber_wake_on_event, write,
       Resume, Goto, At
<1>8. (pc[s] # "idle" => OfCall(Given, call[s].n, bytesWritten[s]))'
  BY <1>2, <1>3, <1>4, <1>7 DEF Sending, OfCall
<1>9. Sending(s)' /\ payload' = Indicated'
  <2>1. CASE Return(s)
    BY <1>1, <1>2, <1>3, <1>8, <2>1 DEF Return, Goto, stack, Sending, Indicated, Fitting
  <2>2. CASE Enter(s)
    BY <1>1, <1>2, <1>3, <1>8, <2>2 DEF Enter, Goto, stack, Sending, Indicated, Fitting
  <2>8. CASE IsWrapped(s)
    BY <1>1, <1>2, <1>3, <1>8, <2>8 DEF IsWrapped, Goto, At, stack, Sending, Indicated, Fitting
  <2>3. CASE txBufferedSize(s)
    BY <1>1, <1>2, <1>3, <1>8, <2>3 DEF txBufferedSize, Goto, At, stack, Sending, Indicated, Fitting
  <2>4. CASE circularCopy(s)
    <3>1. size = Len(tx) /\ ~indicating
      BY <1>3, <2>4 DEF circularCopy, At, Sending
    <3>2. temp' = [k \in 1 .. size |-> IF k <= Len(tx) THEN tx[k] ELSE Zero]
      BY <2>4 DEF circularCopy
    <3>3. temp' = tx
      BY <1>1, <3>1, <3>2
    <3>4. UNCHANGED stack /\ pc'[s] = (IF call[s].mode = "SLEEP" THEN "register" ELSE "write")
      BY <1>1, <2>4 DEF circularCopy, Goto
    <3> QED
      BY <1>2, <1>3, <1>8, <3>1, <3>3, <3>4 DEF stack, Sending, Indicated, Fitting
  <2>5. CASE fiber_wake_on_event(s)
    BY <1>1, <1>2, <1>3, <1>8, <2>5 DEF fiber_wake_on_event, Goto, At, stack, locals, Sending, Indicated, Fitting
  <2>6. CASE write(s)
    <3>1. ~indicating /\ temp = tx /\ (call[s].mode = "SLEEP" => s \in waiting)
      BY <1>3, <2>6 DEF write, At, Sending
    <3>2. /\ payload' = IF Accepted THEN Fitting(temp) ELSE payload
          /\ pc'[s] = (IF call[s].mode = "SLEEP" THEN "sleep" ELSE "idle") /\ waiting' = waiting
      BY <1>1, <2>6 DEF write, Goto
    <3>3. indicating' <=> Accepted
      BY <2>6, <3>1 DEF write
    <3>4. payload' = Indicated'
      BY <1>2, <1>3, <3>1, <3>2, <3>3 DEF Indicated, Fitting
    <3> QED
      BY <1>2, <1>8, <3>1, <3>2, <3>4 DEF Sending
  <2>7. CASE Resume(s)
    BY <1>1, <1>2, <1>3, <1>8, <2>7 DEF Resume, Goto, stack, locals, Sending, Indicated, Fitting
  <2> QED
    BY <2>1, <2>2, <2>3, <2>4, <2>5, <2>6, <2>7, <2>8
<1> QED
  BY <1>3, <1>4, <1>6, <1>9 DEF Unmixed

\* One character more is the next of its call.
LEMMA FillSends ==
    ASSUME TxInv, NEW s \in Senders, Fill(s)
    PROVE  Unmixed'
<1> USE DEF TxInv
<1> SUFFICES ASSUME ~mixed' PROVE Unmixed'
  BY DEF Unmixed
<1>1. /\ running \in Senders \cup {None} /\ pc \in [Senders -> PCs]
      /\ tx \in Seq(Characters) /\ Len(tx) \in Nat /\ Len(tx) <= Capacity /\ Capacity \in Nat
      /\ i \in Nat /\ bytesWritten \in [Senders -> Nat] /\ call[s].n \in 1 .. calls /\ calls \in Nat
  BY CapacityAssumption DEF FiberTypes, BufferTypes, Numbered, Fill, At
<1>2. /\ UNCHANGED <<stack, told, call, calls, pc, waiting>> /\ ~mixed /\ pc[s] = "fill"
      /\ i' = i + 1
  BY <1>1 DEF Fill, At
<1>3. /\ payload = Indicated
      /\ InCall(Given) /\ (\A t \in Senders : Sending(t)) /\ ~indicating
  BY <1>2 DEF Unmixed, Sending
<1>4. \A t \in Senders \ {s} : pc[t] \in {"idle", "sleep"}
  BY <1>1, NoneAssumption DEF FiberTypes, Fill, At
<1>5. payload' = Indicated'
  BY <1>2, <1>3 DEF stack, Indicated
<1>8. received' = received /\ cut' = cut /\ calls' = calls
  BY <1>2 DEF told
<1>6. CASE ~HasRoom
  <2>1. UNCHANGED <<tx, bytesWritten>>
    BY <1>6 DEF Fill
  <2>0. UNCHANGED <<received, calls, cut>>
    BY <1>8
  <2>2. Given' = Given /\ InCall(Given)'
    <3>1. Given' = Given
      BY <2>0, <2>1 DEF Given
    <3> QED
      BY <1>3, <2>0, <3>1 DEF InCall
  <2>3. \A t \in Senders \ {s} : Sending(t)'
    BY <1>2, <1>4, <2>0, <2>1, <2>2, OtherSends
  <2>4. OfCall(Given, call[s].n, bytesWritten[s])'
    BY <1>2, <1>3, <2>0, <2>1, <2>2 DEF Sending, OfCall
  <2>5. Sending(s)'
    BY <1>2, <1>3, <1>6, <2>1, <2>4 DEF Sending, HasRoom, stack
  <2> QED
    BY <1>5, <2>2, <2>3, <2>5 DEF Unmixed
<1>7. CASE HasRoom
  <2> DEFINE c == [call |-> call[s].n, at |-> i + 1]
             n == call[s].n
             L == Len(Given)
  <2>1. /\ tx' = Append(tx, c) /\ bytesWritten' = [bytesWritten EXCEPT ![s] = @ + 1]
        /\ i = bytesWritten[s]
    BY <1>2, <1>3, <1>7 DEF Fill, HasRoom, Sending
  <2>2. c.call = n /\ c.at = i + 1 /\ c \in Characters
    BY <1>1 DEF Characters
  <2>3. Given \in Seq(Characters) /\ Given' = Append(Given, c) /\ L \in Nat
    <3>1. received \in Seq(Characters) /\ received' = received
      BY <1>8 DEF BufferTypes
    <3> HIDE DEF c
    <3>2. received \o Append(tx, c) = Append(received \o tx, c)
      BY <1>1, <2>2, <3>1
    <3> QED
      BY <1>1, <2>1, <3>1, <3>2 DEF Given
  <2>4. /\ Len(Given') = L + 1 /\ Given'[L + 1] = c
        /\ \A k \in 1 .. L : Given'[k] = Given[k] /\ k \in 1 .. Len(Given')
        /\ L + 1 \in 1 .. Len(Given')
        /\ \A k \in 1 .. Len(Given') : k \in 1 .. L \/ k = L + 1
    BY <2>2, <2>3
  <2>5. /\ \A k \in 1 .. L : Given[k].call = n => Given[k].at <= i
        /\ n \notin cut => \A a \in 1 .. i : \E k \in 1 .. L : Given[k] = [call |-> n, at |-> a]
    BY <1>2, <1>3, <2>1 DEF Sending, OfCall
  <2>6. n \notin cut => \A a \in 1 .. i + 1 : \E k \in 1 .. Len(Given') : Given'[k] = [call |-> n, at |-> a]
    <3> SUFFICES ASSUME n \notin cut, NEW a \in 1 .. i + 1
                 PROVE  \E k \in 1 .. Len(Given') : Given'[k] = [call |-> n, at |-> a]
      OBVIOUS
    <3>1. CASE a \in 1 .. i
      <4>1. PICK k \in 1 .. L : Given[k] = [call |-> n, at |-> a]
        BY <2>5, <3>1
      <4> QED
        BY <2>4, <4>1
    <3>2. CASE a = i + 1
      BY <2>4, <3>2
    <3> QED
      BY <1>1, <3>1, <3>2
  <2>7. \A k \in 1 .. L : Given[k].call \in Nat /\ Given[k].at \in Nat
    <3> SUFFICES ASSUME NEW k \in 1 .. L PROVE Given[k] \in Characters
      BY DEF Characters
    <3> QED
      BY <2>3
  <2>8. InCall(Given)'
    <3>1. /\ \A k \in 1 .. L : Given[k].call \in 1 .. calls /\ Given[k].at >= 1
          /\ \A j, k \in 1 .. L : j < k /\ Given[j].call = Given[k].call => Given[j].at < Given[k].at
          /\ \A k \in 1 .. L : Given[k].call \notin cut => \A a \in 1 .. Given[k].at :
                 \E j \in 1 .. L : Given[j] = [call |-> Given[k].call, at |-> a]
      BY <1>3 DEF InCall
    <3>2. \A k \in 1 .. Len(Given') : Given'[k].call \in 1 .. calls /\ Given'[k].at >= 1
      BY <1>1, <2>2, <2>4, <3>1, SMTT(30)
    <3>3. ASSUME NEW j \in 1 .. Len(Given'), NEW k \in 1 .. Len(Given'),
                 j < k, Given'[j].call = Given'[k].call
          PROVE  Given'[j].at < Given'[k].at
      <4>1. CASE k \in 1 .. L
        BY <2>3, <2>4, <3>1, <3>3, <4>1
      <4>2. CASE k = L + 1
        <5>1. j \in 1 .. L /\ Given'[k] = c /\ Given'[j] = Given[j]
          BY <2>3, <2>4, <3>3, <4>2
        <5>2. Given[j].call = n /\ Given[j].at <= i /\ Given[j].at \in Nat
          BY <2>2, <2>5, <2>7, <3>3, <5>1
        <5> QED
          BY <1>1, <2>2, <5>1, <5>2
      <4> QED
        BY <2>4, <4>1, <4>2
    <3>4. ASSUME NEW k \in 1 .. Len(Given'), Given'[k].call \notin cut, NEW a \in 1 .. Given'[k].at
          PROVE  \E j \in 1 .. Len(Given') : Given'[j] = [call |-> Given'[k].call, at |-> a]
      <4>1. CASE k \in 1 .. L
        <5>1. PICK j \in 1 .. L : Given[j] = [call |-> Given[k].call, at |-> a]
          BY <2>4, <3>1, <3>4, <4>1
        <5> QED
          BY <2>4, <4>1, <5>1
      <4>2. CASE k = L + 1
        BY <2>2, <2>4, <2>6, <3>4, <4>2
      <4> QED
        BY <2>4, <4>1, <4>2
    <3>5. calls' = calls /\ cut' = cut
      BY <1>8
    <3> HIDE DEF c, n, L
    <3> QED
      BY <3>2, <3>3, <3>4, <3>5 DEF InCall
  <2>9. Sending(s)'
    <3>1. bytesWritten'[s] = i + 1 /\ call'[s].n = n
      BY <1>1, <1>2, <2>1
    <3>2. \A k \in 1 .. Len(Given') : Given'[k].call = n => Given'[k].at <= i + 1
      <4> HIDE DEF c, n, L
      <4>1. ASSUME NEW k \in 1 .. L, Given'[k].call = n
            PROVE  Given'[k].at <= i + 1
        BY <1>1, <2>4, <2>5, <2>7, <4>1
      <4>2. Given'[L + 1].at <= i + 1
        BY <1>1, <2>2, <2>4
      <4> QED
        BY <2>4, <4>1, <4>2
    <3>3. OfCall(Given, call[s].n, bytesWritten[s])'
      BY <1>8, <2>6, <3>1, <3>2 DEF OfCall
    <3> QED
      BY <1>2, <1>3, <3>1, <3>3 DEF Sending, stack
  <2>10. ASSUME NEW t \in Senders \ {s}
         PROVE  Sending(t)'
    <3>1. pc[t] # "idle" => call[t].n # n
      BY <1>2 DEF Numbered
    <3>2. /\ pc'[t] = pc[t] /\ call'[t] = call[t] /\ bytesWritten'[t] = bytesWritten[t]
          /\ waiting' = waiting /\ pc[t] \in {"idle", "sleep"}
      BY <1>1, <1>2, <1>4, <2>1
    <3>3. pc[t] # "idle" =>
              /\ \A k \in 1 .. L : Given[k].call = call[t].n => Given[k].at <= bytesWritten[t]
              /\ call[t].n \notin cut => \A a \in 1 .. bytesWritten[t] :
                     \E k \in 1 .. L : Given[k] = [call |-> call[t].n, at |-> a]
      BY <1>3 DEF Sending, OfCall
    <3>4. pc[t] # "idle" =>
              /\ \A k \in 1 .. Len(Given') :
                     Given'[k].call = call[t].n => Given'[k].at <= bytesWritten[t]
              /\ call[t].n \notin cut => \A a \in 1 .. bytesWritten[t] :
                     \E k \in 1 .. Len(Given') : Given'[k] = [call |-> call[t].n, at |-> a]
      <4> SUFFICES ASSUME pc[t] # "idle"
                   PROVE  /\ \A k \in 1 .. Len(Given') :
                                 Given'[k].call = call[t].n => Given'[k].at <= bytesWritten[t]
                          /\ call[t].n \notin cut => \A a \in 1 .. bytesWritten[t] :
                                 \E k \in 1 .. Len(Given') : Given'[k] = [call |-> call[t].n, at |-> a]
        OBVIOUS
      <4>1. \A k \in 1 .. Len(Given') :
                Given'[k].call = call[t].n => Given'[k].at <= bytesWritten[t]
        BY <2>2, <2>4, <3>1, <3>3
      <4>2. call[t].n \notin cut => \A a \in 1 .. bytesWritten[t] :
                \E k \in 1 .. Len(Given') : Given'[k] = [call |-> call[t].n, at |-> a]
        BY <2>4, <3>3
      <4> QED
        BY <4>1, <4>2
    <3>5. pc[t] = "sleep" /\ t \notin waiting => \A k \in 1 .. Len(tx') : tx'[k].call # call[t].n
      <4>1. pc[t] = "sleep" /\ t \notin waiting => \A k \in 1 .. Len(tx) : tx[k].call # call[t].n
        BY <1>3 DEF Sending
      <4>2. \A k \in 1 .. Len(tx') : tx'[k] = c \/ (k \in 1 .. Len(tx) /\ tx'[k] = tx[k])
        BY <1>1, <2>1, <2>2
      <4> QED
        BY <2>2, <3>1, <4>1, <4>2
    <3>6. (pc[t] # "idle" => OfCall(Given, call[t].n, bytesWritten[t]))'
      BY <1>8, <3>2, <3>4 DEF OfCall
    <3> QED
      BY <3>2, <3>5, <3>6 DEF Sending
  <2> QED
    BY <1>5, <2>8, <2>9, <2>10 DEF Unmixed
<1> QED
  BY <1>6, <1>7

\* A confirmation leaves of what has been given a first part: it loses what was not
\* carried, and the calls it loses something of are cut.
LEMMA ConfirmationGives ==
    ASSUME TxInv, ~mixed, on_confirmation
    PROVE  /\ Given' \in Seq(Characters) /\ Len(Given') \in Nat /\ Len(Given') <= Len(Given)
           /\ \A k \in 1 .. Len(Given') : k \in 1 .. Len(Given) /\ Given'[k] = Given[k]
           /\ \A k \in 1 .. Len(Given) : k \in 1 .. Len(Given') \/ Given[k].call \in cut'
           /\ cut \subseteq cut'
<1> USE DEF TxInv
<1>1. /\ indicating /\ payload = Fitting(tx)
      /\ received' = received \o Fitting(tx) /\ tx' = <<>>
      /\ cut' = cut \cup {tx[k].call : k \in carried + 1 .. Len(tx)}
  BY DEF Unmixed, Indicated, on_confirmation, Deliver
<1>2. received \in Seq(Characters) /\ tx \in Seq(Characters) /\ carried \in Nat
  BY DEF BufferTypes
<1>0. PICK q \in Seq(Characters) : q = Fitting(tx)
  BY <1>2, FittingIs
<1>3. /\ Len(q) \in Nat /\ Len(q) <= Len(tx)
      /\ \A k \in 1 .. Len(q) : q[k] = tx[k]
      /\ \A k \in 1 .. Len(tx) : k \in 1 .. Len(q) \/ k \in carried + 1 .. Len(tx)
  BY <1>0, <1>2, FittingIs
<1>4. PICK g \in Seq(Characters) : g = received \o q
  <2>1. received \o q \in Seq(Characters)
    BY <1>2
  <2> QED
    BY <2>1
<1>5. Given' = g
  <2>1. Given' = g \o <<>>
    BY <1>0, <1>1, <1>4 DEF Given
  <2>2. g \o <<>> = g
    BY <1>4
  <2> QED
    BY <2>1, <2>2
<1>6. /\ Len(g) = Len(received) + Len(q) /\ Len(received) \in Nat /\ Len(tx) \in Nat
      /\ \A k \in 1 .. Len(received) : g[k] = received[k]
      /\ \A k \in 1 .. Len(q) : g[Len(received) + k] = q[k]
  BY <1>2, <1>3, <1>4
<1>7. /\ Given \in Seq(Characters) /\ Len(Given) = Len(received) + Len(tx)
      /\ \A k \in 1 .. Len(received) : Given[k] = received[k]
      /\ \A k \in 1 .. Len(tx) : Given[Len(received) + k] = tx[k]
  BY GivenAt
<1>8. ASSUME NEW k \in 1 .. Len(g) PROVE k \in 1 .. Len(Given) /\ g[k] = Given[k]
  <2>1. CASE k \in 1 .. Len(received)
    BY <1>3, <1>6, <1>7, <2>1
  <2>2. CASE k \notin 1 .. Len(received)
    <3>1. PICK j \in 1 .. Len(q) : Len(received) + j = k
      <4>1. k - Len(received) \in 1 .. Len(q) /\ Len(received) + (k - Len(received)) = k
        BY <1>3, <1>6, <2>2
      <4> QED
        BY <4>1
    <3>2. j \in 1 .. Len(tx) /\ g[k] = q[j] /\ q[j] = tx[j]
      BY <1>3, <1>6, <3>1
    <3>3. Given[k] = tx[j] /\ k \in 1 .. Len(Given)
      BY <1>6, <1>7, <3>1, <3>2
    <3> QED
      BY <3>2, <3>3
  <2> QED
    BY <2>1, <2>2
<1>9. ASSUME NEW k \in 1 .. Len(Given), k \notin 1 .. Len(g) PROVE Given[k].call \in cut'
  <2>1. PICK j \in 1 .. Len(tx) : Len(received) + j = k
    <3>1. k - Len(received) \in 1 .. Len(tx) /\ Len(received) + (k - Len(received)) = k
      BY <1>3, <1>6, <1>7, <1>9
    <3> QED
      BY <3>1
  <2>2. j \notin 1 .. Len(q)
    BY <1>3, <1>6, <1>9, <2>1
  <2>3. Given[k] = tx[j] /\ j \in carried + 1 .. Len(tx)
    BY <1>3, <1>7, <2>1, <2>2
  <2> QED
    BY <1>1, <2>3
<1> QED
  BY <1>1, <1>3, <1>5, <1>6, <1>7, <1>8, <1>9

LEMMA PeerSends ==
    ASSUME TxInv, Connect \/ Disconnect \/ SetIndications \/ on_confirmation
    PROVE  Unmixed'
<1> USE DEF TxInv
<1>1. UNCHANGED <<fibers, locals, calls, carried>> /\ mixed' = mixed
  BY DEF Connect, Disconnect, SetIndications, on_confirmation
<1> SUFFICES ASSUME ~mixed PROVE Unmixed'
  BY <1>1 DEF Unmixed
<1>2. /\ payload = Indicated
      /\ InCall(Given) /\ (\A t \in Senders : Sending(t))
  BY DEF Unmixed
<1>3. CASE Connect \/ Disconnect \/ SetIndications
  <2>1. /\ UNCHANGED <<tx, received, cut, waiting, pc, call, bytesWritten, i, size, temp, calls>>
        /\ indicating' => indicating
    BY <1>3 DEF Connect, Disconnect, SetIndications, fibers, locals, told
  <2>2. payload' = Indicated'
    BY <1>1, <1>2, <1>3 DEF Connect, Disconnect, SetIndications, Indicated, Fitting
  <2>3. Given' = Given
    BY <2>1 DEF Given
  <2>4. InCall(Given)'
    BY <1>2, <2>1, <2>3 DEF InCall
  <2>5. ASSUME NEW t \in Senders PROVE Sending(t)'
    <3>1. (pc[t] # "idle" => OfCall(Given, call[t].n, bytesWritten[t]))'
      BY <1>2, <2>1, <2>3 DEF Sending, OfCall
    <3> QED
      BY <1>2, <2>1, <3>1 DEF Sending
  <2> QED
    BY <2>2, <2>4, <2>5 DEF Unmixed
<1>4. CASE on_confirmation
  <2>1. /\ UNCHANGED <<pc, call, bytesWritten, i, size, temp, calls>>
        /\ indicating /\ ~indicating' /\ payload' = <<>> /\ tx' = <<>> /\ waiting' = {}
    BY <1>4 DEF on_confirmation, fibers, locals
  <2>2. PICK g \in Seq(Characters) : g = Given' /\ Len(g) \in Nat /\ Len(g) <= Len(Given)
    BY <1>4, ConfirmationGives
  <2>3. /\ \A k \in 1 .. Len(g) : k \in 1 .. Len(Given) /\ g[k] = Given[k]
        /\ \A k \in 1 .. Len(Given) : k \in 1 .. Len(g) \/ Given[k].call \in cut'
        /\ cut \subseteq cut'
    BY <1>4, <2>2, ConfirmationGives
  <2>4. InCall(Given)'
    <3>1. /\ \A k \in 1 .. Len(g) : g[k].call \in 1 .. calls /\ g[k].at >= 1
          /\ \A j, k \in 1 .. Len(g) : j < k /\ g[j].call = g[k].call => g[j].at < g[k].at
      BY <1>2, <2>3 DEF InCall
    <3>2. ASSUME NEW k \in 1 .. Len(g), g[k].call \notin cut', NEW a \in 1 .. g[k].at
          PROVE  \E j \in 1 .. Len(g) : g[j] = [call |-> g[k].call, at |-> a]
      <4>1. k \in 1 .. Len(Given) /\ Given[k].call \notin cut /\ a \in 1 .. Given[k].at
        BY <2>3, <3>2
      <4>2. PICK j \in 1 .. Len(Given) : Given[j] = [call |-> g[k].call, at |-> a]
        BY <1>2, <2>3, <4>1 DEF InCall
      <4>3. j \in 1 .. Len(g)
        BY <2>3, <3>2, <4>2
      <4> QED
        BY <2>3, <4>2, <4>3
    <3> QED
      BY <2>1, <2>2, <3>1, <3>2 DEF InCall
  <2>5. ASSUME NEW t \in Senders PROVE Sending(t)'
    <3>1. ASSUME pc[t] # "idle" PROVE OfCall(Given, call[t].n, bytesWritten[t])'
      <4>1. PICK n \in Nat, m \in Nat : n = call[t].n /\ m = bytesWritten[t]
        BY DEF FiberTypes
      <4>2. /\ \A k \in 1 .. Len(Given) : Given[k].call = n => Given[k].at <= m
            /\ n \notin cut =>
                   \A a \in 1 .. m : \E k \in 1 .. Len(Given) : Given[k] = [call |-> n, at |-> a]
        BY <1>2, <3>1, <4>1 DEF Sending, OfCall
      <4>3. \A k \in 1 .. Len(g) : g[k].call = n => g[k].at <= m
        BY <2>3, <4>2
      <4>4. ASSUME n \notin cut', NEW a \in 1 .. m
            PROVE  \E k \in 1 .. Len(g) : g[k] = [call |-> n, at |-> a]
        <5>1. PICK k \in 1 .. Len(Given) : Given[k] = [call |-> n, at |-> a]
          BY <2>3, <4>2, <4>4
        <5>2. k \in 1 .. Len(g)
          BY <2>3, <4>4, <5>1
        <5> QED
          BY <2>3, <5>1, <5>2
      <4> QED
        BY <2>1, <2>2, <4>1, <4>3, <4>4 DEF OfCall
    <3>2. pc[t] \notin {"fill", "size", "copy", "register", "write"}
      BY <1>2, <2>1 DEF Sending
    <3>3. Len(tx') = 0
      BY <2>1
    <3> QED
      BY <2>1, <3>1, <3>2, <3>3 DEF Sending
  <2>6. payload' = Indicated'
    BY <2>1 DEF Indicated
  <2> QED
    BY <2>4, <2>5, <2>6 DEF Unmixed
<1> QED
  BY <1>3, <1>4

LEMMA CallSends ==
    ASSUME TxInv, NEW s \in Senders, NEW len \in Lengths, NEW m \in Modes, send(s, len, m)
    PROVE  Unmixed'
<1> USE DEF TxInv
<1>1. mixed' = mixed
  BY DEF send
<1> SUFFICES ASSUME ~mixed PROVE Unmixed'
  BY <1>1 DEF Unmixed
<1>2. /\ payload = Indicated
      /\ InCall(Given) /\ (\A t \in Senders : Sending(t))
  BY DEF Unmixed
<1>3. /\ UNCHANGED <<tx, received, cut, carried, waiting, payload, indicating>>
      /\ running = None /\ calls' = calls + 1 /\ calls \in Nat
      /\ pc'[s] = "while" /\ call'[s].n = calls + 1 /\ bytesWritten'[s] = 0
      /\ \A t \in Senders \ {s} :
             pc'[t] = pc[t] /\ call'[t] = call[t] /\ bytesWritten'[t] = bytesWritten[t]
  BY DEF send, Goto, stack, told, FiberTypes
<1>4. Given' = Given /\ payload' = Indicated'
  BY <1>2, <1>3 DEF Given, Indicated, Fitting
<1>5. InCall(Given)'
  <2>1. \A k \in 1 .. Len(Given) : Given[k].call \in 1 .. calls + 1
    BY <1>2, <1>3 DEF InCall
  <2> QED
    BY <1>2, <1>3, <1>4, <2>1 DEF InCall
<1>6. ASSUME NEW t \in Senders \ {s} PROVE Sending(t)'
  <2>1. pc[t] \in {"idle", "sleep"}
    BY <1>3, NoneAssumption DEF FiberTypes
  <2> QED
    BY <1>3, <1>4, <2>1, OtherSends
<1>7. Sending(s)'
  <2>1. \A k \in 1 .. Len(Given) : Given[k].call # calls + 1
    BY <1>2, <1>3 DEF InCall
  <2>2. OfCall(Given, call[s].n, bytesWritten[s])'
    BY <1>3, <1>4, <2>1 DEF OfCall
  <2>3. \A k \in 1 .. Len(tx) : tx[k].call # calls + 1
    BY <2>1, GivenAt
  <2> QED
    BY <1>3, <2>2, <2>3 DEF Sending
<1> QED
  BY <1>4, <1>5, <1>6, <1>7 DEF Unmixed

LEMMA TxStep == TxInv /\ Next => TxInv'
<1> SUFFICES ASSUME TxInv, Next PROVE TxInv'
  OBVIOUS
<1>1. Unmixed'
  BY PeerSends, CallSends, FillSends, MoverSends DEF Next, Fiber
<1> QED
  BY <1>1, FiberTypesStay, BufferTypesStay, NumbersStay DEF TxInv

LEMMA TxStutter == TxInv /\ UNCHANGED vars => TxInv'
<1> SUFFICES ASSUME TxInv, UNCHANGED vars PROVE TxInv'
  OBVIOUS
<1>1. UNCHANGED <<link, indicating, payload, tx, waiting, running, pc, call, bytesWritten,
                  i, size, temp, calls, received, cut, carried, mixed>>
  BY DEF vars, stack, told, fibers, locals
<1>2. FiberTypes' /\ BufferTypes' /\ Numbered'
  BY <1>1 DEF TxInv, FiberTypes, BufferTypes, Numbered
<1>3. Unmixed'
  <2>1. mixed' = mixed
    BY <1>1
  <2> SUFFICES ASSUME ~mixed PROVE Unmixed'
    BY <2>1 DEF Unmixed
  <2>2. /\ payload = Indicated
        /\ InCall(Given) /\ (\A t \in Senders : Sending(t))
    BY DEF Unmixed, TxInv
  <2>3. Given' = Given /\ payload' = Indicated'
    BY <1>1, <2>2 DEF Given, Indicated, Fitting
  <2>4. InCall(Given)'
    BY <1>1, <2>2, <2>3 DEF InCall
  <2>5. ASSUME NEW t \in Senders PROVE Sending(t)'
    <3>1. OfCall(Given, call[t].n, bytesWritten[t]) => OfCall(Given, call[t].n, bytesWritten[t])'
      BY <1>1, <2>3 DEF OfCall
    <3> QED
      BY <1>1, <2>2, <3>1 DEF Sending
  <2> QED
    BY <2>3, <2>4, <2>5 DEF Unmixed
<1> QED
  BY <1>2, <1>3 DEF TxInv

LEMMA TxInvariance == DriversSpec => []TxInv
<1>1. DriversInit => TxInv
  BY TxInit DEF DriversInit
<1> DEFINE v == <<part, vars, portVars, radioVars, pairingVars>>
<1>2. TxInv /\ [DriversNext]_v => TxInv'
  <2>1. UNCHANGED v => UNCHANGED vars
    OBVIOUS
  <2>2. DriversNext => UNCHANGED vars \/ Next
    BY DEF DriversNext, Others
  <2> QED
    BY <2>1, <2>2, TxStep, TxStutter
<1> QED
  BY <1>1, <1>2, PTL DEF DriversSpec

LEMMA TxDelivers ==
    ASSUME TxInv
    PROVE  InOrder /\ SyncIsReceived
<1> USE DEF TxInv
<1>1. InOrder
  <2> SUFFICES ASSUME ~mixed PROVE InOrder
    BY DEF InOrder
  <2>1. InCall(Given)
    BY DEF Unmixed
  <2>2. /\ \A k \in 1 .. Len(received) : received[k].call \in 1 .. calls /\ received[k].at >= 1
        /\ \A j, k \in 1 .. Len(received) :
               j < k /\ received[j].call = received[k].call => received[j].at < received[k].at
    BY <2>1, GivenAt DEF InCall
  <2>3. ASSUME NEW n \in 1 .. calls \ cut, NEW a \in Confirmed(n), NEW b \in 1 .. a
        PROVE  b \in Confirmed(n)
    <3>1. PICK k \in 1 .. Len(received) : received[k].call = n /\ received[k].at = a
      BY DEF Confirmed
    <3>2. /\ received \in Seq(Characters) /\ Len(received) \in Nat /\ Len(tx) \in Nat
          /\ Len(Given) = Len(received) + Len(tx)
          /\ k \in 1 .. Len(Given) /\ Given[k] = received[k]
      BY <3>1, GivenAt DEF BufferTypes
    <3>3. PICK j \in 1 .. Len(Given) : Given[j] = [call |-> n, at |-> b]
      BY <2>1, <3>1, <3>2 DEF InCall
    <3>4. a \in Nat
      <4>1. received[k] \in Characters
        BY <3>1, <3>2
      <4> QED
        BY <3>1, <4>1 DEF Characters
    <3>5. j <= k
      <4>1. CASE k < j
        <5>1. Given[k].at < Given[j].at
          BY <2>1, <3>1, <3>2, <3>3, <4>1 DEF InCall
        <5> QED
          BY <3>1, <3>2, <3>3, <3>4, <5>1
      <4> QED
        BY <3>2, <4>1
    <3>6. j \in 1 .. Len(received) /\ Given[j] = received[j]
      BY <3>2, <3>5, GivenAt
    <3> QED
      BY <3>3, <3>6 DEF Confirmed
  <2> QED
    BY <2>2, <2>3 DEF InOrder
<1>2. SyncIsReceived
  <2> SUFFICES ASSUME NEW s \in Senders, ~mixed, pc[s] = "while", call[s].mode = "SLEEP",
                      call[s].n \notin cut
               PROVE  Confirmed(call[s].n) = 1 .. bytesWritten[s]
    BY DEF SyncIsReceived
  <2>1. /\ OfCall(Given, call[s].n, bytesWritten[s])
        /\ \A k \in 1 .. Len(tx) : tx[k].call # call[s].n
        /\ InCall(Given)
    BY DEF Unmixed, Sending
  <2>2. /\ received \in Seq(Characters) /\ Len(received) \in Nat /\ Len(tx) \in Nat
        /\ Len(Given) = Len(received) + Len(tx) /\ bytesWritten[s] \in Nat
    BY GivenAt DEF BufferTypes, FiberTypes
  <2>3. ASSUME NEW a \in Confirmed(call[s].n) PROVE a \in 1 .. bytesWritten[s]
    <3>1. PICK k \in 1 .. Len(received) : received[k].call = call[s].n /\ received[k].at = a
      BY DEF Confirmed
    <3>2. k \in 1 .. Len(Given) /\ Given[k] = received[k] /\ a \in Nat
      <4>1. received[k] \in Characters
        BY <2>2, <3>1
      <4>2. a \in Nat
        BY <3>1, <4>1 DEF Characters
      <4> QED
        BY <3>1, <4>2, GivenAt
    <3>3. a <= bytesWritten[s] /\ a >= 1
      BY <2>1, <3>1, <3>2 DEF OfCall, InCall
    <3> QED
      BY <2>2, <3>2, <3>3
  <2>4. ASSUME NEW a \in 1 .. bytesWritten[s] PROVE a \in Confirmed(call[s].n)
    <3>1. PICK k \in 1 .. Len(Given) : Given[k] = [call |-> call[s].n, at |-> a]
      BY <2>1 DEF OfCall
    <3>2. k \in 1 .. Len(received)
      <4>1. ASSUME ~(k \in 1 .. Len(received)) PROVE FALSE
        <5>1. k - Len(received) \in 1 .. Len(tx)
          BY <2>2, <4>1
        <5>2. Given[Len(received) + (k - Len(received))] = tx[k - Len(received)]
          BY <5>1, GivenAt
        <5>3. Len(received) + (k - Len(received)) = k
          BY <2>2
        <5> QED
          BY <2>1, <3>1, <5>1, <5>2, <5>3
      <4> QED
        BY <4>1
    <3>3. received[k] = [call |-> call[s].n, at |-> a]
      BY <3>1, <3>2, GivenAt
    <3> QED
      BY <3>2, <3>3 DEF Confirmed
  <2> QED
    BY <2>3, <2>4
<1> QED
  BY <1>1, <1>2

-----------------------------------------------------------------------------
(* The serial port.  As long as the size is the buffer's, or the interrupt *)
(* has not come since it was set, the ring holds what was accepted and is  *)
(* not yet on the wire; otherwise what was sent is still a first part of   *)
(* what was accepted.                                                      *)

PortTypes ==
    /\ txBuffSize \in {x + 1 : x \in Sizes} /\ txBuffHead \in Nat /\ txBuffTail \in Nat
    /\ txBuff \in Seq(Characters) /\ accepted \in Seq(Characters) /\ wire \in Seq(Characters)
    /\ initialised \in BOOLEAN /\ txInUse \in BOOLEAN /\ attached \in BOOLEAN /\ stray \in BOOLEAN
    /\ turn \in Senders \cup {None} /\ queue \in [Senders -> {"run", "wait", "sleep"}]
    /\ at \in [Senders -> Port!PCs] /\ forgotten \subseteq Senders
    /\ order \in [Senders -> [n : Nat, len : Nat, mode : Port!Modes, one : BOOLEAN]]
    /\ written \in [Senders -> Nat] /\ copiedBytes \in [Senders -> Nat] /\ ordered \in Nat

\* One fiber at a time is in a call.
OneCaller ==
    /\ \A s \in Senders : at[s] # "idle" => txInUse
    /\ \A s, t \in Senders : at[s] # "idle" /\ at[t] # "idle" => s = t

Allocated ==
    /\ ~initialised => /\ txBuff = <<>> /\ txBuffHead = 0 /\ txBuffTail = 0
                       /\ accepted = <<>> /\ wire = <<>>
    /\ initialised => /\ txBuffHead < Len(txBuff)
                      /\ Len(txBuff) = txBuffSize \/ \E s \in Senders : at[s] = "resize"
    /\ \A s \in Senders : at[s] \notin {"idle", "resize"} => initialised

SentFirst ==
    /\ Len(wire) <= Len(accepted)
    /\ \A k \in 1 .. Len(wire) : wire[k] = accepted[k]

\* How many characters lie between two places of a ring of m, and the k-th place.
Between(t, h, m) == IF t > h THEN m - t + h ELSE h - t
Cell(t, k, m) == IF t + k - 1 < m THEN t + k ELSE t + k - m

\* The n characters from the place t on are those that were accepted after the first w.
Holds(t, n, w) ==
    /\ Len(accepted) = w + n
    /\ \A k \in 1 .. n : txBuff[Cell(t, k, Len(txBuff))] = accepted[w + k]

Ring ==
    initialised /\ ~(stray /\ Len(txBuff) # txBuffSize) =>
        /\ txBuffTail < Len(txBuff)
        /\ Holds(txBuffTail, Between(txBuffTail, txBuffHead, Len(txBuff)), Len(wire))

\* The first m characters of call n are in q.
Has(q, n, m) == \A a \in 1 .. m : \E k \in 1 .. Len(q) : q[k] = [call |-> n, at |-> a]

\* What a fiber's call has copied was accepted, at the end; in mode SPIN it is
\* on the wire after each round.
Copied(s) ==
    /\ written[s] + copiedBytes[s] <= order[s].len
    /\ at[s] \in {"idle", "resize"} => written[s] = 0
    /\ at[s] \notin {"copy", "register", "attach"} => copiedBytes[s] = 0
    /\ Has(accepted, order[s].n, written[s] + copiedBytes[s])
    /\ written[s] + copiedBytes[s] > 0 =>
           /\ Len(accepted) > 0
           /\ accepted[Len(accepted)] = [call |-> order[s].n, at |-> written[s] + copiedBytes[s]]
    /\ at[s] = "loop" /\ order[s].mode = "SPIN" => Has(wire, order[s].n, written[s])

PortInv ==
    /\ PortTypes /\ OneCaller /\ Allocated /\ SentFirst /\ Ring
    /\ \A s \in Senders : Copied(s)
    /\ Port!OneAtATime /\ Port!SpinMeansSent

LEMMA PortInit == Port!ConstantsOK /\ Port!Init => PortInv
<1> SUFFICES ASSUME Port!ConstantsOK, Port!Init PROVE PortInv
  OBVIOUS
<1> DEFINE none == [n |-> 0, len |-> 0, mode |-> "ASYNC", one |-> FALSE]
<1>1. none \in [n : Nat, len : Nat, mode : Port!Modes, one : BOOLEAN]
  BY DEF Port!Modes
<1> HIDE DEF none
<1>2. order = [s \in Senders |-> none]
  BY DEF Port!Init, Port!NoCall, none
<1>3. PortTypes
  <2>1. txBuffSize \in {x + 1 : x \in Sizes}
    BY DEF Port!Init
  <2>2. order \in [Senders -> [n : Nat, len : Nat, mode : Port!Modes, one : BOOLEAN]]
    BY <1>1, <1>2
  <2>3. at \in [Senders -> Port!PCs]
    BY DEF Port!Init, Port!PCs
  <2>4. txBuff = <<>> /\ accepted = <<>> /\ wire = <<>>
    BY DEF Port!Init
  <2>5. txBuff \in Seq(Characters) /\ accepted \in Seq(Characters) /\ wire \in Seq(Characters)
    BY <2>4
  <2>6. /\ txBuffHead = 0 /\ txBuffTail = 0 /\ initialised = FALSE /\ txInUse = FALSE
        /\ attached = FALSE /\ stray = FALSE /\ turn = None /\ forgotten = {} /\ ordered = 0
        /\ queue = [f \in Senders |-> "run"]
        /\ written = [f \in Senders |-> 0] /\ copiedBytes = [f \in Senders |-> 0]
    BY DEF Port!Init
  <2> QED
    BY <2>1, <2>2, <2>3, <2>5, <2>6 DEF PortTypes
<1>4. OneCaller /\ Allocated /\ SentFirst /\ Ring
  BY DEF OneCaller, Allocated, SentFirst, Ring, Port!Init
<1>5. ASSUME NEW s \in Senders PROVE Copied(s)
  <2>1. written[s] = 0 /\ copiedBytes[s] = 0 /\ at[s] = "idle" /\ order[s] = none
    BY <1>2 DEF Port!Init
  <2>2. none.len = 0
    BY DEF none
  <2> QED
    BY <2>1, <2>2 DEF Copied, Has
<1>6. Port!OneAtATime /\ Port!SpinMeansSent
  BY DEF Port!OneAtATime, Port!SpinMeansSent, Port!Init
<1> QED
  BY <1>3, <1>4, <1>5, <1>6 DEF PortInv

\* What the remainder of an index is that passes the end at most once.
LEMMA Wrapped ==
    ASSUME NEW m \in Nat, m > 0, NEW x \in 0 .. m
    PROVE  x % m = IF x < m THEN x ELSE 0
<1>1. CASE x < m
  BY <1>1
<1>2. CASE x = m
  BY <1>2
<1> QED
  BY <1>1, <1>2

\* The actions that leave the buffer and what was sent as they are.
PortKeeps == UNCHANGED <<txBuff, txBuffSize, txBuffHead, txBuffTail, initialised, stray,
                     accepted, wire, ordered>>

PortQuiet ==
    \/ Port!Tick
    \/ \E f \in Senders : \/ Port!Dispatch(f) \/ Port!Yield(f) \/ Port!CopyEnd(f)
                          \/ Port!Register(f) \/ Port!Attach(f) \/ Port!Spin(f)
                          \/ Port!Sleep(f) \/ Port!Again(f) \/ Port!Return(f)

LEMMA QuietKeeps == PortQuiet => PortKeeps
BY DEF PortQuiet, PortKeeps, Port!Tick, Port!Dispatch, Port!Yield, Port!CopyEnd, Port!Register,
       Port!Attach, Port!Spin, Port!Sleep, Port!Again, Port!Return, Port!ring, Port!locals,
       Port!history

LEMMA PortActions ==
    Port!Next => \/ Port!dataWritten
                 \/ \E f \in Senders :
                        \/ \E len \in PortLengths, m \in Port!Modes, one \in BOOLEAN :
                               Port!send(f, len, m, one)
                        \/ \E x \in Sizes : Port!setTxBufferSize(f, x)
                        \/ Port!clearTxBuffer(f)
                        \/ Port!Copy(f) \/ Port!Resize(f)
                 \/ PortQuiet
BY DEF Port!Next, Port!Call, Port!Step, PortQuiet

LEMMA PortTypesStay == Port!ConstantsOK /\ PortInv /\ Port!Next => PortTypes'
<1> SUFFICES ASSUME Port!ConstantsOK, PortInv, Port!Next PROVE PortTypes'
  OBVIOUS
<1> USE DEF PortInv
<1>1. /\ Sizes \subseteq 1 .. 254 /\ PortLengths \subseteq Nat \ {0}
  BY DEF Port!ConstantsOK
<1>2. /\ txBuffSize \in Nat /\ txBuffSize > 1
  <2>1. PICK x \in Sizes : txBuffSize = x + 1
    BY DEF PortTypes
  <2> QED
    BY <1>1, <2>1
<1>3. Port!After(txBuffTail) \in Nat /\ Port!After(txBuffHead) \in Nat
  BY <1>2 DEF PortTypes, Port!After
<1>4. CASE Port!dataWritten
  <2>1. /\ txBuffTail' \in Nat /\ attached' \in BOOLEAN /\ stray' \in BOOLEAN
        /\ UNCHANGED <<txBuff, txBuffSize, txBuffHead, initialised, txInUse, turn, at, order,
                       written, copiedBytes, ordered, accepted>>
    BY <1>3, <1>4 DEF Port!dataWritten, PortTypes, Port!locals
  <2>2. wire' \in Seq(Characters)
    <3>1. txBuffTail < Len(txBuff) /\ txBuffTail + 1 \in 1 .. Len(txBuff)
      BY <1>4 DEF Ring, PortTypes, Port!dataWritten
    <3>2. txBuff[txBuffTail + 1] \in Characters
      BY <3>1 DEF PortTypes
    <3>3. wire' = Append(wire, txBuff[txBuffTail + 1])
      BY <1>4, <3>1 DEF Port!dataWritten
    <3> QED
      BY <3>2, <3>3 DEF PortTypes
  <2>3. queue' \in [Senders -> {"run", "wait", "sleep"}] /\ forgotten' \subseteq Senders
    BY <1>4 DEF Port!dataWritten, Port!Woken, PortTypes
  <2> QED
    BY <2>1, <2>2, <2>3 DEF PortTypes
<1>5. ASSUME NEW f \in Senders, NEW len \in PortLengths, NEW m \in Port!Modes,
             NEW one \in BOOLEAN, Port!send(f, len, m, one)
      PROVE  PortTypes'
  <2>1. /\ turn' = f /\ ordered' = ordered + 1 /\ txInUse' = TRUE
        /\ at' = [at EXCEPT ![f] = "copy"]
        /\ order' = [order EXCEPT ![f] = [n |-> ordered + 1, len |-> len, mode |-> m, one |-> one]]
        /\ UNCHANGED <<attached, queue, written, copiedBytes, accepted, wire, forgotten, stray>>
    BY <1>5 DEF Port!send, Port!Calls, Port!Goto
  <2>2. /\ txBuffSize' = txBuffSize /\ txBuffHead' \in Nat /\ txBuffTail' \in Nat
        /\ initialised' = TRUE
    BY <1>5 DEF Port!send, Port!initialiseTx, Port!ring, PortTypes
  <2>3. txBuff' \in Seq(Characters)
    <3>1. Port!Junk \in Characters
      BY DEF Port!Junk, Characters
    <3>2. [k \in 1 .. txBuffSize |-> Port!Junk] \in Seq(Characters)
      BY <1>2, <3>1
    <3> QED
      BY <1>5, <3>2 DEF Port!send, Port!initialiseTx, Port!ring, PortTypes
  <2>4. order' \in [Senders -> [n : Nat, len : Nat, mode : Port!Modes, one : BOOLEAN]]
    <3> DEFINE new == [n |-> ordered + 1, len |-> len, mode |-> m, one |-> one]
    <3>1. new \in [n : Nat, len : Nat, mode : Port!Modes, one : BOOLEAN]
      <4>1. ordered + 1 \in Nat /\ len \in Nat
        BY <1>1 DEF PortTypes
      <4> QED
        BY <4>1
    <3>2. order' = [order EXCEPT ![f] = new]
      BY <2>1
    <3> HIDE DEF new
    <3> QED
      BY <3>1, <3>2 DEF PortTypes
  <2>5. at' \in [Senders -> Port!PCs]
    BY <2>1 DEF PortTypes, Port!PCs
  <2> QED
    BY <2>1, <2>2, <2>3, <2>4, <2>5 DEF PortTypes
<1>6. ASSUME NEW f \in Senders, NEW x \in Sizes, Port!setTxBufferSize(f, x)
      PROVE  PortTypes'
  <2>1. /\ turn' = f /\ ordered' = ordered + 1 /\ txInUse' = TRUE /\ txBuffSize' = x + 1
        /\ at' = [at EXCEPT ![f] = "resize"] /\ stray' = FALSE
        /\ UNCHANGED <<txBuff, txBuffHead, txBuffTail, initialised, attached, queue, order,
                       written, copiedBytes, accepted, wire, forgotten>>
    BY <1>6 DEF Port!setTxBufferSize, Port!Calls, Port!Goto, Port!locals
  <2>2. at' \in [Senders -> Port!PCs]
    BY <2>1 DEF PortTypes, Port!PCs
  <2>3. txBuffSize' \in {y + 1 : y \in Sizes}
    BY <2>1
  <2>4. turn' \in Senders \cup {None} /\ ordered' \in Nat
    BY <2>1 DEF PortTypes
  <2> QED
    BY <2>1, <2>2, <2>3, <2>4 DEF PortTypes
<1>7. ASSUME NEW f \in Senders, Port!clearTxBuffer(f) PROVE PortTypes'
  <2>1. /\ turn' = f /\ ordered' = ordered + 1 /\ txBuffTail' = txBuffHead /\ accepted' = wire
        /\ forgotten' \subseteq Senders
        /\ UNCHANGED <<txBuff, txBuffSize, txBuffHead, initialised, txInUse, attached, queue, at,
                       order, written, copiedBytes, wire, stray>>
    BY <1>7 DEF Port!clearTxBuffer, Port!Calls, Port!Emptied, Port!locals, PortTypes
  <2> QED
    BY <2>1 DEF PortTypes
<1>8. ASSUME NEW f \in Senders, Port!Copy(f) PROVE PortTypes'
  <2> DEFINE char == [call |-> order[f].n, at |-> Port!Place(f)]
  <2>1. char \in Characters
    <3>1. Port!Place(f) \in Nat /\ order[f].n \in Nat
      BY DEF Port!Place, PortTypes
    <3> QED
      BY <3>1 DEF Characters
  <2>2. /\ txBuff' = [txBuff EXCEPT ![txBuffHead + 1] = char]
        /\ accepted' = Append(accepted, char) /\ txBuffHead' = Port!After(txBuffHead)
        /\ copiedBytes' = [copiedBytes EXCEPT ![f] = copiedBytes[f] + 1]
        /\ UNCHANGED <<txBuffSize, txBuffTail, initialised, txInUse, attached, turn, queue, at,
                       order, written, ordered, wire, forgotten, stray>>
    BY <1>8 DEF Port!Copy, Port!fibers
  <2> HIDE DEF char
  <2>3. txBuff' \in Seq(Characters) /\ accepted' \in Seq(Characters)
    <3>1. txBuff \in Seq(Characters) /\ accepted \in Seq(Characters)
      BY DEF PortTypes
    <3>2. txBuffHead + 1 \in 1 .. Len(txBuff)
      <4>1. at[f] = "copy"
        BY <1>8 DEF Port!Copy, Port!At
      <4>2. txBuffHead < Len(txBuff)
        BY <4>1 DEF Allocated
      <4>3. txBuffHead \in Nat /\ Len(txBuff) \in Nat
        BY <3>1 DEF PortTypes
      <4> QED
        BY <4>2, <4>3
    <3>3. txBuff' \in Seq(Characters)
      BY <2>1, <2>2, <3>1, <3>2, ExceptSeq
    <3>4. accepted' \in Seq(Characters)
      BY <2>1, <2>2, <3>1
    <3> QED
      BY <3>3, <3>4
  <2>4. copiedBytes' \in [Senders -> Nat]
    <3>1. copiedBytes \in [Senders -> Nat] /\ copiedBytes[f] + 1 \in Nat
      BY DEF PortTypes
    <3> QED
      BY <2>2, <3>1
  <2> QED
    BY <1>3, <2>2, <2>3, <2>4 DEF PortTypes
<1>9. ASSUME NEW f \in Senders, Port!Resize(f) PROVE PortTypes'
  <2>1. /\ txBuff' = [k \in 1 .. txBuffSize |-> Port!Junk] /\ txBuffHead' = 0 /\ txBuffTail' = 0
        /\ initialised' = TRUE /\ txInUse' = FALSE /\ accepted' = wire
        /\ attached' = (attached /\ ~initialised)
        /\ at' = [at EXCEPT ![f] = "idle"] /\ forgotten' \subseteq Senders
        /\ UNCHANGED <<txBuffSize, turn, queue, order, written, copiedBytes, ordered, wire, stray>>
    BY <1>9 DEF Port!Resize, Port!Emptied, Port!initialiseTx, Port!Goto, Port!locals,
                Port!fibers, PortTypes
  <2>2. txBuff' \in Seq(Characters)
    <3>1. Port!Junk \in Characters
      BY DEF Port!Junk, Characters
    <3> QED
      BY <1>2, <2>1, <3>1
  <2>3. at' \in [Senders -> Port!PCs] /\ attached' \in BOOLEAN
    BY <2>1 DEF PortTypes, Port!PCs
  <2> QED
    BY <2>1, <2>2, <2>3 DEF PortTypes
<1>10. CASE PortQuiet
  <2>1. /\ txBuff' = txBuff /\ txBuffSize' = txBuffSize /\ txBuffHead' = txBuffHead
        /\ txBuffTail' = txBuffTail /\ initialised' = initialised /\ stray' = stray
        /\ accepted' = accepted /\ wire' = wire /\ ordered' = ordered
    BY <1>10, QuietKeeps DEF PortKeeps
  <2>2. txInUse' \in BOOLEAN /\ attached' \in BOOLEAN /\ turn' \in Senders \cup {None}
    BY <1>10 DEF PortTypes, PortQuiet, Port!Tick, Port!Dispatch, Port!Yield, Port!CopyEnd,
                 Port!Register, Port!Attach, Port!Spin, Port!Sleep, Port!Again, Port!Return,
                 Port!fibers
  <2>3. queue' \in [Senders -> {"run", "wait", "sleep"}] /\ forgotten' \subseteq Senders
    BY <1>10 DEF PortTypes, PortQuiet, Port!Tick, Port!Dispatch, Port!Yield, Port!CopyEnd,
                 Port!Register, Port!Attach, Port!Spin, Port!Sleep, Port!Again, Port!Return,
                 Port!fibers, Port!history
  <2>4. at' \in [Senders -> Port!PCs]
    BY <1>10 DEF PortTypes, PortQuiet, Port!Tick, Port!Dispatch, Port!Yield, Port!CopyEnd,
                 Port!Register, Port!Attach, Port!Spin, Port!Sleep, Port!Again, Port!Return,
                 Port!Goto, Port!PCs
  <2>5. /\ written' \in [Senders -> Nat] /\ copiedBytes' \in [Senders -> Nat]
    <3>1. \/ written' = written /\ copiedBytes' = copiedBytes
          \/ \E f \in Senders :
                 /\ written' = [written EXCEPT ![f] = written[f] + copiedBytes[f]]
                 /\ copiedBytes' = [copiedBytes EXCEPT ![f] = 0]
          \/ \E f \in Senders :
                 written' = [written EXCEPT ![f] = 0] /\ copiedBytes' = copiedBytes
      BY <1>10 DEF PortQuiet, Port!Tick, Port!Dispatch, Port!Yield, Port!CopyEnd,
                   Port!Register, Port!Attach, Port!Spin, Port!Sleep, Port!Again, Port!Return,
                   Port!locals
    <3>2. written \in [Senders -> Nat] /\ copiedBytes \in [Senders -> Nat]
      BY DEF PortTypes
    <3>3. ASSUME NEW f \in Senders,
                 written' = [written EXCEPT ![f] = written[f] + copiedBytes[f]]
          PROVE  written' \in [Senders -> Nat]
      BY <3>2, <3>3
    <3>4. ASSUME NEW f \in Senders, copiedBytes' = [copiedBytes EXCEPT ![f] = 0]
          PROVE  copiedBytes' \in [Senders -> Nat]
      BY <3>2, <3>4
    <3>5. ASSUME NEW f \in Senders, written' = [written EXCEPT ![f] = 0]
          PROVE  written' \in [Senders -> Nat]
      BY <3>2, <3>5
    <3> QED
      BY <3>1, <3>2, <3>3, <3>4, <3>5
  <2>6. order' = order \/ \E f \in Senders : order' = [order EXCEPT ![f] = Port!NoCall]
    BY <1>10 DEF PortQuiet, Port!Tick, Port!Dispatch, Port!Yield, Port!CopyEnd,
                 Port!Register, Port!Attach, Port!Spin, Port!Sleep, Port!Again, Port!Return,
                 Port!locals
  <2>7. Port!NoCall \in [n : Nat, len : Nat, mode : Port!Modes, one : BOOLEAN]
    BY DEF Port!NoCall, Port!Modes
  <2>8. order' \in [Senders -> [n : Nat, len : Nat, mode : Port!Modes, one : BOOLEAN]]
    <3>1. order \in [Senders -> [n : Nat, len : Nat, mode : Port!Modes, one : BOOLEAN]]
      BY DEF PortTypes
    <3>2. ASSUME NEW f \in Senders, order' = [order EXCEPT ![f] = Port!NoCall]
          PROVE  order' \in [Senders -> [n : Nat, len : Nat, mode : Port!Modes, one : BOOLEAN]]
      BY <2>7, <3>1, <3>2
    <3> QED
      BY <2>6, <3>1, <3>2
  <2> QED
    BY <2>1, <2>2, <2>3, <2>4, <2>5, <2>8 DEF PortTypes
<1> QED
  BY <1>4, <1>5, <1>6, <1>7, <1>8, <1>9, <1>10, PortActions

LEMMA OneCallerStays == PortInv /\ Port!Next => OneCaller'
<1> SUFFICES ASSUME PortInv, Port!Next PROVE OneCaller'
  OBVIOUS
<1> USE DEF PortInv, OneCaller
<1>1. at \in [Senders -> Port!PCs]
  BY DEF PortTypes
\* A fiber begins a call that was free, ...
<1>2. ASSUME NEW f \in Senders, NEW l, ~txInUse, txInUse' = TRUE, at' = [at EXCEPT ![f] = l]
      PROVE  OneCaller'
  BY <1>1, <1>2
\* ... goes on in it, ...
<1>3. ASSUME NEW f \in Senders, NEW l, at[f] # "idle", txInUse' = txInUse,
             at' = [at EXCEPT ![f] = l]
      PROVE  OneCaller'
  BY <1>1, <1>3
\* ... or ends it.
<1>4. ASSUME NEW f \in Senders, at[f] # "idle", at' = [at EXCEPT ![f] = "idle"]
      PROVE  OneCaller'
  BY <1>1, <1>4
<1>5. CASE Port!dataWritten
  <2>1. UNCHANGED <<at, txInUse>>
    BY <1>5 DEF Port!dataWritten
  <2> QED
    BY <2>1
<1>6. ASSUME NEW f \in Senders, NEW len \in PortLengths, NEW m \in Port!Modes,
             NEW one \in BOOLEAN, Port!send(f, len, m, one)
      PROVE  OneCaller'
  <2>1. ~txInUse /\ txInUse' = TRUE /\ at' = [at EXCEPT ![f] = "copy"]
    BY <1>6 DEF Port!send, Port!Free, Port!Goto
  <2> QED
    BY <2>1, <1>2
<1>7. ASSUME NEW f \in Senders, NEW x \in Sizes, Port!setTxBufferSize(f, x) PROVE OneCaller'
  <2>1. ~txInUse /\ txInUse' = TRUE /\ at' = [at EXCEPT ![f] = "resize"]
    BY <1>7 DEF Port!setTxBufferSize, Port!Free, Port!Goto
  <2> QED
    BY <2>1, <1>2
<1>8. ASSUME NEW f \in Senders, Port!clearTxBuffer(f) PROVE OneCaller'
  <2>1. UNCHANGED <<at, txInUse>>
    BY <1>8 DEF Port!clearTxBuffer
  <2> QED
    BY <2>1
<1>9. ASSUME NEW f \in Senders, Port!Copy(f) PROVE OneCaller'
  <2>1. UNCHANGED <<at, txInUse>>
    BY <1>9 DEF Port!Copy
  <2> QED
    BY <2>1
<1>10. ASSUME NEW f \in Senders, Port!Resize(f) PROVE OneCaller'
  <2>1. at[f] = "resize" /\ at' = [at EXCEPT ![f] = "idle"]
    BY <1>10 DEF Port!Resize, Port!At, Port!Goto
  <2> QED
    BY <2>1, <1>4
<1>11. CASE PortQuiet
  <2>1. \/ UNCHANGED <<at, txInUse>>
        \/ \E f \in Senders, l \in Port!PCs :
               at[f] # "idle" /\ txInUse' = txInUse /\ at' = [at EXCEPT ![f] = l]
        \/ \E f \in Senders : at[f] # "idle" /\ at' = [at EXCEPT ![f] = "idle"]
    BY <1>11 DEF PortQuiet, Port!Tick, Port!Dispatch, Port!Yield, Port!CopyEnd,
                 Port!Register, Port!Attach, Port!Spin, Port!Sleep, Port!Again, Port!Return,
                 Port!At, Port!Goto, Port!PCs
  <2>2. CASE UNCHANGED <<at, txInUse>>
    BY <2>2
  <2> QED
    BY <2>1, <2>2, <1>3, <1>4
<1> QED
  BY <1>5, <1>6, <1>7, <1>8, <1>9, <1>10, <1>11, PortActions

\* What the quiet actions do to where a fiber is.
LEMMA QuietMoves ==
    ASSUME PortQuiet
    PROVE  \/ at' = at
           \/ \E f \in Senders, l \in Port!PCs : /\ at[f] \notin {"idle", "resize"} /\ l # "resize"
                                                 /\ at' = [at EXCEPT ![f] = l]
<1> DEFINE Moved == \E f \in Senders, l \in Port!PCs : /\ at[f] \notin {"idle", "resize"}
                                                       /\ l # "resize"
                                                       /\ at' = [at EXCEPT ![f] = l]
<1>1. ASSUME NEW f \in Senders, Port!Dispatch(f) \/ Port!Yield(f) \/ Port!CopyEnd(f)
      PROVE  at' = at \/ Moved
  BY <1>1, SMTT(30) DEF Port!Dispatch, Port!Yield, Port!CopyEnd, Port!At, Port!Goto, Port!PCs
<1>2. ASSUME NEW f \in Senders, Port!Register(f) \/ Port!Attach(f) \/ Port!Spin(f) \/ Port!Sleep(f)
      PROVE  at' = at \/ Moved
  BY <1>2, SMTT(30) DEF Port!Register, Port!Attach, Port!Spin, Port!Sleep, Port!At, Port!Goto, Port!PCs
<1>3. ASSUME NEW f \in Senders, Port!Again(f) \/ Port!Return(f)
      PROVE  at' = at \/ Moved
  BY <1>3, SMTT(30) DEF Port!Again, Port!Return, Port!At, Port!Goto, Port!PCs
<1>4. ASSUME Port!Tick
      PROVE  at' = at \/ Moved
  BY <1>4 DEF Port!Tick
<1> HIDE DEF Moved
<1>5. at' = at \/ Moved
  BY <1>1, <1>2, <1>3, <1>4 DEF PortQuiet
<1> QED
  BY <1>5 DEF Moved

LEMMA AllocatedStays == Port!ConstantsOK /\ PortInv /\ Port!Next => Allocated'
<1> SUFFICES ASSUME Port!ConstantsOK, PortInv, Port!Next PROVE Allocated'
  OBVIOUS
<1> USE DEF PortInv
<1>1. PICK x \in Sizes : txBuffSize = x + 1
  BY DEF PortTypes
<1>2. /\ txBuffSize \in Nat /\ txBuffSize > 1 /\ at \in [Senders -> Port!PCs]
      /\ txBuffHead \in Nat /\ txBuffTail \in Nat
  <2>1. x \in 1 .. 254
    BY DEF Port!ConstantsOK
  <2>2. /\ at \in [Senders -> Port!PCs] /\ txBuffHead \in Nat /\ txBuffTail \in Nat
    BY DEF PortTypes
  <2> QED
    BY <1>1, <2>1, <2>2
<1>3. CASE Port!dataWritten
  <2>1. /\ initialised /\ UNCHANGED <<txBuff, txBuffSize, txBuffHead, initialised, at>>
    BY <1>3 DEF Port!dataWritten
  <2> QED
    BY <2>1 DEF Allocated
<1>4. ASSUME NEW f \in Senders, NEW len \in PortLengths, NEW m \in Port!Modes,
             NEW one \in BOOLEAN, Port!send(f, len, m, one)
      PROVE  Allocated'
  <2>1. /\ ~txInUse /\ at' = [at EXCEPT ![f] = "copy"] /\ initialised' = TRUE
        /\ txBuffSize' = txBuffSize
        /\ \/ initialised /\ UNCHANGED <<txBuff, txBuffHead>>
           \/ txBuff' = [k \in 1 .. txBuffSize |-> Port!Junk] /\ txBuffHead' = 0
    BY <1>4 DEF Port!send, Port!Free, Port!Goto, Port!initialiseTx, Port!ring
  <2>2. ~\E s \in Senders : at[s] = "resize"
    BY <2>1 DEF OneCaller
  <2>3. txBuffHead' < Len(txBuff') /\ Len(txBuff') = txBuffSize'
    <3>1. CASE initialised /\ UNCHANGED <<txBuff, txBuffHead>>
      BY <3>1, <2>1, <2>2 DEF Allocated
    <3>2. CASE txBuff' = [k \in 1 .. txBuffSize |-> Port!Junk] /\ txBuffHead' = 0
      BY <3>2, <2>1, <1>2
    <3> QED
      BY <2>1, <3>1, <3>2
  <2> QED
    BY <2>1, <2>3 DEF Allocated
<1>5. ASSUME NEW f \in Senders, NEW y \in Sizes, Port!setTxBufferSize(f, y) PROVE Allocated'
  <2>1. /\ at' = [at EXCEPT ![f] = "resize"] /\ at[f] = "idle"
        /\ UNCHANGED <<txBuff, txBuffHead, txBuffTail, initialised, accepted, wire>>
    BY <1>5 DEF Port!setTxBufferSize, Port!Calls, Port!Goto
  <2>2. at'[f] = "resize"
    BY <1>2, <2>1
  <2>3. \A s \in Senders : at'[s] \notin {"idle", "resize"} => at[s] \notin {"idle", "resize"}
    BY <1>2, <2>1
  <2> QED
    BY <2>1, <2>2, <2>3 DEF Allocated
<1>6. ASSUME NEW f \in Senders, Port!clearTxBuffer(f) PROVE Allocated'
  <2>1. /\ accepted' = wire /\ txBuffTail' = txBuffHead
        /\ UNCHANGED <<txBuff, txBuffHead, txBuffSize, initialised, at, wire>>
    BY <1>6 DEF Port!clearTxBuffer, Port!Emptied
  <2> QED
    BY <2>1 DEF Allocated
<1>7. ASSUME NEW f \in Senders, Port!Copy(f) PROVE Allocated'
  <2>1. /\ at[f] = "copy" /\ Port!HasRoom /\ txBuffHead' = Port!After(txBuffHead)
        /\ \E char : txBuff' = [txBuff EXCEPT ![txBuffHead + 1] = char]
        /\ UNCHANGED <<txBuffSize, initialised, at>>
    BY <1>7 DEF Port!Copy, Port!At
  <2>2. initialised /\ ~\E s \in Senders : at[s] = "resize"
    BY <2>1 DEF Allocated, OneCaller
  <2>3. txBuffHead < txBuffSize /\ Len(txBuff) = txBuffSize
    BY <2>2 DEF Allocated
  <2>4. Len(txBuff') = Len(txBuff)
    BY <2>1 DEF PortTypes
  <2>5. txBuffHead' < txBuffSize
    <3>1. txBuffHead + 1 \in 0 .. txBuffSize
      BY <1>2, <2>3
    <3> QED
      BY <1>2, <2>1, <3>1, Wrapped DEF Port!After
  <2> QED
    BY <2>1, <2>2, <2>3, <2>4, <2>5 DEF Allocated
<1>8. ASSUME NEW f \in Senders, Port!Resize(f) PROVE Allocated'
  <2>1. /\ txBuff' = [k \in 1 .. txBuffSize |-> Port!Junk] /\ txBuffHead' = 0
        /\ initialised' = TRUE /\ txBuffSize' = txBuffSize
    BY <1>8 DEF Port!Resize, Port!initialiseTx
  <2>2. Len(txBuff') = txBuffSize
    BY <1>2, <2>1
  <2> QED
    BY <1>2, <2>1, <2>2 DEF Allocated
<1>9. CASE PortQuiet
  <2>1. /\ UNCHANGED <<txBuff, txBuffSize, txBuffHead, txBuffTail, initialised, accepted, wire>>
    BY <1>9, QuietKeeps DEF PortKeeps
  <2>2. \A s \in Senders : at[s] = "resize" => at'[s] = "resize"
    BY <1>2, <1>9, QuietMoves
  <2>3. \A s \in Senders : at'[s] \notin {"idle", "resize"} => at[s] \notin {"idle", "resize"}
    BY <1>2, <1>9, QuietMoves
  <2> QED
    BY <2>1, <2>2, <2>3 DEF Allocated
<1> QED
  BY <1>3, <1>4, <1>5, <1>6, <1>7, <1>8, <1>9, PortActions

\* The place after a place of the ring.
LEMMA NextPlace ==
    ASSUME NEW m \in Nat, m > 1, NEW t \in 0 .. m - 1
    PROVE  (t + 1) % m = (IF t + 1 < m THEN t + 1 ELSE 0) /\ (t + 1) % m \in 0 .. m - 1
<1>1. t + 1 \in 0 .. m
  OBVIOUS
<1>2. (t + 1) % m = IF t + 1 < m THEN t + 1 ELSE 0
  BY <1>1, Wrapped
<1> QED
  BY <1>2

\* What lies between two places of the ring.
LEMMA RingPlaces ==
    ASSUME NEW m \in Nat, m > 1, NEW t \in 0 .. m - 1, NEW h \in 0 .. m - 1
    PROVE  /\ Between(t, h, m) \in 0 .. m - 1
           /\ Between(t, h, m) = 0 <=> t = h
           /\ \A k \in 1 .. m : Cell(t, k, m) \in 1 .. m
           /\ Cell(t, 1, m) = t + 1
BY DEF Between, Cell

\* A place of the ring is a remainder.
LEMMA CellIsRemainder ==
    ASSUME NEW m \in Nat, m > 1, NEW t \in 0 .. m - 1, NEW k \in 1 .. m
    PROVE  1 + ((t + k - 1) % m) = Cell(t, k, m)
<1>1. PICK j \in 0 .. m - 1 : k = j + 1
  <2>1. k - 1 \in 0 .. m - 1 /\ k = (k - 1) + 1
    OBVIOUS
  <2> QED
    BY <2>1
<1>2. t + k - 1 = t + j
  BY <1>1
<1>3. CASE t + j < m
  <2>1. (t + j) % m = t + j
    BY <1>3
  <2> QED
    BY <1>1, <1>2, <1>3, <2>1 DEF Cell
<1>4. CASE t + j >= m
  <2>1. t + j - m \in 0 .. m - 1
    BY <1>4
  <2>2. (t + j) % m = (t + j - m) % m
    BY <1>4
  <2>3. (t + j - m) % m = t + j - m
    BY <2>1
  <2> QED
    BY <1>1, <1>2, <1>4, <2>1, <2>2, <2>3 DEF Cell
<1> QED
  BY <1>3, <1>4

\* One is taken out of the ring, ...
LEMMA RingTake ==
    ASSUME NEW m \in Nat, m > 1, NEW t \in 0 .. m - 1, NEW h \in 0 .. m - 1, t # h
    PROVE  /\ Between((t + 1) % m, h, m) = Between(t, h, m) - 1
           /\ \A k \in 1 .. m - 1 : Cell((t + 1) % m, k, m) = Cell(t, k + 1, m)
<1>1. (t + 1) % m = IF t + 1 < m THEN t + 1 ELSE 0
  BY NextPlace
<1> QED
  BY <1>1 DEF Between, Cell

\* ... and one is put into it.
LEMMA RingPut ==
    ASSUME NEW m \in Nat, m > 1, NEW t \in 0 .. m - 1, NEW h \in 0 .. m - 1, (h + 1) % m # t
    PROVE  /\ Between(t, (h + 1) % m, m) = Between(t, h, m) + 1
           /\ Cell(t, Between(t, h, m) + 1, m) = h + 1
           /\ \A k \in 1 .. Between(t, h, m) : Cell(t, k, m) # h + 1
<1>1. (h + 1) % m = IF h + 1 < m THEN h + 1 ELSE 0
  BY NextPlace
<1> QED
  BY <1>1 DEF Between, Cell

\* An empty ring, and nothing accepted that is not on the wire.
LEMMA EmptyRing ==
    ASSUME accepted' = wire', wire' \in Seq(Characters), txBuffHead' = txBuffTail',
           txBuffHead' \in Nat, initialised' => txBuffHead' < Len(txBuff')
    PROVE  SentFirst' /\ Ring'
<1>1. Len(wire') \in Nat /\ Len(accepted') = Len(wire')
  OBVIOUS
<1>2. SentFirst'
  BY <1>1 DEF SentFirst
<1>3. Between(txBuffTail, txBuffHead, Len(txBuff))' = 0
  <2>1. PICK h \in Nat : txBuffHead' = h /\ txBuffTail' = h
    OBVIOUS
  <2> QED
    BY <2>1 DEF Between
<1>4. Holds(txBuffTail, 0, Len(wire))'
  BY <1>1 DEF Holds
<1>5. Ring'
  BY <1>3, <1>4 DEF Ring
<1> QED
  BY <1>2, <1>5

LEMMA RingStays == Port!ConstantsOK /\ PortInv /\ Port!Next => SentFirst' /\ Ring'
<1> SUFFICES ASSUME Port!ConstantsOK, PortInv, Port!Next PROVE SentFirst' /\ Ring'
  OBVIOUS
<1> USE DEF PortInv
<1>1. PICK x \in Sizes : txBuffSize = x + 1
  BY DEF PortTypes
<1>2. /\ txBuffSize \in Nat /\ txBuffSize > 1 /\ at \in [Senders -> Port!PCs]
      /\ txBuffHead \in Nat /\ txBuffTail \in Nat
      /\ txBuff \in Seq(Characters) /\ accepted \in Seq(Characters) /\ wire \in Seq(Characters)
  BY <1>1 DEF PortTypes, Port!ConstantsOK
<1>3. Len(txBuff) \in Nat /\ Len(accepted) \in Nat /\ Len(wire) \in Nat
  BY <1>2
<1>4. PortTypes' /\ Allocated'
  BY PortTypesStay, AllocatedStays
<1>0. PICK n : n = Between(txBuffTail, txBuffHead, Len(txBuff))
  OBVIOUS
<1>5. CASE Port!dataWritten
  <2>1. /\ initialised /\ txBuffTail # txBuffHead /\ ~(stray /\ Len(txBuff) # txBuffSize)
        /\ wire' = Append(wire, IF txBuffTail < Len(txBuff) THEN txBuff[txBuffTail + 1]
                                                            ELSE Port!Junk)
        /\ txBuffTail' = (txBuffTail + 1) % txBuffSize
        /\ stray' = (stray \/ Len(txBuff) # txBuffSize)
        /\ txBuff' = txBuff /\ txBuffHead' = txBuffHead /\ txBuffSize' = txBuffSize
        /\ accepted' = accepted /\ initialised' = initialised
    BY <1>5 DEF Port!dataWritten, Port!After
  <2>2. /\ txBuffTail < Len(txBuff) /\ txBuffHead < Len(txBuff)
        /\ Holds(txBuffTail, n, Len(wire))
    BY <1>0, <2>1 DEF Ring, Allocated
  <2>3. /\ Len(txBuff) > 1 /\ txBuffTail \in 0 .. Len(txBuff) - 1
        /\ txBuffHead \in 0 .. Len(txBuff) - 1
    BY <1>2, <1>3, <2>1, <2>2
  <2>4. n \in 1 .. Len(txBuff) - 1 /\ Cell(txBuffTail, 1, Len(txBuff)) = txBuffTail + 1
    <3>1. /\ n \in 0 .. Len(txBuff) - 1 /\ n # 0
          /\ Cell(txBuffTail, 1, Len(txBuff)) = txBuffTail + 1
      BY <1>0, <1>3, <2>1, <2>3, RingPlaces
    <3> QED
      BY <3>1, <1>3
  <2>5. Len(accepted) = Len(wire) + n /\ txBuff[txBuffTail + 1] = accepted[Len(wire) + 1]
    BY <2>2, <2>4 DEF Holds
  <2>6. wire' = Append(wire, accepted[Len(wire) + 1])
    BY <2>1, <2>2, <2>5
  <2>7. /\ Len(wire') = Len(wire) + 1
        /\ \A k \in 1 .. Len(wire) : wire'[k] = wire[k]
        /\ wire'[Len(wire) + 1] = accepted[Len(wire) + 1]
    BY <1>2, <2>6
  <2>8. SentFirst'
    <3>1. Len(wire') <= Len(accepted)
      BY <1>3, <2>4, <2>5, <2>7
    <3>2. ASSUME NEW k \in 1 .. Len(wire') PROVE wire'[k] = accepted[k]
      <4>1. k \in 1 .. Len(wire) \/ k = Len(wire) + 1
        BY <1>3, <2>7
      <4> QED
        BY <2>7, <4>1 DEF SentFirst
    <3> QED
      BY <2>1, <3>1, <3>2 DEF SentFirst
  <2>9. Ring'
    <3> SUFFICES ASSUME Len(txBuff) = txBuffSize PROVE Ring'
      BY <2>1 DEF Ring
    <3>1. /\ txBuffTail' \in 0 .. Len(txBuff) - 1
          /\ Between(txBuffTail', txBuffHead, Len(txBuff)) = n - 1
          /\ \A k \in 1 .. Len(txBuff) - 1 :
                 Cell(txBuffTail', k, Len(txBuff)) = Cell(txBuffTail, k + 1, Len(txBuff))
      <4>1. (txBuffTail + 1) % Len(txBuff) = txBuffTail'
        BY <2>1
      <4>2. txBuffTail' \in 0 .. Len(txBuff) - 1
        BY <1>3, <2>3, <4>1, NextPlace
      <4> QED
        BY <1>0, <1>3, <2>1, <2>3, <4>1, <4>2, RingTake
    <3>2. ASSUME NEW k \in 1 .. n - 1
          PROVE  txBuff[Cell(txBuffTail', k, Len(txBuff))] = accepted[Len(wire') + k]
      <4>1. /\ k + 1 \in 1 .. n /\ k \in 1 .. Len(txBuff) - 1
            /\ Len(wire) + (k + 1) = Len(wire') + k
        BY <1>3, <2>4, <2>7
      <4>2. txBuff[Cell(txBuffTail, k + 1, Len(txBuff))] = accepted[Len(wire) + (k + 1)]
        BY <2>2, <4>1 DEF Holds
      <4> QED
        BY <3>1, <4>1, <4>2
    <3>3. Len(accepted) = Len(wire') + (n - 1)
      BY <1>3, <2>4, <2>5, <2>7
    <3>4. Between(txBuffTail, txBuffHead, Len(txBuff))' = n - 1
      BY <2>1, <3>1
    <3>5. Holds(txBuffTail, n - 1, Len(wire))'
      BY <2>1, <3>2, <3>3, <2>4 DEF Holds
    <3>6. txBuffTail' < Len(txBuff')
      BY <1>3, <2>1, <3>1
    <3>7. Holds(txBuffTail, Between(txBuffTail, txBuffHead, Len(txBuff)), Len(wire))'
      BY <3>4, <3>5
    <3> QED
      BY <3>6, <3>7 DEF Ring
  <2> QED
    BY <2>8, <2>9
<1>6. ASSUME NEW f \in Senders, NEW len \in PortLengths, NEW m \in Port!Modes,
             NEW one \in BOOLEAN, Port!send(f, len, m, one)
      PROVE  SentFirst' /\ Ring'
  <2>1. /\ txBuffSize' = txBuffSize /\ stray' = stray /\ accepted' = accepted /\ wire' = wire
        /\ \/ /\ initialised /\ initialised' = initialised /\ txBuff' = txBuff
              /\ txBuffHead' = txBuffHead /\ txBuffTail' = txBuffTail
           \/ ~initialised /\ txBuffHead' = 0 /\ txBuffTail' = 0
    BY <1>6 DEF Port!send, Port!initialiseTx, Port!ring
  <2>2. CASE ~initialised
    <3>1. accepted' = wire' /\ txBuffHead' = txBuffTail'
      BY <2>1, <2>2 DEF Allocated
    <3> QED
      BY <3>1, <1>4, EmptyRing DEF PortTypes, Allocated
  <2>3. CASE initialised
    BY <2>1, <2>3 DEF SentFirst, Ring, Holds
  <2> QED
    BY <2>2, <2>3
<1>7. ASSUME NEW f \in Senders, NEW y \in Sizes, Port!setTxBufferSize(f, y)
      PROVE  SentFirst' /\ Ring'
  <2>1. /\ ~txInUse
        /\ txBuff' = txBuff /\ txBuffHead' = txBuffHead /\ txBuffTail' = txBuffTail
        /\ initialised' = initialised /\ accepted' = accepted /\ wire' = wire
    BY <1>7 DEF Port!setTxBufferSize, Port!Free
  <2>2. initialised => Len(txBuff) = txBuffSize
    BY <2>1 DEF Allocated, OneCaller
  <2> QED
    BY <2>1, <2>2 DEF SentFirst, Ring, Holds
<1>8. ASSUME NEW f \in Senders, Port!clearTxBuffer(f) PROVE SentFirst' /\ Ring'
  <2>1. accepted' = wire' /\ txBuffHead' = txBuffTail'
    BY <1>8 DEF Port!clearTxBuffer, Port!Emptied
  <2> QED
    BY <2>1, <1>4, EmptyRing DEF PortTypes, Allocated
<1>9. ASSUME NEW f \in Senders, Port!Copy(f) PROVE SentFirst' /\ Ring'
  <2>1. PICK char : /\ txBuff' = [txBuff EXCEPT ![txBuffHead + 1] = char]
                    /\ accepted' = Append(accepted, char)
    BY <1>9 DEF Port!Copy
  <2>2. /\ at[f] = "copy" /\ (txBuffHead + 1) % txBuffSize # txBuffTail
        /\ txBuffHead' = (txBuffHead + 1) % txBuffSize
        /\ txBuffSize' = txBuffSize /\ txBuffTail' = txBuffTail /\ initialised' = initialised
        /\ wire' = wire /\ stray' = stray
    BY <1>9 DEF Port!Copy, Port!At, Port!HasRoom, Port!After
  <2>3. initialised /\ Len(txBuff) = txBuffSize /\ txBuffHead < Len(txBuff)
    BY <2>2 DEF Allocated, OneCaller
  <2>4. txBuffTail < Len(txBuff) /\ Holds(txBuffTail, n, Len(wire))
    BY <1>0, <2>3 DEF Ring
  <2>5. txBuffTail \in 0 .. Len(txBuff) - 1 /\ txBuffHead \in 0 .. Len(txBuff) - 1
    BY <1>2, <1>3, <2>3, <2>4
  <2>6. /\ n \in 0 .. Len(txBuff) - 1
        /\ Between(txBuffTail, txBuffHead', Len(txBuff)) = n + 1
        /\ Cell(txBuffTail, n + 1, Len(txBuff)) = txBuffHead + 1
        /\ \A k \in 1 .. n : Cell(txBuffTail, k, Len(txBuff)) # txBuffHead + 1
        /\ \A k \in 1 .. Len(txBuff) : Cell(txBuffTail, k, Len(txBuff)) \in 1 .. Len(txBuff)
    <3>1. Len(txBuff) > 1 /\ (txBuffHead + 1) % Len(txBuff) = txBuffHead'
      BY <1>2, <2>2, <2>3
    <3>2. /\ n \in 0 .. Len(txBuff) - 1
          /\ \A k \in 1 .. Len(txBuff) : Cell(txBuffTail, k, Len(txBuff)) \in 1 .. Len(txBuff)
      BY <1>0, <1>3, <2>5, <3>1, RingPlaces
    <3> QED
      BY <1>0, <1>3, <2>2, <2>5, <3>1, <3>2, RingPut, SMTT(30)
  <2>7. /\ txBuffHead + 1 \in 1 .. Len(txBuff) /\ Len(txBuff') = Len(txBuff)
        /\ txBuff'[txBuffHead + 1] = char
        /\ \A k \in 1 .. Len(txBuff) : k # txBuffHead + 1 => txBuff'[k] = txBuff[k]
    BY <1>2, <2>1, <2>5
  <2>8. /\ Len(accepted') = Len(accepted) + 1 /\ accepted'[Len(accepted) + 1] = char
        /\ \A k \in 1 .. Len(accepted) : accepted'[k] = accepted[k]
    BY <1>2, <2>1
  <2>9. Len(accepted) = Len(wire) + n
    BY <2>4 DEF Holds
  <2>10. SentFirst'
    BY <1>3, <2>2, <2>8 DEF SentFirst
  <2>11. ASSUME NEW k \in 1 .. n + 1
         PROVE  txBuff'[Cell(txBuffTail, k, Len(txBuff))] = accepted'[Len(wire) + k]
    <3>1. CASE k = n + 1
      BY <2>6, <2>7, <2>8, <2>9, <3>1, <1>3
    <3>2. CASE k # n + 1
      <4>1. /\ k \in 1 .. n /\ k \in 1 .. Len(txBuff)
            /\ Len(wire) + k \in 1 .. Len(accepted)
        BY <1>3, <2>6, <2>9, <3>2
      <4>2. txBuff[Cell(txBuffTail, k, Len(txBuff))] = accepted[Len(wire) + k]
        BY <2>4, <4>1 DEF Holds
      <4> QED
        BY <2>6, <2>7, <2>8, <4>1, <4>2
    <3> QED
      BY <3>1, <3>2
  <2>12. Ring'
    <3>1. Between(txBuffTail, txBuffHead, Len(txBuff))' = n + 1
      BY <2>2, <2>6, <2>7
    <3>2. Len(accepted') = Len(wire) + (n + 1)
      BY <1>3, <2>6, <2>8, <2>9
    <3>3. Holds(txBuffTail, n + 1, Len(wire))'
      BY <2>2, <2>6, <2>7, <2>11, <3>2 DEF Holds
    <3>4. txBuffTail' < Len(txBuff')
      BY <2>2, <2>4, <2>7
    <3>5. Holds(txBuffTail, Between(txBuffTail, txBuffHead, Len(txBuff)), Len(wire))'
      BY <3>1, <3>3
    <3> QED
      BY <3>4, <3>5 DEF Ring
  <2> QED
    BY <2>10, <2>12
<1>10. ASSUME NEW f \in Senders, Port!Resize(f) PROVE SentFirst' /\ Ring'
  <2>1. accepted' = wire' /\ txBuffHead' = 0 /\ txBuffTail' = 0
    BY <1>10 DEF Port!Resize, Port!Emptied, Port!initialiseTx
  <2> QED
    BY <2>1, <1>4, EmptyRing DEF PortTypes, Allocated
<1>11. CASE PortQuiet
  <2>1. /\ txBuff' = txBuff /\ txBuffSize' = txBuffSize /\ txBuffHead' = txBuffHead
        /\ txBuffTail' = txBuffTail /\ initialised' = initialised /\ stray' = stray
        /\ accepted' = accepted /\ wire' = wire
    BY <1>11, QuietKeeps DEF PortKeeps
  <2> QED
    BY <2>1 DEF SentFirst, Ring, Holds
<1> QED
  BY <1>5, <1>6, <1>7, <1>8, <1>9, <1>10, <1>11, PortActions

\* A fiber that has copied nothing, ...
LEMMA NothingCopied ==
    ASSUME NEW s \in Senders, PortTypes', written'[s] = 0, copiedBytes'[s] = 0
    PROVE  Copied(s)'
<1>1. order'[s].len \in Nat
  BY DEF PortTypes
<1>2. Has(accepted, order[s].n, written[s] + copiedBytes[s])'
  BY DEF Has
<1>3. Has(wire, order[s].n, written[s])'
  BY DEF Has
<1> QED
  BY <1>1, <1>2, <1>3 DEF Copied

\* ... and one whose call stays as it is while the interrupt may send.
LEMMA CopyStays ==
    ASSUME NEW s \in Senders, PortTypes, Copied(s),
           at'[s] = at[s], order'[s] = order[s], written'[s] = written[s],
           copiedBytes'[s] = copiedBytes[s], accepted' = accepted,
           Len(wire') \in Nat, Len(wire) <= Len(wire'),
           \A k \in 1 .. Len(wire) : wire'[k] = wire[k]
    PROVE  Copied(s)'
<1>1. Len(wire) \in Nat
  BY DEF PortTypes
<1>2. Has(wire, order[s].n, written[s]) => Has(wire, order[s].n, written[s])'
  <2> SUFFICES ASSUME Has(wire, order[s].n, written[s]),
                      NEW a \in 1 .. written[s]
               PROVE  \E k \in 1 .. Len(wire') : wire'[k] = [call |-> order[s].n, at |-> a]
    BY DEF Has
  <2>1. PICK k \in 1 .. Len(wire) : wire[k] = [call |-> order[s].n, at |-> a]
    BY DEF Has
  <2> QED
    BY <1>1, <2>1
<1>3. Has(accepted, order[s].n, written[s] + copiedBytes[s])'
  BY DEF Copied, Has
<1> QED
  BY <1>2, <1>3 DEF Copied

LEMMA CopiedStays ==
    ASSUME Port!ConstantsOK, PortInv, Port!Next, NEW s \in Senders
    PROVE  Copied(s)'
<1> USE DEF PortInv
<1>1. PortTypes' /\ Copied(s)
  BY PortTypesStay
<1>2. /\ at \in [Senders -> Port!PCs] /\ written \in [Senders -> Nat]
      /\ copiedBytes \in [Senders -> Nat]
      /\ order \in [Senders -> [n : Nat, len : Nat, mode : Port!Modes, one : BOOLEAN]]
      /\ accepted \in Seq(Characters) /\ wire \in Seq(Characters)
  BY DEF PortTypes
<1>3. Len(accepted) \in Nat /\ Len(wire) \in Nat
  BY <1>2
<1>4. at[s] \in {"idle", "resize"} => written[s] = 0 /\ copiedBytes[s] = 0
  BY <1>1 DEF Copied
<1>5. CASE Port!dataWritten
  <2>1. UNCHANGED <<at, order, written, copiedBytes, accepted>>
    BY <1>5 DEF Port!dataWritten, Port!locals
  <2>2. \E c : wire' = Append(wire, c)
    BY <1>5 DEF Port!dataWritten
  <2>3. /\ Len(wire') \in Nat /\ Len(wire) <= Len(wire')
        /\ \A k \in 1 .. Len(wire) : wire'[k] = wire[k]
    BY <1>2, <2>2
  <2> QED
    BY <1>1, <2>1, <2>3, CopyStays
<1>6. ASSUME NEW f \in Senders, NEW len \in PortLengths, NEW m \in Port!Modes,
             NEW one \in BOOLEAN, Port!send(f, len, m, one)
      PROVE  Copied(s)'
  <2>1. ~txInUse /\ UNCHANGED <<written, copiedBytes>>
    BY <1>6 DEF Port!send, Port!Free
  <2>2. at[s] = "idle"
    BY <2>1 DEF OneCaller
  <2> QED
    BY <1>1, <1>4, <2>1, <2>2, NothingCopied
<1>7. ASSUME NEW f \in Senders, NEW y \in Sizes, Port!setTxBufferSize(f, y) PROVE Copied(s)'
  <2>1. ~txInUse /\ UNCHANGED <<written, copiedBytes>>
    BY <1>7 DEF Port!setTxBufferSize, Port!Free, Port!locals
  <2>2. at[s] = "idle"
    BY <2>1 DEF OneCaller
  <2> QED
    BY <1>1, <1>4, <2>1, <2>2, NothingCopied
<1>8. ASSUME NEW f \in Senders, Port!clearTxBuffer(f) PROVE Copied(s)'
  <2>1. ~txInUse /\ UNCHANGED <<written, copiedBytes>>
    BY <1>8 DEF Port!clearTxBuffer, Port!Free, Port!locals
  <2>2. at[s] = "idle"
    BY <2>1 DEF OneCaller
  <2> QED
    BY <1>1, <1>4, <2>1, <2>2, NothingCopied
<1>9. ASSUME NEW f \in Senders, Port!Copy(f) PROVE Copied(s)'
  <2>1. /\ at[f] = "copy" /\ written[f] + copiedBytes[f] + 1 <= order[f].len
        /\ accepted' = Append(accepted, [call |-> order[f].n,
                                         at |-> written[f] + copiedBytes[f] + 1])
        /\ copiedBytes' = [copiedBytes EXCEPT ![f] = copiedBytes[f] + 1]
        /\ at' = at /\ order' = order /\ written' = written /\ wire' = wire
    BY <1>9 DEF Port!Copy, Port!At, Port!Place
  <2>2. CASE s # f
    <3>1. at[s] = "idle"
      BY <2>1, <2>2 DEF OneCaller
    <3>2. written'[s] = 0 /\ copiedBytes'[s] = 0
      BY <1>2, <1>4, <2>1, <2>2, <3>1
    <3> QED
      BY <1>1, <3>2, NothingCopied
  <2>3. CASE s = f
    <3>1. PICK w \in Nat, c \in Nat, n \in Nat :
              w = written[s] /\ c = copiedBytes[s] /\ n = order[s].n
      BY <1>2
    <3>2. /\ written'[s] = w /\ copiedBytes'[s] = c + 1 /\ order'[s] = order[s]
          /\ at'[s] = "copy" /\ w + (c + 1) <= order[s].len
      BY <1>2, <2>1, <2>3, <3>1
    <3>3. /\ Len(accepted') = Len(accepted) + 1
          /\ accepted'[Len(accepted) + 1] = [call |-> n, at |-> w + (c + 1)]
          /\ \A k \in 1 .. Len(accepted) : accepted'[k] = accepted[k]
      <4>1. w + c + 1 = w + (c + 1)
        BY <3>1
      <4> QED
        BY <1>2, <2>1, <2>3, <3>1, <4>1
    <3>4. Has(accepted, n, w + c)
      BY <1>1, <3>1 DEF Copied
    <3>5. ASSUME NEW a \in 1 .. w + (c + 1)
          PROVE  \E k \in 1 .. Len(accepted') : accepted'[k] = [call |-> n, at |-> a]
      <4>1. CASE a = w + (c + 1)
        BY <1>3, <3>3, <4>1
      <4>2. CASE a # w + (c + 1)
        <5>1. a \in 1 .. w + c
          BY <3>1, <4>2
        <5>2. PICK k \in 1 .. Len(accepted) : accepted[k] = [call |-> n, at |-> a]
          BY <3>4, <5>1 DEF Has
        <5> QED
          BY <1>3, <3>3, <5>2
      <4> QED
        BY <4>1, <4>2
    <3>6. Has(accepted, order[s].n, written[s] + copiedBytes[s])'
      BY <3>1, <3>2, <3>5 DEF Has
    <3>7. /\ Len(accepted') > 0
          /\ accepted'[Len(accepted')] = [call |-> order'[s].n,
                                          at |-> written'[s] + copiedBytes'[s]]
      BY <1>3, <3>1, <3>2, <3>3
    <3>8. written'[s] + copiedBytes'[s] <= order'[s].len
      BY <3>2
    <3> QED
      BY <3>2, <3>6, <3>7, <3>8 DEF Copied
  <2> QED
    BY <2>2, <2>3
<1>10. ASSUME NEW f \in Senders, Port!Resize(f) PROVE Copied(s)'
  <2>1. at[f] = "resize" /\ UNCHANGED <<written, copiedBytes>>
    BY <1>10 DEF Port!Resize, Port!At, Port!locals
  <2>2. at[s] \in {"idle", "resize"}
    BY <2>1 DEF OneCaller
  <2> QED
    BY <1>1, <1>4, <2>1, <2>2, NothingCopied
<1>11. CASE PortQuiet
  <2>1. accepted' = accepted /\ wire' = wire
    BY <1>11, QuietKeeps DEF PortKeeps
  <2>2. CASE at'[s] = at[s] /\ order'[s] = order[s] /\ written'[s] = written[s]
             /\ copiedBytes'[s] = copiedBytes[s]
    BY <1>1, <1>3, <2>1, <2>2, CopyStays
  <2>3. CASE Port!Attach(s)
    <3>1. /\ at'[s] = "send" /\ order' = order /\ copiedBytes'[s] = 0
          /\ written'[s] = written[s] + copiedBytes[s] /\ at[s] = "attach"
      BY <1>2, <2>3 DEF Port!Attach, Port!At, Port!Goto
    <3>2. PICK n \in Nat : n = written[s] + copiedBytes[s]
      BY <1>2
    <3>3. written'[s] = n /\ written'[s] + copiedBytes'[s] = n
      BY <3>1, <3>2
    <3>4. Has(accepted, order[s].n, written[s] + copiedBytes[s])'
      BY <1>1, <2>1, <3>1, <3>2, <3>3 DEF Copied, Has
    <3> QED
      BY <1>1, <2>1, <3>1, <3>2, <3>3, <3>4 DEF Copied
  <2>4. CASE Port!Spin(s)
    <3>1. /\ at'[s] = "loop" /\ order' = order /\ written' = written
          /\ copiedBytes' = copiedBytes /\ at[s] = "send"
          /\ order[s].mode = "SPIN" => Port!txBufferedSize = 0
      BY <1>2, <2>4 DEF Port!Spin, Port!At, Port!Goto, Port!locals
    <3>2. Has(accepted, order[s].n, written[s])
      BY <1>1, <1>2, <3>1 DEF Copied
    <3>3. order[s].mode = "SPIN" => Has(wire, order[s].n, written[s])
      <4> SUFFICES ASSUME Port!txBufferedSize = 0 PROVE Has(wire, order[s].n, written[s])
        BY <3>1
      <4>1. initialised /\ Len(txBuff) = txBuffSize
        BY <3>1 DEF Allocated, OneCaller
      <4>2. /\ txBuffTail < txBuffSize /\ txBuffHead < txBuffSize
            /\ Holds(txBuffTail, Between(txBuffTail, txBuffHead, txBuffSize), Len(wire))
        BY <4>1 DEF Ring, Allocated
      <4>3. txBuffSize \in Nat /\ txBuffTail \in Nat /\ txBuffHead \in Nat
        BY <1>2, <4>1 DEF PortTypes
      <4>4. Between(txBuffTail, txBuffHead, txBuffSize) = 0
        BY <4>2, <4>3 DEF Port!txBufferedSize, Between
      <4>5. Len(accepted) = Len(wire)
        BY <1>3, <4>2, <4>4 DEF Holds
      <4> QED
        BY <3>2, <4>5 DEF Has, SentFirst
    <3>4. /\ Has(accepted, order[s].n, written[s] + copiedBytes[s])'
          /\ order[s].mode = "SPIN" => Has(wire, order[s].n, written[s])'
      BY <1>1, <2>1, <3>1, <3>3 DEF Copied, Has
    <3> QED
      BY <1>1, <2>1, <3>1, <3>4 DEF Copied
  <2>5. CASE Port!Return(s)
    <3>1. written'[s] = 0 /\ copiedBytes'[s] = 0
      BY <1>1, <1>2, <2>5 DEF Port!Return, Port!At, Copied
    <3> QED
      BY <1>1, <3>1, NothingCopied
  <2>6. CASE /\ at[s] \in {"copy", "register", "send", "loop"}
             /\ at'[s] \in {"copy", "register", "attach", "loop"}
             /\ at[s] = "send" => order[s].mode = "SLEEP"
             /\ at'[s] = "loop" => at[s] = "send"
             /\ order' = order /\ written' = written /\ copiedBytes' = copiedBytes
    <3>1. Has(accepted, order[s].n, written[s] + copiedBytes[s])'
      BY <1>1, <2>1, <2>6 DEF Copied, Has
    <3> QED
      BY <1>1, <2>1, <2>6, <3>1 DEF Copied
  <2>7. ASSUME NEW f \in Senders, f # s,
               \/ Port!CopyEnd(f) \/ Port!Register(f) \/ Port!Attach(f) \/ Port!Spin(f)
               \/ Port!Sleep(f) \/ Port!Again(f) \/ Port!Return(f)
        PROVE  /\ at'[s] = at[s] /\ order'[s] = order[s] /\ written'[s] = written[s]
               /\ copiedBytes'[s] = copiedBytes[s]
    BY <1>2, <2>7 DEF Port!CopyEnd, Port!Register, Port!Attach, Port!Spin, Port!Sleep,
       Port!Again, Port!Return, Port!Goto, Port!locals
  <2>8. ASSUME Port!Tick \/ \E f \in Senders : Port!Dispatch(f) \/ Port!Yield(f)
        PROVE  UNCHANGED <<at, order, written, copiedBytes>>
    BY <2>8 DEF Port!Tick, Port!Dispatch, Port!Yield, Port!locals
  <2>9. ASSUME Port!CopyEnd(s) \/ Port!Register(s) \/ Port!Sleep(s) \/ Port!Again(s)
        PROVE  /\ at[s] \in {"copy", "register", "send", "loop"}
               /\ at'[s] \in {"copy", "register", "attach", "loop"}
               /\ at[s] = "send" => order[s].mode = "SLEEP"
               /\ at'[s] = "loop" => at[s] = "send"
               /\ order' = order /\ written' = written /\ copiedBytes' = copiedBytes
    BY <1>2, <2>9 DEF Port!CopyEnd, Port!Register, Port!Sleep, Port!Again, Port!At, Port!Goto,
       Port!locals
  <2> QED
    BY <1>11, <2>2, <2>3, <2>4, <2>5, <2>6, <2>7, <2>8, <2>9 DEF PortQuiet
<1> QED
  BY <1>5, <1>6, <1>7, <1>8, <1>9, <1>10, <1>11, PortActions

\* Each character begins a string or follows the one before it.
LEMMA OneAtATimeStays == Port!ConstantsOK /\ PortInv /\ Port!Next => Port!OneAtATime'
<1> SUFFICES ASSUME Port!ConstantsOK, PortInv, Port!Next PROVE Port!OneAtATime'
  OBVIOUS
<1> USE DEF PortInv
<1>1. /\ accepted \in Seq(Characters) /\ wire \in Seq(Characters)
      /\ Len(accepted) \in Nat /\ Len(wire) \in Nat
  BY DEF PortTypes
\* It holds of what was sent first.
<1>2. ASSUME accepted' = wire PROVE Port!OneAtATime'
  <2> SUFFICES ASSUME NEW k \in 1 .. Len(wire)
               PROVE  \/ wire[k].at = 1
                      \/ k > 1 /\ wire[k].call = wire[k - 1].call
                               /\ wire[k].at = wire[k - 1].at + 1
    BY <1>2 DEF Port!OneAtATime
  <2>1. k \in 1 .. Len(accepted) /\ wire[k] = accepted[k]
    BY <1>1 DEF SentFirst
  <2>2. k > 1 => wire[k - 1] = accepted[k - 1]
    BY <1>1 DEF SentFirst
  <2> QED
    BY <2>1, <2>2 DEF Port!OneAtATime
<1>3. ASSUME accepted' = accepted PROVE Port!OneAtATime'
  BY <1>3 DEF Port!OneAtATime
<1>4. ASSUME NEW f \in Senders, Port!Copy(f) PROVE Port!OneAtATime'
  <2>1. PICK n \in Nat, p1 \in Nat : n = order[f].n /\ p1 = written[f] + copiedBytes[f]
    <3>1. order[f].n \in Nat /\ written[f] \in Nat /\ copiedBytes[f] \in Nat
      BY DEF PortTypes
    <3> QED
      BY <3>1
  <2>2. accepted' = Append(accepted, [call |-> n, at |-> p1 + 1])
    BY <1>4, <2>1 DEF Port!Copy, Port!Place
  <2>3. p1 > 0 => /\ Len(accepted) > 0
                  /\ accepted[Len(accepted)] = [call |-> n, at |-> p1]
    BY <2>1 DEF Copied
  <2>4. /\ Len(accepted') = Len(accepted) + 1
        /\ accepted'[Len(accepted) + 1] = [call |-> n, at |-> p1 + 1]
        /\ \A k \in 1 .. Len(accepted) : accepted'[k] = accepted[k]
    BY <1>1, <2>2
  <2> SUFFICES ASSUME NEW k \in 1 .. Len(accepted) + 1
               PROVE  \/ accepted'[k].at = 1
                      \/ k > 1 /\ accepted'[k].call = accepted'[k - 1].call
                               /\ accepted'[k].at = accepted'[k - 1].at + 1
    BY <2>4 DEF Port!OneAtATime
  <2>5. CASE k = Len(accepted) + 1
    <3>1. CASE p1 = 0
      BY <2>4, <2>5, <3>1
    <3>2. CASE p1 > 0
      <4>1. accepted'[k - 1] = [call |-> n, at |-> p1] /\ k > 1
        BY <1>1, <2>3, <2>4, <2>5, <3>2
      <4> QED
        BY <2>4, <2>5, <4>1
    <3> QED
      BY <2>1, <3>1, <3>2
  <2>6. CASE k \in 1 .. Len(accepted)
    <3>1. accepted'[k] = accepted[k]
      BY <2>4, <2>6
    <3>2. k > 1 => accepted'[k - 1] = accepted[k - 1]
      BY <1>1, <2>4, <2>6
    <3> QED
      BY <2>6, <3>1, <3>2 DEF Port!OneAtATime
  <2> QED
    BY <1>1, <2>5, <2>6
<1>5. ASSUME NEW f \in Senders, Port!clearTxBuffer(f) \/ Port!Resize(f) PROVE accepted' = wire
  BY <1>5 DEF Port!clearTxBuffer, Port!Resize, Port!Emptied
<1>6. ASSUME NEW f \in Senders,
             \/ \E len \in PortLengths, m \in Port!Modes, one \in BOOLEAN :
                    Port!send(f, len, m, one)
             \/ \E x \in Sizes : Port!setTxBufferSize(f, x)
      PROVE  accepted' = accepted
  BY <1>6 DEF Port!send, Port!setTxBufferSize
<1>7. ASSUME Port!dataWritten PROVE accepted' = accepted
  BY <1>7 DEF Port!dataWritten
<1>8. ASSUME PortQuiet PROVE accepted' = accepted
  BY <1>8, QuietKeeps DEF PortKeeps
<1> QED
  BY <1>2, <1>3, <1>4, <1>5, <1>6, <1>7, <1>8, PortActions

\* A call in mode SPIN that returns has everything on the wire.
LEMMA SpinStays == Port!ConstantsOK /\ PortInv /\ Port!Next => Port!SpinMeansSent'
<1> SUFFICES ASSUME Port!ConstantsOK, PortInv, Port!Next PROVE Port!SpinMeansSent'
  OBVIOUS
<1> USE DEF PortInv
<1>1. wire \in Seq(Characters) /\ Len(wire) \in Nat
  BY DEF PortTypes
\* What was sent stays sent.
<1>2. ASSUME returned' = returned, Len(wire') \in Nat, Len(wire) <= Len(wire'),
             \A k \in 1 .. Len(wire) : wire'[k] = wire[k]
      PROVE  Port!SpinMeansSent'
  <2>1. {wire[k] : k \in 1 .. Len(wire)} \subseteq {wire'[k] : k \in 1 .. Len(wire')}
    BY <1>1, <1>2
  <2>2. \A r : Port!Sent(r) => Port!Sent(r)'
    BY <2>1 DEF Port!Sent
  <2> QED
    BY <1>2, <2>2 DEF Port!SpinMeansSent
<1>3. CASE Port!dataWritten
  <2>1. returned' = returned /\ \E c : wire' = Append(wire, c)
    BY <1>3 DEF Port!dataWritten
  <2>2. /\ Len(wire') \in Nat /\ Len(wire) <= Len(wire')
        /\ \A k \in 1 .. Len(wire) : wire'[k] = wire[k]
    BY <1>1, <2>1
  <2> QED
    BY <1>2, <2>1, <2>2
<1>4. ASSUME NEW f \in Senders, Port!Return(f) PROVE Port!SpinMeansSent'
  <2>1. PICK r : r = [call |-> order[f], count |-> written[f]]
    OBVIOUS
  <2>2. /\ returned' = returned \cup {r} /\ wire' = wire /\ at[f] = "loop"
        /\ Port!Complete(f)
    BY <1>4, <2>1 DEF Port!Return, Port!At
  <2>3. ASSUME r.call.mode = "SPIN"
        PROVE  Port!Sent(r) /\ (r.call.one \/ r.count = r.call.len)
    <3>1. /\ r.call = order[f] /\ r.count = written[f] /\ order[f].mode = "SPIN"
          /\ r.call.n = order[f].n
      BY <2>1, <2>3
    <3>2. Has(wire, order[f].n, written[f]) /\ written[f] + copiedBytes[f] <= order[f].len
      BY <2>2, <3>1 DEF Copied
    <3>3. Port!Sent(r)
      <4> SUFFICES ASSUME NEW a \in 1 .. written[f]
                   PROVE  [call |-> order[f].n, at |-> a] \in {wire[k] : k \in 1 .. Len(wire)}
        BY <3>1 DEF Port!Sent
      <4> QED
        BY <3>2 DEF Has
    <3>4. order[f].one \/ written[f] >= order[f].len
      BY <2>2, <3>1 DEF Port!Complete
    <3>5. written[f] \in Nat /\ copiedBytes[f] \in Nat /\ order[f].len \in Nat
      BY DEF PortTypes
    <3>6. written[f] >= order[f].len => written[f] = order[f].len
      BY <3>2, <3>5
    <3> QED
      BY <3>1, <3>3, <3>4, <3>6
  <2>4. \A q : Port!Sent(q) => Port!Sent(q)'
    BY <2>2 DEF Port!Sent
  <2> QED
    BY <2>2, <2>3, <2>4 DEF Port!SpinMeansSent
<1>5. ASSUME PortQuiet PROVE wire' = wire
  BY <1>5, QuietKeeps DEF PortKeeps
<1>6. ASSUME PortQuiet PROVE returned' = returned \/ \E f \in Senders : Port!Return(f)
  BY <1>6 DEF PortQuiet, Port!Tick, Port!Dispatch, Port!Yield, Port!CopyEnd, Port!Register,
              Port!Attach, Port!Spin, Port!Sleep, Port!Again, Port!history
<1>7. ASSUME NEW f \in Senders,
             \/ \E len \in PortLengths, m \in Port!Modes, one \in BOOLEAN :
                    Port!send(f, len, m, one)
             \/ \E x \in Sizes : Port!setTxBufferSize(f, x)
             \/ Port!clearTxBuffer(f) \/ Port!Copy(f) \/ Port!Resize(f)
      PROVE  returned' = returned /\ wire' = wire
  BY <1>7 DEF Port!send, Port!setTxBufferSize, Port!clearTxBuffer, Port!Copy, Port!Resize
<1>8. ASSUME returned' = returned, wire' = wire PROVE Port!SpinMeansSent'
  BY <1>1, <1>2, <1>8
<1> QED
  BY <1>3, <1>4, <1>5, <1>6, <1>7, <1>8, PortActions

LEMMA PortStutter == PortInv /\ UNCHANGED portVars => PortInv'
<1> SUFFICES ASSUME PortInv, UNCHANGED portVars PROVE PortInv'
  OBVIOUS
<1> USE DEF PortInv
<1>1. /\ txBuff' = txBuff /\ txBuffSize' = txBuffSize /\ txBuffHead' = txBuffHead
      /\ txBuffTail' = txBuffTail /\ initialised' = initialised /\ txInUse' = txInUse
      /\ attached' = attached /\ turn' = turn /\ queue' = queue /\ at' = at /\ order' = order
      /\ written' = written /\ copiedBytes' = copiedBytes /\ ordered' = ordered
      /\ accepted' = accepted /\ wire' = wire /\ returned' = returned
      /\ forgotten' = forgotten /\ stray' = stray
  BY DEF portVars
<1>2. PortTypes' /\ OneCaller' /\ Allocated' /\ SentFirst'
  BY <1>1 DEF PortTypes, OneCaller, Allocated, SentFirst
<1>3. Ring'
  BY <1>1 DEF Ring, Holds
<1>4. ASSUME NEW s \in Senders PROVE Copied(s)'
  <2>1. /\ Has(accepted, order[s].n, written[s] + copiedBytes[s])
               => Has(accepted, order[s].n, written[s] + copiedBytes[s])'
        /\ Has(wire, order[s].n, written[s]) => Has(wire, order[s].n, written[s])'
    BY <1>1 DEF Has
  <2> QED
    BY <1>1, <2>1 DEF Copied
<1>5. Port!OneAtATime' /\ Port!SpinMeansSent'
  BY <1>1 DEF Port!OneAtATime, Port!SpinMeansSent, Port!Sent
<1> QED
  BY <1>2, <1>3, <1>4, <1>5

LEMMA PortInvariance == DriversSpec => []PortInv
<1> DEFINE v == <<part, vars, portVars, radioVars, pairingVars>>
<1>1. DriversInit => PortInv
  BY PortInit, DriversAssumption DEF DriversInit
<1>2. PortInv /\ [DriversNext]_v => PortInv'
  <2>1. UNCHANGED v => UNCHANGED portVars
    OBVIOUS
  <2>2. DriversNext => UNCHANGED portVars \/ Port!Next
    BY DEF DriversNext, Others
  <2>3. PortInv /\ Port!Next => PortInv'
    BY PortTypesStay, OneCallerStays, AllocatedStays, RingStays, CopiedStays, OneAtATimeStays,
       SpinStays, DriversAssumption DEF PortInv
  <2> QED
    BY <2>1, <2>2, <2>3, PortStutter
<1> QED
  BY <1>1, <1>2, PTL DEF DriversSpec

\* What PortInv says about the buffer, in the port's own words.
LEMMA PortInOrder ==
    ASSUME Port!ConstantsOK, PortInv
    PROVE  Port!SerialInOrder
<1> USE DEF PortInv
<1>1. Port!FifoOrder
  <2> SUFFICES ASSUME Port!Quiet PROVE wire \o Port!Contents = accepted
    BY DEF Port!FifoOrder
  <2>1. /\ accepted \in Seq(Characters) /\ wire \in Seq(Characters)
        /\ txBuff \in Seq(Characters)
        /\ txBuffHead \in Nat /\ txBuffTail \in Nat
    BY DEF PortTypes
  <2>2. CASE ~initialised
    <3>1. Port!txBufferedSize = 0 /\ wire = <<>> /\ accepted = <<>>
      BY <2>2 DEF Allocated, Port!txBufferedSize
    <3>2. Port!Contents = <<>>
      BY <3>1 DEF Port!Contents
    <3> QED
      BY <3>1, <3>2
  <2>3. CASE initialised
    <3>1. PICK m \in Nat : m = Len(txBuff)
      BY <2>1
    <3>2. txBuffSize = m /\ txBuffHead < m
      BY <2>3, <3>1 DEF Allocated, Port!Quiet
    <3>3. PICK x \in Sizes : txBuffSize = x + 1
      BY DEF PortTypes
    <3>4. m > 1
      BY <3>1, <3>2, <3>3 DEF Port!ConstantsOK
    <3>5. PICK n : n = Between(txBuffTail, txBuffHead, m)
      OBVIOUS
    <3>6. txBuffTail < m /\ Holds(txBuffTail, n, Len(wire))
      BY <2>3, <3>1, <3>2, <3>5 DEF Ring
    <3>7. txBuffTail \in 0 .. m - 1 /\ txBuffHead \in 0 .. m - 1
      BY <2>1, <3>1, <3>2, <3>6
    <3>8. n \in 0 .. m - 1 /\ \A k \in 1 .. m : Cell(txBuffTail, k, m) \in 1 .. m
      BY <3>1, <3>4, <3>5, <3>7, RingPlaces
    <3>9. Port!txBufferedSize = n
      BY <2>1, <3>1, <3>2, <3>5 DEF Port!txBufferedSize, Between
    <3>10. ASSUME NEW k \in 1 .. n
           PROVE  /\ 1 + ((txBuffTail + k - 1) % txBuffSize) = Cell(txBuffTail, k, m)
                  /\ k \in 1 .. m
      <4>1. k \in 1 .. m
        BY <3>1, <3>8
      <4>2. 1 + ((txBuffTail + k - 1) % m) = Cell(txBuffTail, k, m)
        BY <3>1, <3>4, <3>7, <4>1, CellIsRemainder
      <4> QED
        BY <3>2, <4>1, <4>2
    <3>11. \A k \in 1 .. n : txBuff[Cell(txBuffTail, k, m)] = accepted[Len(wire) + k]
      BY <3>1, <3>6 DEF Holds
    <3>12. Port!Contents = [k \in 1 .. n |-> accepted[Len(wire) + k]]
      BY <3>9, <3>10, <3>11 DEF Port!Contents
    <3>13. Len(accepted) = Len(wire) + n /\ Len(wire) \in Nat
      BY <2>1, <3>6 DEF Holds
    <3>14. ASSUME NEW k \in 1 .. n PROVE accepted[Len(wire) + k] \in Characters
      BY <2>1, <3>8, <3>13
    <3>15. /\ Port!Contents \in Seq(Characters) /\ Len(Port!Contents) = n
           /\ \A k \in 1 .. n : Port!Contents[k] = accepted[Len(wire) + k]
      BY <3>8, <3>12, <3>14
    <3>16. PICK c \in Seq(Characters) : c = Port!Contents
      BY <3>15
    <3>17. /\ wire \o c \in Seq(Characters) /\ Len(wire \o c) = Len(accepted)
      <4>1. Len(c) = n /\ n \in Nat
        BY <3>1, <3>8, <3>15, <3>16
      <4> QED
        BY <2>1, <3>13, <4>1
    <3>18. ASSUME NEW k \in 1 .. Len(accepted) PROVE (wire \o c)[k] = accepted[k]
      <4>1. CASE k <= Len(wire)
        BY <2>1, <3>13, <3>15, <3>16, <4>1 DEF SentFirst
      <4>2. CASE k > Len(wire)
        <5>1. k - Len(wire) \in 1 .. n /\ Len(wire) + (k - Len(wire)) = k
          BY <3>8, <3>13, <4>2
        <5>2. (wire \o c)[k] = c[k - Len(wire)]
          BY <2>1, <3>8, <3>13, <3>15, <3>16, <4>2
        <5> QED
          BY <3>15, <3>16, <5>1, <5>2
      <4>3. k <= Len(wire) \/ k > Len(wire)
        <5>1. Len(accepted) \in Nat
          BY <3>1, <3>8, <3>13
        <5> QED
          BY <3>13, <5>1
      <4> QED
        BY <4>1, <4>2, <4>3, Zenon
    <3> QED
      BY <2>1, <3>16, <3>17, <3>18, SeqEqual
  <2> QED
    BY <2>2, <2>3
<1> QED
  BY <1>1 DEF Port!SerialInOrder

\* What the central gets and what the serial port sends is what the fibers gave
\* them, in order; SYNC_SLEEP and SYNC_SPINWAIT return when it has arrived.  For the
\* central this holds as long as no fiber has filled the buffer while an indication
\* was out (mixed), and it gets all of a call's characters, for which SYNC_SLEEP
\* waits, unless a confirmation has dropped what was not carried of them (cut).
THEOREM EveryStringArrives == DriversSpec => []StringsArrive
<1>1. TxInv /\ PortInv => StringsArrive
  BY TxDelivers, PortInOrder, DriversAssumption DEF StringsArrive
<1> QED
  BY <1>1, TxInvariance, PortInvariance, PTL

\* The drivers' variables keep their types: a fiber waits only where it may, and
\* the ring's indices stay inside it but while its size is being set.
THEOREM DriversTyped == DriversSpec => []DriversTypeOK
<1>1. TxInv => TypeOK
  <2> SUFFICES ASSUME TxInv PROVE TypeOK
    OBVIOUS
  <2> USE DEF TxInv
  <2>1. running = None <=> \A s \in Senders : pc[s] \in {"idle", "sleep"}
    BY NoneAssumption DEF FiberTypes
  <2>2. ASSUME NEW s \in Senders PROVE bytesWritten[s] \in 0 .. call[s].len
    <3>1. bytesWritten[s] \in Nat /\ call[s].len \in Nat /\ bytesWritten[s] <= call[s].len
      BY DEF FiberTypes
    <3> QED
      BY <3>1
  <2> QED
    BY <2>1, <2>2 DEF TypeOK, FiberTypes, BufferTypes
<1>2. PortInv => Port!TypeOK
  <2> SUFFICES ASSUME PortInv PROVE Port!TypeOK
    OBVIOUS
  <2> USE DEF PortInv
  <2>1. Len(txBuff) \in Nat
    BY DEF PortTypes
  <2>2. txBuffHead \in 0 .. Len(txBuff)
    BY <2>1 DEF PortTypes, Allocated
  <2>3. initialised => Len(txBuff) = txBuffSize \/ \E f \in Senders : at[f] = "resize"
    BY DEF Allocated
  <2>4. (initialised /\ \A f \in Senders : at[f] # "resize") =>
            txBuffHead < txBuffSize /\ txBuffTail < txBuffSize
    BY <2>3 DEF Allocated, Ring
  <2> QED
    BY <2>2, <2>3, <2>4 DEF Port!TypeOK, PortTypes
<1>3. PairInv => Pair!TypeOK
  <2> SUFFICES ASSUME PairInv PROVE Pair!TypeOK
    OBVIOUS
  <2> USE DEF PairInv
  <2>1. ticking \in 0 .. MaxRequests
    BY DriversAssumption DEF Requested, Pair!ConstantsOK
  <2> QED
    BY <2>1 DEF Pair!TypeOK, Requested, Main, FlagTypes
<1> QED
  BY <1>1, <1>2, <1>3, TxInvariance, PortInvariance, PairInvariance, PTL DEF DriversTypeOK
=============================================================================
