----------------------------- MODULE MCDrivers -----------------------------
(***************************************************************************)
(* The drivers that wait for each other and for their peers, checked       *)
(* together: the UART service's sender, the serial port, the radio and the *)
(* pairing mode.  A behaviour picks one of them and the others keep their  *)
(* initial states; each is as fair as its own module says.                 *)
(***************************************************************************)
EXTENDS UARTTransmit, FiniteSets

CONSTANTS
    Sizes, PortLengths, PortCalls,
    Frames, MAXIMUM_RX_BUFFERS, MaxPackets, MaxSends,
    PASSKEY_LEN, Timeout, MaxRequests

VARIABLES
    part,
    txBuff, txBuffSize, txBuffHead, txBuffTail, initialised, txInUse, attached, turn, queue,
    at, order, written, copiedBytes, ordered, accepted, wire, returned, forgotten, stray,
    enabledRadio, rxBuf, rxQueue, queueDepth, datagrams, suppressForwarding, free, content,
    mode, started, packetptr, ended, pending, enabled, place, p, back, next, depth, sending,
    packets, heard, handled, current, sends, sent, unsent, nested,
    peer, requests, pairingStatus, passKey, timeInPairingMode, ticking, round, digit, loaded,
    authorised, overtaken, unanswered

portVars ==
    <<txBuff, txBuffSize, txBuffHead, txBuffTail, initialised, txInUse, attached, turn, queue,
      at, order, written, copiedBytes, ordered, accepted, wire, returned, forgotten, stray>>
radioVars ==
    <<enabledRadio, rxBuf, rxQueue, queueDepth, datagrams, suppressForwarding, free, content,
      mode, started, packetptr, ended, pending, enabled, place, p, back, next, depth, sending,
      packets, heard, handled, current, sends, sent, unsent, nested>>
pairingVars ==
    <<peer, requests, pairingStatus, passKey, timeInPairingMode, ticking, round, digit, loaded,
      authorised, overtaken, unanswered>>

Port == INSTANCE SerialPort WITH
            Fibers <- Senders, Lengths <- PortLengths, MaxCalls <- PortCalls,
            running <- turn, pc <- at, call <- order, bytesWritten <- written,
            calls <- ordered
Air == INSTANCE Radio WITH initialised <- enabledRadio, pc <- place
Pair == INSTANCE Pairing WITH pc <- round, i <- digit

ASSUME DriversAssumption == Port!ConstantsOK /\ Air!ConstantsOK /\ Pair!ConstantsOK

DriversInit ==
    /\ part \in {"service", "port", "radio", "pairing"}
    /\ Init /\ Port!Init /\ Air!Init /\ Pair!Init
    /\ part /= "service" => carried = CHOOSE n \in Carries : TRUE
    /\ part /= "port" => txBuffSize = 1 + CHOOSE s \in Sizes : TRUE

\* What all parts but one are.
Others(x) ==
    /\ part = x /\ UNCHANGED part
    /\ x /= "service" => UNCHANGED vars
    /\ x /= "port" => UNCHANGED portVars
    /\ x /= "radio" => UNCHANGED radioVars
    /\ x /= "pairing" => UNCHANGED pairingVars

DriversNext ==
    \/ Others("service") /\ Next
    \/ Others("port") /\ Port!Next
    \/ Others("radio") /\ Air!Next
    \/ Others("pairing") /\ Pair!Next

\* Each part as fair as its own module says; in another part nothing is enabled.
DriversFairness ==
    /\ WF_vars(Others("service") /\ \E s \in Senders : Fiber(s))
    /\ WF_vars(Others("service") /\ on_confirmation)
    /\ WF_portVars(Others("port") /\ Port!dataWritten)
    /\ WF_portVars(Others("port") /\ Port!Tick)
    /\ WF_portVars(Others("port") /\ \E s \in Senders : Port!Step(s))
    /\ WF_portVars(Others("port") /\ \E s \in Senders : Port!Yield(s))
    /\ WF_portVars(Others("port") /\ \E s \in Senders : Port!Dispatch(s))
    /\ WF_radioVars(Others("radio") /\ (Air!Recv \/ Air!Sending \/ Air!Tick))
    /\ WF_radioVars(Others("radio") /\ Air!Transmitted)
    /\ WF_radioVars(Others("radio") /\ Air!RADIO_IRQHandler)
    /\ WF_pairingVars(Others("pairing") /\ Pair!pairingMode)

DriversSpec ==
    /\ DriversInit /\ [][DriversNext]_<<part, vars, portVars, radioVars, pairingVars>>
    /\ DriversFairness

-----------------------------------------------------------------------------
\* Every part's variables keep their types; each part's comment says what they
\* are.  The radio's are MCParts's.
DriversTypeOK == TypeOK /\ Port!TypeOK /\ Pair!TypeOK

\* The central gets the strings of the UART service in order, and SYNC_SLEEP returns
\* with what it has, but for fibers that fill the buffer while an indication is out
\* and for what an indication was too short to carry; the serial port sends what it was given, call after call, and
\* SYNC_SPINWAIT returns with everything on the wire.
StringsArrive == InOrder /\ SyncIsReceived /\ Port!SerialInOrder

\* The passkey is shown to whom the button allows it, while he waits for it.
PasskeyOnDemand == Pair!PasskeyOnDemand

\* Every send() comes to its end, whoever waits for an empty buffer wakes, the
\* radio's queue is handed out, and pairing mode ends.
DriversSettle ==
    /\ SendSettles /\ Port!SendEnds /\ Port!WaitersWake
    /\ Air!SendEnds /\ Air!QueueDrains /\ Pair!PairingEnds

=============================================================================
