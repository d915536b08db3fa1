------------------------------ MODULE MCParts ------------------------------
(***************************************************************************)
(* The parts of the runtime and of the phone that the alarm's own modules  *)
(* stand on or leave out, checked together: a behaviour picks one of them  *)
(* and the others keep their initial states.                               *)
(***************************************************************************)
EXTENDS HeapAllocator, Sequences

CONSTANTS
    SIGMA_MAX, THRESH_HI, THRESH_LO, LONG_CLICK_TIME, HOLD_TIME,
    NO_PWMS, Pins, Freed,
    N, MAX_QUEUE_DEPTH, MaxEvents, MaxInside,
    MaxServices, MaxLines, MaxClients, MaxDevices,
    Frames, MAXIMUM_RX_BUFFERS, MaxPackets, MaxSends

VARIABLES
    part,
    turn, sigma, down, held, age, subDown, subHeld, supressed, stage,
    stable, began, ended, own, combined,
    pwms, lastUsed, status, pin, latest, dangled,
    listed, deleting, entered, evt, backlog, evt_queue, sending, prev, tested, at, now, inside,
    spinning, sent, owed, handled, overlapped, abandoned,
    ui, queue, position, btScanning, devicesDiscovered, bluetoothGatt, btTXCharac, value,
    services, noted, clients, opening, linked, searching, busy, air, made, received, raced,
    initialised, rxBuf, rxQueue, queueDepth, datagrams, suppressForwarding, unused, content,
    mode, started, packetptr, complete, pending, enabled, place, frame, back, more, depth, argument,
    packets, heard, passed, current, sends, out, unsent, nested

\* Two heaps side by side, of four and two words.
Starts == <<0, 4>>
Ends == <<4, 6>>

\* A listener of each mode, and two kinds of events, which others than those that
\* hear them pass over.
Mode == <<"queue", "drop", "reentrant">>
Kinds == {"x", "y"}
Hears == <<{"x"}, {"y"}, {"x"}>>

buttonVars ==
    <<turn, sigma, down, held, age, subDown, subHeld, supressed, stage, stable, began, ended,
      own, combined>>
pwmVars == <<pwms, lastUsed, status, pin, latest, dangled>>
busVars ==
    <<listed, deleting, entered, evt, backlog, evt_queue, sending, prev, tested, at, now, inside,
      spinning, sent,
      owed, handled, overlapped, abandoned>>
phoneVars ==
    <<ui, queue, position, btScanning, devicesDiscovered, bluetoothGatt, btTXCharac, value,
      services, noted, clients, opening, linked, searching, busy, air, made, received, raced>>

radioVars ==
    <<initialised, rxBuf, rxQueue, queueDepth, datagrams, suppressForwarding, unused, content,
      mode, started, packetptr, complete, pending, enabled, place, frame, back, more, depth,
      argument, packets, heard, passed, current, sends, out, unsent, nested>>

Button == INSTANCE Buttons
Pwm == INSTANCE DynamicPwm
Bus == INSTANCE Listeners
Phone == INSTANCE AndroidApp
Air == INSTANCE Radio WITH
           p <- frame, next <- more, free <- unused, ended <- complete, pc <- place,
           sending <- argument, handled <- passed, sent <- out

ASSUME PartsAssumption ==
    Button!ConstantsOK /\ Pwm!ConstantsOK /\ Bus!ConstantsOK /\ Air!ConstantsOK

PartsInit ==
    /\ part \in {"heap", "buttons", "pwm", "bus", "phone", "radio"}
    /\ Init /\ Button!Init /\ Pwm!Init /\ Bus!Init /\ Phone!Init /\ Air!Init

\* What all parts but one are.
Others(x) ==
    /\ part = x /\ UNCHANGED part
    /\ x /= "heap" => UNCHANGED vars
    /\ x /= "buttons" => UNCHANGED buttonVars
    /\ x /= "pwm" => UNCHANGED pwmVars
    /\ x /= "bus" => UNCHANGED busVars
    /\ x /= "phone" => UNCHANGED phoneVars
    /\ x /= "radio" => UNCHANGED radioVars

PartsNext ==
    \/ Others("heap") /\ Next
    \/ Others("buttons") /\ Button!Next
    \/ Others("pwm") /\ Pwm!Next
    \/ Others("bus") /\ Bus!Next
    \/ Others("phone") /\ Phone!Next
    \/ Others("radio") /\ Air!Next

PartsSpec ==
    PartsInit /\ [][PartsNext]_<<part, vars, buttonVars, pwmVars, busVars, phoneVars, radioVars>>

-----------------------------------------------------------------------------
\* Every part's variables keep their types; each part's comment says what they are.
PartsTypeOK ==
    TypeOK /\ Button!TypeOK /\ Pwm!TypeOK /\ Bus!TypeOK /\ Phone!TypeOK /\ Air!TypeOK

\* A press gives one click, of the button's own or of A+B, and a button changes only
\* after its counter has gone from threshold to threshold.
PressesClick == Button!PressesClick
\* A PWM channel drives only the pin that knows it as its own.
ChannelsFollowPins == Pwm!ChannelsFollowPins
\* A listener handles its events once and in order, and is not deleted under a fiber.
ListenersServe == Bus!ListenersServe
\* The micro:bit gets the phone's lines in order and none twice but for one race.
LinesInOrder == Phone!LinesInOrder
\* Each packet is handed out once and in order, each frame has one owner, and what
\* there is to send goes out once.
RadioDelivers == Air!RadioDelivers

=============================================================================
