-------------------------------- MODULE Radio --------------------------------
(***************************************************************************)
(* MicroBitRadio.cpp with its two protocols, MicroBitRadioDatagram.cpp and *)
(* MicroBitRadioEvent.cpp: frames that the receiver's interrupt queues and *)
(* the idle fiber hands out, and the sending of datagrams and of events    *)
(* that are forwarded.                                                     *)
(*                                                                         *)
(* Fibers do not preempt each other: one place pc stands for whichever is  *)
(* inside the radio's code.  Between its steps come the radio's interrupt  *)
(* and the timer's, in which an event may be raised that is forwarded at   *)
(* once; the two do not interrupt each other.  A frame is an address, so   *)
(* that it can be freed and allocated again.                               *)
(***************************************************************************)
EXTENDS Integers, Sequences, FiniteSets

CONSTANTS
    Frames,        \* addresses that new FrameBuffer() may return
    None,          \* NULL
    MAXIMUM_RX_BUFFERS,
    MaxPackets,    \* bound: how many packets arrive
    MaxSends       \* bound: how many datagrams and events there are to send

\* What the constants may be.
ConstantsOK == None \notin Frames /\ MAXIMUM_RX_BUFFERS \in Nat \ {0}

VARIABLES
    initialised,   \* MICROBIT_RADIO_STATUS_INITIALISED
    rxBuf, rxQueue, queueDepth,
    datagrams,     \* rxQueue of MicroBitRadioDatagram
    suppressForwarding,
    \* memory
    free, content,
    \* NRF_RADIO and its interrupt
    mode,          \* "off", "rx" or "tx"
    started,       \* it waits for a packet, or sends one
    packetptr,     \* the frame it receives into or sends from
    ended,         \* EVENTS_END
    pending, enabled,      \* of the interrupt, in the NVIC
    \* the fiber inside the radio's code
    pc,
    p,             \* idleTick's frame
    back,          \* where recv() returns to
    next, depth,   \* what recv() has read
    sending,       \* the argument of send()
    \* history
    packets,       \* how many packets have arrived
    heard,         \* the packets that were queued
    handled,       \* the packets that a protocol got, or that nobody wanted
    current,       \* the packet that idleTick works on
    sends,         \* how many datagrams and events there were to send
    sent,          \* those that went out
    unsent,        \* events that eventReceived did not send
    nested         \* an interrupt has sent while a fiber was in send() or recv()

driver == <<initialised, rxBuf, rxQueue, queueDepth, datagrams, suppressForwarding>>
memory == <<free, content>>
hardware == <<mode, started, packetptr, ended, pending, enabled>>
locals == <<p, back, next, depth, sending>>
history == <<packets, heard, handled, current, sends, sent, unsent, nested>>
vars == <<driver, memory, hardware, pc, locals, history>>

Protocols == {"datagram", "event", "other"}
InRecv == {"recv", "recvNext", "recvDepth"}
InSend == {"send", "sendStart", "sendClear", "sendWait"}
PCs == InRecv \cup InSend \cup
       {"idle", "loop", "switch", "datagram", "raised", "event", "fire", "delete", "check", "drop"}
Blank == [n |-> 0, protocol |-> "other"]

Init ==
    /\ initialised = FALSE /\ rxBuf = None /\ rxQueue = <<>> /\ queueDepth = 0
    /\ datagrams = <<>> /\ suppressForwarding = FALSE
    /\ free = Frames /\ content = [f \in Frames |-> Blank]
    /\ mode = "off" /\ started = FALSE /\ packetptr = None /\ ended = FALSE
    /\ pending = FALSE /\ enabled = FALSE
    /\ pc = "idle" /\ p = None /\ back = "idle" /\ next = FALSE /\ depth = 0 /\ sending = 0
    /\ packets = 0 /\ heard = <<>> /\ handled = <<>> /\ current = 0
    /\ sends = 0 /\ sent = <<>> /\ unsent = {} /\ nested = FALSE

-----------------------------------------------------------------------------
(* The radio.                                                              *)

\* A packet fills the frame; without a frame it is lost.
Arrive(protocol) ==
    /\ mode = "rx" /\ started /\ packets < MaxPackets
    /\ packets' = packets + 1
    /\ content' = IF packetptr = None THEN content
                  ELSE [content EXCEPT ![packetptr] = [n |-> packets + 1, protocol |-> protocol]]
    /\ started' = FALSE /\ ended' = TRUE /\ pending' = TRUE
    /\ UNCHANGED <<driver, free, mode, packetptr, enabled, pc, locals, heard, handled, current,
                   sends, sent, unsent, nested>>

\* A packet is out.  It takes longer than the way from TASKS_START to the next
\* statement.
Transmitted ==
    /\ mode = "tx" /\ started /\ pc # "sendClear"
    /\ started' = FALSE /\ ended' = TRUE /\ pending' = TRUE
    /\ UNCHANGED <<driver, memory, mode, packetptr, enabled, pc, locals, history>>

\* What new FrameBuffer() may return.  Of the free addresses only idleTick's own is
\* remembered by anybody; the others are all alike, and one stands for them.
New == free \cap {p, CHOOSE f \in free : f # p \/ free = {p}}

\* queueRxBuf: the frame goes to the end of the queue, a new one takes its place.
Room == rxBuf # None /\ queueDepth < MAXIMUM_RX_BUFFERS /\ free # {}
queueRxBuf ==
    \E f \in New :
        /\ rxQueue' = Append(rxQueue, rxBuf)
        /\ queueDepth' = queueDepth + 1
        /\ heard' = Append(heard, content[rxBuf].n)
        /\ rxBuf' = f /\ packetptr' = f
        /\ free' = free \ {f}

\* The interrupt: the packet is queued if it is sound and there is room, and the
\* radio starts again.
RADIO_IRQHandler ==
    /\ pending /\ enabled
    /\ pending' = FALSE
    /\ IF ended THEN ended' = FALSE /\ started' = TRUE ELSE UNCHANGED <<ended, started>>
    /\ \/ ended /\ mode = "rx" /\ Room /\ queueRxBuf
       \/ UNCHANGED <<rxQueue, queueDepth, heard, rxBuf, packetptr, free>>
    /\ UNCHANGED <<initialised, datagrams, suppressForwarding, content, mode, enabled, pc,
                   locals, packets, handled, current, sends, sent, unsent, nested>>

\* What send() leaves: the radio listens and its interrupt is enabled.
Listen ==
    /\ mode' = "rx" /\ started' = TRUE /\ packetptr' = rxBuf
    /\ ended' = FALSE /\ pending' = FALSE /\ enabled' = TRUE

\* The timer's interrupt raises an event that is forwarded: eventReceived is an
\* immediate listener, and sends inside the interrupt.
Interrupt ==
    /\ sends < MaxSends /\ initialised
    /\ sends' = sends + 1
    /\ IF suppressForwarding
       THEN /\ unsent' = unsent \cup {sends + 1}
            /\ UNCHANGED <<hardware, sent, nested>>
       ELSE /\ Listen
            /\ sent' = Append(sent, sends + 1)
            /\ nested' = (nested \/ pc \in InRecv \cup InSend)
            /\ UNCHANGED unsent
    /\ UNCHANGED <<driver, memory, pc, locals, packets, heard, handled, current>>

-----------------------------------------------------------------------------
(* recv() and send(), called by the fiber; an interrupt that can come, comes.*)

At(l) == pc = l /\ ~(pending /\ enabled)

\* recv(): the queue's head and its depth, each read and then written.
recv ==
    /\ At("recv")
    /\ enabled' = FALSE
    /\ next' = (Len(rxQueue) > 1)
    /\ pc' = "recvNext"
    /\ UNCHANGED <<driver, memory, mode, started, packetptr, ended, pending, p, back, depth,
                   sending, history>>
recvNext ==
    /\ At("recvNext")
    /\ rxQueue' = IF next THEN Tail(rxQueue) ELSE <<>>
    /\ depth' = queueDepth
    /\ pc' = "recvDepth"
    /\ UNCHANGED <<initialised, rxBuf, queueDepth, datagrams, suppressForwarding, memory,
                   hardware, p, back, next, sending, history>>
recvDepth ==
    /\ At("recvDepth")
    /\ queueDepth' = depth - 1
    /\ enabled' = TRUE
    /\ pc' = back /\ next' = FALSE /\ depth' = 0
    /\ UNCHANGED <<initialised, rxBuf, rxQueue, datagrams, suppressForwarding, memory, mode,
                   started, packetptr, ended, pending, p, back, sending, history>>

\* send(): the interrupt and the receiver go off, ...
send ==
    /\ At("send")
    /\ enabled' = FALSE /\ mode' = "off" /\ started' = FALSE
    /\ pc' = "sendStart"
    /\ UNCHANGED <<driver, memory, packetptr, ended, pending, locals, history>>

\* ... the transmitter starts, ...
sendStart ==
    /\ At("sendStart")
    /\ mode' = "tx" /\ started' = TRUE /\ packetptr' = None
    /\ pc' = "sendClear"
    /\ UNCHANGED <<driver, memory, ended, pending, enabled, locals, history>>

sendClear ==
    /\ At("sendClear")
    /\ ended' = FALSE
    /\ pc' = "sendWait"
    /\ UNCHANGED <<driver, memory, mode, started, packetptr, pending, enabled, locals, history>>

\* ... and a loop waits for EVENTS_END; then the radio listens again.
sendWait ==
    /\ At("sendWait") /\ ended
    /\ Listen
    /\ sent' = Append(sent, sending)
    /\ pc' = back /\ sending' = 0
    /\ UNCHANGED <<driver, memory, p, back, next, depth, packets, heard, handled, current, sends,
                   unsent, nested>>

-----------------------------------------------------------------------------
(* idleTick(), in the idle fiber.                                          *)

Rest == <<hardware, locals, packets, heard, handled, current, sends, sent, unsent, nested>>

Handled == handled' = Append(handled, content[p].n)

\* What a freed frame holds is of no use to anybody.
Delete(f) ==
    /\ free' = free \cup {f}
    /\ content' = [content EXCEPT ![f] = Blank]

idleTick ==
    /\ At("idle") /\ initialised
    /\ pc' = "loop"
    /\ UNCHANGED <<driver, memory, Rest>>

Loop ==
    /\ At("loop")
    /\ IF rxQueue = <<>>
       THEN pc' = "idle" /\ p' = None /\ current' = 0
       ELSE pc' = "switch" /\ p' = Head(rxQueue) /\ current' = content[Head(rxQueue)].n
    /\ UNCHANGED <<driver, memory, hardware, back, next, depth, sending, packets, heard, handled,
                   sends, sent, unsent, nested>>

\* A packet of another protocol is offered to listeners, who may take it.
Switch ==
    /\ At("switch")
    /\ \/ content[p].protocol = "datagram" /\ pc' = "recv" /\ back' = "datagram"
       \/ content[p].protocol = "event" /\ pc' = "recv" /\ back' = "event"
       \/ content[p].protocol = "other" /\ pc' = "recv" /\ back' = "delete"
       \/ content[p].protocol = "other" /\ pc' = "check" /\ UNCHANGED back
    /\ UNCHANGED <<driver, memory, hardware, p, next, depth, sending, history>>

\* MicroBitRadioDatagram::packetReceived: the packet is queued for the user, or
\* deleted when his queue is full.
Full == datagrams # <<>> /\ Len(datagrams) - 1 >= MAXIMUM_RX_BUFFERS
Datagram ==
    /\ At("datagram") /\ Handled
    /\ IF Full
       THEN Delete(p) /\ pc' = "check" /\ UNCHANGED datagrams
       ELSE datagrams' = Append(datagrams, p) /\ pc' = "raised" /\ UNCHANGED memory
    /\ UNCHANGED <<initialised, rxBuf, rxQueue, queueDepth, suppressForwarding, hardware, locals,
                   packets, heard, current, sends, sent, unsent, nested>>

\* MicroBitRadioDatagram::recv, by a fiber, or by an immediate listener.
TakeDatagram(from, to) ==
    /\ At(from) /\ datagrams # <<>>
    /\ datagrams' = Tail(datagrams)
    /\ Delete(Head(datagrams))
    /\ pc' = to
    /\ UNCHANGED <<initialised, rxBuf, rxQueue, queueDepth, suppressForwarding, Rest>>

Raised ==
    /\ At("raised")
    /\ pc' = "check"
    /\ UNCHANGED <<driver, memory, Rest>>

\* MicroBitRadioEvent::packetReceived: the event is fired with forwarding off.
Event ==
    /\ At("event")
    /\ suppressForwarding' = TRUE
    /\ pc' = "fire"
    /\ UNCHANGED <<initialised, rxBuf, rxQueue, queueDepth, datagrams, memory, Rest>>

\* eventReceived sees it; 0 is an event that came by radio.
Fire ==
    /\ At("fire")
    /\ IF suppressForwarding
       THEN pc' = "delete" /\ UNCHANGED <<back, sending>>
       ELSE pc' = "send" /\ back' = "delete" /\ sending' = 0
    /\ suppressForwarding' = FALSE
    /\ UNCHANGED <<initialised, rxBuf, rxQueue, queueDepth, datagrams, memory, hardware, p, next,
                   depth, history>>

DeletePacket ==
    /\ At("delete") /\ Handled /\ Delete(p)
    /\ pc' = "check"
    /\ UNCHANGED <<driver, hardware, locals, packets, heard, current, sends, sent,
                   unsent, nested>>

\* Whoever did not take his packet has it deleted.
Check_Always ==
    /\ At("check")
    /\ IF rxQueue # <<>>
       THEN pc' = "recv" /\ back' = "drop" /\ p' = Head(rxQueue)
       ELSE pc' = "loop" /\ UNCHANGED <<back, p>>
    /\ UNCHANGED <<driver, memory, hardware, next, depth, sending, history>>
Check ==
    /\ At("check")
    /\ IF rxQueue # <<>> /\ Head(rxQueue) = p
       THEN pc' = "recv" /\ back' = "drop"
       ELSE pc' = "loop" /\ UNCHANGED back
    /\ UNCHANGED <<driver, memory, hardware, p, next, depth, sending, history>>

Drop ==
    /\ At("drop") /\ Delete(p)
    /\ IF content[p].n = current THEN Handled ELSE UNCHANGED handled
    /\ pc' = "loop"
    /\ UNCHANGED <<driver, hardware, locals, packets, heard, current, sends, sent,
                   unsent, nested>>

-----------------------------------------------------------------------------
(* What a fiber calls.                                                     *)

\* A datagram, or an event that eventReceived forwards.  send() does not ask
\* whether the radio is enabled.
Send ==
    /\ At("idle") /\ sends < MaxSends
    /\ sends' = sends + 1
    /\ sending' = sends + 1
    /\ back' = "idle"
    /\ pc' = "send"
    /\ UNCHANGED <<driver, memory, hardware, p, next, depth, packets, heard, handled, current,
                   sent, unsent, nested>>

enable ==
    /\ At("idle") /\ ~initialised
    /\ initialised' = TRUE
    /\ IF rxBuf = None
       THEN \E f \in New : rxBuf' = f /\ packetptr' = f /\ free' = free \ {f}
       ELSE packetptr' = rxBuf /\ UNCHANGED <<rxBuf, free>>
    /\ mode' = "rx" /\ started' = TRUE /\ ended' = FALSE /\ pending' = FALSE /\ enabled' = TRUE
    /\ UNCHANGED <<rxQueue, queueDepth, datagrams, suppressForwarding, content, pc, locals,
                   history>>

disable ==
    /\ At("idle") /\ initialised
    /\ initialised' = FALSE
    /\ enabled' = FALSE /\ mode' = "off" /\ started' = FALSE
    /\ UNCHANGED <<rxBuf, rxQueue, queueDepth, datagrams, suppressForwarding, memory, packetptr,
                   ended, pending, pc, locals, history>>

Recv == recv \/ recvNext \/ recvDepth
Sending == send \/ sendStart \/ sendClear \/ sendWait
Tick ==
    \/ idleTick \/ Loop \/ Switch \/ Datagram \/ Raised \/ TakeDatagram("raised", "check")
    \/ Event \/ Fire \/ DeletePacket \/ Check \/ Drop
User == Send \/ enable \/ disable \/ TakeDatagram("idle", "idle")

Next ==
    \/ \E protocol \in Protocols : Arrive(protocol)
    \/ Transmitted \/ RADIO_IRQHandler \/ Interrupt
    \/ Recv \/ Sending \/ Tick \/ User

\* A fiber that is in the code goes on, the idle fiber has its turn, and the
\* radio sends what it has started to send.
Fairness == WF_vars(Recv \/ Sending \/ Tick) /\ WF_vars(Transmitted) /\ WF_vars(RADIO_IRQHandler)

Spec == Init /\ [][Next]_vars /\ Fairness

-----------------------------------------------------------------------------
(* Properties.                                                             *)

InSeq(s) == {s[k] : k \in 1 .. Len(s)}

\* The queues have their limits: a queue of datagrams may hold one more, since
\* packetReceived counts the steps of its walk.
TypeOK ==
    /\ initialised \in BOOLEAN /\ suppressForwarding \in BOOLEAN
    /\ rxBuf \in Frames \cup {None} /\ p \in Frames \cup {None}
    /\ InSeq(rxQueue) \subseteq Frames /\ InSeq(datagrams) \subseteq Frames
    /\ ~nested => queueDepth \in 0 .. MAXIMUM_RX_BUFFERS /\ Len(rxQueue) <= MAXIMUM_RX_BUFFERS
    /\ Len(datagrams) <= MAXIMUM_RX_BUFFERS + 1
    /\ free \subseteq Frames /\ packetptr \in Frames \cup {None}
    /\ mode \in {"off", "rx", "tx"} /\ pc \in PCs /\ back \in PCs
    /\ started \in BOOLEAN /\ ended \in BOOLEAN /\ pending \in BOOLEAN /\ enabled \in BOOLEAN

\* A frame is in one place: the receiver has it, or one queue, or idleTick, or it
\* is free; so nobody reads or deletes a frame that somebody else has.
OnePlace ==
    /\ Cardinality(InSeq(rxQueue)) = Len(rxQueue)
    /\ Cardinality(InSeq(datagrams)) = Len(datagrams)
    /\ InSeq(rxQueue) \cap InSeq(datagrams) = {}
    /\ ({rxBuf} \cup InSeq(rxQueue) \cup InSeq(datagrams)) \cap free = {}
    /\ rxBuf \notin InSeq(rxQueue) \cup InSeq(datagrams)
    /\ packetptr \in {rxBuf, None}
    /\ pc \in {"switch", "datagram", "event", "fire", "delete", "drop"} => p \notin free \cup {rxBuf}

\* The packet that recv() has taken and no protocol has got yet.
InHand ==
    IF pc = "recvDepth" \/ pc \in {"datagram", "event", "fire", "delete", "drop"}
    THEN <<current>> ELSE <<>>

\* Every packet that was queued is handled once and in order, whatever comes
\* between: idleTick tells by its address whether a packet was taken.
EachHandledOnce ==
    ~nested => heard = handled \o InHand \o [k \in 1 .. Len(rxQueue) |-> content[rxQueue[k]].n]

\* queueDepth is the length of the queue: it alone stops the receiver.
DepthAgrees ==
    ~nested => queueDepth = Len(rxQueue) + (IF pc = "recvDepth" THEN 1 ELSE 0)

\* What there was to send is in hand or went out once, but for an event that an
\* interrupt raised while one from the radio was fired; and an event that came by
\* radio does not go out again.
SentOnce ==
    /\ InSeq(sent) \cup unsent \cup ({sending} \ {0}) = 1 .. sends
    /\ Cardinality(InSeq(sent)) = Len(sent) /\ 0 \notin InSeq(sent)

\* The radio hands over what it hears, and sends what it is given.
RadioDelivers == OnePlace /\ EachHandledOnce /\ DepthAgrees /\ SentOnce

\* send() ends, unless an interrupt has sent meanwhile: it leaves the radio
\* listening, and the loop waits for the end of a packet that is not sent.
SendEnds == []<>(pc \notin InSend \/ nested)

\* Packets do not stay in the queue while the radio is enabled.
QueueDrains == []<>(rxQueue = <<>> \/ ~initialised \/ nested)

=============================================================================
