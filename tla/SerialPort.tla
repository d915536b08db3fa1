----------------------------- MODULE SerialPort -----------------------------
(***************************************************************************)
(* The sending half of MicroBitSerial.cpp: send() and sendChar() in their  *)
(* three modes, setTxBufferSize() and clearTxBuffer(), called by several   *)
(* fibers, and dataWritten(), the interrupt that takes one character after *)
(* another out of the circular buffer.                                     *)
(*                                                                         *)
(* A fiber keeps the processor until it sleeps or yields; the interrupt    *)
(* comes between any two of its steps.  A fiber that called                *)
(* fiber_wake_on_event() runs on although it is in the wait queue: that    *)
(* matters when it gives up the processor.  A character is known by its    *)
(* call and its place in it.                                               *)
(***************************************************************************)
EXTENDS Integers, Sequences

CONSTANTS
    Fibers,
    Sizes,         \* what setTxBufferSize() is called with, and the constructor
    Lengths,       \* the lengths of the strings
    None,          \* no fiber
    MaxCalls       \* bound: how many calls there are

\* What the constants may be.
ConstantsOK ==
    /\ Sizes \subseteq 1 .. 254 /\ Sizes # {}
    /\ Lengths \subseteq Nat \ {0}
    /\ None \notin Fibers

VARIABLES
    txBuff, txBuffSize, txBuffHead, txBuffTail,
    initialised,   \* MICROBIT_SERIAL_TX_BUFF_INIT
    txInUse,       \* MICROBIT_SERIAL_TX_IN_USE
    attached,      \* dataWritten is attached to the interrupt
    running,       \* the fiber that has the processor
    queue,         \* which queue of the scheduler each fiber is in
    pc,            \* where each fiber is
    call,          \* its call: number, length, mode, whether it is sendChar()
    bytesWritten, copiedBytes,
    \* history
    calls,         \* how many calls there have been
    accepted,      \* the characters that were sent or are in the buffer
    wire,          \* the characters that were sent
    returned,      \* the calls that returned, with what they returned
    forgotten,     \* fibers that wait for a buffer that is empty already
    stray          \* the interrupt came while the size was not yet the buffer's

ring == <<txBuff, txBuffSize, txBuffHead, txBuffTail, initialised>>
fibers == <<running, queue>>
locals == <<call, bytesWritten, copiedBytes>>
history == <<calls, accepted, wire, returned, forgotten, stray>>
vars == <<ring, txInUse, attached, fibers, pc, locals, history>>

Modes == {"ASYNC", "SPIN", "SLEEP"}
PCs == {"idle", "copy", "register", "attach", "send", "loop", "resize"}
Junk == [call |-> 0, at |-> 0]      \* memory that malloc() or nobody has filled
NoCall == [n |-> 0, len |-> 0, mode |-> "ASYNC", one |-> FALSE]

Init ==
    /\ txBuff = <<>> /\ txBuffHead = 0 /\ txBuffTail = 0
    /\ \E s \in Sizes : txBuffSize = s + 1
    /\ initialised = FALSE /\ txInUse = FALSE /\ attached = FALSE
    /\ running = None /\ queue = [f \in Fibers |-> "run"]
    /\ pc = [f \in Fibers |-> "idle"]
    /\ call = [f \in Fibers |-> NoCall]
    /\ bytesWritten = [f \in Fibers |-> 0] /\ copiedBytes = [f \in Fibers |-> 0]
    /\ calls = 0 /\ accepted = <<>> /\ wire = <<>> /\ returned = {}
    /\ forgotten = {} /\ stray = FALSE

-----------------------------------------------------------------------------
(* The circular buffer.                                                    *)

After_NoWrap(i) == i + 1
After(i) == (i + 1) % txBuffSize
HasRoom == After(txBuffHead) # txBuffTail

txBufferedSize ==
    IF txBuffTail > txBuffHead THEN (txBuffSize - txBuffTail) + txBuffHead
                               ELSE txBuffHead - txBuffTail

\* What the buffer holds, the oldest first.
Contents == [k \in 1 .. txBufferedSize |-> txBuff[1 + ((txBuffTail + k - 1) % txBuffSize)]]

\* malloc() of txBuffSize bytes, both indices to 0.
initialiseTx ==
    /\ txBuff' = [k \in 1 .. txBuffSize |-> Junk]
    /\ txBuffHead' = 0 /\ txBuffTail' = 0
    /\ initialised' = TRUE
    /\ UNCHANGED txBuffSize

-----------------------------------------------------------------------------
(* The interrupt and the scheduler.                                        *)

\* TX_EMPTY on the notify channel: scheduler_event wakes every fiber that waits.
Woken_None == UNCHANGED <<queue, forgotten>>
Woken ==
    /\ queue' = [f \in Fibers |-> IF queue[f] = "wait" THEN "run" ELSE queue[f]]
    /\ forgotten' = {}

\* One character goes out; the last one wakes whoever waits and detaches.  Not
\* twice between two statements: a character takes longer than that.
dataWritten ==
    /\ attached /\ initialised /\ txBuffTail # txBuffHead
    /\ ~(stray /\ Len(txBuff) # txBuffSize)
    /\ wire' = Append(wire, IF txBuffTail < Len(txBuff) THEN txBuff[txBuffTail + 1] ELSE Junk)
    /\ txBuffTail' = After(txBuffTail)
    /\ attached' = (After(txBuffTail) # txBuffHead)
    /\ IF After(txBuffTail) = txBuffHead THEN Woken ELSE UNCHANGED <<queue, forgotten>>
    /\ stray' = (stray \/ Len(txBuff) # txBuffSize)
    /\ UNCHANGED <<txBuff, txBuffSize, txBuffHead, initialised, txInUse, running, pc, locals,
                   calls, accepted, returned>>

\* The timer's interrupt: fiber_sleep(0) is over at the next tick.
Tick ==
    /\ \E f \in Fibers : queue[f] = "sleep"
    /\ queue' = [f \in Fibers |-> IF queue[f] = "sleep" THEN "run" ELSE queue[f]]
    /\ UNCHANGED <<ring, txInUse, attached, running, pc, locals, history>>

\* schedule(): any runnable fiber.  An idle one has its turn when it makes a call.
Runs(f) == running = f \/ (running = None /\ queue[f] = "run")

Dispatch(f) ==
    /\ running = None /\ Runs(f) /\ pc[f] # "idle"
    /\ running' = f
    /\ UNCHANGED <<ring, txInUse, attached, queue, pc, locals, history>>

\* A fiber gives up the processor, and goes on later if it is still runnable.
Yield(f) ==
    /\ running = f /\ pc[f] = "idle"
    /\ running' = None
    /\ UNCHANGED <<ring, txInUse, attached, queue, pc, locals, history>>

-----------------------------------------------------------------------------
(* send() and sendChar(), by the fiber f that has the processor.           *)

At(f, l) == running = f /\ pc[f] = l
Goto(f, l) == pc' = [pc EXCEPT ![f] = l]

\* f makes a call.
Calls(f) ==
    /\ Runs(f) /\ pc[f] = "idle" /\ calls < MaxCalls
    /\ running' = f
    /\ calls' = calls + 1

\* Another fiber's call is refused with MICROBIT_SERIAL_IN_USE.
Free == ~txInUse

\* The call: lock and, the first time, initialise.
send(f, len, mode, one) ==
    /\ Calls(f) /\ Free
    /\ one => len = 1
    /\ txInUse' = TRUE
    /\ IF initialised THEN UNCHANGED ring ELSE initialiseTx
    /\ call' = [call EXCEPT ![f] = [n |-> calls + 1, len |-> len, mode |-> mode, one |-> one]]
    /\ Goto(f, "copy")
    /\ UNCHANGED <<attached, queue, bytesWritten, copiedBytes, accepted, wire, returned,
                   forgotten, stray>>

\* The place in the string of the next character to copy.
Place(f) == bytesWritten[f] + copiedBytes[f] + 1

\* setTxInterrupt copies until the string ends ...
Copy(f) ==
    /\ At(f, "copy") /\ Place(f) <= call[f].len /\ HasRoom
    /\ LET char == [call |-> call[f].n, at |-> Place(f)]
       IN  /\ txBuff' = [txBuff EXCEPT ![txBuffHead + 1] = char]
           /\ accepted' = Append(accepted, char)
    /\ txBuffHead' = After(txBuffHead)
    /\ copiedBytes' = [copiedBytes EXCEPT ![f] = @ + 1]
    /\ UNCHANGED <<txBuffSize, txBuffTail, initialised, txInUse, attached, fibers, pc, call,
                   bytesWritten, calls, wire, returned, forgotten, stray>>

\* ... or the buffer is full.
CopyEnd(f) ==
    /\ At(f, "copy") /\ (Place(f) > call[f].len \/ ~HasRoom)
    /\ Goto(f, IF call[f].mode = "SPIN" THEN "attach" ELSE "register")
    /\ UNCHANGED <<ring, txInUse, attached, fibers, locals, history>>

\* fiber_wake_on_event: f waits for TX_EMPTY from now on and runs on.
Register(f) ==
    /\ At(f, "register")
    /\ queue' = [queue EXCEPT ![f] = "wait"]
    /\ forgotten' = IF txBuffHead = txBuffTail THEN forgotten \cup {f} ELSE forgotten \ {f}
    /\ Goto(f, "attach")
    /\ UNCHANGED <<ring, txInUse, attached, running, locals, calls, accepted, wire, returned,
                   stray>>

Attach(f) ==
    /\ At(f, "attach")
    /\ attached' = TRUE
    /\ bytesWritten' = [bytesWritten EXCEPT ![f] = @ + copiedBytes[f]]
    /\ copiedBytes' = [copiedBytes EXCEPT ![f] = 0]
    /\ Goto(f, "send")
    /\ UNCHANGED <<ring, txInUse, fibers, call, history>>

\* send(mode): nothing, or a loop until the buffer is empty ...
Spin(f) ==
    /\ At(f, "send") /\ call[f].mode # "SLEEP"
    /\ call[f].mode = "SPIN" => txBufferedSize = 0
    /\ Goto(f, "loop")
    /\ UNCHANGED <<ring, txInUse, attached, fibers, locals, history>>

\* ... or fiber_sleep(0), which takes f out of the wait queue.
Sleep(f) ==
    /\ At(f, "send") /\ call[f].mode = "SLEEP"
    /\ queue' = [queue EXCEPT ![f] = "sleep"]
    /\ forgotten' = forgotten \ {f}
    /\ running' = None
    /\ Goto(f, "loop")
    /\ UNCHANGED <<ring, txInUse, attached, locals, calls, accepted, wire, returned, stray>>

Complete(f) ==
    call[f].one \/ call[f].mode = "ASYNC" \/ bytesWritten[f] >= call[f].len

Again(f) ==
    /\ At(f, "loop") /\ ~Complete(f)
    /\ Goto(f, "copy")
    /\ UNCHANGED <<ring, txInUse, attached, fibers, locals, history>>

Return(f) ==
    /\ At(f, "loop") /\ Complete(f)
    /\ txInUse' = FALSE
    /\ returned' = returned \cup {[call |-> call[f], count |-> bytesWritten[f]]}
    /\ call' = [call EXCEPT ![f] = NoCall]
    /\ bytesWritten' = [bytesWritten EXCEPT ![f] = 0]
    /\ Goto(f, "idle")
    /\ UNCHANGED <<ring, attached, fibers, copiedBytes, calls, accepted, wire, forgotten, stray>>

-----------------------------------------------------------------------------
(* The buffer's size and contents.                                         *)

\* The size is set before the interrupt is detached ...
setTxBufferSize(f, s) ==
    /\ Calls(f) /\ Free
    /\ txInUse' = TRUE
    /\ txBuffSize' = s + 1
    /\ Goto(f, "resize")
    /\ stray' = FALSE
    /\ UNCHANGED <<txBuff, txBuffHead, txBuffTail, initialised, attached, queue, locals,
                   accepted, wire, returned, forgotten>>

\* What the buffer held is gone, and nobody will say that it is empty.
Emptied ==
    /\ accepted' = wire
    /\ forgotten' = forgotten \cup {f \in Fibers : queue[f] = "wait"}

\* ... and initialiseTx() throws away what the buffer held.
Resize(f) ==
    /\ At(f, "resize")
    /\ attached' = (attached /\ ~initialised)
    /\ initialiseTx
    /\ Emptied
    /\ txInUse' = FALSE
    /\ Goto(f, "idle")
    /\ UNCHANGED <<fibers, locals, calls, wire, returned, stray>>

clearTxBuffer(f) ==
    /\ Calls(f) /\ Free
    /\ txBuffTail' = txBuffHead
    /\ Emptied
    /\ UNCHANGED <<txBuff, txBuffSize, txBuffHead, initialised, txInUse, attached, queue, pc,
                   locals, wire, returned, stray>>

Call(f) ==
    \/ \E len \in Lengths, mode \in Modes, one \in BOOLEAN : send(f, len, mode, one)
    \/ \E s \in Sizes : setTxBufferSize(f, s)
    \/ clearTxBuffer(f)

Step(f) ==
    \/ Copy(f) \/ CopyEnd(f) \/ Register(f) \/ Attach(f) \/ Spin(f) \/ Sleep(f)
    \/ Again(f) \/ Return(f) \/ Resize(f)

Next ==
    \/ dataWritten \/ Tick
    \/ \E f \in Fibers : Call(f) \/ Step(f) \/ Dispatch(f) \/ Yield(f)

\* The port sends, time goes on, and a fiber gives up the processor in the end.
\* One fiber at a time is in a call, so that it need not compete for its turn.
Fairness ==
    /\ WF_vars(dataWritten) /\ WF_vars(Tick)
    /\ WF_vars(\E f \in Fibers : Step(f)) /\ WF_vars(\E f \in Fibers : Yield(f))
    /\ WF_vars(\E f \in Fibers : Dispatch(f))

Spec == Init /\ [][Next]_vars /\ Fairness

-----------------------------------------------------------------------------
(* Properties.                                                             *)

\* The indices stay inside the buffer, except that a new size is set before
\* setTxBufferSize detaches the interrupt.
TypeOK ==
    /\ txBuffSize \in {s + 1 : s \in Sizes}
    /\ initialised => Len(txBuff) = txBuffSize \/ \E f \in Fibers : pc[f] = "resize"
    /\ txBuffHead \in 0 .. Len(txBuff) /\ txBuffTail \in Nat
    /\ (initialised /\ \A f \in Fibers : pc[f] # "resize") =>
           txBuffHead < txBuffSize /\ txBuffTail < txBuffSize
    /\ initialised \in BOOLEAN /\ txInUse \in BOOLEAN /\ attached \in BOOLEAN
    /\ running \in Fibers \cup {None} /\ queue \in [Fibers -> {"run", "wait", "sleep"}]
    /\ pc \in [Fibers -> PCs] /\ forgotten \subseteq Fibers /\ stray \in BOOLEAN

Quiet == \A f \in Fibers : pc[f] # "resize"

\* What was sent, and then what the buffer holds, is what send() accepted, in
\* that order: dataWritten and setTxInterrupt share the ring without a lock.
FifoOrder == Quiet => wire \o Contents = accepted

\* The characters of two calls are never mixed, and none of a string is left
\* out: TX_IN_USE holds from the call to its return, also while the fiber sleeps.
OneAtATime ==
    \A k \in 1 .. Len(accepted) : \/ accepted[k].at = 1
                                  \/ k > 1 /\ accepted[k].call = accepted[k - 1].call
                                           /\ accepted[k].at = accepted[k - 1].at + 1

Sent(r) == {[call |-> r.call.n, at |-> k] : k \in 1 .. r.count}
                \subseteq {wire[k] : k \in 1 .. Len(wire)}

\* send(SYNC_SPINWAIT) returns when every character is on the wire; sendChar
\* may return 0.
SpinMeansSent ==
    \A r \in returned : r.call.mode = "SPIN" =>
        Sent(r) /\ (r.call.one \/ r.count = r.call.len)

\* The port sends what it was given, in order.
SerialInOrder == FifoOrder /\ OneAtATime /\ SpinMeansSent

\* Every call ends, in every mode, whoever else sends or resizes.
SendEnds == \A f \in Fibers : []<>(pc[f] = "idle")

\* A fiber that waits for TX_EMPTY becomes runnable, unless the buffer was empty
\* before it registered, or was emptied by a call.
WaitersWake == \A f \in Fibers : []<>(queue[f] # "wait" \/ f \in forgotten)

=============================================================================
