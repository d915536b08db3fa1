---------------------------- MODULE UARTTransmit ----------------------------
(***************************************************************************)
(* The sending half of MicroBitUARTService.cpp: send() and putc() called   *)
(* by several fibers, the transmit buffer they share, the indication that  *)
(* the stack has under way and its confirmation.                           *)
(*                                                                         *)
(* A fiber keeps the processor until it sleeps; the confirmation, and what *)
(* the central does to the link, come between any two of its steps.  Only  *)
(* their order matters of the contents of the circular buffer, which is a  *)
(* sequence here; a character is known by its call and its place in it.    *)
(***************************************************************************)
EXTENDS Integers, Sequences

CONSTANTS
    Senders,       \* fibers that call send()
    Capacity,      \* what the transmit buffer holds (txBufferSize - 1)
    Carries,       \* what one indication may carry (20 on the device, its MTU less 3)
    Lengths,       \* the lengths of the strings
    None,          \* no fiber
    MaxCalls,      \* bound: how many calls there are
    MaxSessions    \* bound: how often the central connects

ASSUME CapacityAssumption == Capacity \in Nat \ {0}
ASSUME CarriesAssumption == Carries \subseteq Nat \ {0}
ASSUME LengthsAssumption == Lengths \subseteq Nat \ {0}
ASSUME NoneAssumption == None \notin Senders

VARIABLES
    link, updates, sessions,      \* as in MicrobitAlarm
    indicating,    \* an indication is waiting for its confirmation
    payload,       \* what it carries
    carried,       \* what any can carry: the stack's choice
    tx,            \* the transmit buffer, from tail to head
    waiting,       \* fibers in the wait queue for TX_EMPTY
    running,       \* the fiber that has the processor
    pc,            \* where each fiber is
    call,          \* its call: number, length, mode
    bytesWritten,
    updatesEnabled,
    \* of the fiber that runs, between two sleeps
    i,             \* bufferIterator
    size,
    temp,
    \* history
    calls,         \* how many calls there have been
    received,      \* the characters the central has confirmed, until something is mixed
    cut,           \* the calls of which a confirmation dropped what had not been carried
    mixed          \* a fiber has filled the buffer while an indication was out

stack == <<link, updates, sessions, indicating, payload, carried>>
locals == <<i, size, temp>>
fibers == <<running, pc, call, bytesWritten, updatesEnabled>>
told == <<received, cut>>
vars == <<stack, tx, waiting, fibers, locals, calls, told, mixed>>

Modes == {"ASYNC", "SLEEP"}
PCs == {"idle", "while", "fill", "size", "copy", "register", "write", "sleep"}
Zero == [call |-> 0, at |-> 0]     \* what memclr leaves in temp

Init ==
    /\ link = FALSE /\ updates = FALSE /\ sessions = 0
    /\ indicating = FALSE /\ payload = <<>> /\ carried \in Carries
    /\ tx = <<>> /\ waiting = {} /\ running = None
    /\ pc = [s \in Senders |-> "idle"]
    /\ call = [s \in Senders |-> [n |-> 0, len |-> 0, mode |-> "ASYNC"]]
    /\ bytesWritten = [s \in Senders |-> 0]
    /\ updatesEnabled = [s \in Senders |-> FALSE]
    /\ i = 0 /\ size = 0 /\ temp = <<>>
    /\ calls = 0 /\ received = <<>> /\ cut = {} /\ mixed = FALSE

-----------------------------------------------------------------------------
(* The central and the stack.                                              *)

Connect ==
    /\ ~link /\ sessions < MaxSessions
    /\ link' = TRUE /\ sessions' = sessions + 1
    /\ UNCHANGED <<updates, indicating, payload, carried, tx, waiting, fibers, locals,
                   calls, told, mixed>>

\* The stack forgets the indication; tx keeps its characters.
Disconnect ==
    /\ link
    /\ link' = FALSE /\ updates' = FALSE /\ indicating' = FALSE /\ payload' = <<>>
    /\ UNCHANGED <<sessions, carried, tx, waiting, fibers, locals, calls, told, mixed>>

SetIndications ==
    /\ link
    /\ updates' = ~updates
    /\ UNCHANGED <<link, sessions, indicating, payload, carried, tx, waiting, fibers,
                   locals, calls, told, mixed>>

\* txBufferTail = txBufferHead, and TX_EMPTY wakes every fiber that waits: the
\* whole buffer counts as received, however much of it the indication carried.  The
\* history ends when it is mixed.
Deliver(q) ==
    IF mixed THEN UNCHANGED told
    ELSE /\ received' = received \o payload
         /\ cut' = cut \cup {q[k].call : k \in carried + 1 .. Len(q)}
on_confirmation_KeepsTail ==
    /\ indicating
    /\ indicating' = FALSE /\ payload' = <<>>
    /\ Deliver(tx)
    /\ waiting' = {}
    /\ UNCHANGED <<link, updates, sessions, carried, tx, fibers, locals, calls, mixed>>
on_confirmation ==
    /\ indicating
    /\ indicating' = FALSE /\ payload' = <<>>
    /\ Deliver(tx)
    /\ tx' = <<>>
    /\ waiting' = {}
    /\ UNCHANGED <<link, updates, sessions, carried, fibers, locals, calls, mixed>>

-----------------------------------------------------------------------------
(* send(), by a fiber s that has the processor.                            *)

Goto(s, l) == pc' = [pc EXCEPT ![s] = l]
At(s, l) == running = s /\ pc[s] = l

\* areUpdatesEnabled() sets its result to true or leaves it alone.
Asked(s, was) ==
    updatesEnabled' = [updatesEnabled EXCEPT ![s] = was \/ (link /\ updates)]

\* The call: putc() is a send() of one character.
send(s, len, mode) ==
    /\ running = None /\ pc[s] = "idle" /\ calls < MaxCalls
    /\ running' = s
    /\ calls' = calls + 1
    /\ call' = [call EXCEPT ![s] = [n |-> calls + 1, len |-> len, mode |-> mode]]
    /\ bytesWritten' = [bytesWritten EXCEPT ![s] = 0]
    /\ Asked(s, FALSE)
    /\ Goto(s, "while")
    /\ UNCHANGED <<stack, tx, waiting, locals, told, mixed>>

\* MICROBIT_NOT_SUPPORTED, the end of the loop, or the break of ASYNC.
Return(s) ==
    /\ At(s, "while")
    /\ ~(bytesWritten[s] < call[s].len /\ link /\ updatesEnabled[s])
    /\ running' = None
    /\ Goto(s, "idle")
    /\ UNCHANGED <<stack, tx, waiting, call, bytesWritten, updatesEnabled, locals, calls,
                   told, mixed>>

Enter(s) ==
    /\ At(s, "while")
    /\ bytesWritten[s] < call[s].len /\ link /\ updatesEnabled[s]
    /\ i' = bytesWritten[s]
    /\ mixed' = (mixed \/ indicating)
    /\ Goto(s, "fill")
    /\ UNCHANGED <<stack, tx, waiting, running, call, bytesWritten, updatesEnabled, size,
                   temp, calls, told>>

\* One round of the for loop: a character that finds the buffer full is passed
\* over, though the interrupt may make room for the next.
HasRoom == Len(tx) < Capacity
Fill(s) ==
    /\ At(s, "fill") /\ i < call[s].len
    /\ i' = i + 1
    /\ \/ /\ HasRoom
          /\ tx' = Append(tx, [call |-> call[s].n, at |-> i + 1])
          /\ bytesWritten' = [bytesWritten EXCEPT ![s] = @ + 1]
       \/ ~HasRoom /\ UNCHANGED <<tx, bytesWritten>>
    /\ UNCHANGED <<stack, waiting, running, pc, call, updatesEnabled, size, temp, calls,
                   told, mixed>>

\* txBufferedSize() looks at txBufferTail twice: to find out whether the characters
\* go round the end of the buffer (as they may wherever the buffer is not empty),
\* and for the difference, which is the whole buffer's size if they did and a
\* confirmation has emptied it since.
IsWrapped(s) ==
    /\ At(s, "fill") /\ i = call[s].len
    /\ size' \in {0} \cup (IF tx = <<>> THEN {} ELSE {Capacity + 1})
    /\ Goto(s, "size")
    /\ UNCHANGED <<stack, tx, waiting, running, call, bytesWritten, updatesEnabled, i, temp,
                   calls, told, mixed>>

txBufferedSize(s) ==
    /\ At(s, "size")
    /\ size' = IF tx = <<>> THEN size ELSE Len(tx)
    /\ Goto(s, "copy")
    /\ UNCHANGED <<stack, tx, waiting, running, call, bytesWritten, updatesEnabled, i, temp,
                   calls, told, mixed>>

\* temp has room for the size found before; a confirmation since leaves zeros.
circularCopy(s) ==
    /\ At(s, "copy")
    /\ temp' = [k \in 1 .. size |-> IF k <= Len(tx) THEN tx[k] ELSE Zero]
    /\ Goto(s, IF call[s].mode = "SLEEP" THEN "register" ELSE "write")
    /\ UNCHANGED <<stack, tx, waiting, running, call, bytesWritten, updatesEnabled, i, size,
                   calls, told, mixed>>

fiber_wake_on_event(s) ==
    /\ At(s, "register")
    /\ waiting' = waiting \cup {s}
    /\ Goto(s, "write")
    /\ UNCHANGED <<stack, tx, running, call, bytesWritten, updatesEnabled, locals, calls,
                   told, mixed>>

\* The stack refuses a write without a subscribed central or while another
\* indication is out; send() does not look at the result.  It carries as much as
\* fits into an indication and says so in a length that nobody reads.  SLEEP goes
\* to schedule(), ASYNC returns.
Accepted == link /\ updates /\ ~indicating
Fitting(q) == SubSeq(q, 1, IF Len(q) < carried THEN Len(q) ELSE carried)
write(s) ==
    /\ At(s, "write")
    /\ indicating' = (indicating \/ Accepted)
    /\ payload' = IF Accepted THEN Fitting(temp) ELSE payload
    /\ i' = 0 /\ size' = 0 /\ temp' = <<>>
    /\ running' = None
    /\ Goto(s, IF call[s].mode = "SLEEP" THEN "sleep" ELSE "idle")
    /\ UNCHANGED <<link, updates, sessions, carried, tx, waiting, call, bytesWritten,
                   updatesEnabled, calls, told, mixed>>

\* schedule() comes back to s when it is not, or no longer, in the wait queue.
Resume(s) ==
    /\ running = None
    /\ pc[s] = "sleep" /\ s \notin waiting
    /\ running' = s
    /\ waiting' = waiting \ {s}
    /\ Asked(s, updatesEnabled[s])
    /\ Goto(s, "while")
    /\ UNCHANGED <<stack, tx, call, bytesWritten, locals, calls, told, mixed>>

-----------------------------------------------------------------------------
Fiber(s) ==
    \/ Return(s) \/ Enter(s) \/ Fill(s) \/ IsWrapped(s) \/ txBufferedSize(s)
    \/ circularCopy(s) \/ fiber_wake_on_event(s) \/ write(s) \/ Resume(s)

Next ==
    \/ \E s \in Senders, len \in Lengths, mode \in Modes : send(s, len, mode)
    \/ \E s \in Senders : Fiber(s)
    \/ Connect \/ Disconnect \/ SetIndications \/ on_confirmation

Spec == Init /\ [][Next]_vars

\* The scheduler runs what is runnable; a central confirms while the link lasts.
Fairness == WF_vars(\E s \in Senders : Fiber(s)) /\ WF_vars(on_confirmation)

FairSpec == Spec /\ Fairness

-----------------------------------------------------------------------------
(* What the sending half promises.                                         *)

\* The buffer never holds more than fits, a fiber runs only between two sleeps,
\* and an indication is out only over a link.
TypeOK ==
    /\ Len(tx) <= Capacity
    /\ size <= Capacity + 1 /\ Len(payload) <= carried
    /\ indicating => link
    /\ running = None <=> \A s \in Senders : pc[s] \in {"idle", "sleep"}
    /\ waiting \subseteq {s \in Senders : pc[s] \in {"write", "sleep"}}
    /\ pc \in [Senders -> PCs]
    /\ \A s \in Senders : bytesWritten[s] \in 0 .. call[s].len

\* The characters of call n that the central has confirmed, by their place.
Confirmed(n) == {received[k].at : k \in {j \in 1 .. Len(received) : received[j].call = n}}

\* As long as no fiber fills the buffer while an indication is out, the central
\* gets the characters of every call in order, none of them twice, and nothing that
\* nobody sent, whatever becomes of the link and of the calls between; and it gets
\* none before all earlier ones of its call, unless an indication was too short
\* for what the buffer held of that call.
InOrder ==
    ~mixed =>
        /\ \A k \in 1 .. Len(received) : received[k].call \in 1 .. calls /\ received[k].at >= 1
        /\ \A j, k \in 1 .. Len(received) :
               j < k /\ received[j].call = received[k].call => received[j].at < received[k].at
        /\ \A n \in 1 .. calls \ cut : \A a \in Confirmed(n) : 1 .. a \subseteq Confirmed(n)

\* SYNC_SLEEP: when send() is back from a wait, or returns, the central has
\* confirmed all the characters that it counts as written, if every indication
\* carried what the buffer held of the call.
SyncIsReceived ==
    \A s \in Senders :
        ~mixed /\ pc[s] = "while" /\ call[s].mode = "SLEEP" /\ call[s].n \notin cut
            => Confirmed(call[s].n) = 1 .. bytesWritten[s]

\* A send() that fills the buffer returns if the central stays and stays
\* subscribed, also when its indication was refused because another was out.
SendSettles ==
    \A s \in Senders :
        [](pc[s] = "fill" /\ [](link /\ updates) => <>(pc[s] = "idle"))

=============================================================================
