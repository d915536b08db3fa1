------------------------------ MODULE Listeners ------------------------------
(***************************************************************************)
(* The listeners of MicroBitMessageBus.cpp: adding, removing and deleting   *)
(* them, the walk that offers them an event, and what async_callback does   *)
(* when a handler is still running.                                        *)
(*                                                                         *)
(* A listener is known by its place in the order of the list; add() keeps  *)
(* one of a kind.  The idle fiber walks the list, and only while no other  *)
(* fiber is runnable; a handler that blocks goes on in a fiber of its own.  *)
(* Fibers, handlers among them, call send, add and remove; interrupts send, *)
(* and may do so while a fiber is in send.                                 *)
(***************************************************************************)
EXTENDS Integers, SequencesExt

CONSTANTS
    N,             \* kinds of listeners, in the order of the list
    Mode,          \* what each does when it is busy: "queue", "drop", "reentrant"
    Hears,         \* the kinds of events each listens to
    Kinds,         \* of events
    MAX_QUEUE_DEPTH,
    MaxEvents,     \* bound: events sent
    MaxInside      \* bound: fibers in the handler of a reentrant listener

L == 1 .. N

\* What the constants may be.
ConstantsOK ==
    /\ N \in Nat \ {0} /\ MAX_QUEUE_DEPTH \in Nat \ {0} /\ MaxInside \in Nat
    /\ Mode \in [L -> {"queue", "drop", "reentrant"}]
    /\ Hears \in [L -> SUBSET Kinds]

VARIABLES
    listed, deleting, entered,   \* the list and the flags
    evt,           \* the event in each listener
    backlog,         \* the events it has queued
    evt_queue,     \* the bus's queue
    sending,       \* the event a fiber is in queueEvent with, if it is
    prev, tested,  \* of that: how long the queue was, and that it has room
    at,            \* where idleTick's walk is; 0 between two walks
    now,           \* the event it offers
    inside,        \* how many fibers have blocked in its handler
    spinning,      \* a fiber is between two events, in schedule()
    \* history
    sent,          \* the events are numbered as queueEvent is entered
    owed,          \* events the listener has taken since it was added
    handled,       \* events its handler has been called with since
    overlapped,    \* a reentrant listener was called while a fiber was in it
    abandoned      \* a listener was deleted with a fiber inside

flags == <<listed, deleting, entered>>
walk == <<at, now>>
fibers == <<inside, spinning>>
history == <<owed, handled, overlapped, abandoned>>
entry == <<sending, prev, tested>>
vars == <<flags, evt, backlog, evt_queue, entry, walk, fibers, sent, history>>

NoEvent == [n |-> 0, kind |-> CHOOSE k \in Kinds : TRUE]

Init ==
    /\ listed = {} /\ deleting = {} /\ entered = {}
    /\ evt = [l \in L |-> NoEvent] /\ backlog = [l \in L |-> <<>>]
    /\ evt_queue = <<>> /\ at = 0 /\ now = NoEvent
    /\ sending = NoEvent /\ prev = 0 /\ tested = FALSE
    /\ inside = [l \in L |-> 0] /\ spinning = {}
    /\ sent = 0
    /\ owed = [l \in L |-> <<>>] /\ handled = owed
    /\ overlapped = {} /\ abandoned = {}

-----------------------------------------------------------------------------
\* A new listener, or one that was marked and is resurrected.
add(l) ==
    /\ l \notin listed \/ l \in deleting
    /\ listed' = listed \cup {l} /\ deleting' = deleting \ {l}
    /\ UNCHANGED <<entered, evt, backlog, evt_queue, entry, walk, fibers, sent, history>>

remove(l) ==
    /\ l \in listed \ deleting
    /\ deleting' = deleting \cup {l}
    /\ UNCHANGED <<listed, entered, evt, backlog, evt_queue, entry, walk, fibers, sent, history>>

HasRoom == Len(evt_queue) < MAX_QUEUE_DEPTH

\* An interrupt's queueEvent.
Interrupt(k) ==
    /\ sent < MaxEvents
    /\ sent' = sent + 1
    /\ evt_queue' = IF HasRoom
                    THEN Append(evt_queue, [n |-> sent + 1, kind |-> k]) ELSE evt_queue
    /\ UNCHANGED <<flags, evt, backlog, entry, walk, fibers, history>>

\* A fiber's: it finds the tail, then it tests the length, then it puts the event
\* behind the tail it found.
send(k) ==
    /\ sent < MaxEvents
    /\ sent' = sent + 1
    /\ sending' = [n |-> sent + 1, kind |-> k]
    /\ prev' = Len(evt_queue)
    /\ UNCHANGED <<flags, evt, backlog, evt_queue, tested, walk, fibers, history>>

queueLength ==
    /\ sending.n > 0 /\ ~tested
    /\ \/ HasRoom /\ tested' = TRUE /\ UNCHANGED <<sending, prev>>
       \/ ~HasRoom /\ sending' = NoEvent /\ prev' = 0 /\ UNCHANGED tested
    /\ UNCHANGED <<flags, evt, backlog, evt_queue, walk, fibers, sent, history>>

Place_AtTheEnd == Len(evt_queue)
Place == prev
queueEvent ==
    /\ tested
    /\ evt_queue' = SubSeq(evt_queue, 1, Place) \o <<sending>>
                        \o SubSeq(evt_queue, Place + 1, Len(evt_queue))
    /\ sending' = NoEvent /\ prev' = 0 /\ tested' = FALSE
    /\ UNCHANGED <<flags, evt, backlog, walk, fibers, sent, history>>

-----------------------------------------------------------------------------
(* async_callback: the handler is called with the event in the listener.   *)

\* It blocks, and a fiber stays inside.
Blocks(l) ==
    /\ inside[l] < MaxInside
    /\ inside' = [inside EXCEPT ![l] = @ + 1]

\* It returns: the next event is taken into the listener, or the fiber leaves.
Returns(l) ==
    \/ /\ Mode[l] = "queue" /\ backlog[l] /= <<>>
       /\ evt' = [evt EXCEPT ![l] = Head(backlog[l])]
       /\ backlog' = [backlog EXCEPT ![l] = Tail(@)]
       /\ spinning' = spinning \cup {l}
       /\ entered' = entered
    \/ /\ ~(Mode[l] = "queue" /\ backlog[l] /= <<>>)
       /\ entered' = entered \ {l}
       /\ spinning' = spinning \ {l}
       /\ UNCHANGED <<evt, backlog>>

\* A blocked handler goes on and returns.
HandlerReturns(l) ==
    /\ at = 0 /\ inside[l] > 0 /\ l \notin abandoned
    /\ inside' = [inside EXCEPT ![l] = @ - 1]
    /\ Returns(l)
    /\ UNCHANGED <<listed, deleting, evt_queue, entry, walk, sent, history>>

\* schedule() is over: the handler is called again, with what is in the listener.
HandlerAgain(l) ==
    /\ at = 0 /\ l \in spinning /\ l \notin abandoned
    /\ handled' = [handled EXCEPT ![l] = Append(@, evt[l].n)]
    /\ \/ /\ Blocks(l)
          /\ spinning' = spinning \ {l}
          /\ UNCHANGED <<entered, evt, backlog>>
       \/ /\ Returns(l)
          /\ UNCHANGED inside
    /\ UNCHANGED <<listed, deleting, evt_queue, entry, walk, sent, owed, overlapped, abandoned>>

-----------------------------------------------------------------------------
(* idleTick.                                                               *)

Idle_Anytime == at = 0
Idle == at = 0 /\ spinning = {}

Deletable == deleting \ entered

Dequeue ==
    /\ evt_queue /= <<>>
    /\ now' = Head(evt_queue) /\ evt_queue' = Tail(evt_queue) /\ at' = 1

\* The loop goes on with the next event, and deletes nothing.
NextEvent ==
    /\ Idle /\ Dequeue
    /\ UNCHANGED <<flags, evt, backlog, entry, fibers, sent, history>>

\* deleteMarkedListeners, then the first event, if there is one.
idleTick ==
    /\ Idle
    /\ Deletable /= {} \/ evt_queue /= <<>>
    /\ listed' = listed \ Deletable /\ deleting' = deleting \ Deletable
    /\ entered' = entered \ Deletable
    /\ backlog' = [l \in L |-> IF l \in Deletable THEN <<>> ELSE backlog[l]]
    /\ owed' = [l \in L |-> IF l \in Deletable THEN <<>> ELSE owed[l]]
    /\ handled' = [l \in L |-> IF l \in Deletable THEN <<>> ELSE handled[l]]
    /\ abandoned' = abandoned \cup {l \in Deletable : inside[l] > 0 \/ l \in spinning}
    /\ \/ Dequeue
       \/ /\ evt_queue = <<>>
          /\ UNCHANGED <<now, evt_queue, at>>
    /\ UNCHANGED <<evt, entry, fibers, sent, overlapped>>

Offered(l) == at = l /\ l \in listed \ deleting /\ now.kind \in Hears[l]
Step == at' = (IF at = N THEN 0 ELSE at + 1) /\ UNCHANGED now

\* process() passes over a listener.
PassOver(l) ==
    /\ at = l /\ ~Offered(l)
    /\ Step
    /\ UNCHANGED <<flags, evt, backlog, evt_queue, entry, fibers, sent, history>>

\* async_callback of a busy listener; the event is in the listener all the same.
Busy(l) ==
    /\ Offered(l) /\ l \in entered /\ Mode[l] /= "reentrant"
    /\ evt' = [evt EXCEPT ![l] = now]
    /\ \/ /\ Mode[l] = "queue" /\ Len(backlog[l]) < MAX_QUEUE_DEPTH
          /\ backlog' = [backlog EXCEPT ![l] = Append(@, now)]
          /\ owed' = [owed EXCEPT ![l] = Append(@, now.n)]
       \/ /\ ~(Mode[l] = "queue" /\ Len(backlog[l]) < MAX_QUEUE_DEPTH)
          /\ UNCHANGED <<backlog, owed>>
    /\ Step
    /\ UNCHANGED <<flags, evt_queue, entry, fibers, sent, handled, overlapped, abandoned>>

\* It is called: it returns at once, or it blocks and a fiber is forked for it.
Called(l) ==
    /\ Offered(l) /\ (l \notin entered \/ Mode[l] = "reentrant")
    /\ evt' = [evt EXCEPT ![l] = now]
    /\ owed' = [owed EXCEPT ![l] = Append(@, now.n)]
    /\ handled' = [handled EXCEPT ![l] = Append(@, now.n)]
    /\ overlapped' = IF l \in entered THEN overlapped \cup {l} ELSE overlapped
    /\ \/ /\ Blocks(l)
          /\ entered' = entered \cup {l}
       \/ /\ entered' = entered \ {l}
          /\ UNCHANGED inside
    /\ Step
    /\ UNCHANGED <<listed, deleting, backlog, evt_queue, entry, spinning, sent, abandoned>>

-----------------------------------------------------------------------------
\* A fiber in queueEvent has the processor.
Fiber ==
    \/ \E k \in Kinds : send(k)
    \/ idleTick \/ NextEvent
    \/ \E l \in L :
        \/ add(l) \/ remove(l) \/ HandlerReturns(l) \/ HandlerAgain(l)
        \/ PassOver(l) \/ Busy(l) \/ Called(l)
Next ==
    \/ \E k \in Kinds : Interrupt(k)
    \/ queueLength \/ queueEvent
    \/ sending.n = 0 /\ Fiber
Spec == Init /\ [][Next]_vars

-----------------------------------------------------------------------------
TypeOK ==
    /\ deleting \subseteq listed /\ entered \subseteq listed /\ listed \subseteq L
    /\ at \in 0 .. N /\ inside \in [L -> 0 .. MaxInside]
    /\ \A l \in L : Len(backlog[l]) <= MAX_QUEUE_DEPTH
    /\ Len(evt_queue) <= MAX_QUEUE_DEPTH + 1    \* the length is tested too early
    /\ prev <= Len(evt_queue) /\ (tested => sending.n > 0)

\* The handler of a listener that queues is called with every event the listener
\* has taken, once each and in their order, though each new event is written over
\* the one in the listener before anybody looks whether it is busy.
HandlesInOrder ==
    \A l \in L : Mode[l] = "queue" =>
        owed[l] = handled[l] \o (IF l \in spinning THEN <<evt[l].n>> ELSE <<>>)
                             \o [i \in 1 .. Len(backlog[l]) |-> backlog[l][i].n]

\* No listener is deleted while a fiber is in its handler and will come back to it;
\* a reentrant one may be, once it was called while a fiber was in it, because
\* the first of the two to leave clears BUSY.
NobodyIsAbandoned == abandoned \subseteq overlapped

\* The bus delivers events in the order in which queueEvent was entered, also when
\* an interrupt's event is queued while a fiber is in there with an earlier one.
QueuedInOrder ==
    \A i, j \in 1 .. Len(evt_queue) : i < j => evt_queue[i].n < evt_queue[j].n

\* Listeners, all in all.
ListenersServe == HandlesInOrder /\ NobodyIsAbandoned /\ QueuedInOrder

=============================================================================
