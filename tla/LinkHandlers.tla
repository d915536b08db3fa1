---------------------------- MODULE LinkHandlers ----------------------------
(***************************************************************************)
(* How the application learns of the link: the message bus that queues the *)
(* connection events, the idle fiber that delivers them, the listeners     *)
(* that run onConnected() and onDisconnected() in fibers of their own, and *)
(* the display both handlers scroll a letter on before they set connected. *)
(*                                                                         *)
(* Fibers are scheduled cooperatively.  The radio's interrupt raises the   *)
(* events and the timer's interrupt ends an animation between any two      *)
(* steps.  An animation takes longer than the fibers run: it does not end  *)
(* before the fibers that were runnable when it started have waited again. *)
(***************************************************************************)
EXTENDS Naturals, Queues

CONSTANTS
    Depth,       \* MESSAGE_BUS_LISTENER_MAX_QUEUE_DEPTH
    MaxEvents    \* bound: how many connection events the radio raises

ASSUME DepthAssumption == Depth \in Nat \ {0} /\ MaxEvents \in Nat

Handlers == {"onConnected", "onDisconnected"}
Fibers == Handlers \cup {"main"}

VARIABLES
    link,        \* the GAP connection is up
    connected,   \* what the application believes
    evt_queue,   \* the bus's queue: the handler of each event
    queued,      \* how many events each listener keeps until it is free
    display,     \* the fiber whose animation is running, or "none"
    runQueue,
    freeQueue,   \* the fibers that wait for MICROBIT_DISPLAY_EVT_FREE
    current,     \* the fiber that runs, or "idle"
    leaving,     \* it is on its way into schedule()
    pc,          \* where each fiber is
    missed,      \* history: an animation ended with its successor not registered
    lost,        \* history: a queue was full and an event was dropped
    raised       \* history: how many events were raised

bus == <<evt_queue, queued>>
queues == <<runQueue, freeQueue, current, leaving, pc>>
vars == <<link, connected, bus, display, queues, missed, lost, raised>>

\* A fiber that is waiting: for the display, for the end of its animation, for
\* the time main sleeps; "out" is a handler that is not running.
Waiting == {"waitFree", "waitDone", "asleep", "out"}
PCs == Waiting \cup {"scroll", "regFree", "woken", "regDone", "done", "loop"}

\* main is in display.scroll('R').
Init ==
    /\ link = FALSE
    /\ connected = FALSE
    /\ evt_queue = <<>>
    /\ queued = [h \in Handlers |-> 0]
    /\ display = "main"
    /\ runQueue = <<>>
    /\ freeQueue = <<>>
    /\ current = "idle"
    /\ leaving = FALSE
    /\ pc = [f \in Fibers |-> IF f = "main" THEN "waitDone" ELSE "out"]
    /\ missed = FALSE
    /\ lost = FALSE
    /\ raised = 0

-----------------------------------------------------------------------------
(* Interrupts.                                                             *)


\* send(): the event is dropped when the bus's queue is full.
Raise(h, up) ==
    /\ link = ~up
    /\ raised < MaxEvents
    /\ link' = up
    /\ evt_queue' = IF Len(evt_queue) < Depth THEN Append(evt_queue, h) ELSE evt_queue
    /\ lost' = (lost \/ Len(evt_queue) >= Depth)
    /\ raised' = raised + 1
    /\ UNCHANGED <<connected, queued, display, queues, missed>>

Connect == Raise("onConnected", TRUE)
Disconnect == Raise("onDisconnected", FALSE)

\* ANIMATION_COMPLETE wakes the fiber that scrolled, then NOTIFY_ONE the first
\* that waits for the display.
WokenByEnd_All == <<display>> \o freeQueue
WokenByEnd_OwnerOnly == <<display>>
WokenByEnd ==
    IF freeQueue = <<>> THEN <<display>> ELSE <<display, Head(freeQueue)>>

\* The fibers that may just have become runnable: one forked by idleTick(), and
\* main.  The others have been runnable since the last animation ended.
Recent == {"regFree", "loop"}

animationUpdate ==
    /\ display # "none"
    /\ \A f \in Fibers : pc[f] \in Waiting \cup Recent
    /\ display' = "none"
    /\ runQueue' = runQueue \o WokenByEnd
    /\ freeQueue' = OnlyIn(freeQueue, ToSet(freeQueue) \ ToSet(WokenByEnd))
    /\ pc' = [f \in Fibers |->
                 IF f = display THEN "done"
                 ELSE IF f \in ToSet(Tail(WokenByEnd)) THEN "woken" ELSE pc[f]]
    /\ missed' = (missed \/ (freeQueue = <<>> /\ \E f \in Fibers : pc[f] = "regFree"))
    /\ UNCHANGED <<link, connected, bus, current, leaving, lost, raised>>

\* uBit.sleep() of main's loop ends; it outlasts the way into schedule().
MainWakes ==
    /\ pc["main"] = "asleep" /\ current # "main"
    /\ pc' = [pc EXCEPT !["main"] = "loop"]
    /\ runQueue' = Append(runQueue, "main")
    /\ UNCHANGED <<link, connected, bus, display, freeQueue, current, leaving, missed, lost,
                   raised>>

-----------------------------------------------------------------------------
(* The scheduler.                                                          *)

\* The fiber that schedule() picks when f calls it with the run queue q.
Picked(f, q) ==
    IF q = <<>> THEN "idle"
    ELSE IF f \in ToSet(q) /\ Last(q) # f
         THEN q[CHOOSE i \in 2 .. Len(q) : q[i - 1] = f]
         ELSE Head(q)

\* schedule(), called by the idle fiber or by one that has blocked, which an
\* interrupt may have woken since.
Schedule ==
    /\ leaving \/ (current = "idle" /\ runQueue # <<>>)
    /\ current' = Picked(current, runQueue)
    /\ leaving' = FALSE
    /\ UNCHANGED <<link, connected, bus, display, runQueue, freeQueue, pc, missed, lost, raised>>

-----------------------------------------------------------------------------
(* The display.                                                            *)

\* scroll() up to where it registers for the event it will wait for.
scroll(f) ==
    \/ /\ display # "none"
       /\ pc' = [pc EXCEPT ![f] = "regFree"]
       /\ UNCHANGED display
    \/ /\ display = "none"
       /\ display' = f
       /\ pc' = [pc EXCEPT ![f] = "regDone"]

Running(f, label) == current = f /\ ~leaving /\ pc[f] = label

RegisterFree_StaysRunnable(f) ==
    /\ Running(f, "regFree")
    /\ pc' = [pc EXCEPT ![f] = "waitFree"]
    /\ freeQueue' = Append(freeQueue, f)
    /\ leaving' = TRUE
    /\ UNCHANGED <<link, connected, bus, display, runQueue, current, missed, lost, raised>>

\* fiber_wake_on_event() for FREE, and for ANIMATION_COMPLETE.
RegisterFree(f) ==
    /\ Running(f, "regFree")
    /\ pc' = [pc EXCEPT ![f] = "waitFree"]
    /\ runQueue' = Without(runQueue, f)
    /\ freeQueue' = Append(freeQueue, f)
    /\ leaving' = TRUE
    /\ UNCHANGED <<link, connected, bus, display, current, missed, lost, raised>>

RegisterDone(f) ==
    /\ Running(f, "regDone")
    /\ pc' = [pc EXCEPT ![f] = "waitDone"]
    /\ runQueue' = Without(runQueue, f)
    /\ leaving' = TRUE
    /\ UNCHANGED <<link, connected, bus, display, freeQueue, current, missed, lost, raised>>

\* After the wait the display is free, or else the letter is not scrolled.
Starts(f) ==
    /\ Running(f, "woken")
    /\ display = "none"
    /\ scroll(f)
    /\ UNCHANGED <<link, connected, bus, runQueue, freeQueue, current, leaving, missed, lost,
                   raised>>

-----------------------------------------------------------------------------
(* The listeners.                                                          *)

Busy(h) == pc[h] # "out"

\* idleTick(): the oldest event goes to its listener, which keeps it when it is
\* busy.  Otherwise the handler starts on the idle fiber's stack, forks when it
\* blocks and goes on in a fiber at the end of the run queue.  With something to
\* run the idle fiber calls schedule(), and otherwise looks again.
Deliver ==
    /\ current = "idle" /\ ~leaving
    /\ evt_queue # <<>>
    /\ evt_queue' = Tail(evt_queue)
    /\ LET h == Head(evt_queue) IN
       \/ /\ Busy(h)
          /\ queued' = [queued EXCEPT ![h] = IF @ < Depth THEN @ + 1 ELSE @]
          /\ lost' = (lost \/ queued[h] >= Depth)
          /\ UNCHANGED <<display, runQueue, pc>>
       \/ /\ ~Busy(h)
          /\ scroll(h)
          /\ runQueue' = Append(runQueue, h)
          /\ UNCHANGED <<queued, lost>>
    /\ leaving' = (runQueue' # <<>>)
    /\ UNCHANGED <<link, connected, freeQueue, current, missed, raised>>

\* scroll() returns, the handler sets connected, and async_callback() either
\* takes the listener's next event, after a schedule(), or is done.
Finish(h) ==
    /\ \/ Running(h, "done")
       \/ Running(h, "woken") /\ display # "none"
    /\ connected' = (h = "onConnected")
    /\ \/ /\ queued[h] > 0
          /\ queued' = [queued EXCEPT ![h] = @ - 1]
          /\ pc' = [pc EXCEPT ![h] = "scroll"]
          /\ UNCHANGED runQueue
       \/ /\ queued[h] = 0
          /\ pc' = [pc EXCEPT ![h] = "out"]
          /\ runQueue' = Without(runQueue, h)
          /\ UNCHANGED queued
    /\ leaving' = TRUE
    /\ UNCHANGED <<link, evt_queue, display, freeQueue, current, missed, lost, raised>>

\* The next event of the listener: when the display is taken its animation has
\* just begun, so the handler registers before the end.
Again(h) ==
    /\ Running(h, "scroll")
    /\ \/ /\ display = "none"
          /\ scroll(h)
          /\ UNCHANGED <<runQueue, freeQueue, leaving>>
       \/ /\ display # "none"
          /\ pc' = [pc EXCEPT ![h] = "waitFree"]
          /\ runQueue' = Without(runQueue, h)
          /\ freeQueue' = Append(freeQueue, h)
          /\ leaving' = TRUE
          /\ UNCHANGED display
    /\ UNCHANGED <<link, connected, bus, current, missed, lost, raised>>

\* main enters its loop when 'R' has been scrolled, and sleeps in it.
MainSleeps ==
    /\ Running("main", "done") \/ Running("main", "loop")
    /\ pc' = [pc EXCEPT !["main"] = "asleep"]
    /\ runQueue' = Without(runQueue, "main")
    /\ leaving' = TRUE
    /\ UNCHANGED <<link, connected, bus, display, freeQueue, current, missed, lost, raised>>

-----------------------------------------------------------------------------
Fiber ==
    \/ Schedule \/ Deliver \/ MainSleeps
    \/ \E h \in Handlers :
           RegisterFree(h) \/ RegisterDone(h) \/ Starts(h) \/ Finish(h) \/ Again(h)

Next == Connect \/ Disconnect \/ animationUpdate \/ MainWakes \/ Fiber

Spec == Init /\ [][Next]_vars

\* The processor goes on as long as there is something to run, the timer ticks,
\* and the idle fiber calls idleTick() each time before it calls schedule().
FairSpec ==
    Spec /\ WF_vars(Fiber) /\ SF_vars(Deliver) /\ WF_vars(animationUpdate)

-----------------------------------------------------------------------------
(* Properties.                                                             *)

\* A fiber is on the run queue unless it waits, it waits for FREE exactly when
\* it is on that queue, and the display belongs to a fiber that will be woken
\* by the end of its animation (queue_fiber, dequeue_fiber, scroll).
QueuesAgree ==
    \A f \in Fibers :
        /\ f \in ToSet(runQueue) <=> pc[f] \notin Waiting
        /\ f \in ToSet(freeQueue) <=> pc[f] = "waitFree"
        /\ display = f <=> pc[f] \in {"regDone", "waitDone"}

\* Every variable has its type, no fiber is on a queue twice, and the queues agree
\* with what the fibers do.
TypeOK ==
    /\ {link, connected, missed, lost} \subseteq BOOLEAN
    /\ evt_queue \in Seq(Handlers) /\ Len(evt_queue) <= Depth
    /\ queued \in [Handlers -> 0 .. Depth]
    /\ display \in Fibers \cup {"none"}
    /\ runQueue \in Queue(Fibers) /\ freeQueue \in Queue(Handlers)
    /\ current \in Fibers \cup {"idle"} /\ leaving \in BOOLEAN
    /\ pc \in [Fibers -> PCs]
    /\ raised \in 0 .. MaxEvents
    /\ QueuesAgree

\* Nothing is left to be done about the events raised so far.
Quiet == evt_queue = <<>> /\ \A h \in Handlers : ~Busy(h)

\* When every event has been handled connected tells the truth, unless a queue
\* overflowed or a wake-up was missed (onConnected, onDisconnected): the
\* handlers of successive events end in order, although each runs in a fiber
\* of its own and may find the display taken.
ConnectedIsTrue == Quiet /\ ~lost /\ ~missed => connected = link

\* The same as progress: connected follows the link once the link settles.
ConnectedFollowsLink ==
    [](~lost /\ ~missed) =>
        /\ <>[]link => <>[]connected
        /\ <>[]~link => <>[]~connected

\* "Queuing all events ensures causal ordering (total ordering in fact)"
\* (MicroBitMessageBus.cpp:321): the handler of the last event is the last to
\* set connected.
LastEventWins == Quiet /\ ~lost => connected = link
=============================================================================
