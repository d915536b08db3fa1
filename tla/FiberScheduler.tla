--------------------------- MODULE FiberScheduler ---------------------------
(***************************************************************************)
(* The cooperative scheduler of the runtime and the clock it sleeps by.    *)
(*                                                                         *)
(* Fibers run until they block.  An interrupt may come between any two     *)
(* steps of the scheduler's own code: the tick, which brings the time up   *)
(* to date and wakes sleepers, and an event, which wakes waiters.  A call  *)
(* is cut where an interrupt can tell the difference; a queue operation    *)
(* runs with the interrupts disabled and is one step.                      *)
(*                                                                         *)
(* What fibers and handlers call is arbitrary.  A handler starts on the    *)
(* idle fiber in fork-on-block mode: its first blocking call moves it to a *)
(* fiber of its own.  When the memory for one is used up the device panics; *)
(* here the call is not made.                                              *)
(***************************************************************************)
EXTENDS Integers, Queues

CONSTANTS
    Fibers, Main,      \* every fiber but the idle one; the first of them
    Events, Notify,    \* what fibers wait for; Notify is the NOTIFY channel
    Idle, None,
    PerMs,             \* what the timer counts in a millisecond (1000)
    Wrap,              \* one more than context can hold (2^32)
    Sleeps,            \* bound: how long fibers sleep, in milliseconds
    MaxTime,           \* bound: how far the clock goes, in counts of the timer
    MaxCalls,          \* bound: sleeps, waits, events and ends of fibers, and handlers
    MaxRaises          \* bound: events from interrupts

ASSUME FibersAssumption ==
    /\ Main \in Fibers /\ Notify \in Events
    /\ Idle \notin Fibers /\ None \notin Fibers \cup Events
ASSUME ClockAssumption == PerMs \in Nat \ {0} /\ Wrap \in Nat \ {0}
ASSUME BoundsAssumption ==
    /\ Sleeps \subseteq 0 .. Wrap - 1 /\ MaxTime \in Nat
    /\ MaxCalls \in Nat /\ MaxRaises \in Nat

VARIABLES
    runQueue, sleepQueue, waitQueue, fiberPool,
    fresh,          \* the fibers that were never allocated
    current,        \* currentFiber
    fob,            \* the idle fiber runs a handler in fork-on-block mode
    pc,             \* where the running code is
    f, ev, len,     \* locals of the call: its fiber, event, number of milliseconds
    wanted,         \* the event a forked fiber still has to register for
    context,        \* what each fiber sleeps or waits for
    listening,      \* the events scheduler_event is registered for
    p, t,           \* scheduler_event's walk: the fiber it looks at and the next
    only, done,     \* the event is NOTIFY_ONE; notifyOneComplete
    time_us, timer, \* the clock, and the hardware timer that it is brought up by
    rd, ld,         \* update_time: what it has read of timer and of time_us
    real,           \* the time
    due,            \* history: when each sleeper's sleep is over
    folded,         \* history: the sleepers whose wake-up time does not fit into context
    skewed,         \* history: a tick came when update_time could count it twice
    overtaken,      \* history: an interrupt moved the fiber the walk goes on from
    calls, raises

queues == <<runQueue, sleepQueue, waitQueue, fiberPool, fresh>>
cpu == <<current, fob, wanted>>
args == <<f, ev, len>>
walk == <<p, t, only, done>>
clock == <<time_us, timer>>
reading == <<rd, ld>>
history == <<due, folded, skewed, overtaken>>
bounds == <<calls, raises>>
vars == <<queues, cpu, pc, args, context, listening, walk, clock, reading, real,
          history, bounds>>

SleepSteps == {"read", "load", "store", "reset", "dequeue", "enqueue"}
PCs == {"user", "more", "wait", "waitEnqueue", "listen", "schedule", "walk", "wake"}
       \cup SleepSteps

Init ==
    /\ runQueue = <<Main>> /\ sleepQueue = <<>> /\ waitQueue = <<>> /\ fiberPool = <<>>
    /\ fresh = Fibers \ {Main}
    /\ current = Main /\ fob = FALSE /\ pc = "user"
    /\ f = None /\ ev = None /\ len = 0
    /\ wanted = [g \in Fibers |-> None]
    /\ context = [g \in Fibers |-> None]
    /\ listening = {Notify}
    /\ p = None /\ t = None /\ only = FALSE /\ done = FALSE
    /\ time_us = 0 /\ timer = 0 /\ rd = 0 /\ ld = 0 /\ real = 0
    /\ due = [g \in Fibers |-> 0] /\ folded = {}
    /\ skewed = FALSE /\ overtaken = FALSE
    /\ calls = 0 /\ raises = 0

-----------------------------------------------------------------------------
(* Interrupts.                                                             *)

Advance ==
    /\ real < MaxTime
    /\ real' = real + 1
    /\ timer' = timer + 1
    /\ UNCHANGED <<queues, cpu, pc, args, context, listening, walk, time_us, reading,
                   history, bounds>>

\* system_timer_current_time(): whole milliseconds.
Milliseconds(us) == us \div PerMs

\* system_timer_tick(): update_time(), then scheduler_tick().
Over_Early(g) == context[g] <= Milliseconds(time_us') + 1
Over(g) == context[g] <= Milliseconds(time_us')
Woken == {g \in ToSet(sleepQueue) : Over(g)}

Tick ==
    /\ time_us' = time_us + timer
    /\ timer' = 0
    /\ timer > 0 \/ Woken # {}
    /\ runQueue' = runQueue \o OnlyIn(sleepQueue, Woken)
    /\ sleepQueue' = OnlyIn(sleepQueue, ToSet(sleepQueue) \ Woken)
    /\ skewed' = (skewed \/ (pc \in {"load", "reset"} /\ rd > 0))
    /\ due' = [g \in Fibers |-> IF g \in Woken THEN 0 ELSE due[g]]
    /\ folded' = folded \ Woken
    /\ UNCHANGED <<waitQueue, fiberPool, fresh, cpu, pc, args, context, listening,
                   walk, reading, real, overtaken, bounds>>

\* The fibers an event wakes, the first of them for NOTIFY_ONE.
WaitingFor(e) == OnlyIn(waitQueue, {g \in ToSet(waitQueue) : context[g] = e})
WokenBy_First(e, one) ==
    IF WaitingFor(e) # <<>> THEN <<Head(WaitingFor(e))>> ELSE <<>>
WokenBy(e, one) ==
    IF one /\ WaitingFor(e) # <<>> THEN <<Head(WaitingFor(e))>> ELSE WaitingFor(e)

\* scheduler_event() in an interrupt.
Raise(e, one) ==
    /\ raises < MaxRaises
    /\ e \in listening /\ (one => e = Notify)
    /\ raises' = raises + 1
    /\ LET woken == ToSet(WokenBy(e, one))
       IN  /\ runQueue' = runQueue \o WokenBy(e, one)
           /\ waitQueue' = OnlyIn(waitQueue, ToSet(waitQueue) \ woken)
           /\ overtaken' = \/ overtaken
                           \/ pc = "walk" /\ p \in woken
                           \/ pc = "wake" /\ t \in woken
    /\ listening' = IF e = Notify THEN listening ELSE listening \ {e}
    /\ UNCHANGED <<sleepQueue, fiberPool, fresh, cpu, pc, args, context, walk, clock,
                   reading, real, due, folded, skewed, calls>>

-----------------------------------------------------------------------------
(* What fibers, and handlers on the idle fiber, may call.                  *)

Running == pc = "user" /\ (current # Idle \/ fob)
Counted == calls < MaxCalls /\ calls' = calls + 1

\* getFiberContext(): from the pool, or else a new one.
Available == fiberPool # <<>> \/ fresh # {}
NewFiber == IF fiberPool # <<>> THEN Head(fiberPool) ELSE CHOOSE g \in fresh : TRUE
TakeFiber ==
    /\ Available
    /\ fiberPool' = Without(fiberPool, NewFiber)
    /\ fresh' = fresh \ {NewFiber}

\* fiber_sleep(): the fiber of the call, which a handler has to fork.
fiber_sleep(ms) ==
    /\ Running /\ Counted
    /\ IF fob THEN TakeFiber /\ f' = NewFiber
              ELSE f' = current /\ UNCHANGED <<fiberPool, fresh>>
    /\ len' = ms
    /\ due' = [due EXCEPT ![f'] = real + ms * PerMs]
    /\ pc' = "read"
    /\ UNCHANGED <<runQueue, sleepQueue, waitQueue, cpu, ev, context, listening, walk,
                   clock, reading, real, folded, skewed, overtaken, raises>>

\* update_time() in a fiber: time_us += timer->read_us(); timer->reset().
TimerRead ==
    /\ pc = "read"
    /\ rd' = timer
    /\ pc' = "load"
    /\ UNCHANGED <<queues, cpu, args, context, listening, walk, clock, ld, real,
                   history, bounds>>

TimerLoad ==
    /\ pc = "load"
    /\ ld' = time_us
    /\ pc' = "store"
    /\ UNCHANGED <<queues, cpu, args, context, listening, walk, clock, rd, real,
                   history, bounds>>

TimerStore ==
    /\ pc = "store"
    /\ time_us' = ld + rd
    /\ ld' = 0
    /\ pc' = "reset"
    /\ UNCHANGED <<queues, cpu, args, context, listening, walk, timer, rd, real,
                   history, bounds>>

TimerReset ==
    /\ pc = "reset"
    /\ timer' = 0
    /\ rd' = 0
    /\ pc' = "dequeue"
    /\ UNCHANGED <<queues, cpu, args, context, listening, walk, time_us, ld, real,
                   history, bounds>>

\* dequeue_fiber() of the call's fiber.
Dequeued_Not == runQueue
Dequeued == Without(runQueue, f)

\* The wake-up time loses what it has beyond 32 bits; the tick compares what is
\* left with the time, which has 64.
WakeUp == Milliseconds(time_us) + len
SleepDequeue ==
    /\ pc = "dequeue"
    /\ context' = [context EXCEPT ![f] = WakeUp % Wrap]
    /\ folded' = IF WakeUp < Wrap THEN folded \ {f} ELSE folded \cup {f}
    /\ runQueue' = Dequeued
    /\ len' = 0
    /\ pc' = "enqueue"
    /\ UNCHANGED <<sleepQueue, waitQueue, fiberPool, fresh, cpu, f, ev, listening,
                   walk, clock, reading, real, due, skewed, overtaken, bounds>>

\* A forked fiber sleeps; its handler is over for the idle fiber, which goes on.
Forked == current' = current /\ fob' = FALSE /\ pc' = "more"

SleepEnqueue ==
    /\ pc = "enqueue"
    /\ sleepQueue' = Append(sleepQueue, f)
    /\ f' = None
    /\ IF fob THEN Forked ELSE pc' = "schedule" /\ UNCHANGED <<current, fob>>
    /\ UNCHANGED <<runQueue, waitQueue, fiberPool, fresh, ev, len, wanted, context,
                   listening, walk, clock, reading, real, history, bounds>>

\* fiber_wait_for_event() of a fiber.
fiber_wait_for_event(e) ==
    /\ Running /\ Counted /\ ~fob
    /\ f' = current /\ ev' = e
    /\ pc' = "wait"
    /\ UNCHANGED <<queues, cpu, len, context, listening, walk, clock, reading, real,
                   history, raises>>

\* Of a handler: it becomes a runnable fiber, which goes on when it is scheduled.
WaitForked(e) ==
    /\ Running /\ Counted /\ fob
    /\ TakeFiber
    /\ runQueue' = Append(runQueue, NewFiber)
    /\ wanted' = [wanted EXCEPT ![NewFiber] = e]
    /\ Forked
    /\ UNCHANGED <<sleepQueue, waitQueue, args, context, listening, walk, clock,
                   reading, real, history, raises>>

WaitDequeue ==
    /\ pc = "wait"
    /\ context' = [context EXCEPT ![f] = ev]
    /\ runQueue' = Dequeued
    /\ pc' = "waitEnqueue"
    /\ UNCHANGED <<sleepQueue, waitQueue, fiberPool, fresh, cpu, args, listening, walk,
                   clock, reading, real, history, bounds>>

WaitEnqueue ==
    /\ pc = "waitEnqueue"
    /\ waitQueue' = Append(waitQueue, f)
    /\ pc' = "listen"
    /\ UNCHANGED <<runQueue, sleepQueue, fiberPool, fresh, cpu, args, context,
                   listening, walk, clock, reading, real, history, bounds>>

Listen ==
    /\ pc = "listen"
    /\ listening' = listening \cup {ev}
    /\ f' = None /\ ev' = None
    /\ pc' = "schedule"
    /\ UNCHANGED <<queues, cpu, len, context, walk, clock, reading, real, history,
                   bounds>>

create_fiber ==
    /\ Running
    /\ TakeFiber
    /\ runQueue' = Append(runQueue, NewFiber)
    /\ UNCHANGED <<sleepQueue, waitQueue, cpu, pc, args, context, listening, walk,
                   clock, reading, real, history, bounds>>

release_fiber ==
    /\ Running /\ Counted /\ ~fob
    /\ runQueue' = Without(runQueue, current)
    /\ fiberPool' = Append(fiberPool, current)
    /\ pc' = "schedule"
    /\ UNCHANGED <<sleepQueue, waitQueue, fresh, cpu, args, context, listening, walk,
                   clock, reading, real, history, raises>>

\* schedule(), called by a fiber that has more to do.
Yield ==
    /\ Running /\ ~fob
    /\ pc' = "schedule"
    /\ UNCHANGED <<queues, cpu, args, context, listening, walk, clock, reading, real,
                   history, bounds>>

-----------------------------------------------------------------------------
(* schedule() and the idle fiber.                                          *)

\* The fiber behind g in its queue, whichever that is.
QueueOf(g) == CHOOSE q \in {runQueue, sleepQueue, waitQueue, fiberPool} : g \in ToSet(q)
NextOf(g) ==
    LET q == QueueOf(g)
        i == CHOOSE k \in DOMAIN q : q[k] = g
    IN  IF i < Len(q) THEN q[i + 1] ELSE None

Picked_Head == IF runQueue = <<>> THEN Idle ELSE Head(runQueue)
Picked ==
    CASE runQueue = <<>> -> Idle
      [] current \in ToSet(runQueue) /\ NextOf(current) # None -> NextOf(current)
      [] OTHER -> Head(runQueue)

\* A fiber goes on after its blocking call, or registers for its event if it was
\* forked to do so.
schedule ==
    /\ \/ pc \in {"schedule", "more"}
       \/ pc = "user" /\ current = Idle /\ ~fob
    /\ current' = Picked
    /\ IF Picked # Idle /\ wanted[Picked] # None
       THEN /\ pc' = "wait" /\ f' = Picked /\ ev' = wanted[Picked]
            /\ wanted' = [wanted EXCEPT ![Picked] = None]
       ELSE pc' = "user" /\ UNCHANGED <<wanted, f, ev>>
    /\ UNCHANGED <<queues, fob, len, context, listening, walk, clock, reading, real,
                   history, bounds>>

\* idle() delivers an event to a listener, and more of them as long as no fiber
\* becomes runnable (idleTick), each with invoke().
invoke ==
    /\ current = Idle /\ ~fob
    /\ pc = "user" \/ (pc = "more" /\ runQueue = <<>>)
    /\ Counted
    /\ fob' = TRUE
    /\ pc' = "user"
    /\ UNCHANGED <<queues, current, wanted, args, context, listening, walk, clock,
                   reading, real, history, raises>>

\* A handler that did not block returns.
HandlerReturns ==
    /\ Running /\ fob
    /\ fob' = FALSE
    /\ pc' = "more"
    /\ UNCHANGED <<queues, current, wanted, args, context, listening, walk, clock,
                   reading, real, history, bounds>>

-----------------------------------------------------------------------------
(* scheduler_event() in a fiber or handler that raises an event.           *)

RaiseInFiber(e, one) ==
    /\ Running /\ Counted
    /\ e \in listening /\ (one => e = Notify)
    /\ ev' = e /\ only' = one /\ done' = FALSE
    /\ p' = IF waitQueue = <<>> THEN None ELSE Head(waitQueue)
    /\ pc' = "walk"
    /\ UNCHANGED <<queues, cpu, f, len, context, listening, t, clock, reading, real,
                   history, raises>>

WalkLook ==
    /\ pc = "walk" /\ p # None
    /\ IF context[p] = ev /\ ~done
       THEN pc' = "wake" /\ t' = NextOf(p) /\ UNCHANGED p
       ELSE p' = NextOf(p) /\ UNCHANGED <<pc, t>>
    /\ UNCHANGED <<queues, cpu, args, context, listening, only, done, clock, reading,
                   real, history, bounds>>

\* dequeue_fiber() and queue_fiber(): the fiber may have been moved already.
Requeued_Blindly == Append(runQueue, p)
Requeued == Append(Without(runQueue, p), p)

WalkWake ==
    /\ pc = "wake"
    /\ runQueue' = Requeued
    /\ waitQueue' = Without(waitQueue, p)
    /\ p' = t /\ t' = None
    /\ done' = only
    /\ pc' = "walk"
    /\ UNCHANGED <<sleepQueue, fiberPool, fresh, cpu, args, context, listening, only,
                   clock, reading, real, history, bounds>>

WalkEnd ==
    /\ pc = "walk" /\ p = None
    /\ listening' = IF ev = Notify THEN listening ELSE listening \ {ev}
    /\ ev' = None /\ only' = FALSE /\ done' = FALSE
    /\ pc' = "user"
    /\ UNCHANGED <<queues, cpu, f, len, context, p, t, clock, reading, real, history,
                   bounds>>

-----------------------------------------------------------------------------
\* What the running code does without a choice of its caller.
Step ==
    \/ TimerRead \/ TimerLoad \/ TimerStore \/ TimerReset \/ SleepDequeue
    \/ SleepEnqueue \/ WaitDequeue \/ WaitEnqueue \/ Listen \/ schedule
    \/ WalkLook \/ WalkWake \/ WalkEnd

Call ==
    \/ \E ms \in Sleeps : fiber_sleep(ms)
    \/ \E e \in Events : \/ fiber_wait_for_event(e) \/ WaitForked(e)
                         \/ \E one \in BOOLEAN : RaiseInFiber(e, one)
    \/ create_fiber \/ release_fiber \/ invoke

Interrupt ==
    \/ Advance \/ Tick
    \/ \E e \in Events, one \in BOOLEAN : Raise(e, one)

Next == Step \/ Call \/ Yield \/ HandlerReturns \/ Interrupt

Spec == Init /\ [][Next]_vars

\* The processor runs the running code; a fiber yields in the end, and a handler
\* returns.
FairSpec ==
    Spec /\ WF_vars(Step) /\ WF_vars(Yield) /\ WF_vars(HandlerReturns)

-----------------------------------------------------------------------------
(* Properties.                                                             *)

AllQueues == {runQueue, sleepQueue, waitQueue, fiberPool}

\* Every variable has its type, and no fiber is twice in a queue.
TypeOK ==
    /\ AllQueues \subseteq Queue(Fibers)
    /\ fresh \subseteq Fibers
    /\ current \in Fibers \cup {Idle} /\ fob \in BOOLEAN /\ (fob => current = Idle)
    /\ pc \in PCs
    /\ f \in Fibers \cup {None} /\ ev \in Events \cup {None} /\ len \in Sleeps \cup {0}
    /\ wanted \in [Fibers -> Events \cup {None}]
    /\ context \in [Fibers -> {None} \cup Events \cup Nat]
    /\ listening \subseteq Events
    /\ p \in Fibers \cup {None} /\ t \in Fibers \cup {None}
    /\ only \in BOOLEAN /\ done \in BOOLEAN
    /\ time_us \in Nat /\ timer \in Nat /\ rd \in Nat /\ ld \in Nat
    /\ real \in 0 .. MaxTime /\ due \in [Fibers -> Nat] /\ folded \subseteq Fibers
    /\ skewed \in BOOLEAN /\ overtaken \in BOOLEAN
    /\ calls \in 0 .. MaxCalls /\ raises \in 0 .. MaxRaises

\* The fiber of a call is in no queue between its removal and its return to one;
\* a forked one that will sleep was never in any.
InHand ==
    IF pc \in {"enqueue", "waitEnqueue"} \/ (fob /\ pc \in SleepSteps) THEN {f} ELSE {}

\* Every fiber is in exactly one place, whatever interrupts move while a call
\* moves its own (queue_fiber, dequeue_fiber): none is lost, none runs twice; and
\* code that is not blocking runs in a fiber of the run queue (schedule).
OnePlace ==
    /\ \A g \in Fibers :
          \/ g \in fresh \cup InHand /\ \A q \in AllQueues : g \notin ToSet(q)
          \/ g \notin fresh \cup InHand /\ \E q \in AllQueues : g \in ToSet(q)
    /\ fresh \cap InHand = {}
    /\ ToSet(runQueue) \cap ToSet(sleepQueue) = {}
    /\ ToSet(runQueue) \cap ToSet(waitQueue) = {}
    /\ ToSet(sleepQueue) \cap ToSet(waitQueue) = {}
    /\ ToSet(fiberPool) \cap ToSet(runQueue \o sleepQueue \o waitQueue) = {}
    /\ pc \in {"user", "walk", "wake"} /\ current # Idle => current \in ToSet(runQueue)

\* A fiber that waits will hear its event: scheduler_event is registered for it
\* until every fiber that waits for it is awake (fiber_wake_on_event,
\* scheduler_event), unless an interrupt led the walk astray.
WaitersAreHeard ==
    overtaken \/ \A g \in ToSet(waitQueue) :
                    context[g] \in listening \/ (pc = "listen" /\ g = f)

\* A fiber that slept runs at most one count of the timer less than a millisecond
\* before its time is over, however the clock is brought up to date by fibers and
\* ticks, unless a tick found update_time between its sum and its reset, or the time
\* to wake up did not fit into context.
SleepsItsTime ==
    [][\A g \in ToSet(sleepQueue) :
           g \in ToSet(runQueue') =>
               skewed' \/ g \in folded \/ due[g] <= real + (PerMs - 1)]_vars

\* A runnable fiber runs, whatever the others do that are runnable with it, as
\* long as each gives up the processor in the end (schedule).
RunnableRuns ==
    \A g \in Fibers : (g \in ToSet(runQueue)) ~> (current = g \/ overtaken)

\* "we've woken up all the fibers with this match": what scheduler_event says of
\* the moment it unregisters the event.
AllMatchesWoken ==
    pc = "walk" /\ p = None /\ ~only => \A g \in ToSet(waitQueue) : context[g] # ev
=============================================================================
