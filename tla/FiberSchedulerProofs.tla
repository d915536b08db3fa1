------------------------ MODULE FiberSchedulerProofs ------------------------
(***************************************************************************)
(* The scheduler, for any fibers, events, sleeps and interrupts: no fiber  *)
(* is lost or in two queues, a fiber that waits will hear its event, and   *)
(* one that sleeps sleeps its time.                                        *)
(***************************************************************************)
EXTENDS FiberScheduler, QueueProofs

\* Who is in the queues.
R == ToSet(runQueue)
S == ToSet(sleepQueue)
W == ToSet(waitQueue)
P == ToSet(fiberPool)

\* Every fiber is in one queue, in the hands of a call, or was never allocated.
Places ==
    /\ R \cap S = {} /\ R \cap W = {} /\ R \cap P = {}
    /\ S \cap W = {} /\ S \cap P = {} /\ W \cap P = {}
    /\ (R \cup S \cup W \cup P) \cap (fresh \cup InHand) = {}
    /\ fresh \cap InHand = {}
    /\ Fibers \subseteq R \cup S \cup W \cup P \cup fresh \cup InHand

\* Where the running code and the fibers that it holds are.
WaitSteps == {"wait", "waitEnqueue", "listen"}
InCall ==
    /\ fob => pc \in {"user", "walk", "wake"} \cup SleepSteps
    /\ pc \in SleepSteps \cup WaitSteps => f \in Fibers
    /\ pc \in WaitSteps => ~fob /\ ev \in Events
    /\ pc \in SleepSteps \ {"enqueue"} /\ ~fob => f \in R
    /\ pc = "wait" => f \in R
    /\ pc = "listen" => f \in R \cup W
    /\ pc \in {"user", "walk", "wake"} /\ current # Idle => current \in R
    /\ pc \in {"walk", "wake"} => ev \in Events /\ p \in R \cup W \cup {None}
    /\ pc = "wake" => p # None /\ t \in R \cup W \cup {None}

PlacesInv == TypeOK /\ Places /\ InCall

-----------------------------------------------------------------------------
(* Milliseconds and what the timer counts.                                 *)

Units(n) == n * PerMs

\* A conversion to milliseconds loses less than one.
LEMMA UnitsOfTime ==
  /\ \A n \in Nat : Units(n) \in Nat
  /\ \A m, n \in Nat : Units(m + n) = Units(m) + Units(n)
  /\ \A m, n \in Nat : m <= n => Units(m) <= Units(n)
  /\ \A x \in Nat : /\ Milliseconds(x) \in Nat
                   /\ Units(Milliseconds(x)) <= x
                   /\ x <= Units(Milliseconds(x)) + (PerMs - 1)
<1>1. PerMs \in Nat /\ PerMs > 0
  BY ClockAssumption
<1>2. \A n \in Nat : Units(n) \in Nat
  BY <1>1 DEF Units
<1>3. \A m, n \in Nat : Units(m + n) = Units(m) + Units(n)
  BY <1>1 DEF Units
<1>4. ASSUME NEW m \in Nat, NEW n \in Nat, m <= n
      PROVE  Units(m) <= Units(n)
  <2>1. n - m \in Nat /\ m + (n - m) = n
    BY <1>4
  <2>2. Units(n) = Units(m) + Units(n - m)
    BY <1>3, <2>1
  <2> QED
    BY <1>2, <1>4, <2>1, <2>2
<1>5. ASSUME NEW x \in Nat
      PROVE  /\ Milliseconds(x) \in Nat
             /\ Units(Milliseconds(x)) <= x
             /\ x <= Units(Milliseconds(x)) + (PerMs - 1)
  <2>1. /\ x \div PerMs \in Nat
        /\ (x \div PerMs) * PerMs <= x
        /\ x <= (x \div PerMs) * PerMs + (PerMs - 1)
    BY <1>1
  <2> QED
    BY <2>1 DEF Milliseconds, Units
<1> QED
  BY <1>2, <1>3, <1>4, <1>5

LEMMA SleepsAreNumbers ==
  /\ Sleeps \subseteq Nat /\ Wrap \in Nat /\ Wrap > 0 /\ PerMs \in Nat /\ PerMs > 0
  /\ \A n \in Nat : n % Wrap \in Nat /\ (n < Wrap => n % Wrap = n)
<1>1. Wrap \in Nat /\ Wrap > 0 /\ PerMs \in Nat /\ PerMs > 0
  BY ClockAssumption
<1>2. Sleeps \subseteq Nat
  BY <1>1, BoundsAssumption
<1>3. \A n \in Nat : n % Wrap \in Nat /\ (n < Wrap => n % Wrap = n)
  BY <1>1
<1> QED
  BY <1>1, <1>2, <1>3

\* What a fiber's context holds for its wake-up time.
LEMMA WakeUpNumber ==
  ASSUME TypeOK
  PROVE  WakeUp \in Nat /\ WakeUp % Wrap \in Nat /\ (WakeUp < Wrap => WakeUp % Wrap = WakeUp)
<1>1. time_us \in Nat /\ len \in Nat
  BY SleepsAreNumbers DEF TypeOK
<1>2. WakeUp \in Nat
  BY <1>1, UnitsOfTime DEF WakeUp
<1> QED
  BY <1>2, SleepsAreNumbers

-----------------------------------------------------------------------------
(* The queues in a state of the invariant.                                 *)

LEMMA FourQueues ==
  ASSUME TypeOK
  PROVE  /\ runQueue \in Queue(Fibers) /\ sleepQueue \in Queue(Fibers)
         /\ waitQueue \in Queue(Fibers) /\ fiberPool \in Queue(Fibers)
         /\ R \subseteq Fibers /\ S \subseteq Fibers /\ W \subseteq Fibers /\ P \subseteq Fibers
<1>1. /\ runQueue \in Queue(Fibers) /\ sleepQueue \in Queue(Fibers)
      /\ waitQueue \in Queue(Fibers) /\ fiberPool \in Queue(Fibers)
  BY DEF TypeOK, AllQueues
<1>2. \A q \in Queue(Fibers) : ToSet(q) \subseteq Fibers
  BY InQueue DEF Queue
<1> QED
  BY <1>1, <1>2 DEF R, S, W, P

\* The next of a fiber is in the same queue, and first of those behind it.
LEMMA NextOfQueue ==
  ASSUME TypeOK, Places, NEW q \in AllQueues, NEW g \in ToSet(q)
  PROVE  /\ NextOf(g) \in ToSet(q) \cup {None} /\ NextOf(g) # g
         /\ \A h : Before(q, g, h) =>
                /\ NextOf(g) \in ToSet(q)
                /\ h = NextOf(g) \/ Before(q, NextOf(g), h)
<1>1. q \in Queue(Fibers)
  BY DEF TypeOK
<1>2. QueueOf(g) = q
  <2>1. \A r \in AllQueues : g \in ToSet(r) => r = q
    BY DEF AllQueues, Places, R, S, W, P
  <2> QED
    BY <2>1 DEF QueueOf, AllQueues
<1>3. /\ Len(q) \in Nat /\ DOMAIN q = 1 .. Len(q)
      /\ \E k \in 1 .. Len(q) : q[k] = g
      /\ \A k \in 1 .. Len(q) : q[k] \in ToSet(q)
  BY <1>1, InQueue DEF Queue
<1> DEFINE i == CHOOSE k \in DOMAIN q : q[k] = g
<1>4. i \in 1 .. Len(q) /\ q[i] = g
  BY <1>3
<1>5. NextOf(g) = IF i < Len(q) THEN q[i + 1] ELSE None
  BY <1>2 DEF NextOf
<1> HIDE DEF i
<1>6. NextOf(g) \in ToSet(q) \cup {None} /\ NextOf(g) # g
  <2>1. i < Len(q) => i + 1 \in 1 .. Len(q) /\ i + 1 # i
    BY <1>3, <1>4
  <2>2. \A k, l \in 1 .. Len(q) : q[k] = q[l] => k = l
    BY <1>1, <1>3 DEF Queue, IsInjective
  <2>3. g \in Fibers /\ None \notin Fibers
    BY <1>1, InQueue, FibersAssumption DEF Queue
  <2> QED
    BY <1>3, <1>4, <1>5, <2>1, <2>2, <2>3
<1>7. ASSUME NEW h, Before(q, g, h)
      PROVE  /\ NextOf(g) \in ToSet(q)
             /\ h = NextOf(g) \/ Before(q, NextOf(g), h)
  <2>1. /\ i < Len(q) /\ i + 1 \in 1 .. Len(q) /\ q[i + 1] # q[i]
        /\ h = q[i + 1] \/ Before(q, q[i + 1], h)
    BY <1>1, <1>4, <1>7, NextInQueue
  <2> QED
    BY <1>3, <1>4, <1>5, <2>1
<1> QED
  BY <1>6, <1>7

LEMMA PickedRuns ==
  ASSUME TypeOK, Places
  PROVE  Picked \in R \cup {Idle}
<1>1. runQueue \in Queue(Fibers) /\ runQueue \in AllQueues
  BY FourQueues DEF AllQueues
<1>2. current \in R => NextOf(current) \in R \cup {None}
  BY <1>1, NextOfQueue DEF R
<1>3. runQueue # <<>> => Head(runQueue) \in R
  BY <1>1, HeadIsFirst DEF R
<1> QED
  BY <1>2, <1>3 DEF Picked, R

\* getFiberContext() takes a fiber that is nowhere else.
LEMMA TakenFiber ==
  ASSUME TypeOK, Places, TakeFiber
  PROVE  /\ NewFiber \in (P \cup fresh) \ InHand
         /\ fiberPool' \in Queue(Fibers)
         /\ P' = P \ {NewFiber} /\ fresh' = fresh \ {NewFiber}
<1>1. fiberPool \in Queue(Fibers)
  BY FourQueues
<1>2. CASE fiberPool # <<>>
  <2>1. Head(fiberPool) \in P
    BY <1>1, <1>2, HeadIsFirst DEF P
  <2>2. NewFiber = Head(fiberPool)
    BY <1>2 DEF NewFiber
  <2> QED
    BY <1>1, <2>1, <2>2, WithoutQueue DEF TakeFiber, P, Places
<1>3. CASE fiberPool = <<>>
  <2>1. fresh # {}
    BY <1>3 DEF TakeFiber, Available
  <2>2. NewFiber \in fresh
    BY <1>3, <2>1 DEF NewFiber
  <2> QED
    BY <1>1, <2>2, WithoutQueue DEF TakeFiber, P, Places
<1> QED
  BY <1>2, <1>3

-----------------------------------------------------------------------------
(* Every fiber stays in one place.                                         *)

LEMMA InitPlaces == Init => PlacesInv
<1> SUFFICES ASSUME Init PROVE PlacesInv
  OBVIOUS
<1>1. /\ runQueue \in Queue(Fibers) /\ R = {Main}
      /\ sleepQueue \in Queue(Fibers) /\ S = {}
      /\ waitQueue \in Queue(Fibers) /\ W = {}
      /\ fiberPool \in Queue(Fibers) /\ P = {}
  BY FibersAssumption, ShortQueues DEF Init, R, S, W, P
<1>2. TypeOK
  <2>1. AllQueues \subseteq Queue(Fibers)
    BY <1>1 DEF AllQueues
  <2>2. /\ fresh \subseteq Fibers /\ current \in Fibers \cup {Idle} /\ pc \in PCs
        /\ f = None /\ ev = None /\ p = None /\ t = None /\ len = 0
        /\ listening \subseteq Events
        /\ ~fob /\ ~only /\ ~done /\ ~skewed /\ ~overtaken
    BY FibersAssumption DEF Init, PCs
  <2>3. /\ wanted \in [Fibers -> Events \cup {None}]
        /\ context \in [Fibers -> {None} \cup Events \cup Nat]
        /\ due \in [Fibers -> Nat] /\ folded \subseteq Fibers
    BY DEF Init
  <2>4. /\ time_us \in Nat /\ timer \in Nat /\ rd \in Nat /\ ld \in Nat
        /\ real \in 0 .. MaxTime /\ calls \in 0 .. MaxCalls /\ raises \in 0 .. MaxRaises
    BY BoundsAssumption DEF Init
  <2>5. fob \in BOOLEAN /\ only \in BOOLEAN /\ done \in BOOLEAN
    BY DEF Init
  <2>6. skewed \in BOOLEAN /\ overtaken \in BOOLEAN
    BY DEF Init
  <2> QED
    BY <2>1, <2>2, <2>3, <2>4, <2>5, <2>6 DEF TypeOK
<1>3. InHand = {}
  BY DEF InHand, Init
<1>4. Places
  BY <1>1, <1>3, FibersAssumption DEF Places, Init
<1>5. InCall
  BY <1>1 DEF InCall, Init, SleepSteps, WaitSteps
<1> QED
  BY <1>2, <1>4, <1>5 DEF PlacesInv

\* The steps that move no fiber: they change where the code is.
LEMMA ClockPlaces ==
  ASSUME PlacesInv, Advance \/ TimerRead \/ TimerLoad \/ TimerStore \/ TimerReset
  PROVE  PlacesInv'
<1>1. /\ UNCHANGED <<queues, cpu, args, context, listening, walk, history, bounds>>
      /\ R' = R /\ S' = S /\ W' = W /\ P' = P
  BY DEF Advance, TimerRead, TimerLoad, TimerStore, TimerReset, queues, R, S, W, P
<1>2. \/ pc' = pc
      \/ pc \in SleepSteps \ {"enqueue"} /\ pc' \in SleepSteps \ {"enqueue"}
  BY DEF Advance, TimerRead, TimerLoad, TimerStore, TimerReset, SleepSteps
<1>3. TypeOK'
  <2>1. time_us' \in Nat /\ timer' \in Nat /\ rd' \in Nat /\ ld' \in Nat /\ real' \in 0 .. MaxTime
    BY BoundsAssumption DEF PlacesInv, TypeOK, Advance, TimerRead, TimerLoad, TimerStore,
       TimerReset, clock, reading
  <2> QED
    BY <1>1, <1>2, <2>1 DEF PlacesInv, TypeOK, AllQueues, PCs, queues, cpu, args, walk, history,
       bounds
<1>4. InHand' = InHand
  BY <1>1, <1>2 DEF InHand, cpu, args, SleepSteps
<1>5. Places'
  BY <1>1, <1>4 DEF PlacesInv, Places, queues
<1>6. InCall'
  BY <1>1, <1>2 DEF PlacesInv, InCall, SleepSteps, WaitSteps, queues, cpu, args, walk
<1> QED
  BY <1>3, <1>5, <1>6 DEF PlacesInv

\* The tick moves sleepers to the run queue.
LEMMA TickPlaces ==
  ASSUME PlacesInv, Tick
  PROVE  PlacesInv' /\ R' = R \cup Woken /\ S' = S \ Woken
<1>1. /\ runQueue \in Queue(Fibers) /\ sleepQueue \in Queue(Fibers)
      /\ Woken \subseteq S /\ R \cap S = {}
  BY FourQueues DEF PlacesInv, Places, Woken, S
<1> HIDE DEF Woken
<1>2. OnlyIn(sleepQueue, Woken) \in Queue(Fibers) /\ ToSet(OnlyIn(sleepQueue, Woken)) = Woken
  BY <1>1, OnlyInQueue DEF S
<1>3. sleepQueue' \in Queue(Fibers) /\ S' = S \ Woken
  BY <1>1, OnlyInQueue DEF Tick, S
<1>4. runQueue' \in Queue(Fibers) /\ R' = R \cup Woken
  BY <1>1, <1>2, ConcatQueue DEF Tick, R
<1>5. W' = W /\ P' = P /\ InHand' = InHand
  BY DEF Tick, W, P, InHand, cpu, args
<1>6. TypeOK'
  <2>1. /\ time_us' \in Nat /\ timer' \in Nat /\ due' \in [Fibers -> Nat]
        /\ folded' \subseteq Fibers /\ skewed' \in BOOLEAN
    BY DEF Tick, PlacesInv, TypeOK
  <2>2. AllQueues' \subseteq Queue(Fibers)
    BY <1>3, <1>4 DEF Tick, PlacesInv, TypeOK, AllQueues
  <2> QED
    BY <2>1, <2>2 DEF Tick, PlacesInv, TypeOK, cpu, args, walk, reading, bounds
<1>7. Places'
  BY <1>1, <1>3, <1>4, <1>5 DEF Places, PlacesInv, Tick
<1>8. InCall'
  BY <1>4, <1>5 DEF InCall, PlacesInv, Tick, cpu, args, walk
<1> QED
  BY <1>3, <1>4, <1>6, <1>7, <1>8 DEF PlacesInv

\* Whom an event wakes.
LEMMA WokenByEvent ==
  ASSUME TypeOK, NEW e, NEW one
  PROVE  /\ WokenBy(e, one) \in Queue(Fibers)
         /\ ToSet(WokenBy(e, one)) \subseteq {g \in W : context[g] = e}
         /\ ~one => ToSet(WokenBy(e, one)) = {g \in W : context[g] = e}
<1>1. /\ waitQueue \in Queue(Fibers) /\ W \subseteq Fibers
      /\ WaitingFor(e) \in Queue(Fibers)
      /\ ToSet(WaitingFor(e)) = {g \in W : context[g] = e}
  BY FourQueues, OnlyInQueue DEF WaitingFor, W
<1>2. CASE one /\ WaitingFor(e) # <<>>
  <2>1. Head(WaitingFor(e)) \in {g \in W : context[g] = e} /\ Head(WaitingFor(e)) \in Fibers
    BY <1>1, <1>2, HeadIsFirst
  <2>2. WokenBy(e, one) = <<Head(WaitingFor(e))>>
    BY <1>2 DEF WokenBy
  <2>3. WokenBy(e, one) \in Queue(Fibers) /\ ToSet(WokenBy(e, one)) = {Head(WaitingFor(e))}
    BY <2>1, <2>2, ShortQueues
  <2> QED
    BY <1>2, <2>1, <2>3
<1>3. CASE ~(one /\ WaitingFor(e) # <<>>)
  <2>1. WokenBy(e, one) = WaitingFor(e)
    BY <1>3 DEF WokenBy
  <2> QED
    BY <1>1, <2>1
<1> QED
  BY <1>2, <1>3

\* An event in an interrupt moves waiters to the run queue.
LEMMA RaisePlaces ==
  ASSUME PlacesInv, NEW e \in Events, NEW one \in BOOLEAN, Raise(e, one)
  PROVE  /\ PlacesInv'
         /\ R' = R \cup ToSet(WokenBy(e, one)) /\ W' = W \ ToSet(WokenBy(e, one))
         /\ \A g, h \in W' : Before(waitQueue', g, h) <=> Before(waitQueue, g, h)
<1> DEFINE woken == ToSet(WokenBy(e, one))
<1>1. /\ runQueue \in Queue(Fibers) /\ waitQueue \in Queue(Fibers)
      /\ WokenBy(e, one) \in Queue(Fibers) /\ woken \subseteq W
      /\ R \cap W = {}
  BY FourQueues, WokenByEvent DEF PlacesInv, Places
<1>2. /\ runQueue' = runQueue \o WokenBy(e, one)
      /\ waitQueue' = OnlyIn(waitQueue, W \ woken)
      /\ overtaken' \in BOOLEAN
  BY DEF Raise, W, PlacesInv, TypeOK
<1> HIDE DEF woken
<1>3. /\ waitQueue' \in Queue(Fibers) /\ W' = W \ woken
      /\ \A g, h \in W' : Before(waitQueue', g, h) <=> Before(waitQueue, g, h)
  BY <1>1, <1>2, OnlyInQueue DEF W
<1>4. runQueue' \in Queue(Fibers) /\ R' = R \cup woken
  BY <1>1, <1>2, ConcatQueue DEF R, woken
<1>5. S' = S /\ P' = P /\ InHand' = InHand
  BY DEF Raise, S, P, InHand, cpu, args
<1>6. TypeOK'
  <2>1. listening' \subseteq Events /\ raises' \in 0 .. MaxRaises
    BY BoundsAssumption DEF Raise, PlacesInv, TypeOK
  <2> QED
    BY <1>2, <1>3, <1>4, <2>1 DEF Raise, PlacesInv, TypeOK, AllQueues, cpu, args, walk, clock, reading
<1>7. Places'
  BY <1>1, <1>3, <1>4, <1>5 DEF Places, PlacesInv, Raise
<1>8. InCall'
  BY <1>1, <1>3, <1>4, <1>5 DEF InCall, PlacesInv, Raise, cpu, args, walk
<1> QED
  BY <1>3, <1>4, <1>6, <1>7, <1>8 DEF PlacesInv, woken

-----------------------------------------------------------------------------
(* Calls of fibers and handlers.                                           *)

\* When no queue changes and no call takes or gives back a fiber.
LEMMA SamePlaces ==
  ASSUME PlacesInv, UNCHANGED queues, InHand' = InHand
  PROVE  /\ Places' /\ AllQueues' \subseteq Queue(Fibers) /\ fresh' \subseteq Fibers
         /\ R' = R /\ S' = S /\ W' = W /\ P' = P
<1>1. R' = R /\ S' = S /\ W' = W /\ P' = P /\ fresh' = fresh
  BY DEF queues, R, S, W, P
<1>2. AllQueues' \subseteq Queue(Fibers) /\ fresh' \subseteq Fibers
  BY DEF queues, AllQueues, PlacesInv, TypeOK
<1> QED
  BY <1>1, <1>2 DEF PlacesInv, Places

\* The steps that only say where the code goes on.
LEMMA CodePlaces ==
  ASSUME PlacesInv, Yield \/ invoke \/ HandlerReturns
  PROVE  PlacesInv'
<1>1. /\ UNCHANGED <<queues, current, wanted, args, context, listening, walk, clock, reading,
                     real, history, raises>>
      /\ pc \in {"user", "more"} /\ pc' \in {"user", "more", "schedule"}
      /\ pc' = "user" => current = Idle
      /\ fob' \in BOOLEAN /\ (fob' => current = Idle /\ pc' = "user")
      /\ calls' \in 0 .. MaxCalls
  <2>1. CASE Yield
    BY <2>1 DEF PlacesInv, TypeOK, Yield, Running, cpu, bounds
  <2>2. CASE invoke
    BY <2>2, BoundsAssumption DEF PlacesInv, TypeOK, invoke, Counted
  <2>3. CASE HandlerReturns
    BY <2>3 DEF PlacesInv, TypeOK, HandlerReturns, Running, bounds
  <2> QED
    BY <2>1, <2>2, <2>3
<1>2. InHand' = InHand
  BY <1>1 DEF InHand, SleepSteps
<1>3. /\ Places' /\ AllQueues' \subseteq Queue(Fibers) /\ fresh' \subseteq Fibers
      /\ R' = R /\ W' = W
  BY <1>1, <1>2, SamePlaces
<1>4. TypeOK'
  BY <1>1, <1>3 DEF PlacesInv, TypeOK, args, walk, clock, reading, history, PCs
<1>5. InCall'
  BY <1>1, <1>3 DEF PlacesInv, InCall, SleepSteps, WaitSteps
<1> QED
  BY <1>3, <1>4, <1>5 DEF PlacesInv

\* Waiting: the call begins ...
LEMMA WaitPlaces ==
  ASSUME PlacesInv, NEW e \in Events, fiber_wait_for_event(e)
  PROVE  PlacesInv'
<1>1. /\ UNCHANGED <<queues, cpu, len, context, listening, walk, clock, reading, real,
                     history, raises>>
      /\ pc = "user" /\ pc' = "wait" /\ ~fob /\ current # Idle /\ f' = current /\ ev' = e
      /\ calls' \in 0 .. MaxCalls
  BY BoundsAssumption DEF PlacesInv, TypeOK, fiber_wait_for_event, Running, Counted
<1>2. InHand' = InHand
  BY <1>1 DEF InHand, SleepSteps
<1>3. /\ Places' /\ AllQueues' \subseteq Queue(Fibers) /\ fresh' \subseteq Fibers
      /\ R' = R /\ W' = W
  BY <1>1, <1>2, SamePlaces
<1>4. TypeOK'
  BY <1>1, <1>3 DEF PlacesInv, TypeOK, cpu, walk, clock, reading, history, PCs
<1>5. InCall'
  BY <1>1, <1>3 DEF PlacesInv, TypeOK, InCall, SleepSteps, WaitSteps, cpu
<1> QED
  BY <1>3, <1>4, <1>5 DEF PlacesInv

\* ... and ends when the event is registered.
LEMMA ListenPlaces ==
  ASSUME PlacesInv, Listen
  PROVE  PlacesInv'
<1>1. /\ UNCHANGED <<queues, cpu, len, context, walk, clock, reading, real, history, bounds>>
      /\ pc = "listen" /\ pc' = "schedule" /\ ~fob /\ f' = None /\ ev' = None
      /\ listening' \subseteq Events
  BY DEF PlacesInv, TypeOK, InCall, WaitSteps, Listen
<1>2. InHand' = InHand
  BY <1>1 DEF InHand, SleepSteps, cpu
<1>3. /\ Places' /\ AllQueues' \subseteq Queue(Fibers) /\ fresh' \subseteq Fibers
      /\ R' = R /\ W' = W
  BY <1>1, <1>2, SamePlaces
<1>4. TypeOK'
  BY <1>1, <1>3 DEF PlacesInv, TypeOK, cpu, walk, clock, reading, history, bounds, PCs
<1>5. InCall'
  BY <1>1, <1>3 DEF PlacesInv, InCall, SleepSteps, WaitSteps, cpu
<1> QED
  BY <1>3, <1>4, <1>5 DEF PlacesInv

\* schedule() goes on with a fiber of the run queue, or with the idle one.
LEMMA SchedulePlaces ==
  ASSUME PlacesInv, schedule
  PROVE  PlacesInv'
<1>1. /\ UNCHANGED <<queues, fob, len, context, listening, walk, clock, reading, real, history,
                     bounds>>
      /\ pc \in {"user", "schedule", "more"} /\ ~fob
      /\ current' = Picked
  BY DEF PlacesInv, InCall, SleepSteps, schedule
<1>2. Picked \in R \cup {Idle} /\ R \subseteq Fibers
  BY PickedRuns, FourQueues DEF PlacesInv
<1>3. \/ pc' = "user" /\ UNCHANGED <<wanted, f, ev>>
      \/ /\ pc' = "wait" /\ Picked # Idle /\ f' = Picked /\ ev' = wanted[Picked]
         /\ wanted[Picked] \in Events
         /\ wanted' \in [Fibers -> Events \cup {None}]
  BY <1>2 DEF schedule, PlacesInv, TypeOK
<1>4. InHand' = InHand
  BY <1>1, <1>3 DEF InHand, SleepSteps
<1>5. /\ Places' /\ AllQueues' \subseteq Queue(Fibers) /\ fresh' \subseteq Fibers
      /\ R' = R /\ W' = W
  BY <1>1, <1>4, SamePlaces
<1>6. TypeOK'
  <2>1. /\ f' \in Fibers \cup {None} /\ ev' \in Events \cup {None}
        /\ wanted' \in [Fibers -> Events \cup {None}] /\ pc' \in PCs
        /\ current' \in Fibers \cup {Idle}
    BY <1>1, <1>2, <1>3 DEF PlacesInv, TypeOK, PCs
  <2> QED
    BY <1>1, <1>5, <2>1 DEF PlacesInv, TypeOK, walk, clock, reading, history, bounds
<1>7. InCall'
  BY <1>1, <1>2, <1>3, <1>5 DEF PlacesInv, InCall, SleepSteps, WaitSteps
<1> QED
  BY <1>5, <1>6, <1>7 DEF PlacesInv

\* scheduler_event() of a fiber: the walk begins at the head of the wait queue ...
LEMMA RaiseInFiberPlaces ==
  ASSUME PlacesInv, NEW e \in Events, NEW one \in BOOLEAN, RaiseInFiber(e, one)
  PROVE  PlacesInv'
<1>1. /\ UNCHANGED <<queues, cpu, f, len, context, listening, t, clock, reading, real, history,
                     raises>>
      /\ pc = "user" /\ pc' = "walk" /\ ev' = e /\ only' = one /\ done' = FALSE
      /\ p' = IF waitQueue = <<>> THEN None ELSE Head(waitQueue)
      /\ calls' \in 0 .. MaxCalls
  BY BoundsAssumption DEF PlacesInv, TypeOK, RaiseInFiber, Running, Counted
<1>2. InHand' = InHand
  BY <1>1 DEF InHand, SleepSteps
<1>3. /\ Places' /\ AllQueues' \subseteq Queue(Fibers) /\ fresh' \subseteq Fibers
      /\ R' = R /\ W' = W
  BY <1>1, <1>2, SamePlaces
<1>4. p' \in W \cup {None} /\ W \subseteq Fibers
  BY <1>1, FourQueues, HeadIsFirst DEF PlacesInv, W
<1>5. TypeOK'
  BY <1>1, <1>3, <1>4 DEF PlacesInv, TypeOK, cpu, clock, reading, history, PCs
<1>6. InCall'
  BY <1>1, <1>3, <1>4 DEF PlacesInv, InCall, SleepSteps, WaitSteps, cpu
<1> QED
  BY <1>3, <1>5, <1>6 DEF PlacesInv

\* ... goes from one fiber to the next of the same queue ...
LEMMA WalkLookPlaces ==
  ASSUME PlacesInv, WalkLook
  PROVE  PlacesInv'
<1>1. /\ UNCHANGED <<queues, cpu, args, context, listening, only, done, clock, reading, real,
                     history, bounds>>
      /\ pc = "walk" /\ p # None
      /\ \/ pc' = "wake" /\ t' = NextOf(p) /\ p' = p
         \/ pc' = "walk" /\ t' = t /\ p' = NextOf(p)
  BY DEF WalkLook
<1>2. InHand' = InHand
  BY <1>1 DEF InHand, SleepSteps, cpu
<1>3. /\ Places' /\ AllQueues' \subseteq Queue(Fibers) /\ fresh' \subseteq Fibers
      /\ R' = R /\ W' = W
  BY <1>1, <1>2, SamePlaces
<1>4. NextOf(p) \in R \cup W \cup {None}
  <2>1. p \in R \/ p \in W
    BY <1>1 DEF PlacesInv, InCall
  <2>2. runQueue \in AllQueues /\ waitQueue \in AllQueues
    BY DEF AllQueues
  <2> QED
    BY <2>1, <2>2, NextOfQueue DEF PlacesInv, R, W
<1>5. R \subseteq Fibers /\ W \subseteq Fibers
  BY FourQueues DEF PlacesInv
<1>6. TypeOK'
  BY <1>1, <1>3, <1>4, <1>5 DEF PlacesInv, TypeOK, cpu, args, clock, reading, history, bounds, PCs
<1>7. InCall'
  BY <1>1, <1>3, <1>4 DEF PlacesInv, InCall, SleepSteps, WaitSteps, cpu, args
<1> QED
  BY <1>3, <1>6, <1>7 DEF PlacesInv

\* ... and ends when there is none.
LEMMA WalkEndPlaces ==
  ASSUME PlacesInv, WalkEnd
  PROVE  PlacesInv'
<1>1. /\ UNCHANGED <<queues, cpu, f, len, context, p, t, clock, reading, real, history, bounds>>
      /\ pc = "walk" /\ pc' = "user" /\ ev' = None /\ ~only' /\ ~done'
      /\ only' \in BOOLEAN /\ done' \in BOOLEAN
      /\ listening' \subseteq Events
  BY DEF WalkEnd, PlacesInv, TypeOK
<1>2. InHand' = InHand
  BY <1>1 DEF InHand, SleepSteps, cpu
<1>3. /\ Places' /\ AllQueues' \subseteq Queue(Fibers) /\ fresh' \subseteq Fibers
      /\ R' = R /\ W' = W
  BY <1>1, <1>2, SamePlaces
<1>4. TypeOK'
  BY <1>1, <1>3 DEF PlacesInv, TypeOK, cpu, clock, reading, history, bounds, PCs
<1>5. InCall'
  BY <1>1, <1>3 DEF PlacesInv, InCall, SleepSteps, WaitSteps, cpu
<1> QED
  BY <1>3, <1>4, <1>5 DEF PlacesInv

\* A call that sleeps: of its own fiber, or of one that it takes for its handler.
LEMMA SleepPlaces ==
  ASSUME PlacesInv, NEW ms \in Sleeps, fiber_sleep(ms)
  PROVE  PlacesInv'
<1>1. /\ UNCHANGED <<runQueue, sleepQueue, waitQueue, cpu, ev, context, listening, walk, clock,
                     reading, real, folded, skewed, overtaken, raises>>
      /\ pc = "user" /\ pc' = "read" /\ len' = ms /\ (current # Idle \/ fob)
      /\ due' = [due EXCEPT ![f'] = real + Units(ms)]
      /\ calls' \in 0 .. MaxCalls
      /\ InHand = {}
  BY BoundsAssumption DEF PlacesInv, TypeOK, fiber_sleep, Running, Counted, InHand, SleepSteps,
     Units
<1>2. R' = R /\ S' = S /\ W' = W
  BY <1>1 DEF R, S, W
<1>3. \/ ~fob /\ f' = current /\ f' \in R /\ UNCHANGED <<fiberPool, fresh>> /\ InHand' = {}
      \/ fob /\ TakeFiber /\ f' = NewFiber /\ InHand' = {NewFiber}
  BY <1>1 DEF fiber_sleep, InHand, SleepSteps, cpu, PlacesInv, InCall
<1>4. /\ f' \in Fibers /\ fiberPool' \in Queue(Fibers) /\ fresh' \subseteq Fibers
      /\ Places' /\ (~fob => f' \in R)
  <2>1. CASE ~fob
    <3>1. P' = P /\ InHand' = {}
      BY <1>3, <2>1 DEF P
    <3> QED
      BY <1>1, <1>2, <1>3, <2>1, <3>1, FourQueues DEF PlacesInv, Places, TypeOK
  <2>2. CASE fob
    <3>1. /\ NewFiber \in (P \cup fresh) \ InHand
          /\ fiberPool' \in Queue(Fibers)
          /\ P' = P \ {NewFiber} /\ fresh' = fresh \ {NewFiber}
      BY <1>3, <2>2, TakenFiber DEF PlacesInv
    <3> QED
      BY <1>1, <1>2, <1>3, <2>2, <3>1, FourQueues DEF PlacesInv, Places, TypeOK
  <2> QED
    BY <2>1, <2>2
<1>5. due' \in [Fibers -> Nat]
  <2>1. real \in Nat /\ Units(ms) \in Nat /\ due \in [Fibers -> Nat]
    BY BoundsAssumption, SleepsAreNumbers, UnitsOfTime DEF PlacesInv, TypeOK
  <2>2. PICK x \in Nat : x = real + Units(ms)
    BY <2>1
  <2>3. due' = [due EXCEPT ![f'] = x]
    BY <1>1, <2>2
  <2> QED
    BY <2>1, <2>2, <2>3
<1>6. TypeOK'
  <2>1. AllQueues' \subseteq Queue(Fibers)
    BY <1>1, <1>4, FourQueues DEF AllQueues, PlacesInv
  <2> QED
    BY <1>1, <1>4, <1>5, <2>1 DEF PlacesInv, TypeOK, cpu, walk, clock, reading, PCs, SleepSteps
<1>7. InCall'
  BY <1>1, <1>2, <1>4 DEF PlacesInv, InCall, SleepSteps, WaitSteps, cpu
<1> QED
  BY <1>4, <1>6, <1>7 DEF PlacesInv

\* It takes the fiber from the run queue ...
LEMMA SleepDequeuePlaces ==
  ASSUME PlacesInv, SleepDequeue
  PROVE  PlacesInv' /\ R' = R \ {f} /\ InHand' = {f} /\ S' = S
<1>1. /\ UNCHANGED <<sleepQueue, waitQueue, fiberPool, fresh, cpu, f, ev, listening, walk,
                     clock, reading, real, due, skewed, overtaken, bounds>>
      /\ pc = "dequeue" /\ pc' = "enqueue" /\ len' = 0 /\ f \in Fibers
      /\ runQueue' = Without(runQueue, f)
      /\ context' = [context EXCEPT ![f] = WakeUp % Wrap]
      /\ folded' \subseteq folded \cup {f}
  BY DEF SleepDequeue, Dequeued, PlacesInv, InCall, SleepSteps
<1>2. runQueue' \in Queue(Fibers) /\ R' = R \ {f}
  BY <1>1, FourQueues, WithoutQueue DEF PlacesInv, R
<1>3. S' = S /\ W' = W /\ P' = P /\ InHand' = {f} /\ InHand = IF fob THEN {f} ELSE {}
  BY <1>1 DEF S, W, P, InHand, SleepSteps
<1>4. ~fob => f \in R
  BY <1>1 DEF PlacesInv, InCall, SleepSteps
<1>5. Places'
  BY <1>1, <1>2, <1>3, <1>4 DEF PlacesInv, Places
<1>6. TypeOK'
  <2>1. AllQueues' \subseteq Queue(Fibers)
    BY <1>1, <1>2, FourQueues DEF AllQueues, PlacesInv
  <2>2. context' \in [Fibers -> {None} \cup Events \cup Nat]
    <3>1. WakeUp % Wrap \in Nat
      BY WakeUpNumber DEF PlacesInv
    <3>3. context \in [Fibers -> {None} \cup Events \cup Nat]
      BY DEF PlacesInv, TypeOK
    <3> QED
      BY <1>1, <3>1, <3>3
  <2>3. folded' \subseteq Fibers
    BY <1>1 DEF PlacesInv, TypeOK
  <2> QED
    BY <1>1, <2>1, <2>2, <2>3 DEF PlacesInv, TypeOK, cpu, walk, clock, reading, bounds, PCs,
       SleepSteps
<1>7. InCall'
  BY <1>1, <1>2, <1>3 DEF PlacesInv, InCall, SleepSteps, WaitSteps, cpu
<1> QED
  BY <1>2, <1>3, <1>5, <1>6, <1>7 DEF PlacesInv

\* ... and puts it into the sleep queue.
LEMMA SleepEnqueuePlaces ==
  ASSUME PlacesInv, SleepEnqueue
  PROVE  PlacesInv' /\ S' = S \cup {f} /\ R' = R
<1>1. /\ UNCHANGED <<runQueue, waitQueue, fiberPool, fresh, ev, len, wanted, context, listening,
                     walk, clock, reading, real, history, bounds>>
      /\ pc = "enqueue" /\ pc' \in {"schedule", "more"} /\ f \in Fibers /\ f' = None
      /\ current' = current /\ ~fob' /\ fob' \in BOOLEAN
      /\ sleepQueue' = Append(sleepQueue, f)
  BY DEF SleepEnqueue, Forked, PlacesInv, InCall, SleepSteps, TypeOK
<1>2. R' = R /\ W' = W /\ P' = P /\ InHand = {f} /\ InHand' = {}
  BY <1>1 DEF R, W, P, InHand, SleepSteps
<1>3. sleepQueue' \in Queue(Fibers) /\ S' = S \cup {f}
  <2>1. f \notin S
    BY <1>2 DEF PlacesInv, Places
  <2> QED
    BY <1>1, <2>1, FourQueues, AppendQueue DEF PlacesInv, S
<1>4. Places'
  BY <1>1, <1>2, <1>3 DEF PlacesInv, Places
<1>5. TypeOK'
  <2>1. AllQueues' \subseteq Queue(Fibers)
    BY <1>1, <1>3, FourQueues DEF AllQueues, PlacesInv
  <2> QED
    BY <1>1, <2>1 DEF PlacesInv, TypeOK, walk, clock, reading, history, bounds, PCs
<1>6. InCall'
  BY <1>1 DEF PlacesInv, InCall, SleepSteps, WaitSteps
<1> QED
  BY <1>2, <1>3, <1>4, <1>5, <1>6 DEF PlacesInv

\* A handler that waits becomes a fiber of the run queue, as a new fiber does.
LEMMA NewFiberPlaces ==
  ASSUME PlacesInv, create_fiber \/ \E e \in Events : WaitForked(e)
  PROVE  PlacesInv'
<1>1. /\ UNCHANGED <<sleepQueue, waitQueue, args, context, listening, walk, clock, reading, real,
                     history, raises, current>>
      /\ pc = "user" /\ TakeFiber /\ runQueue' = Append(runQueue, NewFiber)
      /\ \/ pc' = "user" /\ fob' = fob /\ (current # Idle \/ fob)
         \/ pc' = "more" /\ fob' = FALSE
      /\ calls' \in 0 .. MaxCalls
      /\ wanted' \in [Fibers -> Events \cup {None}]
  <2>1. CASE create_fiber
    BY <2>1 DEF create_fiber, PlacesInv, TypeOK, cpu, bounds, Running
  <2>2. CASE \E e \in Events : WaitForked(e)
    <3>1. PICK e \in Events : WaitForked(e)
      BY <2>2
    <3>2. calls' \in 0 .. MaxCalls
      BY <3>1, BoundsAssumption DEF WaitForked, PlacesInv, TypeOK, Counted
    <3>3. wanted' \in [Fibers -> Events \cup {None}]
      BY <3>1 DEF WaitForked, PlacesInv, TypeOK
    <3> QED
      BY <3>1, <3>2, <3>3 DEF WaitForked, Forked, Running
  <2> QED
    BY <2>1, <2>2
<1>2. InHand = {} /\ InHand' = {} /\ S' = S /\ W' = W
  BY <1>1 DEF InHand, SleepSteps, S, W
<1>3. /\ NewFiber \in (P \cup fresh) /\ NewFiber \in Fibers
      /\ fiberPool' \in Queue(Fibers) /\ P' = P \ {NewFiber} /\ fresh' = fresh \ {NewFiber}
  BY <1>1, TakenFiber, FourQueues DEF PlacesInv, TypeOK
<1>4. runQueue' \in Queue(Fibers) /\ R' = R \cup {NewFiber}
  <2>1. NewFiber \notin R
    BY <1>3 DEF PlacesInv, Places
  <2> QED
    BY <1>1, <1>3, <2>1, FourQueues, AppendQueue DEF PlacesInv, R
<1>5. Places'
  BY <1>2, <1>3, <1>4 DEF PlacesInv, Places
<1>6. TypeOK'
  <2>1. AllQueues' \subseteq Queue(Fibers)
    BY <1>1, <1>3, <1>4, FourQueues DEF AllQueues, PlacesInv
  <2>2. fob' \in BOOLEAN
    BY <1>1 DEF PlacesInv, TypeOK
  <2>3. fob' => current = Idle
    BY <1>1 DEF PlacesInv, TypeOK
  <2> QED
    BY <1>1, <1>3, <2>1, <2>2, <2>3 DEF PlacesInv, TypeOK, args, walk, clock, reading, history, PCs
<1>7. InCall'
  BY <1>1, <1>4 DEF PlacesInv, InCall, SleepSteps, WaitSteps
<1> QED
  BY <1>5, <1>6, <1>7 DEF PlacesInv

\* A fiber that waits leaves the run queue ...
LEMMA WaitDequeuePlaces ==
  ASSUME PlacesInv, WaitDequeue
  PROVE  PlacesInv'
<1>1. /\ UNCHANGED <<sleepQueue, waitQueue, fiberPool, fresh, cpu, args, listening, walk, clock,
                     reading, real, history, bounds>>
      /\ pc = "wait" /\ pc' = "waitEnqueue" /\ ~fob /\ f \in R /\ f \in Fibers /\ ev \in Events
      /\ runQueue' = Without(runQueue, f)
      /\ context' = [context EXCEPT ![f] = ev]
  BY DEF WaitDequeue, Dequeued, PlacesInv, InCall, WaitSteps
<1>2. runQueue' \in Queue(Fibers) /\ R' = R \ {f}
  BY <1>1, FourQueues, WithoutQueue DEF PlacesInv, R
<1>3. S' = S /\ W' = W /\ P' = P /\ InHand' = {f} /\ InHand = {}
  BY <1>1 DEF S, W, P, InHand, SleepSteps, args
<1>4. Places'
  BY <1>1, <1>2, <1>3 DEF PlacesInv, Places
<1>5. TypeOK'
  <2>1. AllQueues' \subseteq Queue(Fibers)
    BY <1>1, <1>2, FourQueues DEF AllQueues, PlacesInv
  <2>2. context' \in [Fibers -> {None} \cup Events \cup Nat]
    BY <1>1 DEF PlacesInv, TypeOK
  <2> QED
    BY <1>1, <2>1, <2>2 DEF PlacesInv, TypeOK, cpu, args, walk, clock, reading, history, bounds, PCs
<1>6. InCall'
  BY <1>1, <1>2, <1>3 DEF PlacesInv, InCall, SleepSteps, WaitSteps, cpu, args
<1> QED
  BY <1>4, <1>5, <1>6 DEF PlacesInv

\* ... for the wait queue.
LEMMA WaitEnqueuePlaces ==
  ASSUME PlacesInv, WaitEnqueue
  PROVE  PlacesInv' /\ W' = W \cup {f}
<1>1. /\ UNCHANGED <<runQueue, sleepQueue, fiberPool, fresh, cpu, args, context, listening, walk,
                     clock, reading, real, history, bounds>>
      /\ pc = "waitEnqueue" /\ pc' = "listen" /\ ~fob /\ f \in Fibers /\ ev \in Events
      /\ waitQueue' = Append(waitQueue, f)
  BY DEF WaitEnqueue, PlacesInv, InCall, WaitSteps
<1>2. R' = R /\ S' = S /\ P' = P /\ InHand = {f} /\ InHand' = {}
  BY <1>1 DEF R, S, P, InHand, SleepSteps, cpu
<1>3. waitQueue' \in Queue(Fibers) /\ W' = W \cup {f}
  <2>1. f \notin W
    BY <1>2 DEF PlacesInv, Places
  <2> QED
    BY <1>1, <2>1, FourQueues, AppendQueue DEF PlacesInv, W
<1>4. Places'
  BY <1>1, <1>2, <1>3 DEF PlacesInv, Places
<1>5. TypeOK'
  <2>1. AllQueues' \subseteq Queue(Fibers)
    BY <1>1, <1>3, FourQueues DEF AllQueues, PlacesInv
  <2> QED
    BY <1>1, <2>1 DEF PlacesInv, TypeOK, cpu, args, walk, clock, reading, history, bounds, PCs
<1>6. InCall'
  BY <1>1, <1>3 DEF PlacesInv, InCall, SleepSteps, WaitSteps, cpu, args
<1> QED
  BY <1>3, <1>4, <1>5, <1>6 DEF PlacesInv

\* A fiber that ends goes to the pool.
LEMMA ReleasePlaces ==
  ASSUME PlacesInv, release_fiber
  PROVE  PlacesInv'
<1>1. /\ UNCHANGED <<sleepQueue, waitQueue, fresh, cpu, args, context, listening, walk, clock,
                     reading, real, history, raises>>
      /\ pc = "user" /\ pc' = "schedule" /\ ~fob /\ current \in R
      /\ runQueue' = Without(runQueue, current) /\ fiberPool' = Append(fiberPool, current)
      /\ calls' \in 0 .. MaxCalls
  BY BoundsAssumption DEF release_fiber, Running, Counted, PlacesInv, InCall, TypeOK
<1>2. runQueue' \in Queue(Fibers) /\ R' = R \ {current}
  BY <1>1, FourQueues, WithoutQueue DEF PlacesInv, R
<1>3. fiberPool' \in Queue(Fibers) /\ P' = P \cup {current}
  <2>1. current \in Fibers /\ current \notin P
    BY <1>1, FourQueues DEF PlacesInv, Places
  <2> QED
    BY <1>1, <2>1, FourQueues, AppendQueue DEF PlacesInv, P
<1>4. S' = S /\ W' = W /\ InHand' = {} /\ InHand = {}
  BY <1>1 DEF S, W, InHand, SleepSteps, cpu
<1>5. Places'
  BY <1>1, <1>2, <1>3, <1>4 DEF PlacesInv, Places
<1>6. TypeOK'
  <2>1. AllQueues' \subseteq Queue(Fibers)
    BY <1>1, <1>2, <1>3, FourQueues DEF AllQueues, PlacesInv
  <2> QED
    BY <1>1, <2>1 DEF PlacesInv, TypeOK, cpu, args, walk, clock, reading, history, PCs
<1>7. InCall'
  BY <1>1 DEF PlacesInv, InCall, SleepSteps, WaitSteps, cpu, args
<1> QED
  BY <1>5, <1>6, <1>7 DEF PlacesInv

\* The walk moves the fiber it looks at to the end of the run queue.
LEMMA WalkWakePlaces ==
  ASSUME PlacesInv, WalkWake
  PROVE  /\ PlacesInv' /\ R' = R \cup {p} /\ W' = W \ {p}
         /\ \A g, h \in W' : Before(waitQueue', g, h) <=> Before(waitQueue, g, h)
<1>1. /\ UNCHANGED <<sleepQueue, fiberPool, fresh, cpu, args, context, listening, only, clock,
                     reading, real, history, bounds>>
      /\ pc = "wake" /\ pc' = "walk" /\ p' = t /\ t' = None /\ done' = only
      /\ p \in R \cup W /\ t \in R \cup W \cup {None} /\ ev \in Events
      /\ runQueue' = Append(Without(runQueue, p), p) /\ waitQueue' = Without(waitQueue, p)
  BY DEF WalkWake, Requeued, PlacesInv, InCall
<1>2. /\ R \subseteq Fibers /\ W \subseteq Fibers
      /\ runQueue \in Queue(Fibers) /\ waitQueue \in Queue(Fibers)
  BY FourQueues DEF PlacesInv
<1>3. runQueue' \in Queue(Fibers) /\ R' = R \cup {p}
  <2> DEFINE q == Without(runQueue, p)
  <2>1. q \in Queue(Fibers) /\ ToSet(q) = R \ {p} /\ p \in Fibers
    BY <1>1, <1>2, WithoutQueue DEF R
  <2>2. Append(q, p) \in Queue(Fibers) /\ ToSet(Append(q, p)) = ToSet(q) \cup {p}
    BY <2>1, AppendQueue
  <2> QED
    BY <1>1, <2>1, <2>2 DEF R
<1>4. /\ waitQueue' \in Queue(Fibers) /\ W' = W \ {p}
      /\ \A g, h \in W' : Before(waitQueue', g, h) <=> Before(waitQueue, g, h)
  BY <1>1, <1>2, WithoutQueue DEF W
<1>5. S' = S /\ P' = P /\ InHand' = {} /\ InHand = {}
  BY <1>1 DEF S, P, InHand, SleepSteps, cpu
<1>6. Places'
  BY <1>1, <1>3, <1>4, <1>5 DEF PlacesInv, Places
<1>7. TypeOK'
  <2>1. AllQueues' \subseteq Queue(Fibers)
    BY <1>1, <1>3, <1>4, FourQueues DEF AllQueues, PlacesInv
  <2> QED
    BY <1>1, <2>1 DEF PlacesInv, TypeOK, cpu, args, clock, reading, history, bounds, PCs
<1>8. InCall'
  BY <1>1, <1>3, <1>4 DEF PlacesInv, InCall, SleepSteps, WaitSteps, cpu, args
<1> QED
  BY <1>3, <1>4, <1>6, <1>7, <1>8 DEF PlacesInv

-----------------------------------------------------------------------------
(* No fiber is lost.                                                       *)

LEMMA NextPlaces ==
  ASSUME PlacesInv, [Next]_vars
  PROVE  PlacesInv'
<1>1. CASE Step
  <2>1. CASE TimerRead \/ TimerLoad \/ TimerStore \/ TimerReset
    BY <2>1, ClockPlaces
  <2>2. CASE SleepDequeue \/ SleepEnqueue
    BY <2>2, SleepDequeuePlaces, SleepEnqueuePlaces
  <2>3. CASE WaitDequeue \/ WaitEnqueue \/ Listen
    BY <2>3, WaitDequeuePlaces, WaitEnqueuePlaces, ListenPlaces
  <2>4. CASE schedule
    BY <2>4, SchedulePlaces
  <2>5. CASE WalkLook \/ WalkWake \/ WalkEnd
    BY <2>5, WalkLookPlaces, WalkWakePlaces, WalkEndPlaces
  <2> QED
    BY <1>1, <2>1, <2>2, <2>3, <2>4, <2>5 DEF Step
<1>2. CASE Call
  <2>1. ASSUME NEW ms \in Sleeps, fiber_sleep(ms) PROVE PlacesInv'
    BY <2>1, SleepPlaces
  <2>2. ASSUME NEW e \in Events, fiber_wait_for_event(e) PROVE PlacesInv'
    BY <2>2, WaitPlaces
  <2>3. CASE create_fiber \/ \E e \in Events : WaitForked(e)
    BY <2>3, NewFiberPlaces
  <2>4. ASSUME NEW e \in Events, NEW one \in BOOLEAN, RaiseInFiber(e, one) PROVE PlacesInv'
    BY <2>4, RaiseInFiberPlaces
  <2>5. CASE release_fiber
    BY <2>5, ReleasePlaces
  <2>6. CASE invoke
    BY <2>6, CodePlaces
  <2> QED
    BY <1>2, <2>1, <2>2, <2>3, <2>4, <2>5, <2>6 DEF Call
<1>3. CASE Yield \/ HandlerReturns
  BY <1>3, CodePlaces
<1>4. CASE Interrupt
  <2>1. CASE Advance
    BY <2>1, ClockPlaces
  <2>2. CASE Tick
    BY <2>2, TickPlaces
  <2>3. ASSUME NEW e \in Events, NEW one \in BOOLEAN, Raise(e, one) PROVE PlacesInv'
    BY <2>3, RaisePlaces
  <2> QED
    BY <1>4, <2>1, <2>2, <2>3 DEF Interrupt
<1>5. CASE UNCHANGED vars
  <2>1. /\ UNCHANGED queues /\ InHand' = InHand
    BY <1>5 DEF vars, queues, InHand, cpu, args
  <2>2. /\ Places' /\ AllQueues' \subseteq Queue(Fibers) /\ fresh' \subseteq Fibers
        /\ R' = R /\ W' = W
    BY <2>1, SamePlaces
  <2>3. TypeOK'
    BY <1>5, <2>2 DEF PlacesInv, TypeOK, vars, cpu, args, walk, clock, reading, history, bounds
  <2>4. InCall'
    BY <1>5, <2>2 DEF PlacesInv, InCall, vars, cpu, args, walk
  <2> QED
    BY <2>2, <2>3, <2>4 DEF PlacesInv
<1> QED
  BY <1>1, <1>2, <1>3, <1>4, <1>5 DEF Next

\* Whatever fibers and interrupts do, every fiber is in one queue, or in the hands of the call
\* that moves it, or was never allocated; and the walk of an event, the fiber that sleeps and
\* the one that waits are where the code that goes on with them expects them.
THEOREM EveryFiberHasItsPlace == Spec => []PlacesInv
<1>1. Init => PlacesInv
  BY InitPlaces
<1>2. PlacesInv /\ [Next]_vars => PlacesInv'
  BY NextPlaces
<1> QED
  BY <1>1, <1>2, PTL DEF Spec

\* Every variable of the scheduler keeps its type, and no fiber is ever linked twice in a queue.
THEOREM SchedulerTyped == Spec => []TypeOK
<1>1. PlacesInv => TypeOK
  BY DEF PlacesInv
<1> QED
  BY <1>1, EveryFiberHasItsPlace, PTL

\* queue_fiber and dequeue_fiber never lose a fiber or put it into two queues, however
\* interrupts cut the calls that use them, and code that does not block runs in a fiber of
\* the run queue.
THEOREM NoFiberLost == Spec => []OnePlace
<1>1. ASSUME PlacesInv PROVE OnePlace
  <2>1. \A g \in Fibers :
           \/ g \in fresh \cup InHand /\ \A q \in AllQueues : g \notin ToSet(q)
           \/ g \notin fresh \cup InHand /\ \E q \in AllQueues : g \in ToSet(q)
    <3> TAKE g \in Fibers
    <3>1. CASE g \in fresh \cup InHand
      BY <1>1, <3>1 DEF PlacesInv, Places, AllQueues, R, S, W, P
    <3>2. CASE g \notin fresh \cup InHand
      <4>1. g \in R \cup S \cup W \cup P
        BY <1>1, <3>2 DEF PlacesInv, Places
      <4> QED
        BY <3>2, <4>1 DEF AllQueues, R, S, W, P
    <3> QED
      BY <3>1, <3>2
  <2>2. /\ fresh \cap InHand = {}
        /\ R \cap S = {} /\ R \cap W = {} /\ S \cap W = {}
        /\ pc \in {"user", "walk", "wake"} /\ current # Idle => current \in R
    BY <1>1 DEF PlacesInv, Places, InCall
  <2>3. ToSet(runQueue \o sleepQueue \o waitQueue) = R \cup S \cup W
    <3>1. /\ runQueue \in Queue(Fibers) /\ sleepQueue \in Queue(Fibers)
          /\ waitQueue \in Queue(Fibers)
      BY <1>1, FourQueues DEF PlacesInv
    <3>2. /\ runQueue \o sleepQueue \in Queue(Fibers)
          /\ ToSet(runQueue \o sleepQueue) = R \cup S
      BY <2>2, <3>1, ConcatQueue DEF R, S
    <3>3. ToSet(runQueue \o sleepQueue) \cap ToSet(waitQueue) = {}
      BY <2>2, <3>2 DEF W
    <3> QED
      BY <3>1, <3>2, <3>3, ConcatQueue DEF W
  <2>4. ToSet(fiberPool) \cap ToSet(runQueue \o sleepQueue \o waitQueue) = {}
    BY <1>1, <2>3 DEF PlacesInv, Places, P
  <2> QED
    BY <2>1, <2>2, <2>4 DEF OnePlace, R, S, W
<1> QED
  BY <1>1, EveryFiberHasItsPlace, PTL

-----------------------------------------------------------------------------
(* Who waits will hear.                                                    *)

\* The walk for an event that is not NOTIFY has every fiber that waits for it at p, or behind
\* it: the next it goes on with is the first of those behind.
WalkOK ==
    ~overtaken /\ ev # Notify =>
        /\ pc = "walk" =>
              /\ ~only /\ ~done
              /\ p # None => p \in W
              /\ \A g \in W : context[g] = ev => p # None /\ (g = p \/ Before(waitQueue, p, g))
        /\ pc = "wake" =>
              /\ ~only /\ t # p
              /\ t # None => t \in W
              /\ \A g \in W : context[g] = ev =>
                                  g = p \/ (t # None /\ (g = t \/ Before(waitQueue, t, g)))

Heard ==
    /\ pc \in {"waitEnqueue", "listen"} => context[f] = ev
    /\ WalkOK
    /\ WaitersAreHeard

\* A step that moves no waiter and neither takes part in the walk nor in a call that waits.
LEMMA QuietHeard ==
  ASSUME PlacesInv, Heard, UNCHANGED <<waitQueue, listening, overtaken>>,
         \A g \in W : context'[g] = context[g],
         \/ pc' = pc /\ UNCHANGED <<args, walk, context>>
         \/ pc # "listen" /\ pc' \notin {"waitEnqueue", "listen", "walk", "wake"}
  PROVE  Heard'
<1>1. W' = W
  BY DEF W
<1>2. \A g \in W : overtaken \/ context'[g] \in listening' \/ (pc = "listen" /\ g = f)
  BY DEF Heard, WaitersAreHeard, W
<1>3. CASE pc' = pc /\ UNCHANGED <<args, walk, context>>
  <2>1. WalkOK' = WalkOK
    BY <1>1, <1>3 DEF WalkOK, args, walk, Before
  <2>2. WaitersAreHeard' = WaitersAreHeard
    BY <1>3 DEF WaitersAreHeard, args
  <2> QED
    BY <1>3, <2>1, <2>2 DEF Heard, args
<1>4. CASE pc # "listen" /\ pc' \notin {"waitEnqueue", "listen", "walk", "wake"}
  <2>1. WalkOK'
    BY <1>4 DEF WalkOK
  <2>2. WaitersAreHeard'
    BY <1>1, <1>2, <1>4 DEF WaitersAreHeard, W
  <2> QED
    BY <1>4, <2>1, <2>2 DEF Heard
<1> QED
  BY <1>3, <1>4

\* An event of an interrupt wakes all who wait for it before it is unregistered.
LEMMA RaiseHeard ==
  ASSUME PlacesInv, Heard, NEW e \in Events, NEW one \in BOOLEAN, Raise(e, one)
  PROVE  Heard'
<1> DEFINE woken == ToSet(WokenBy(e, one))
<1>1. /\ UNCHANGED <<pc, args, context, walk>> /\ (one => e = Notify)
      /\ listening' = IF e = Notify THEN listening ELSE listening \ {e}
      /\ ~overtaken' => /\ ~overtaken
                        /\ pc = "walk" => p \notin woken
                        /\ pc = "wake" => t \notin woken
  BY DEF Raise
<1>2. /\ W' = W \ woken
      /\ \A g, h \in W' : Before(waitQueue', g, h) <=> Before(waitQueue, g, h)
  BY RaisePlaces
<1>3. ~one => woken = {g \in W : context[g] = e}
  BY WokenByEvent DEF PlacesInv
<1> HIDE DEF woken
<1>4. ASSUME ~overtaken', NEW g \in W'
      PROVE  context'[g] \in listening' \/ (pc' = "listen" /\ g = f')
  <2>1. g \in W /\ (context[g] \in listening \/ (pc = "listen" /\ g = f))
    BY <1>1, <1>2, <1>4 DEF Heard, WaitersAreHeard, W
  <2>2. e # Notify => context[g] # e
    BY <1>1, <1>2, <1>3, <1>4
  <2> QED
    BY <1>1, <2>1, <2>2 DEF args
<1>5. ASSUME ~overtaken', ev' # Notify, pc' = "walk"
      PROVE  /\ ~only' /\ ~done'
             /\ p' # None => p' \in W'
             /\ \A g \in W' : context'[g] = ev' =>
                    p' # None /\ (g = p' \/ Before(waitQueue', p', g))
  <2>1. /\ ~only /\ ~done
        /\ p # None => p \in W
        /\ \A g \in W : context[g] = ev => p # None /\ (g = p \/ Before(waitQueue, p, g))
    BY <1>1, <1>5 DEF Heard, WalkOK, args
  <2> QED
    BY <1>1, <1>2, <1>5, <2>1 DEF args, walk
<1>6. ASSUME ~overtaken', ev' # Notify, pc' = "wake"
      PROVE  /\ ~only' /\ t' # p'
             /\ t' # None => t' \in W'
             /\ \A g \in W' : context'[g] = ev' =>
                    g = p' \/ (t' # None /\ (g = t' \/ Before(waitQueue', t', g)))
  <2>1. /\ ~only /\ t # p
        /\ t # None => t \in W
        /\ \A g \in W : context[g] = ev =>
               g = p \/ (t # None /\ (g = t \/ Before(waitQueue, t, g)))
    BY <1>1, <1>6 DEF Heard, WalkOK, args
  <2> QED
    BY <1>1, <1>2, <1>6, <2>1 DEF args, walk
<1>7. WalkOK'
  BY <1>5, <1>6 DEF WalkOK
<1>8. WaitersAreHeard'
  BY <1>4 DEF WaitersAreHeard, W
<1>9. pc' \in {"waitEnqueue", "listen"} => context'[f'] = ev'
  BY <1>1 DEF Heard, args
<1> QED
  BY <1>7, <1>8, <1>9 DEF Heard

\* A fiber that waits is heard from its place in the queue on, and its event after it.
LEMMA WaitHeard ==
  ASSUME PlacesInv, Heard, WaitDequeue \/ WaitEnqueue \/ Listen
  PROVE  Heard'
<1>1. CASE WaitDequeue
  <2>1. /\ UNCHANGED <<waitQueue, listening, overtaken, args>> /\ W' = W
        /\ pc = "wait" /\ pc' = "waitEnqueue" /\ f \in R /\ f \in Fibers
        /\ context' = [context EXCEPT ![f] = ev]
    BY <1>1 DEF WaitDequeue, PlacesInv, InCall, WaitSteps, history, W
  <2>2. context \in [Fibers -> {None} \cup Events \cup Nat] /\ f \notin W /\ W \subseteq Fibers
    BY <2>1, FourQueues DEF PlacesInv, Places, TypeOK
  <2>3. context'[f'] = ev' /\ \A g \in W : context'[g] = context[g]
    BY <2>1, <2>2 DEF args
  <2>4. WalkOK'
    BY <2>1 DEF WalkOK
  <2>5. WaitersAreHeard'
    BY <2>1, <2>3 DEF Heard, WaitersAreHeard, W
  <2> QED
    BY <2>3, <2>4, <2>5 DEF Heard
<1>2. CASE WaitEnqueue
  <2>1. /\ UNCHANGED <<listening, overtaken, args, context>> /\ W' = W \cup {f}
        /\ pc = "waitEnqueue" /\ pc' = "listen"
    BY <1>2, WaitEnqueuePlaces DEF WaitEnqueue, history
  <2>2. WalkOK'
    BY <2>1 DEF WalkOK
  <2>3. WaitersAreHeard'
    BY <2>1 DEF Heard, WaitersAreHeard, W, args
  <2> QED
    BY <2>1, <2>2, <2>3 DEF Heard, args
<1>3. CASE Listen
  <2>1. /\ UNCHANGED <<overtaken, context>> /\ W' = W
        /\ pc = "listen" /\ pc' = "schedule" /\ listening' = listening \cup {ev}
    BY <1>3 DEF Listen, history, W, queues
  <2>2. WalkOK'
    BY <2>1 DEF WalkOK
  <2>3. WaitersAreHeard'
    BY <2>1 DEF Heard, WaitersAreHeard, W
  <2> QED
    BY <2>1, <2>2, <2>3 DEF Heard
<1> QED
  BY <1>1, <1>2, <1>3

\* The walk begins in front of all waiters ...
LEMMA RaiseInFiberHeard ==
  ASSUME PlacesInv, Heard, NEW e \in Events, NEW one \in BOOLEAN, RaiseInFiber(e, one)
  PROVE  Heard'
<1>1. /\ UNCHANGED <<waitQueue, listening, overtaken, context>> /\ W' = W
      /\ pc = "user" /\ pc' = "walk" /\ (one => e = Notify)
      /\ ev' = e /\ only' = one /\ ~done'
      /\ p' = IF waitQueue = <<>> THEN None ELSE Head(waitQueue)
  BY DEF RaiseInFiber, Running, history, queues, W
<1>2. WaitersAreHeard'
  BY <1>1 DEF Heard, WaitersAreHeard, W
<1>3. CASE waitQueue = <<>>
  <2>1. W = {}
    BY <1>3 DEF W, ToSet
  <2> QED
    BY <1>1, <1>2, <1>3, <2>1 DEF Heard, WalkOK
<1>4. CASE waitQueue # <<>>
  <2>1. /\ Head(waitQueue) \in W /\ Head(waitQueue) # None
        /\ \A g \in W : g = Head(waitQueue) \/ Before(waitQueue, Head(waitQueue), g)
    BY <1>4, FourQueues, HeadIsFirst, FibersAssumption DEF PlacesInv, W
  <2> QED
    BY <1>1, <1>2, <1>4, <2>1 DEF Heard, WalkOK
<1> QED
  BY <1>3, <1>4

\* ... passes over nobody who waits for its event ...
LEMMA WalkLookHeard ==
  ASSUME PlacesInv, Heard, WalkLook
  PROVE  Heard'
<1>1. /\ UNCHANGED <<waitQueue, args, listening, overtaken, context, only, done>> /\ W' = W
      /\ pc = "walk" /\ p # None
      /\ \/ context[p] = ev /\ ~done /\ pc' = "wake" /\ t' = NextOf(p) /\ p' = p
         \/ ~(context[p] = ev /\ ~done) /\ pc' = "walk" /\ p' = NextOf(p)
  BY DEF WalkLook, history, queues, W
<1>2. WaitersAreHeard'
  BY <1>1 DEF Heard, WaitersAreHeard, W, args
<1>3. ASSUME ~overtaken, ev # Notify
      PROVE  /\ ~only /\ ~done /\ p \in W
             /\ NextOf(p) # p /\ NextOf(p) \in W \cup {None} /\ None \notin W
             /\ \A g \in W : context[g] = ev =>
                    \/ g = p
                    \/ NextOf(p) # None /\ (g = NextOf(p) \/ Before(waitQueue, NextOf(p), g))
  <2>1. /\ ~only /\ ~done /\ p \in W
        /\ \A g \in W : context[g] = ev => g = p \/ Before(waitQueue, p, g)
    BY <1>1, <1>3 DEF Heard, WalkOK
  <2>2. waitQueue \in AllQueues /\ None \notin W
    BY FourQueues, FibersAssumption DEF AllQueues, PlacesInv
  <2>3. /\ NextOf(p) \in W \cup {None} /\ NextOf(p) # p
        /\ \A h : Before(waitQueue, p, h) =>
               NextOf(p) \in W /\ (h = NextOf(p) \/ Before(waitQueue, NextOf(p), h))
    BY <2>1, <2>2, NextOfQueue DEF W, PlacesInv
  <2> QED
    BY <2>1, <2>2, <2>3
<1>4. WalkOK'
  BY <1>1, <1>3 DEF WalkOK, args
<1> QED
  BY <1>1, <1>2, <1>4 DEF Heard

\* ... and goes on behind the one it wakes ...
LEMMA WalkWakeHeard ==
  ASSUME PlacesInv, Heard, WalkWake
  PROVE  Heard'
<1>1. /\ UNCHANGED <<args, listening, overtaken, context, only>>
      /\ pc = "wake" /\ pc' = "walk" /\ p' = t /\ done' = only
  BY DEF WalkWake, history
<1>2. /\ W' = W \ {p}
      /\ \A g, h \in W' : Before(waitQueue', g, h) <=> Before(waitQueue, g, h)
  BY WalkWakePlaces
<1>3. WaitersAreHeard'
  BY <1>1, <1>2 DEF Heard, WaitersAreHeard, W, args
<1>4. ASSUME ~overtaken, ev # Notify
      PROVE  /\ ~only
             /\ t # None => t \in W'
             /\ \A g \in W' : context[g] = ev =>
                    t # None /\ (g = t \/ Before(waitQueue', t, g))
  BY <1>1, <1>2, <1>4 DEF Heard, WalkOK
<1>5. WalkOK'
  BY <1>1, <1>4 DEF WalkOK, args
<1> QED
  BY <1>1, <1>3, <1>5 DEF Heard

\* ... so that none is left when the event is unregistered.
LEMMA WalkEndHeard ==
  ASSUME PlacesInv, Heard, WalkEnd
  PROVE  Heard'
<1>1. /\ UNCHANGED <<waitQueue, overtaken, context>> /\ W' = W
      /\ pc = "walk" /\ p = None /\ pc' = "user"
      /\ listening' = IF ev = Notify THEN listening ELSE listening \ {ev}
  BY DEF WalkEnd, history, queues, W
<1>2. ~overtaken /\ ev # Notify => \A g \in W : context[g] # ev
  BY <1>1 DEF Heard, WalkOK
<1>3. WaitersAreHeard'
  BY <1>1, <1>2 DEF Heard, WaitersAreHeard, W
<1>4. WalkOK'
  BY <1>1 DEF WalkOK
<1> QED
  BY <1>1, <1>3, <1>4 DEF Heard

LEMMA InitHeard == Init => Heard
<1>1. Init => ToSet(waitQueue) = {} /\ pc = "user"
  BY ShortQueues DEF Init
<1> QED
  BY <1>1 DEF Heard, WalkOK, WaitersAreHeard

LEMMA NextHeard ==
  ASSUME PlacesInv, Heard, [Next]_vars
  PROVE  Heard'
<1>1. CASE Advance \/ Tick \/ UNCHANGED vars \/ create_fiber
  <2>1. UNCHANGED <<waitQueue, listening, overtaken, pc, args, walk, context>>
    BY <1>1 DEF Advance, Tick, vars, create_fiber, queues, history
  <2> QED
    BY <2>1, QuietHeard
<1>2. CASE TimerRead \/ TimerLoad \/ TimerStore \/ TimerReset \/ SleepEnqueue
  <2>1. /\ UNCHANGED <<waitQueue, listening, overtaken, context>>
        /\ pc \in SleepSteps /\ pc' \in SleepSteps \cup {"schedule", "more"}
    BY <1>2 DEF TimerRead, TimerLoad, TimerStore, TimerReset, SleepEnqueue, Forked, queues,
       history, SleepSteps
  <2> QED
    BY <2>1, QuietHeard DEF SleepSteps
<1>3. CASE SleepDequeue
  <2>1. /\ UNCHANGED <<waitQueue, listening, overtaken>>
        /\ pc = "dequeue" /\ pc' = "enqueue" /\ context' = [context EXCEPT ![f] = WakeUp % Wrap]
    BY <1>3 DEF SleepDequeue, history
  <2>2. f \notin W /\ W \subseteq Fibers /\ context \in [Fibers -> {None} \cup Events \cup Nat]
    <3>1. f \in R \/ f \in InHand
      BY <2>1 DEF PlacesInv, InCall, InHand, SleepSteps
    <3> QED
      BY <3>1, FourQueues DEF PlacesInv, Places, TypeOK
  <2>3. \A g \in W : context'[g] = context[g]
    BY <2>1, <2>2
  <2> QED
    BY <2>1, <2>3, QuietHeard
<1>4. CASE schedule \/ invoke \/ Yield \/ HandlerReturns \/ release_fiber
  <2>1. /\ UNCHANGED <<waitQueue, listening, overtaken, context>>
        /\ pc \in {"user", "schedule", "more"} /\ pc' \in {"user", "schedule", "more", "wait"}
    BY <1>4 DEF schedule, invoke, Yield, HandlerReturns, release_fiber, Running, queues, history
  <2> QED
    BY <2>1, QuietHeard
<1>5. CASE \/ \E ms \in Sleeps : fiber_sleep(ms)
           \/ \E e \in Events : fiber_wait_for_event(e) \/ WaitForked(e)
  <2>1. /\ UNCHANGED <<waitQueue, listening, overtaken, context>>
        /\ pc = "user" /\ pc' \in {"read", "wait", "more"}
    BY <1>5 DEF fiber_sleep, fiber_wait_for_event, WaitForked, Forked, Running, queues, history
  <2> QED
    BY <2>1, QuietHeard
<1>6. CASE WaitDequeue \/ WaitEnqueue \/ Listen
  BY <1>6, WaitHeard
<1>7. CASE WalkLook \/ WalkWake \/ WalkEnd
  BY <1>7, WalkLookHeard, WalkWakeHeard, WalkEndHeard
<1>8. CASE \E e \in Events, one \in BOOLEAN : RaiseInFiber(e, one) \/ Raise(e, one)
  BY <1>8, RaiseInFiberHeard, RaiseHeard
<1> QED
  BY <1>1, <1>2, <1>3, <1>4, <1>5, <1>6, <1>7, <1>8 DEF Next, Step, Call, Interrupt

\* scheduler_event does not unregister an event while a fiber waits for it: as long as no
\* interrupt moves the fiber that a walk goes on from, a walk passes over nobody, and a fiber
\* that comes into the wait queue during it registers the event again.
THEOREM WaitersHear == Spec => []WaitersAreHeard
<1>1. Init => PlacesInv /\ Heard
  BY InitPlaces, InitHeard
<1>2. PlacesInv /\ Heard /\ [Next]_vars => (PlacesInv /\ Heard)'
  BY NextPlaces, NextHeard
<1>3. Heard => WaitersAreHeard
  BY DEF Heard
<1> QED
  BY <1>1, <1>2, <1>3, PTL DEF Spec

-----------------------------------------------------------------------------
(* Who sleeps sleeps its time.                                             *)

\* The time that the clock and the timer show together, but not twice what update_time has
\* added and not yet taken from the timer.
Reading == IF pc = "reset" /\ rd > 0 THEN time_us ELSE time_us + timer

\* Who sleeps, or has its wake-up time and is about to.
Asleep == S \cup (IF pc = "enqueue" THEN {f} ELSE {})

\* The clock and the timer never show more than the time.
TimerInv ==
    /\ Reading <= real
    /\ pc = "load" => rd <= timer
    /\ pc = "store" => ld <= time_us /\ ld + rd <= time_us + timer

\* A call's sleep is over no later than its milliseconds from now.
CallInv ==
    /\ pc \in {"read", "load", "store", "reset"} => due[f] <= real + Units(len)
    /\ pc = "dequeue" => due[f] + timer <= real + Units(len)

\* A sleep that is not over by the time is not over by the clock and the timer, but for what
\* its wake-up time lost as it was put into milliseconds; one that does not fit into context
\* says nothing.
OnTime(g) == due[g] + Reading <= Units(context[g]) + (PerMs - 1) + real
SleepersInv ==
    \A g \in Asleep : context[g] \in Nat /\ (skewed \/ g \in folded \/ OnTime(g))

ClockInv == SleepersInv /\ (~skewed => TimerInv /\ CallInv)

\* What the arithmetic needs to know.
LEMMA ClockTypes ==
  ASSUME PlacesInv
  PROVE  /\ PerMs \in Nat /\ PerMs > 0 /\ len \in Nat /\ Units(len) \in Nat
         /\ time_us \in Nat /\ timer \in Nat /\ rd \in Nat /\ ld \in Nat /\ real \in Nat
         /\ \A g \in Fibers : due[g] \in Nat
         /\ S \subseteq Fibers /\ Asleep \subseteq Fibers /\ Reading \in Nat
         /\ pc \in SleepSteps => f \in Fibers \ S
<1>1. /\ time_us \in Nat /\ timer \in Nat /\ rd \in Nat /\ ld \in Nat /\ real \in Nat
      /\ len \in Nat /\ \A g \in Fibers : due[g] \in Nat
  BY BoundsAssumption, SleepsAreNumbers DEF PlacesInv, TypeOK
<1>2. Reading \in Nat
  BY <1>1 DEF Reading
<1>3. ASSUME pc \in SleepSteps PROVE f \in Fibers \ S
  <2>1. f \in Fibers /\ (f \in R \/ f \in InHand)
    BY <1>3 DEF PlacesInv, InCall, InHand, SleepSteps
  <2> QED
    BY <2>1 DEF PlacesInv, Places
<1>4. S \subseteq Fibers
  BY FourQueues DEF PlacesInv
<1>5. Asleep \subseteq Fibers
  BY <1>3, <1>4 DEF Asleep, SleepSteps
<1> QED
  BY <1>1, <1>2, <1>3, <1>4, <1>5, SleepsAreNumbers, UnitsOfTime

\* Sleepers stay on time when the clock goes no further than the time does.
LEMMA SleepersKept ==
  ASSUME PlacesInv, ClockInv, Asleep' \subseteq Asleep,
         \A g \in Asleep' : /\ context'[g] = context[g] /\ due'[g] = due[g]
                            /\ g \in folded => g \in folded',
         skewed => skewed', Reading' \in Nat, real' \in Nat,
         ~skewed' => Reading' + real <= Reading + real'
  PROVE  SleepersInv'
<1> SUFFICES ASSUME NEW g \in Asleep'
             PROVE  context'[g] \in Nat /\ (skewed' \/ g \in folded' \/ OnTime(g)')
  BY DEF SleepersInv
<1>1. /\ g \in Fibers /\ context[g] \in Nat /\ due[g] \in Nat /\ Reading \in Nat /\ real \in Nat
      /\ PerMs \in Nat /\ PerMs > 0
  BY ClockTypes DEF ClockInv, SleepersInv
<1>2. Units(context[g]) \in Nat
  BY <1>1, UnitsOfTime
<1>3. ASSUME ~skewed', g \notin folded' PROVE OnTime(g)'
  <2>1. OnTime(g) /\ Reading' + real <= Reading + real'
    BY <1>3 DEF ClockInv, SleepersInv
  <2>2. PICK rn \in Nat, tn \in Nat : rn = Reading' /\ tn = real'
    OBVIOUS
  <2>3. rn + real <= Reading + tn
    BY <2>1, <2>2
  <2>4. due[g] + rn <= Units(context[g]) + (PerMs - 1) + tn
    BY <1>1, <1>2, <2>1, <2>3 DEF OnTime
  <2> QED
    BY <2>2, <2>4 DEF OnTime
<1> QED
  BY <1>1, <1>3

\* A step that leaves the clock, the sleepers and the sleeping call alone.
LEMMA QuietClock ==
  ASSUME PlacesInv, ClockInv, UNCHANGED <<sleepQueue, clock, real, due, folded, skewed>>,
         \A g \in S : context'[g] = context[g],
         \/ pc' = pc /\ UNCHANGED <<args, reading, context>>
         \/ pc \notin SleepSteps /\ pc' \notin SleepSteps
  PROVE  ClockInv'
<1>1. /\ Asleep' = Asleep /\ \A g \in Asleep : context'[g] = context[g]
      /\ UNCHANGED <<time_us, timer, real, due, folded, skewed>>
  BY DEF S, Asleep, args, SleepSteps, clock
<1>2. Reading' = Reading
  BY DEF Reading, clock, reading, SleepSteps
<1>3. SleepersInv'
  BY <1>1, <1>2, SleepersKept, ClockTypes
<1>4. ~skewed' => TimerInv' /\ CallInv'
  <2>1. CASE pc' = pc /\ UNCHANGED <<args, reading, context>>
    BY <1>1, <1>2, <2>1 DEF ClockInv, TimerInv, CallInv, reading, args
  <2>2. CASE pc \notin SleepSteps /\ pc' \notin SleepSteps
    BY <1>1, <1>2, <2>2 DEF ClockInv, TimerInv, CallInv, SleepSteps
  <2> QED
    BY <2>1, <2>2
<1> QED
  BY <1>3, <1>4 DEF ClockInv

\* Time goes on for the timer too.
LEMMA AdvanceClock ==
  ASSUME PlacesInv, ClockInv, Advance
  PROVE  ClockInv'
<1>1. /\ UNCHANGED <<pc, f, len, context, time_us, rd, ld, due, folded, skewed>>
      /\ real' = real + 1 /\ timer' = timer + 1 /\ Asleep' = Asleep
  BY DEF Advance, queues, reading, history, args, S, Asleep
<1>2. /\ time_us \in Nat /\ timer \in Nat /\ rd \in Nat /\ ld \in Nat /\ real \in Nat
      /\ Units(len) \in Nat /\ Reading \in Nat
      /\ pc \in {"read", "load", "store", "reset", "dequeue"} => due[f] \in Nat
  BY ClockTypes DEF SleepSteps
<1>3. Reading' \in Nat /\ Reading' <= Reading + 1
  BY <1>1, <1>2 DEF Reading
<1>4. SleepersInv'
  <2>1. Reading' + real <= Reading + real' /\ real' \in Nat
    <3>1. PICK rn \in Nat, tn \in Nat : rn = Reading' /\ tn = real'
      BY <1>1, <1>2, <1>3
    <3>2. rn <= Reading + 1 /\ tn = real + 1
      BY <1>1, <1>3, <3>1
    <3>3. PICK rd0 \in Nat : rd0 = Reading
      BY <1>2
    <3>4. rn + real <= rd0 + tn
      BY <1>2, <3>2, <3>3
    <3> QED
      BY <3>1, <3>3, <3>4
  <2> QED
    BY <1>1, <1>3, <2>1, SleepersKept
<1>5. ASSUME ~skewed' PROVE TimerInv' /\ CallInv'
  <2>1. TimerInv /\ CallInv
    BY <1>1, <1>5 DEF ClockInv
  <2>2. TimerInv'
    BY <1>1, <1>2, <1>3, <2>1 DEF TimerInv
  <2>3. CallInv'
    BY <1>1, <1>2, <2>1 DEF CallInv
  <2> QED
    BY <2>2, <2>3
<1> QED
  BY <1>4, <1>5 DEF ClockInv

\* The tick brings the clock up to date; what it wakes is over, or less than a millisecond from it.
LEMMA TickClock ==
  ASSUME PlacesInv, ClockInv, Tick
  PROVE  /\ ClockInv'
         /\ ~skewed' => \A g \in Woken : g \in folded \/ due[g] <= real + (PerMs - 1)
<1>1. /\ UNCHANGED <<pc, f, len, context, rd, ld, real>>
      /\ time_us' = time_us + timer /\ timer' = 0
      /\ due' = [g \in Fibers |-> IF g \in Woken THEN 0 ELSE due[g]]
      /\ folded' = folded \ Woken
      /\ ~skewed' => ~skewed /\ ~(pc \in {"load", "reset"} /\ rd > 0)
      /\ skewed => skewed'
  BY DEF Tick, reading, args
<1>2. /\ time_us \in Nat /\ timer \in Nat /\ rd \in Nat /\ ld \in Nat /\ real \in Nat
      /\ PerMs \in Nat /\ PerMs > 0 /\ Units(len) \in Nat
      /\ \A g \in Fibers : due[g] \in Nat
      /\ S \subseteq Fibers /\ Asleep \subseteq Fibers /\ Reading \in Nat
      /\ (pc \in SleepSteps => f \in Fibers \ S)
  BY ClockTypes
<1>3. S' = S \ Woken /\ Woken = {g \in S : context[g] <= Milliseconds(time_us')}
  BY TickPlaces DEF Woken, Over, S
<1> HIDE DEF Woken
<1>4. /\ Asleep' \subseteq Asleep \ Woken
      /\ \A g \in Asleep' : due'[g] = due[g] /\ (g \in folded => g \in folded')
      /\ pc \in SleepSteps => due'[f] = due[f]
  <2>1. Asleep' \subseteq Asleep \ Woken
    BY <1>1, <1>2, <1>3 DEF Asleep, SleepSteps
  <2> QED
    BY <1>1, <1>2, <1>3, <2>1
<1>5. time_us' \in Nat /\ timer' \in Nat /\ Reading' \in Nat
  BY <1>1, <1>2 DEF Reading
<1>6. ~skewed' => Reading = time_us + timer /\ Reading' = Reading
  BY <1>1, <1>2 DEF Reading
<1>7. SleepersInv'
  <2>1. ~skewed' => Reading' + real <= Reading + real'
    BY <1>1, <1>2, <1>6
  <2> QED
    BY <1>1, <1>2, <1>4, <1>5, <2>1, SleepersKept
<1>8. ASSUME ~skewed' PROVE TimerInv' /\ CallInv'
  <2>1. TimerInv /\ CallInv
    BY <1>1, <1>8 DEF ClockInv
  <2>2. TimerInv'
    <3>1. Reading' <= real'
      BY <1>1, <1>6, <1>8, <2>1 DEF TimerInv
    <3>2. pc' = "load" => rd' <= timer'
      BY <1>1, <1>2, <1>8
    <3>3. pc' = "store" => ld' <= time_us' /\ ld' + rd' <= time_us' + timer'
      BY <1>1, <1>2, <2>1 DEF TimerInv
    <3> QED
      BY <3>1, <3>2, <3>3 DEF TimerInv
  <2>3. CallInv'
    <3>1. pc \in {"read", "load", "store", "reset", "dequeue"} => due'[f] = due[f] /\ due[f] \in Nat
      BY <1>2, <1>4 DEF SleepSteps
    <3> QED
      BY <1>1, <1>2, <2>1, <3>1 DEF CallInv
  <2> QED
    BY <2>2, <2>3
<1>9. ASSUME ~skewed', NEW g \in Woken, g \notin folded
      PROVE  due[g] <= real + (PerMs - 1)
  <2>1. g \in Asleep /\ due[g] \in Nat
    BY <1>2, <1>3 DEF Asleep
  <2>2. context[g] \in Nat /\ OnTime(g)
    BY <1>1, <1>9, <2>1 DEF ClockInv, SleepersInv
  <2>3. Units(context[g]) \in Nat /\ Units(context[g]) <= time_us + timer
    <3>1. PICK u \in Nat : u = time_us + timer /\ u = time_us'
      BY <1>1, <1>2
    <3>2. context[g] <= Milliseconds(u)
      BY <1>3, <3>1
    <3>3. Milliseconds(u) \in Nat /\ Units(Milliseconds(u)) \in Nat /\ Units(Milliseconds(u)) <= u
      BY UnitsOfTime
    <3>4. Units(context[g]) \in Nat /\ Units(context[g]) <= Units(Milliseconds(u))
      BY <2>2, <3>2, <3>3, UnitsOfTime
    <3> QED
      BY <3>1, <3>3, <3>4
  <2> QED
    BY <1>2, <1>6, <1>9, <2>1, <2>2, <2>3 DEF OnTime
<1> QED
  BY <1>7, <1>8, <1>9 DEF ClockInv

\* A call that sleeps begins with what is due.
LEMMA SleepClock ==
  ASSUME PlacesInv, ClockInv, NEW ms \in Sleeps, fiber_sleep(ms)
  PROVE  ClockInv'
<1>1. /\ UNCHANGED <<sleepQueue, context, time_us, timer, real, folded, skewed>>
      /\ pc = "user" /\ pc' = "read" /\ len' = ms /\ S' = S /\ Asleep' = S /\ Asleep = S
      /\ due' = [due EXCEPT ![f'] = real + Units(ms)]
  BY DEF fiber_sleep, Running, clock, S, Asleep, Units
<1>2. f' \in Fibers \ S
  <2>1. f' \in Fibers /\ (f' \in R' \/ f' \in InHand')
    BY <1>1, SleepPlaces DEF PlacesInv, InCall, InHand, SleepSteps
  <2> QED
    BY <1>1, <2>1, SleepPlaces DEF PlacesInv, Places
<1>3. /\ real \in Nat /\ Units(ms) \in Nat /\ due \in [Fibers -> Nat] /\ S \subseteq Fibers
      /\ Reading \in Nat
  BY ClockTypes, SleepsAreNumbers, UnitsOfTime DEF PlacesInv, TypeOK
<1>4. due'[f'] = real + Units(ms) /\ \A g \in S : due'[g] = due[g]
  BY <1>1, <1>2, <1>3
<1>5. Reading' = Reading
  BY <1>1 DEF Reading
<1>6. SleepersInv'
  BY <1>1, <1>3, <1>4, <1>5, SleepersKept
<1>7. due'[f'] <= real' + Units(len')
  BY <1>1, <1>3, <1>4
<1>8. ~skewed' => TimerInv' /\ CallInv'
  <2>1. CallInv'
    BY <1>1, <1>7 DEF CallInv
  <2> QED
    BY <1>1, <1>5, <2>1 DEF ClockInv, TimerInv
<1> QED
  BY <1>6, <1>8 DEF ClockInv

\* update_time() does not move the clock and the timer together ahead of what they showed.
LEMMA UpdateClock ==
  ASSUME PlacesInv, ClockInv, TimerRead \/ TimerLoad \/ TimerStore \/ TimerReset
  PROVE  ClockInv'
<1>1. /\ UNCHANGED <<f, len, context, real, due, folded, skewed>> /\ S' = S
      /\ pc \in {"read", "load", "store", "reset"}
      /\ pc' \in {"load", "store", "reset", "dequeue"}
      /\ pc' = "load" => rd' = timer /\ timer' = timer
      /\ pc' = "store" => /\ pc = "load" /\ ld' = time_us /\ rd' = rd
                          /\ timer' = timer /\ time_us' = time_us
      /\ pc' = "dequeue" => timer' = 0
  BY DEF TimerRead, TimerLoad, TimerStore, TimerReset, queues, history, args, clock, S
<1>2. /\ time_us \in Nat /\ timer \in Nat /\ rd \in Nat /\ ld \in Nat /\ real \in Nat
      /\ Units(len) \in Nat /\ Reading \in Nat /\ due[f] \in Nat
  BY <1>1, ClockTypes DEF SleepSteps
<1>3. Reading' \in Nat
  BY <1>2, NextPlaces, ClockPlaces DEF Reading, TimerRead, TimerLoad, TimerStore, TimerReset, clock,
     reading
<1>4. ASSUME ~skewed PROVE Reading' <= Reading
  <2>1. CASE TimerRead \/ TimerLoad
    BY <1>2, <2>1 DEF TimerRead, TimerLoad, Reading, clock
  <2>2. CASE TimerStore
    <3>1. /\ pc = "store" /\ pc' = "reset" /\ time_us' = ld + rd /\ timer' = timer /\ rd' = rd
          /\ ld <= time_us /\ ld + rd <= time_us + timer
      BY <1>4, <2>2 DEF TimerStore, ClockInv, TimerInv
    <3> QED
      BY <1>2, <3>1 DEF Reading
  <2>3. CASE TimerReset
    BY <1>2, <2>3 DEF TimerReset, Reading
  <2> QED
    BY <2>1, <2>2, <2>3
<1>5. SleepersInv'
  <2>1. Asleep' = S /\ Asleep = S
    BY <1>1 DEF Asleep
  <2>2. ~skewed' => Reading' + real <= Reading + real'
    <3>1. PICK rn \in Nat : rn = Reading'
      BY <1>3
    <3>2. ~skewed => rn <= Reading
      BY <1>4, <3>1
    <3>3. ASSUME ~skewed PROVE rn + real <= Reading + real
      <4>1. PICK rd0 \in Nat : rd0 = Reading
        BY <1>2
      <4>2. rn + real <= rd0 + real
        BY <1>2, <3>2, <3>3, <4>1
      <4> QED
        BY <4>1, <4>2
    <3> QED
      BY <1>1, <3>1, <3>3
  <2> QED
    BY <1>1, <1>2, <1>3, <2>1, <2>2, SleepersKept
<1>6. ASSUME ~skewed' PROVE TimerInv' /\ CallInv'
  <2>1. TimerInv /\ CallInv /\ ~skewed
    BY <1>1, <1>6 DEF ClockInv
  <2>2. TimerInv'
    <3>1. Reading' <= real'
      BY <1>1, <1>2, <1>3, <1>4, <2>1 DEF TimerInv
    <3>2. pc' = "store" => ld' <= time_us' /\ ld' + rd' <= time_us' + timer'
      BY <1>1, <1>2, <2>1 DEF TimerInv
    <3> QED
      BY <1>1, <1>2, <3>1, <3>2 DEF TimerInv
  <2>3. CallInv'
    BY <1>1, <1>2, <2>1 DEF CallInv
  <2> QED
    BY <2>2, <2>3
<1> QED
  BY <1>5, <1>6 DEF ClockInv

\* The sleep is measured by the clock from the moment the fiber leaves the run queue.
LEMMA SleepDequeueClock ==
  ASSUME PlacesInv, ClockInv, SleepDequeue
  PROVE  ClockInv'
<1>1. /\ UNCHANGED <<f, time_us, timer, rd, real, due, skewed>> /\ S' = S
      /\ pc = "dequeue" /\ pc' = "enqueue" /\ Asleep = S /\ Asleep' = S \cup {f}
      /\ context' = [context EXCEPT ![f] = WakeUp % Wrap]
      /\ folded' = IF WakeUp < Wrap THEN folded \ {f} ELSE folded \cup {f}
  BY SleepDequeuePlaces DEF SleepDequeue, clock, reading, Asleep
<1>2. /\ time_us \in Nat /\ timer \in Nat /\ real \in Nat /\ len \in Nat /\ Units(len) \in Nat
      /\ PerMs \in Nat /\ PerMs > 0
      /\ S \subseteq Fibers /\ f \in Fibers \ S /\ due[f] \in Nat
  BY <1>1, ClockTypes DEF SleepSteps
<1>3. /\ context'[f] = WakeUp % Wrap /\ context'[f] \in Nat
      /\ \A g \in S : context'[g] = context[g]
  <2>1. context \in [Fibers -> {None} \cup Events \cup Nat]
    BY DEF PlacesInv, TypeOK
  <2> QED
    BY <1>1, <1>2, <2>1, WakeUpNumber DEF PlacesInv
<1>4. Reading' = Reading /\ Reading = time_us + timer
  BY <1>1 DEF Reading
<1>5. ASSUME NEW g \in S
      PROVE  context'[g] \in Nat /\ (skewed' \/ g \in folded' \/ OnTime(g)')
  <2>1. context[g] \in Nat /\ (skewed \/ g \in folded \/ OnTime(g))
    BY <1>1, <1>5 DEF ClockInv, SleepersInv
  <2>2. OnTime(g) => OnTime(g)'
    BY <1>1, <1>3, <1>4, <1>5 DEF OnTime
  <2>3. g \in folded => g \in folded'
    BY <1>1, <1>2, <1>5
  <2> QED
    BY <1>1, <1>3, <1>5, <2>1, <2>2, <2>3
<1>6. ASSUME ~skewed, f \notin folded'
      PROVE  due[f] + Reading <= Units(context'[f]) + (PerMs - 1) + real
  <2>1. due[f] + timer <= real + Units(len)
    BY <1>1, <1>6 DEF ClockInv, CallInv
  <2>2. context'[f] = Milliseconds(time_us) + len
    BY <1>1, <1>3, <1>6, WakeUpNumber DEF WakeUp, PlacesInv
  <2>3. /\ Units(Milliseconds(time_us)) \in Nat
        /\ Units(context'[f]) = Units(Milliseconds(time_us)) + Units(len)
        /\ time_us <= Units(Milliseconds(time_us)) + (PerMs - 1)
    BY <1>2, <2>2, UnitsOfTime
  <2> QED
    BY <1>2, <1>4, <2>1, <2>3
<1>7. SleepersInv'
  <2>1. ASSUME NEW g \in Asleep', g = f
        PROVE  context'[g] \in Nat /\ (skewed' \/ g \in folded' \/ OnTime(g)')
    BY <1>1, <1>3, <1>4, <1>6, <2>1 DEF OnTime
  <2> QED
    BY <1>1, <1>5, <2>1 DEF SleepersInv
<1> QED
  BY <1>1, <1>4, <1>7 DEF ClockInv, TimerInv, CallInv

LEMMA SleepEnqueueClock ==
  ASSUME PlacesInv, ClockInv, SleepEnqueue
  PROVE  ClockInv'
<1>1. /\ UNCHANGED <<context, time_us, timer, rd, real, due, folded, skewed>>
      /\ pc = "enqueue" /\ pc' \in {"schedule", "more"} /\ Asleep' = Asleep
  BY SleepEnqueuePlaces DEF SleepEnqueue, Forked, clock, reading, history, Asleep
<1>2. Reading' = Reading
  BY <1>1 DEF Reading
<1>3. SleepersInv'
  BY <1>1, <1>2, SleepersKept, ClockTypes
<1> QED
  BY <1>1, <1>2, <1>3 DEF ClockInv, TimerInv, CallInv

LEMMA InitClock == Init => ClockInv
<1> SUFFICES ASSUME Init PROVE ClockInv
  OBVIOUS
<1>1. Asleep = {} /\ pc = "user" /\ time_us = 0 /\ timer = 0 /\ real = 0
  BY ShortQueues DEF Init, S, Asleep
<1>2. Reading = 0
  BY <1>1 DEF Reading
<1> QED
  BY <1>1, <1>2 DEF ClockInv, SleepersInv, TimerInv, CallInv

\* All steps but the tick, which takes sleepers from their queue.
LEMMA NextClock ==
  ASSUME PlacesInv, ClockInv, [Next]_vars
  PROVE  ClockInv' /\ (S \subseteq S' \/ Tick)
<1>1. CASE Advance
  BY <1>1, AdvanceClock DEF Advance, queues, S
<1>2. CASE Tick
  BY <1>2, TickClock
<1>3. CASE \E e \in Events, one \in BOOLEAN : Raise(e, one)
  <2>1. UNCHANGED <<sleepQueue, clock, real, due, folded, skewed, pc, args, reading, context>>
    BY <1>3 DEF Raise
  <2> QED
    BY <2>1, QuietClock DEF S
<1>4. CASE \E ms \in Sleeps : fiber_sleep(ms)
  BY <1>4, SleepClock DEF fiber_sleep, S
<1>5. CASE TimerRead \/ TimerLoad \/ TimerStore \/ TimerReset
  <2>1. S' = S
    BY <1>5 DEF TimerRead, TimerLoad, TimerStore, TimerReset, queues, S
  <2> QED
    BY <1>5, <2>1, UpdateClock
<1>6. CASE SleepDequeue \/ SleepEnqueue
  BY <1>6, SleepDequeueClock, SleepDequeuePlaces, SleepEnqueueClock, SleepEnqueuePlaces
<1>7. CASE WaitDequeue
  <2>1. /\ UNCHANGED <<sleepQueue, clock, real, due, folded, skewed>>
        /\ pc = "wait" /\ pc' = "waitEnqueue" /\ f \in R
        /\ context' = [context EXCEPT ![f] = ev]
    BY <1>7 DEF WaitDequeue, PlacesInv, InCall, WaitSteps, history
  <2>2. \A g \in S : context'[g] = context[g]
    BY <2>1, FourQueues DEF PlacesInv, Places, TypeOK
  <2> QED
    BY <2>1, <2>2, QuietClock DEF SleepSteps, S
<1>8. CASE \/ WaitEnqueue \/ Listen \/ schedule \/ WalkLook \/ WalkWake \/ WalkEnd
           \/ Yield \/ HandlerReturns \/ invoke \/ create_fiber \/ release_fiber
  <2>1. /\ UNCHANGED <<sleepQueue, clock, real, due, folded, skewed, context>>
        /\ pc \notin SleepSteps /\ pc' \notin SleepSteps
    BY <1>8 DEF WaitEnqueue, Listen, schedule, WalkLook, WalkWake, WalkEnd, Yield, HandlerReturns,
       invoke, create_fiber, release_fiber, Running, queues, history, SleepSteps
  <2> QED
    BY <2>1, QuietClock DEF S
<1>9. CASE \E e \in Events : \/ fiber_wait_for_event(e) \/ WaitForked(e)
                             \/ \E one \in BOOLEAN : RaiseInFiber(e, one)
  <2>1. /\ UNCHANGED <<sleepQueue, clock, real, due, folded, skewed, context>>
        /\ pc \notin SleepSteps /\ pc' \notin SleepSteps
    BY <1>9 DEF fiber_wait_for_event, WaitForked, RaiseInFiber, Forked, Running, queues, history,
       SleepSteps
  <2> QED
    BY <2>1, QuietClock DEF S
<1>10. CASE UNCHANGED vars
  <2>1. UNCHANGED <<sleepQueue, clock, real, due, folded, skewed, pc, args, reading, context>>
    BY <1>10 DEF vars, queues, history
  <2> QED
    BY <2>1, QuietClock DEF S
<1> QED
  BY <1>1, <1>2, <1>3, <1>4, <1>5, <1>6, <1>7, <1>8, <1>9, <1>10 DEF Next, Step, Call, Interrupt

\* A fiber that sleeps becomes runnable at most one count of the timer less than a millisecond
\* before its sleep is over, however often fibers and ticks bring the clock up to date and
\* wherever an interrupt cuts update_time: unless a tick comes between its sum and its reset of
\* the timer, or the time to wake up does not fit into the 32 bits of context.
THEOREM SleepersSleep == Spec => SleepsItsTime
<1>1. Init => PlacesInv /\ ClockInv
  BY InitPlaces, InitClock
<1>2. PlacesInv /\ ClockInv /\ [Next]_vars => (PlacesInv /\ ClockInv)'
  BY NextPlaces, NextClock
<1>3. ASSUME PlacesInv, ClockInv, [Next]_vars
      PROVE  \A g \in ToSet(sleepQueue) :
                 g \in ToSet(runQueue') =>
                     skewed' \/ g \in folded \/ due[g] <= real + (PerMs - 1)
  <2> SUFFICES ASSUME NEW g \in S, g \in R', ~skewed'
               PROVE  g \in folded \/ due[g] <= real + (PerMs - 1)
    BY DEF S, R
  <2>1. g \notin S'
    BY <1>3, NextPlaces DEF PlacesInv, Places
  <2>2. Tick
    BY <1>3, <2>1, NextClock
  <2>3. g \in Woken
    BY <1>3, <2>1, <2>2, TickPlaces
  <2> QED
    BY <1>3, <2>2, <2>3, TickClock
<1>4. PlacesInv /\ ClockInv /\ [Next]_vars =>
          [\A g \in ToSet(sleepQueue) :
               g \in ToSet(runQueue') =>
                   skewed' \/ g \in folded \/ due[g] <= real + (PerMs - 1)]_vars
  BY <1>3
<1> QED
  BY <1>1, <1>2, <1>4, PTL DEF Spec, SleepsItsTime
=============================================================================
