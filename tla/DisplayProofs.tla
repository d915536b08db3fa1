------------------------- MODULE DisplayProofs -------------------------
(***************************************************************************)
(* The handlers of the link, for any depth of the queues and any number of *)
(* events, and the display, for any callers, pictures and width.  The      *)
(* queues agree with what the fibers do, and the handlers end in the order *)
(* of the events as long as no queue overflows and no end of an animation  *)
(* is missed; an animation that another fiber has begun is awaited.        *)
(***************************************************************************)
EXTENDS MCDisplay, QueueProofs, FiniteSetTheorems

-----------------------------------------------------------------------------
(* Queues.                                                                 *)

\* A queue of two.
LEMMA PairQueue ==
  ASSUME NEW A, NEW a \in A, NEW b \in A, a # b
  PROVE  /\ <<a, b>> \in Queue(A) /\ ToSet(<<a, b>>) = {a, b}
         /\ ToSet(Tail(<<a, b>>)) = {b}
<1>1. /\ <<a, b>> \in Seq(A) /\ Len(<<a, b>>) = 2 /\ DOMAIN <<a, b>> = 1 .. 2
      /\ <<a, b>>[1] = a /\ <<a, b>>[2] = b
  OBVIOUS
<1>2. ToSet(<<a, b>>) = {a, b}
  BY <1>1 DEF ToSet
<1>3. IsInjective(<<a, b>>)
  BY <1>1 DEF IsInjective
<1>4. Tail(<<a, b>>) = <<b>>
  OBVIOUS
<1>5. ToSet(<<b>>) = {b}
  BY ShortQueues
<1> QED
  BY <1>1, <1>2, <1>3, <1>4, <1>5 DEF Queue

\* schedule() picks a runnable fiber, and the idle one only if there is none.
LEMMA PickedRuns ==
  ASSUME NEW A, NEW q \in Queue(A), NEW f
  PROVE  IF q = <<>> THEN Picked(f, q) = "idle" ELSE Picked(f, q) \in ToSet(q)
<1>1. /\ q \in Seq(A) /\ Len(q) \in Nat /\ DOMAIN q = 1 .. Len(q)
      /\ \A i \in 1 .. Len(q) : q[i] \in ToSet(q)
      /\ q # <<>> => Head(q) \in ToSet(q)
  BY InQueue DEF Queue
<1>2. CASE q # <<>> /\ f \in ToSet(q) /\ Last(q) # f
  <2>1. PICK i \in 1 .. Len(q) : q[i] = f
    BY <1>1, <1>2 DEF ToSet
  <2>2. i # Len(q)
    BY <1>2, <2>1 DEF Last
  <2>3. i + 1 \in 2 .. Len(q) /\ (i + 1) - 1 = i
    <3>1. Len(q) \in Nat
      BY <1>1
    <3> QED
      BY <2>2, <3>1
  <2> DEFINE k == CHOOSE j \in 2 .. Len(q) : q[j - 1] = f
  <2>4. k \in 2 .. Len(q)
    BY <2>1, <2>3
  <2>5. Picked(f, q) = q[k]
    BY <1>2 DEF Picked
  <2> HIDE DEF k
  <2>6. k \in 1 .. Len(q)
    BY <1>1, <2>4
  <2> QED
    BY <1>1, <1>2, <2>5, <2>6
<1>3. CASE ~(q # <<>> /\ f \in ToSet(q) /\ Last(q) # f)
  BY <1>1, <1>3 DEF Picked
<1> QED
  BY <1>2, <1>3

-----------------------------------------------------------------------------
(* The types.                                                              *)

\* Where the fibers are beside what TypeOK says: a listener keeps events only while it is
\* busy, main does not wait for the display, and nobody owns it before main has let go.
InCalls ==
    /\ \A h \in Handlers : queued[h] > 0 => Busy(h)
    /\ \A h \in Handlers : pc[h] \notin {"asleep", "loop"}
    /\ pc["main"] \in {"waitDone", "done", "asleep", "loop"}
    /\ pc["main"] = "waitDone" => \A h \in Handlers : pc[h] \in {"out", "regFree", "waitFree"}

CallsInv == TypeOK /\ InCalls

LEMMA InitCalls == Init => CallsInv
<1> SUFFICES ASSUME Init PROVE CallsInv
  OBVIOUS
<1>1. /\ <<>> \in Queue(Fibers) /\ <<>> \in Queue(Handlers) /\ ToSet(<<>>) = {}
      /\ <<>> \in Seq(Handlers) /\ Len(<<>>) = 0
  BY ShortQueues
<1>2. pc \in [Fibers -> PCs] /\ queued \in [Handlers -> 0 .. Depth]
  BY DepthAssumption DEF Init, PCs, Waiting
<1>3. QueuesAgree
  BY <1>1 DEF Init, QueuesAgree, Waiting, Fibers, Handlers
<1>4. InCalls
  BY DEF Init, InCalls, Fibers, Handlers
<1>5. {link, connected, missed, lost} \subseteq BOOLEAN
  BY Zenon DEF Init
<1>6. raised \in 0 .. MaxEvents /\ evt_queue \in Seq(Handlers) /\ Len(evt_queue) <= Depth
  BY <1>1, DepthAssumption DEF Init
<1> QED
  BY <1>1, <1>2, <1>3, <1>4, <1>5, <1>6 DEF Init, CallsInv, TypeOK, Fibers

LEMMA RaiseCalls ==
  ASSUME CallsInv, NEW h \in Handlers, NEW up \in BOOLEAN, Raise(h, up)
  PROVE  CallsInv'
<1> USE DEF CallsInv, Raise, bus, queues
<1>1. evt_queue' \in Seq(Handlers) /\ Len(evt_queue') <= Depth
  BY DepthAssumption DEF TypeOK
<1>2. QueuesAgree' /\ InCalls'
  BY DEF TypeOK, QueuesAgree, InCalls, Busy
<1>3. lost' \in BOOLEAN /\ raised' \in 0 .. MaxEvents
  BY DepthAssumption DEF TypeOK
<1> QED
  BY <1>1, <1>2, <1>3 DEF TypeOK

LEMMA EndCalls ==
  ASSUME CallsInv, animationUpdate
  PROVE  CallsInv'
<1> DEFINE F == ToSet(freeQueue)
           w == IF freeQueue = <<>> THEN {} ELSE {Head(freeQueue)}
<1> USE DEF CallsInv
<1>1. /\ runQueue \in Queue(Fibers) /\ freeQueue \in Queue(Handlers)
      /\ display \in Fibers /\ pc[display] = "waitDone"
      /\ pc \in [Fibers -> PCs]
  BY DEF TypeOK, QueuesAgree, animationUpdate, Waiting, Recent
<1>2. F \subseteq Handlers /\ (freeQueue # <<>> => Head(freeQueue) \in F) /\ Handlers \subseteq Fibers
  BY <1>1, InQueue DEF Queue, Fibers
<1>3. /\ WokenByEnd \in Queue(Fibers) /\ ToSet(WokenByEnd) = {display} \cup w
      /\ ToSet(Tail(WokenByEnd)) = w
  <2>1. CASE freeQueue = <<>>
    <3>1. <<display>> \in Queue(Fibers) /\ ToSet(<<display>>) = {display}
      BY <1>1, ShortQueues
    <3>2. Tail(<<display>>) = <<>> /\ ToSet(<<>>) = {}
      BY ShortQueues
    <3> QED
      BY <2>1, <3>1, <3>2 DEF WokenByEnd
  <2>2. CASE freeQueue # <<>>
    <3>1. Head(freeQueue) \in Fibers /\ pc[Head(freeQueue)] = "waitFree"
      BY <1>2, <2>2 DEF TypeOK, QueuesAgree
    <3>2. Head(freeQueue) # display
      BY <1>1, <3>1
    <3>3. /\ <<display, Head(freeQueue)>> \in Queue(Fibers)
          /\ ToSet(<<display, Head(freeQueue)>>) = {display, Head(freeQueue)}
          /\ ToSet(Tail(<<display, Head(freeQueue)>>)) = {Head(freeQueue)}
      BY <1>1, <3>1, <3>2, PairQueue
    <3> QED
      BY <2>2, <3>3 DEF WokenByEnd
  <2> QED
    BY <2>1, <2>2
<1>4. \A f \in {display} \cup w : f \in Fibers /\ pc[f] \in Waiting /\ f \notin ToSet(runQueue)
  BY <1>1, <1>2 DEF TypeOK, QueuesAgree, Waiting
<1>5. runQueue' \in Queue(Fibers) /\ ToSet(runQueue') = ToSet(runQueue) \cup {display} \cup w
  <2>1. ToSet(runQueue) \cap ToSet(WokenByEnd) = {}
    BY <1>3, <1>4
  <2> QED
    BY <1>1, <1>3, <2>1, ConcatQueue DEF animationUpdate
<1>6. freeQueue' \in Queue(Handlers) /\ ToSet(freeQueue') = F \ w
  <2>1. display \notin F
    BY <1>1 DEF TypeOK, QueuesAgree
  <2>2. F \cap (F \ ToSet(WokenByEnd)) = F \ w
    BY <1>3, <2>1
  <2> QED
    BY <1>1, <2>2, OnlyInQueue DEF animationUpdate
<1>7. \A f \in Fibers : pc'[f] = IF f = display THEN "done" ELSE IF f \in w THEN "woken" ELSE pc[f]
  BY <1>3 DEF animationUpdate
<1>8. pc' \in [Fibers -> PCs]
  <2>1. pc' = [f \in Fibers |-> pc'[f]]
    BY DEF animationUpdate
  <2>2. \A f \in Fibers : pc'[f] \in PCs
    BY <1>1, <1>7 DEF PCs
  <2> QED
    BY <2>1, <2>2
<1> HIDE DEF w, F
<1>9. w \subseteq F /\ display \notin F /\ \A f \in F : pc[f] = "waitFree"
  BY <1>1, <1>2 DEF TypeOK, QueuesAgree, w, F
<1>10. QueuesAgree'
  <2> SUFFICES ASSUME NEW f \in Fibers
               PROVE  /\ f \in ToSet(runQueue') <=> pc'[f] \notin Waiting
                      /\ f \in ToSet(freeQueue') <=> pc'[f] = "waitFree"
                      /\ display' = f <=> pc'[f] \in {"regDone", "waitDone"}
    BY DEF QueuesAgree
  <2>0. /\ f \in ToSet(runQueue) <=> pc[f] \notin Waiting
        /\ f \in F <=> pc[f] = "waitFree"
        /\ display = f <=> pc[f] \in {"regDone", "waitDone"}
        /\ display' = "none" /\ f # "none"
    BY DEF TypeOK, QueuesAgree, F, animationUpdate, Fibers, Handlers
  <2>1. CASE f = display
    BY <1>5, <1>6, <1>7, <1>9, <2>0, <2>1 DEF Waiting
  <2>2. CASE f \in w
    BY <1>5, <1>6, <1>7, <1>9, <2>0, <2>2 DEF Waiting
  <2>3. CASE f # display /\ f \notin w
    BY <1>5, <1>6, <1>7, <1>9, <2>0, <2>3 DEF Waiting
  <2> QED
    BY <2>1, <2>2, <2>3
<1>11. InCalls'
  BY <1>1, <1>2, <1>7, <1>9 DEF InCalls, Busy, animationUpdate, bus, F, Fibers, Handlers
<1> QED
  BY <1>5, <1>6, <1>8, <1>10, <1>11 DEF TypeOK, animationUpdate, bus

\* A step that moves f to x, on the queues and on the display as well.
Moved(f, x) ==
    /\ pc' = [pc EXCEPT ![f] = x]
    /\ ToSet(runQueue') = IF x \in Waiting THEN ToSet(runQueue) \ {f}
                                           ELSE ToSet(runQueue) \cup {f}
    /\ ToSet(freeQueue') = IF x = "waitFree" THEN ToSet(freeQueue) \cup {f}
                                             ELSE ToSet(freeQueue) \ {f}
    /\ display' = f <=> x \in {"regDone", "waitDone"}
    /\ \A g \in Fibers \ {f} : display' = g <=> display = g

LEMMA MoveAgrees ==
  ASSUME TypeOK, NEW f \in Fibers, NEW x \in PCs, Moved(f, x)
  PROVE  QueuesAgree' /\ pc' \in [Fibers -> PCs]
<1>1. /\ pc \in [Fibers -> PCs] /\ pc' \in [Fibers -> PCs]
      /\ pc'[f] = x /\ \A g \in Fibers \ {f} : pc'[g] = pc[g]
  BY DEF TypeOK, Moved
<1>2. ASSUME NEW g \in Fibers
      PROVE  /\ g \in ToSet(runQueue') <=> pc'[g] \notin Waiting
             /\ g \in ToSet(freeQueue') <=> pc'[g] = "waitFree"
             /\ display' = g <=> pc'[g] \in {"regDone", "waitDone"}
  <2>1. CASE g = f
    BY <1>1, <2>1 DEF Moved
  <2>2. CASE g # f
    BY <1>1, <2>2 DEF TypeOK, QueuesAgree, Moved
  <2> QED
    BY <2>1, <2>2
<1> QED
  BY <1>1, <1>2 DEF QueuesAgree

\* The queues' elements in a state of the types.
LEMMA QueuesTyped ==
  ASSUME TypeOK
  PROVE  /\ runQueue \in Queue(Fibers) /\ freeQueue \in Queue(Handlers)
         /\ ToSet(freeQueue) \subseteq Handlers /\ Handlers \subseteq Fibers
         /\ pc \in [Fibers -> PCs] /\ "none" \notin Fibers /\ "idle" \notin Fibers
         /\ "main" \in Fibers \ Handlers
         /\ \A f \in Fibers : /\ f \in ToSet(runQueue) <=> pc[f] \notin Waiting
                              /\ f \in ToSet(freeQueue) <=> pc[f] = "waitFree"
                              /\ display = f <=> pc[f] \in {"regDone", "waitDone"}
<1>1. runQueue \in Queue(Fibers) /\ freeQueue \in Queue(Handlers) /\ pc \in [Fibers -> PCs]
  BY DEF TypeOK
<1>2. ToSet(freeQueue) \subseteq Handlers
  BY <1>1, InQueue DEF Queue
<1>3. /\ Handlers \subseteq Fibers /\ "none" \notin Fibers /\ "idle" \notin Fibers
      /\ "main" \in Fibers \ Handlers
  BY DEF Fibers, Handlers
<1>4. \A f \in Fibers : /\ f \in ToSet(runQueue) <=> pc[f] \notin Waiting
                        /\ f \in ToSet(freeQueue) <=> pc[f] = "waitFree"
                        /\ display = f <=> pc[f] \in {"regDone", "waitDone"}
  BY DEF TypeOK, QueuesAgree
<1> QED
  BY <1>1, <1>2, <1>3, <1>4

LEMMA MainWakesCalls ==
  ASSUME CallsInv, MainWakes
  PROVE  CallsInv'
<1> USE QueuesTyped DEF CallsInv, MainWakes, bus
<1>1. runQueue' \in Queue(Fibers) /\ ToSet(runQueue') = ToSet(runQueue) \cup {"main"}
  BY AppendQueue DEF Waiting
<1>2. QueuesAgree' /\ pc' \in [Fibers -> PCs]
  <2>1. Moved("main", "loop")
    BY <1>1 DEF Moved, Waiting
  <2> QED
    BY <2>1, MoveAgrees DEF PCs, Waiting
<1>3. InCalls'
  BY DEF InCalls, Busy
<1> QED
  BY <1>1, <1>2, <1>3 DEF TypeOK

LEMMA MainSleepsCalls ==
  ASSUME CallsInv, MainSleeps
  PROVE  CallsInv'
<1> USE QueuesTyped DEF CallsInv, MainSleeps, Running, bus
<1>1. runQueue' \in Queue(Fibers) /\ ToSet(runQueue') = ToSet(runQueue) \ {"main"}
  BY WithoutQueue
<1>2. QueuesAgree' /\ pc' \in [Fibers -> PCs]
  <2>1. Moved("main", "asleep")
    BY <1>1 DEF Moved, Waiting
  <2> QED
    BY <2>1, MoveAgrees DEF PCs, Waiting
<1>3. InCalls'
  BY DEF InCalls, Busy
<1> QED
  BY <1>1, <1>2, <1>3 DEF TypeOK

LEMMA ScheduleCalls ==
  ASSUME CallsInv, Schedule
  PROVE  CallsInv'
<1> USE QueuesTyped DEF CallsInv, Schedule, bus
<1>1. ToSet(runQueue) \subseteq Fibers
  BY InQueue DEF Queue
<1>2. current' \in Fibers \cup {"idle"}
  BY <1>1, PickedRuns
<1>3. QueuesAgree' /\ InCalls'
  BY DEF TypeOK, QueuesAgree, InCalls, Busy
<1> QED
  BY <1>2, <1>3 DEF TypeOK

LEMMA RegisterFreeCalls ==
  ASSUME CallsInv, NEW h \in Handlers, RegisterFree(h)
  PROVE  CallsInv'
<1> USE QueuesTyped DEF CallsInv, RegisterFree, Running, bus
<1>1. runQueue' \in Queue(Fibers) /\ ToSet(runQueue') = ToSet(runQueue) \ {h}
  BY WithoutQueue
<1>2. freeQueue' \in Queue(Handlers) /\ ToSet(freeQueue') = ToSet(freeQueue) \cup {h}
  <2>1. h \notin ToSet(freeQueue)
    OBVIOUS
  <2> QED
    BY <2>1, AppendQueue
<1>3. QueuesAgree' /\ pc' \in [Fibers -> PCs]
  <2>1. Moved(h, "waitFree")
    BY <1>1, <1>2 DEF Moved, Waiting
  <2> QED
    BY <2>1, MoveAgrees DEF PCs, Waiting
<1>4. InCalls'
  BY DEF InCalls, Busy
<1> QED
  BY <1>1, <1>2, <1>3, <1>4 DEF TypeOK

LEMMA RegisterDoneCalls ==
  ASSUME CallsInv, NEW h \in Handlers, RegisterDone(h)
  PROVE  CallsInv'
<1> USE QueuesTyped DEF CallsInv, RegisterDone, Running, bus
<1>1. runQueue' \in Queue(Fibers) /\ ToSet(runQueue') = ToSet(runQueue) \ {h}
  BY WithoutQueue
<1>2. QueuesAgree' /\ pc' \in [Fibers -> PCs]
  <2>1. Moved(h, "waitDone")
    BY <1>1 DEF Moved, Waiting
  <2> QED
    BY <2>1, MoveAgrees DEF PCs, Waiting
<1>3. InCalls'
  BY DEF InCalls, Busy
<1> QED
  BY <1>1, <1>2, <1>3 DEF TypeOK

\* main has let go of a display that is free.
LEMMA FreeDisplay ==
  ASSUME CallsInv, display = "none"
  PROVE  pc["main"] # "waitDone"
BY QueuesTyped DEF CallsInv

LEMMA StartsCalls ==
  ASSUME CallsInv, NEW h \in Handlers, Starts(h)
  PROVE  CallsInv'
<1> USE QueuesTyped DEF CallsInv, Starts, scroll, Running, bus
<1>1. QueuesAgree' /\ pc' \in [Fibers -> PCs]
  <2>1. Moved(h, "regDone")
    BY DEF Moved, Waiting
  <2> QED
    BY <2>1, MoveAgrees DEF PCs, Waiting
<1>2. InCalls'
  BY FreeDisplay DEF InCalls, Busy
<1> QED
  BY <1>1, <1>2 DEF TypeOK

LEMMA AgainCalls ==
  ASSUME CallsInv, NEW h \in Handlers, Again(h)
  PROVE  CallsInv'
<1> USE QueuesTyped DEF CallsInv, Again, Running, bus
<1>1. CASE display = "none"
  <2>1. /\ pc' = [pc EXCEPT ![h] = "regDone"] /\ display' = h
        /\ UNCHANGED <<runQueue, freeQueue, leaving>>
    BY <1>1 DEF scroll
  <2>2. QueuesAgree' /\ pc' \in [Fibers -> PCs]
    <3>1. Moved(h, "regDone")
      BY <1>1, <2>1 DEF Moved, Waiting
    <3> QED
      BY <3>1, MoveAgrees DEF PCs, Waiting
  <2>3. InCalls'
    BY <1>1, <2>1, FreeDisplay DEF InCalls, Busy
  <2> QED
    BY <2>1, <2>2, <2>3 DEF TypeOK
<1>2. CASE display # "none"
  <2>0. /\ pc' = [pc EXCEPT ![h] = "waitFree"] /\ display' = display
        /\ leaving' = TRUE
        /\ runQueue' = Without(runQueue, h) /\ freeQueue' = Append(freeQueue, h)
    BY <1>2
  <2>1. runQueue' \in Queue(Fibers) /\ ToSet(runQueue') = ToSet(runQueue) \ {h}
    BY <2>0, WithoutQueue
  <2>2. freeQueue' \in Queue(Handlers) /\ ToSet(freeQueue') = ToSet(freeQueue) \cup {h}
    <3>1. h \notin ToSet(freeQueue)
      OBVIOUS
    <3> QED
      BY <2>0, <3>1, AppendQueue
  <2>3. QueuesAgree' /\ pc' \in [Fibers -> PCs]
    <3>1. Moved(h, "waitFree")
      BY <2>0, <2>1, <2>2 DEF Moved, Waiting
    <3> QED
      BY <3>1, MoveAgrees DEF PCs, Waiting
  <2>4. InCalls'
    BY <2>0 DEF InCalls, Busy
  <2> QED
    BY <2>0, <2>1, <2>2, <2>3, <2>4 DEF TypeOK
<1> QED
  BY <1>1, <1>2

LEMMA FinishCalls ==
  ASSUME CallsInv, NEW h \in Handlers, Finish(h)
  PROVE  CallsInv'
<1> USE QueuesTyped DEF CallsInv, Finish, Running, bus
<1>0. queued \in [Handlers -> 0 .. Depth] /\ connected' \in BOOLEAN /\ Depth \in Nat
  BY DepthAssumption DEF TypeOK
<1>1. CASE queued[h] > 0
  <2>0. /\ queued' = [queued EXCEPT ![h] = queued[h] - 1]
        /\ pc' = [pc EXCEPT ![h] = "scroll"] /\ runQueue' = runQueue
    BY <1>0, <1>1
  <2>1. queued' \in [Handlers -> 0 .. Depth]
    BY <1>0, <1>1, <2>0
  <2>2. QueuesAgree' /\ pc' \in [Fibers -> PCs]
    <3>1. Moved(h, "scroll")
      BY <2>0 DEF Moved, Waiting
    <3> QED
      BY <3>1, MoveAgrees DEF PCs, Waiting
  <2>3. InCalls'
    BY <1>0, <2>0 DEF InCalls, Busy
  <2> QED
    BY <1>0, <2>0, <2>1, <2>2, <2>3 DEF TypeOK
<1>2. CASE queued[h] = 0
  <2>0. /\ queued' = queued
        /\ pc' = [pc EXCEPT ![h] = "out"] /\ runQueue' = Without(runQueue, h)
    BY <1>0, <1>2
  <2>1. runQueue' \in Queue(Fibers) /\ ToSet(runQueue') = ToSet(runQueue) \ {h}
    BY <2>0, WithoutQueue
  <2>2. QueuesAgree' /\ pc' \in [Fibers -> PCs]
    <3>1. Moved(h, "out")
      BY <2>0, <2>1 DEF Moved, Waiting
    <3> QED
      BY <3>1, MoveAgrees DEF PCs, Waiting
  <2>3. InCalls'
    BY <1>2, <2>0 DEF InCalls, Busy
  <2> QED
    BY <1>0, <2>0, <2>1, <2>2, <2>3 DEF TypeOK
<1> QED
  BY <1>0, <1>1, <1>2

LEMMA DeliverCalls ==
  ASSUME CallsInv, Deliver
  PROVE  CallsInv'
<1> DEFINE h == Head(evt_queue)
<1> USE QueuesTyped DEF CallsInv
<1>0. /\ queued \in [Handlers -> 0 .. Depth] /\ Depth \in Nat
      /\ evt_queue \in Seq(Handlers) /\ evt_queue # <<>> /\ Len(evt_queue) <= Depth
  BY DepthAssumption DEF TypeOK, Deliver
<1>1. h \in Handlers /\ evt_queue' \in Seq(Handlers) /\ Len(evt_queue') <= Depth
  BY <1>0 DEF Deliver
<1> HIDE DEF h
<1>2. leaving' \in BOOLEAN /\ UNCHANGED <<link, connected, freeQueue, current, missed, raised>>
  BY DEF Deliver
<1>3. CASE Busy(h)
  <2>0. /\ queued' = [queued EXCEPT ![h] = IF queued[h] < Depth THEN queued[h] + 1 ELSE queued[h]]
        /\ lost' = (lost \/ queued[h] >= Depth)
        /\ UNCHANGED <<display, runQueue, pc>>
    BY <1>0, <1>1, <1>3 DEF Deliver, h
  <2>1. queued' \in [Handlers -> 0 .. Depth] /\ lost' \in BOOLEAN
    BY <1>0, <1>1, <2>0
  <2>2. QueuesAgree'
    BY <1>2, <2>0 DEF TypeOK, QueuesAgree
  <2>3. InCalls'
    BY <1>0, <1>1, <1>3, <2>0 DEF InCalls, Busy
  <2> QED
    BY <1>1, <1>2, <2>0, <2>1, <2>2, <2>3 DEF TypeOK
<1>4. CASE ~Busy(h)
  <2>0. /\ UNCHANGED <<queued, lost>>
        /\ runQueue' = Append(runQueue, h)
        /\ \/ pc' = [pc EXCEPT ![h] = "regFree"] /\ display # "none" /\ display' = display
           \/ pc' = [pc EXCEPT ![h] = "regDone"] /\ display = "none" /\ display' = h
    BY <1>4 DEF Deliver, scroll, h
  <2>1. pc[h] = "out"
    BY <1>4 DEF Busy
  <2>2. runQueue' \in Queue(Fibers) /\ ToSet(runQueue') = ToSet(runQueue) \cup {h}
    BY <1>1, <2>0, <2>1, AppendQueue DEF Waiting
  <2>3. CASE pc' = [pc EXCEPT ![h] = "regFree"] /\ display # "none" /\ display' = display
    <3>1. QueuesAgree' /\ pc' \in [Fibers -> PCs]
      <4>1. Moved(h, "regFree")
        BY <1>1, <1>2, <2>1, <2>2, <2>3 DEF Moved, Waiting
      <4> QED
        BY <1>1, <4>1, MoveAgrees DEF PCs, Waiting
    <3>2. InCalls'
      BY <1>1, <2>0, <2>3 DEF InCalls, Busy
    <3> QED
      BY <1>1, <1>2, <2>0, <2>2, <2>3, <3>1, <3>2 DEF TypeOK
  <2>4. CASE pc' = [pc EXCEPT ![h] = "regDone"] /\ display = "none" /\ display' = h
    <3>1. QueuesAgree' /\ pc' \in [Fibers -> PCs]
      <4>1. Moved(h, "regDone")
        BY <1>1, <1>2, <2>1, <2>2, <2>4 DEF Moved, Waiting
      <4> QED
        BY <1>1, <4>1, MoveAgrees DEF PCs, Waiting
    <3>2. InCalls'
      BY <1>1, <2>0, <2>4, FreeDisplay DEF InCalls, Busy
    <3> QED
      BY <1>1, <1>2, <2>0, <2>2, <2>4, <3>1, <3>2 DEF TypeOK
  <2> QED
    BY <2>0, <2>3, <2>4
<1> QED
  BY <1>3, <1>4

LEMMA NextCalls == CallsInv /\ [Next]_vars => CallsInv'
<1> SUFFICES ASSUME CallsInv, [Next]_vars PROVE CallsInv'
  OBVIOUS
<1>1. CASE UNCHANGED vars
  BY <1>1 DEF CallsInv, TypeOK, QueuesAgree, InCalls, Busy, vars, bus, queues
<1>2. CASE Connect \/ Disconnect
  BY <1>2, RaiseCalls DEF Connect, Disconnect, Handlers
<1>3. CASE animationUpdate \/ MainWakes \/ Schedule \/ Deliver \/ MainSleeps
  BY <1>3, EndCalls, MainWakesCalls, ScheduleCalls, DeliverCalls, MainSleepsCalls
<1>4. ASSUME NEW h \in Handlers,
             RegisterFree(h) \/ RegisterDone(h) \/ Starts(h) \/ Finish(h) \/ Again(h)
      PROVE  CallsInv'
  BY <1>4, RegisterFreeCalls, RegisterDoneCalls, StartsCalls, FinishCalls, AgainCalls
<1> QED
  BY <1>1, <1>2, <1>3, <1>4 DEF Next, Fiber

\* Whatever the link, the timer and the scheduler do, every variable keeps its type, no
\* fiber is on a queue twice, and a fiber is on the queue, and has the display, that go
\* with the place where it is (queue_fiber, dequeue_fiber, scroll).
THEOREM HandlersTyped == Spec => []TypeOK
<1>1. Init => CallsInv
  BY InitCalls
<1>2. CallsInv /\ [Next]_vars => CallsInv'
  BY NextCalls
<1>3. CallsInv => TypeOK
  BY DEF CallsInv
<1> QED
  BY <1>1, <1>2, <1>3, PTL DEF Spec

-----------------------------------------------------------------------------
(* The order of the handlers.                                              *)

Other(h) == IF h = "onConnected" THEN "onDisconnected" ELSE "onConnected"
HandlerOf(up) == IF up THEN "onConnected" ELSE "onDisconnected"

\* The handler of the last event that left the bus's queue; how many events a handler
\* still has to deal with; and the handler of the first of all these.
Delivered == IF evt_queue = <<>> THEN HandlerOf(link) ELSE Other(Head(evt_queue))
Pending(h) == queued[h] + (IF Busy(h) THEN 1 ELSE 0)
Oldest ==
    IF Pending(Delivered) = Pending(Other(Delivered)) THEN Other(Delivered) ELSE Delivered

\* Connections and disconnections take turns, in the queue and among the events that
\* were delivered; what the program believes is what the last finished handler told it.
EventsInOrder ==
    /\ \A i \in 1 .. Len(evt_queue) - 1 : evt_queue[i + 1] = Other(evt_queue[i])
    /\ evt_queue # <<>> => evt_queue[Len(evt_queue)] = HandlerOf(link)
    /\ Pending(Delivered) - Pending(Other(Delivered)) \in {0, 1}
    /\ connected = (Oldest = "onDisconnected")

\* o ends before y.
Ahead(o, y) ==
    \/ pc[o] = "done" /\ pc[y] \in {"regDone", "waitDone", "woken"}
    \/ pc[o] = "woken" /\ pc[y] \in {"scroll", "regFree", "waitFree", "regDone", "waitDone"}
    \/ pc[o] \in {"regDone", "waitDone"} /\ pc[y] \in {"scroll", "regFree", "waitFree"}
    \/ pc[o] = "waitFree" /\ pc[y] = "regFree"
    \/ pc[o] = "waitFree" /\ pc[y] = "waitFree" /\ Before(freeQueue, o, y)

\* Whoever waits for the display, or is about to, waits for an animation or for a fiber
\* that has just been woken; and the handler of the oldest event is ahead of the other.
HandlersInOrder ==
    /\ current = "idle" /\ ~leaving => \A h \in Handlers : pc[h] # "regFree"
    /\ \A h \in Handlers :
          pc[h] \in {"regFree", "waitFree"} /\ display = "none" => pc[Other(h)] = "woken"
    /\ pc[Oldest] # "scroll"
    /\ Busy(Other(Oldest)) => Ahead(Oldest, Other(Oldest))

Order == EventsInOrder /\ HandlersInOrder

\* There are two handlers.
LEMMA OtherHandlers ==
  /\ \A h \in Handlers : /\ Other(h) \in Handlers /\ Other(h) # h /\ Other(Other(h)) = h
                         /\ Handlers = {h, Other(h)}
  /\ \A up \in BOOLEAN : HandlerOf(up) \in Handlers /\ HandlerOf(~up) = Other(HandlerOf(up))
BY DEF Handlers, Other, HandlerOf

\* A handler with nothing to do is not busy, and one that keeps events is.
LEMMA PendingEvents ==
  ASSUME CallsInv, NEW h \in Handlers
  PROVE  /\ queued[h] \in Nat /\ Pending(h) \in Nat
         /\ Busy(h) => Pending(h) = queued[h] + 1
         /\ ~Busy(h) => Pending(h) = 0 /\ queued[h] = 0
BY DepthAssumption DEF CallsInv, TypeOK, InCalls, Pending

\* The handler of the oldest event has as much to do as the other, or one event more.
LEMMA OldestFirst ==
  ASSUME CallsInv, EventsInOrder
  PROVE  /\ Delivered \in Handlers /\ Oldest \in Handlers
         /\ Pending(Oldest) - Pending(Other(Oldest)) \in {0, 1}
         /\ Oldest = Delivered <=> Pending(Oldest) - Pending(Other(Oldest)) = 1
         /\ Busy(Other(Oldest)) => Busy(Oldest)
         /\ queued[Oldest] > 0 => Busy(Other(Oldest))
<1>1. Delivered \in Handlers
  <2>1. evt_queue \in Seq(Handlers) /\ link \in BOOLEAN
    BY DEF CallsInv, TypeOK
  <2>2. evt_queue # <<>> => Head(evt_queue) \in Handlers
    BY <2>1
  <2> QED
    BY <2>1, <2>2, OtherHandlers DEF Delivered
<1> DEFINE d == Delivered  e == Other(Delivered)
<1>2. d \in Handlers /\ e \in Handlers /\ d # e /\ Other(e) = d
  BY <1>1, OtherHandlers
<1>3. /\ Pending(d) \in Nat /\ Pending(e) \in Nat /\ Pending(d) - Pending(e) \in {0, 1}
      /\ Oldest = IF Pending(d) = Pending(e) THEN e ELSE d
  BY <1>2, PendingEvents DEF EventsInOrder, Oldest
<1> HIDE DEF d, e
<1>4. \/ Oldest = e /\ Other(Oldest) = d /\ Pending(d) = Pending(e)
      \/ Oldest = d /\ Other(Oldest) = e /\ Pending(d) = Pending(e) + 1
  BY <1>2, <1>3 DEF e, d
<1>5. /\ Pending(Oldest) - Pending(Other(Oldest)) \in {0, 1}
      /\ Oldest = Delivered <=> Pending(Oldest) - Pending(Other(Oldest)) = 1
  BY <1>2, <1>3, <1>4 DEF d
<1>6. Oldest \in Handlers /\ Other(Oldest) \in Handlers
  BY <1>2, <1>4
<1>7. /\ Busy(Other(Oldest)) => Busy(Oldest)
      /\ queued[Oldest] > 0 => Busy(Other(Oldest))
  <2> DEFINE o == Oldest  y == Other(Oldest)
  <2>1. /\ queued[o] \in Nat /\ Pending(o) \in Nat
        /\ Busy(o) => Pending(o) = queued[o] + 1
        /\ ~Busy(o) => Pending(o) = 0 /\ queued[o] = 0
    BY <1>6, PendingEvents
  <2>2. /\ queued[y] \in Nat /\ Pending(y) \in Nat
        /\ Busy(y) => Pending(y) = queued[y] + 1
        /\ ~Busy(y) => Pending(y) = 0
    BY <1>6, PendingEvents
  <2>3. Pending(o) - Pending(y) \in {0, 1}
    BY <1>5
  <2> HIDE DEF o, y
  <2>4. (Busy(y) => Busy(o)) /\ (queued[o] > 0 => Busy(y))
    BY <2>1, <2>2, <2>3
  <2> QED
    BY <2>4 DEF o, y
<1> QED
  BY <1>1, <1>5, <1>6, <1>7

-----------------------------------------------------------------------------
(* The order is kept.                                                      *)

\* What a step takes from the state before: the two handlers, the older first.
Two(o, y) ==
    /\ o \in Handlers /\ y \in Handlers /\ o # y /\ Handlers = {o, y}
    /\ Other(o) = y /\ Other(y) = o
    /\ o = Oldest /\ y = Other(Oldest)
    /\ Busy(y) => Busy(o)
    /\ queued[o] > 0 => Busy(y)

LEMMA TwoHandlers ==
  ASSUME CallsInv, EventsInOrder
  PROVE  Two(Oldest, Other(Oldest))
<1>1. Oldest \in Handlers
  BY OldestFirst
<1> QED
  BY <1>1, OldestFirst, OtherHandlers DEF Two

\* A step that leaves the events alone leaves their order alone.
LEMMA SameEvents ==
  ASSUME EventsInOrder, UNCHANGED <<link, connected, evt_queue, queued>>,
         \A h \in Handlers : Busy(h)' = Busy(h), Delivered \in Handlers
  PROVE  EventsInOrder' /\ Oldest' = Oldest
<1>1. Delivered' = Delivered
  BY DEF Delivered
<1>2. \A h \in Handlers : Pending(h)' = Pending(h)
  BY DEF Pending
<1>3. /\ Pending(Delivered)' = Pending(Delivered)
      /\ Pending(Other(Delivered))' = Pending(Other(Delivered))
  BY <1>1, <1>2, OtherHandlers DEF Pending, Other
<1>4. Oldest' = Oldest
  BY <1>1, <1>3 DEF Oldest, Other
<1> QED
  BY <1>3, <1>4 DEF EventsInOrder, Other

\* HandlersInOrder of the two, o the handler of the oldest event.
InOrder(o, y) ==
    /\ current = "idle" /\ ~leaving => pc[o] # "regFree" /\ pc[y] # "regFree"
    /\ pc[o] \in {"regFree", "waitFree"} /\ display = "none" => pc[y] = "woken"
    /\ pc[y] \in {"regFree", "waitFree"} /\ display = "none" => pc[o] = "woken"
    /\ pc[o] # "scroll"
    /\ pc[y] # "out" => Ahead(o, y)

LEMMA OrderOfTwo ==
  ASSUME NEW o, NEW y, Handlers = {o, y}, Other(o) = y, Other(y) = o
  PROVE  /\ Oldest = o => (HandlersInOrder <=> InOrder(o, y))
         /\ Oldest' = o => (HandlersInOrder' <=> InOrder(o, y)')
<1>1. Oldest = o => (HandlersInOrder <=> InOrder(o, y))
  BY DEF HandlersInOrder, InOrder, Busy
<1>2. Oldest' = o => (HandlersInOrder' <=> InOrder(o, y)')
  BY DEF HandlersInOrder, InOrder, Busy, Other, Ahead
<1> QED
  BY <1>1, <1>2

\* A step of one fiber among others keeps the order when it keeps that of the two.
LEMMA OrderKept ==
  ASSUME CallsInv, Order, UNCHANGED <<link, connected, evt_queue, queued>>,
         \A h \in Handlers : Busy(h)' = Busy(h),
         \A o, y : Two(o, y) /\ InOrder(o, y) => InOrder(o, y)'
  PROVE  Order'
<1>1. PICK o, y : Two(o, y)
  BY TwoHandlers DEF Order
<1>2. InOrder(o, y)
  BY <1>1, OrderOfTwo DEF Two, Order
<1>3. EventsInOrder' /\ Oldest' = Oldest
  BY SameEvents, OldestFirst DEF Order
<1>4. HandlersInOrder'
  BY <1>1, <1>2, <1>3, OrderOfTwo DEF Two
<1> QED
  BY <1>3, <1>4 DEF Order

\* Where the two handlers are.
LEMMA TwoPlaces ==
  ASSUME CallsInv, NEW o, NEW y, Two(o, y)
  PROVE  /\ pc \in [Fibers -> PCs] /\ Fibers = {o, y, "main"} /\ o # "main" /\ y # "main"
         /\ display \in {o, y, "main", "none"} /\ "none" \notin {o, y, "main"}
         /\ display = o <=> pc[o] \in {"regDone", "waitDone"}
         /\ display = y <=> pc[y] \in {"regDone", "waitDone"}
         /\ display = "main" => /\ pc[o] \in {"out", "regFree", "waitFree"}
                                /\ pc[y] \in {"out", "regFree", "waitFree"}
         /\ pc[o] \notin {"asleep", "loop"} /\ pc[y] \notin {"asleep", "loop"}
         /\ freeQueue \in Queue(Handlers)
         /\ o \in ToSet(freeQueue) <=> pc[o] = "waitFree"
         /\ y \in ToSet(freeQueue) <=> pc[y] = "waitFree"
<1> USE DEF CallsInv, Two
<1>1. o \in Fibers /\ y \in Fibers /\ Fibers = {o, y, "main"} /\ o # "main" /\ y # "main"
  BY DEF Fibers, Handlers
<1>2. "none" \notin {o, y, "main"}
  BY DEF Handlers
<1>3. display \in {o, y, "main", "none"}
  BY <1>1 DEF TypeOK
<1>4. /\ pc \in [Fibers -> PCs] /\ freeQueue \in Queue(Handlers)
      /\ display = o <=> pc[o] \in {"regDone", "waitDone"}
      /\ display = y <=> pc[y] \in {"regDone", "waitDone"}
      /\ o \in ToSet(freeQueue) <=> pc[o] = "waitFree"
      /\ y \in ToSet(freeQueue) <=> pc[y] = "waitFree"
      /\ display = "main" <=> pc["main"] \in {"regDone", "waitDone"}
  BY <1>1, QueuesTyped
<1>5. /\ pc["main"] # "regDone"
      /\ pc["main"] = "waitDone" => /\ pc[o] \in {"out", "regFree", "waitFree"}
                                    /\ pc[y] \in {"out", "regFree", "waitFree"}
      /\ pc[o] \notin {"asleep", "loop"} /\ pc[y] \notin {"asleep", "loop"}
  BY DEF InCalls
<1> QED
  BY <1>1, <1>2, <1>3, <1>4, <1>5

LEMMA MainOrder ==
  ASSUME CallsInv, Order, MainWakes \/ MainSleeps
  PROVE  Order'
<1>1. /\ \A h \in Handlers : pc'[h] = pc[h]
      /\ UNCHANGED <<link, connected, evt_queue, queued, freeQueue, display>>
      /\ ~leaving' => current' = current /\ ~leaving
  BY QueuesTyped DEF CallsInv, MainWakes, MainSleeps, bus
<1>2. \A o, y : Two(o, y) /\ InOrder(o, y) => InOrder(o, y)'
  BY <1>1 DEF Two, InOrder, Ahead
<1>3. \A h \in Handlers : Busy(h)' = Busy(h)
  BY <1>1 DEF Busy
<1> QED
  BY <1>1, <1>2, <1>3, OrderKept

LEMMA ScheduleOrder ==
  ASSUME CallsInv, Order, Schedule
  PROVE  Order'
<1>1. /\ UNCHANGED <<link, connected, evt_queue, queued, freeQueue, display, pc>>
      /\ current' = Picked(current, runQueue)
  BY DEF Schedule, bus
<1>2. /\ runQueue \in Queue(Fibers) /\ "idle" \notin Fibers
      /\ \A h \in Handlers : pc[h] = "regFree" => h \in ToSet(runQueue)
  BY QueuesTyped DEF CallsInv, Waiting
<1>3. current' = "idle" => \A h \in Handlers : pc[h] # "regFree"
  <2>1. ToSet(runQueue) \subseteq Fibers /\ (runQueue = <<>> => ToSet(runQueue) = {})
    BY <1>2, InQueue DEF Queue
  <2>2. current' = "idle" => runQueue = <<>>
    BY <1>1, <1>2, <2>1, PickedRuns
  <2> QED
    BY <1>2, <2>1, <2>2
<1>4. \A o, y : Two(o, y) /\ InOrder(o, y) => InOrder(o, y)'
  BY <1>1, <1>3 DEF Two, InOrder, Ahead
<1>5. \A h \in Handlers : Busy(h)' = Busy(h)
  BY <1>1 DEF Busy
<1> QED
  BY <1>1, <1>4, <1>5, OrderKept

\* Who is appended to a queue is behind everybody in it.
LEMMA AppendBehind ==
  ASSUME NEW A, NEW q \in Queue(A), NEW g \in ToSet(q), NEW h \in A
  PROVE  Before(Append(q, h), g, h)
<1>1. q \in Seq(A) /\ Len(q) \in Nat /\ DOMAIN q = 1 .. Len(q)
  BY InQueue DEF Queue
<1>2. PICK i \in 1 .. Len(q) : q[i] = g
  BY <1>1 DEF ToSet
<1>3. /\ DOMAIN Append(q, h) = 1 .. Len(q) + 1
      /\ Append(q, h)[i] = g /\ Append(q, h)[Len(q) + 1] = h
  BY <1>1, <1>2
<1>4. i < Len(q) + 1 /\ i \in 1 .. Len(q) + 1 /\ Len(q) + 1 \in 1 .. Len(q) + 1
  BY <1>1, <1>2
<1> QED
  BY <1>3, <1>4 DEF Before

\* Nobody is both in front of somebody and behind him.
LEMMA OneIsFirst ==
  ASSUME NEW A, NEW q \in Queue(A), NEW g, NEW h, Before(q, g, h)
  PROVE  g # h /\ ~Before(q, h, g) /\ g \in ToSet(q) /\ h \in ToSet(q)
<1>1. Len(q) \in Nat /\ DOMAIN q = 1 .. Len(q)
  BY InQueue DEF Queue
<1>2. \A k, l \in 1 .. Len(q) : q[k] = q[l] => k = l
  BY <1>1 DEF Queue, IsInjective
<1>3. PICK i \in 1 .. Len(q), j \in 1 .. Len(q) : i < j /\ q[i] = g /\ q[j] = h
  BY <1>1 DEF Before
<1>4. ASSUME NEW k \in 1 .. Len(q), NEW l \in 1 .. Len(q), k < l, q[k] = h, q[l] = g
      PROVE  FALSE
  <2>1. k = j /\ l = i
    BY <1>2, <1>3, <1>4
  <2> QED
    BY <1>1, <1>3, <1>4, <2>1
<1>5. ~Before(q, h, g)
  BY <1>1, <1>4 DEF Before
<1>6. g # h
  BY <1>1, <1>2, <1>3
<1> QED
  BY <1>1, <1>3, <1>5, <1>6 DEF ToSet

LEMMA RegisterFreeOrder ==
  ASSUME CallsInv, Order, NEW h \in Handlers, RegisterFree(h)
  PROVE  Order'
<1>1. /\ UNCHANGED <<link, connected, evt_queue, queued, display>> /\ leaving' = TRUE
      /\ pc[h] = "regFree" /\ pc' = [pc EXCEPT ![h] = "waitFree"]
      /\ freeQueue' = Append(freeQueue, h)
  BY DEF RegisterFree, Running, bus
<1>2. \A g \in Handlers : pc'[g] = IF g = h THEN "waitFree" ELSE pc[g]
  BY <1>1, QueuesTyped DEF CallsInv
<1>3. ASSUME NEW o, NEW y, Two(o, y), InOrder(o, y) PROVE InOrder(o, y)'
  <2>1. CASE h = o
    BY <1>1, <1>2, <1>3, <2>1 DEF Two, InOrder, Ahead
  <2>2. CASE h = y
    <3>1. pc[o] = "waitFree" => Before(freeQueue', o, y)
      BY <1>1, <1>3, <2>2, TwoPlaces, AppendBehind
    <3> QED
      BY <1>1, <1>2, <1>3, <2>2, <3>1 DEF Two, InOrder, Ahead
  <2> QED
    BY <1>3, <2>1, <2>2 DEF Two
<1>4. \A g \in Handlers : Busy(g)' = Busy(g)
  BY <1>1, <1>2 DEF Busy
<1> QED
  BY <1>1, <1>3, <1>4, OrderKept

LEMMA RegisterDoneOrder ==
  ASSUME CallsInv, Order, NEW h \in Handlers, RegisterDone(h)
  PROVE  Order'
<1>1. /\ UNCHANGED <<link, connected, evt_queue, queued, display, freeQueue>> /\ leaving' = TRUE
      /\ pc[h] = "regDone" /\ pc' = [pc EXCEPT ![h] = "waitDone"]
  BY DEF RegisterDone, Running, bus
<1>2. \A g \in Handlers : pc'[g] = IF g = h THEN "waitDone" ELSE pc[g]
  BY <1>1, QueuesTyped DEF CallsInv
<1>3. ASSUME NEW o, NEW y, Two(o, y), InOrder(o, y) PROVE InOrder(o, y)'
  <2>1. CASE h = o
    BY <1>1, <1>2, <1>3, <2>1 DEF Two, InOrder, Ahead
  <2>2. CASE h = y
    BY <1>1, <1>2, <1>3, <2>2 DEF Two, InOrder, Ahead
  <2> QED
    BY <1>3, <2>1, <2>2 DEF Two
<1>4. \A g \in Handlers : Busy(g)' = Busy(g)
  BY <1>1, <1>2 DEF Busy
<1> QED
  BY <1>1, <1>3, <1>4, OrderKept

LEMMA StartsOrder ==
  ASSUME CallsInv, Order, NEW h \in Handlers, Starts(h)
  PROVE  Order'
<1>1. /\ UNCHANGED <<link, connected, evt_queue, queued, freeQueue, current, leaving>>
      /\ pc[h] = "woken" /\ pc' = [pc EXCEPT ![h] = "regDone"]
      /\ display = "none" /\ display' = h
  BY DEF Starts, scroll, Running, bus
<1>2. \A g \in Handlers : pc'[g] = IF g = h THEN "regDone" ELSE pc[g]
  BY <1>1, QueuesTyped DEF CallsInv
<1>3. ASSUME NEW o, NEW y, Two(o, y), InOrder(o, y) PROVE InOrder(o, y)'
  <2>0. pc[o] \notin {"regDone", "waitDone"} /\ pc[y] \notin {"regDone", "waitDone"} /\ display' # "none"
    BY <1>1, <1>3, TwoPlaces DEF Two
  <2>1. CASE h = o
    BY <1>1, <1>2, <1>3, <2>0, <2>1 DEF Two, InOrder, Ahead
  <2>2. CASE h = y
    BY <1>1, <1>2, <1>3, <2>0, <2>2 DEF Two, InOrder, Ahead
  <2> QED
    BY <1>3, <2>1, <2>2 DEF Two
<1>4. \A g \in Handlers : Busy(g)' = Busy(g)
  BY <1>1, <1>2 DEF Busy
<1> QED
  BY <1>1, <1>3, <1>4, OrderKept

LEMMA AgainOrder ==
  ASSUME CallsInv, Order, NEW h \in Handlers, Again(h)
  PROVE  Order'
<1>1. /\ UNCHANGED <<link, connected, evt_queue, queued, current>>
      /\ pc[h] = "scroll" /\ (leaving' = TRUE \/ leaving' = leaving)
      /\ \/ /\ display = "none" /\ display' = h /\ freeQueue' = freeQueue
            /\ pc' = [pc EXCEPT ![h] = "regDone"]
         \/ /\ display # "none" /\ display' = display
            /\ pc' = [pc EXCEPT ![h] = "waitFree"]
  BY DEF Again, scroll, Running, bus
<1>2. \A g \in Handlers :
         pc'[g] = IF g = h THEN IF display = "none" THEN "regDone" ELSE "waitFree" ELSE pc[g]
  BY <1>1, QueuesTyped DEF CallsInv
<1>3. ASSUME NEW o, NEW y, Two(o, y), InOrder(o, y) PROVE InOrder(o, y)'
  <2>1. h = y
    BY <1>1, <1>3 DEF Two, InOrder
  <2>2. display' # "none" /\ (display = "none" => pc[o] \notin {"regDone", "waitDone"})
    BY <1>1, <1>3, <2>1, TwoPlaces
  <2> QED
    BY <1>1, <1>2, <1>3, <2>1, <2>2 DEF Two, InOrder, Ahead
<1>4. \A g \in Handlers : Busy(g)' = Busy(g)
  BY <1>1, <1>2 DEF Busy
<1> QED
  BY <1>1, <1>3, <1>4, OrderKept

\* Who animationUpdate() wakes.
LEMMA EndWakes ==
  ASSUME CallsInv, animationUpdate, ~missed'
  PROVE  /\ \A g \in Fibers : pc'[g] = IF g = display THEN "done"
                                   ELSE IF freeQueue # <<>> /\ g = Head(freeQueue) THEN "woken"
                                   ELSE pc[g]
         /\ freeQueue = <<>> => \A g \in Handlers : pc[g] \notin {"regFree", "waitFree"}
         /\ freeQueue # <<>> => /\ Head(freeQueue) \in Handlers /\ pc[Head(freeQueue)] = "waitFree"
                                /\ \A g \in Handlers :
                                      pc[g] = "waitFree" => \/ g = Head(freeQueue)
                                                            \/ Before(freeQueue, Head(freeQueue), g)
<1>1. /\ freeQueue \in Queue(Handlers) /\ ToSet(freeQueue) \subseteq Handlers
      /\ Handlers \subseteq Fibers /\ display \in Fibers
      /\ \A g \in Handlers : g \in ToSet(freeQueue) <=> pc[g] = "waitFree"
      /\ pc[display] \in {"regDone", "waitDone"}
  BY QueuesTyped DEF CallsInv, animationUpdate, TypeOK
<1>2. /\ freeQueue = <<>> => ToSet(freeQueue) = {}
      /\ freeQueue # <<>> => Head(freeQueue) \in ToSet(freeQueue)
  BY <1>1, InQueue DEF Queue
<1>3. ToSet(Tail(WokenByEnd)) = IF freeQueue = <<>> THEN {} ELSE {Head(freeQueue)}
  <2>1. CASE freeQueue = <<>>
    <3>1. Tail(<<display>>) = <<>> /\ ToSet(<<>>) = {}
      BY ShortQueues
    <3> QED
      BY <2>1, <3>1 DEF WokenByEnd
  <2>2. CASE freeQueue # <<>>
    <3>1. Head(freeQueue) \in Fibers /\ display # Head(freeQueue)
      BY <1>1, <1>2, <2>2
    <3>2. /\ <<display, Head(freeQueue)>> \in Queue(Fibers)
          /\ ToSet(<<display, Head(freeQueue)>>) = {display, Head(freeQueue)}
          /\ ToSet(Tail(<<display, Head(freeQueue)>>)) = {Head(freeQueue)}
      BY <1>1, <3>1, PairQueue
    <3> QED
      BY <2>2, <3>2 DEF WokenByEnd
  <2> QED
    BY <2>1, <2>2
<1>4. \A g \in Fibers : pc'[g] = IF g = display THEN "done"
                               ELSE IF freeQueue # <<>> /\ g = Head(freeQueue) THEN "woken"
                               ELSE pc[g]
  BY <1>3 DEF animationUpdate
<1>5. freeQueue = <<>> => \A g \in Handlers : pc[g] \notin {"regFree", "waitFree"}
  BY <1>1, <1>2 DEF animationUpdate
<1>6. freeQueue # <<>> => /\ Head(freeQueue) \in Handlers /\ pc[Head(freeQueue)] = "waitFree"
                          /\ \A g \in Handlers :
                                pc[g] = "waitFree" => \/ g = Head(freeQueue)
                                                      \/ Before(freeQueue, Head(freeQueue), g)
  BY <1>1, <1>2, HeadIsFirst
<1> QED
  BY <1>4, <1>5, <1>6

LEMMA EndOrder ==
  ASSUME CallsInv, Order, animationUpdate, ~missed'
  PROVE  Order'
<1>1. /\ UNCHANGED <<link, connected, evt_queue, queued, current, leaving>>
      /\ display' = "none" /\ display # "none"
      /\ \A g \in Fibers : pc[g] \in Waiting \cup Recent
  BY DEF animationUpdate, bus
<1> DEFINE first == Head(freeQueue)
<1>2. /\ \A g \in Fibers : pc'[g] = IF g = display THEN "done"
                                ELSE IF freeQueue # <<>> /\ g = first THEN "woken"
                                ELSE pc[g]
      /\ freeQueue = <<>> => \A g \in Handlers : pc[g] \notin {"regFree", "waitFree"}
      /\ freeQueue # <<>> => /\ first \in Handlers /\ pc[first] = "waitFree"
                             /\ \A g \in Handlers :
                                   pc[g] = "waitFree" => g = first \/ Before(freeQueue, first, g)
  BY EndWakes
<1> HIDE DEF first
<1>3. ASSUME NEW o, NEW y, Two(o, y), InOrder(o, y) PROVE InOrder(o, y)'
  <2>1. /\ display \in {o, y, "main"} /\ o \in Fibers /\ y \in Fibers
        /\ pc[o] \in {"waitFree", "waitDone", "out", "regFree"}
        /\ pc[y] \in {"waitFree", "waitDone", "out", "regFree"}
        /\ display = o <=> pc[o] = "waitDone"
        /\ display = y <=> pc[y] = "waitDone"
        /\ o # "main" /\ y # "main" /\ o # y /\ Handlers = {o, y}
    BY <1>1, <1>3, TwoPlaces DEF Waiting, Recent, Two
  <2>2. freeQueue \in Queue(Handlers)
    BY <1>3, TwoPlaces
  <2>3. pc[o] = "waitFree" /\ pc[y] = "waitFree" => freeQueue # <<>> /\ first = o
    <3>1. pc[o] = "waitFree" /\ pc[y] = "waitFree" => Before(freeQueue, o, y)
      BY <1>3 DEF InOrder, Ahead
    <3>2. Before(freeQueue, o, y) => ~Before(freeQueue, y, o)
      BY <2>2, OneIsFirst
    <3> QED
      BY <1>2, <2>1, <3>1, <3>2
  <2>4. pc'[o] = IF display = o THEN "done" ELSE IF freeQueue # <<>> /\ o = first THEN "woken" ELSE pc[o]
    BY <1>2, <2>1
  <2>5. pc'[y] = IF display = y THEN "done" ELSE IF freeQueue # <<>> /\ y = first THEN "woken" ELSE pc[y]
    BY <1>2, <2>1
  <2>6. CASE pc[y] = "out"
    BY <1>1, <1>2, <1>3, <2>1, <2>4, <2>5, <2>6 DEF InOrder
  <2>7. CASE pc[y] # "out"
    <3>1. \/ pc[o] = "waitDone" /\ pc[y] = "waitFree"
          \/ pc[o] = "waitFree" /\ pc[y] = "regFree"
          \/ pc[o] = "waitFree" /\ pc[y] = "waitFree"
          \/ pc[o] = "waitDone" /\ pc[y] = "regFree"
      BY <1>3, <2>1, <2>7 DEF InOrder, Ahead
    <3>2. CASE pc[o] = "waitDone" /\ pc[y] = "waitFree"
      <4>1. pc'[o] = "done" /\ pc'[y] = "woken"
        BY <1>2, <2>1, <2>4, <2>5, <3>2
      <4> QED
        BY <4>1 DEF InOrder, Ahead
    <3>3. CASE pc[o] = "waitFree" /\ pc[y] = "regFree"
      <4>1. pc'[o] = "woken" /\ pc'[y] = "regFree"
        BY <1>2, <2>1, <2>4, <2>5, <3>3
      <4> QED
        BY <1>1, <1>3, <3>3, <4>1 DEF InOrder, Ahead
    <3>4. CASE pc[o] = "waitFree" /\ pc[y] = "waitFree"
      <4>1. pc'[o] = "woken" /\ pc'[y] = "waitFree"
        BY <1>2, <2>1, <2>3, <2>4, <2>5, <3>4
      <4> QED
        BY <4>1 DEF InOrder, Ahead
    <3>5. CASE pc[o] = "waitDone" /\ pc[y] = "regFree"
      BY <1>2, <2>1, <3>5
    <3> QED
      BY <3>1, <3>2, <3>3, <3>4, <3>5
  <2> QED
    BY <2>6, <2>7
<1>4. \A g \in Handlers : Busy(g)' = Busy(g)
  BY <1>2, QueuesTyped DEF CallsInv, Busy
<1> QED
  BY <1>1, <1>3, <1>4, OrderKept

LEMMA RaiseOrder ==
  ASSUME CallsInv, Order, NEW up \in BOOLEAN, Raise(HandlerOf(up), up), ~lost'
  PROVE  Order'
<1> DEFINE h == HandlerOf(up)
<1>1. /\ link = ~up /\ link' = up /\ evt_queue' = Append(evt_queue, h)
      /\ UNCHANGED <<connected, queued, display, freeQueue, current, leaving, pc>>
      /\ evt_queue \in Seq(Handlers) /\ Len(evt_queue) \in Nat
  <2>1. evt_queue \in Seq(Handlers) /\ Len(evt_queue) \in Nat /\ Depth \in Nat
    BY DepthAssumption DEF CallsInv, TypeOK
  <2>2. /\ link = ~up /\ link' = up /\ ~(Len(evt_queue) >= Depth)
        /\ evt_queue' = IF Len(evt_queue) < Depth THEN Append(evt_queue, h) ELSE evt_queue
        /\ UNCHANGED <<connected, queued, display, queues>>
    BY Zenon DEF Raise
  <2>3. Len(evt_queue) < Depth
    BY <2>1, <2>2
  <2>4. UNCHANGED <<freeQueue, current, leaving, pc>>
    BY <2>2 DEF queues
  <2>5. evt_queue' = Append(evt_queue, h)
    BY <2>2, <2>3
  <2> QED
    BY <2>1, <2>2, <2>4, <2>5, Zenon
<1>2. h \in Handlers /\ HandlerOf(link) = Other(h) /\ Other(Other(h)) = h /\ HandlerOf(link') = h
  BY <1>1, OtherHandlers
<1> HIDE DEF h
<1>3. /\ Len(evt_queue') = Len(evt_queue) + 1 /\ evt_queue' # <<>>
      /\ evt_queue'[Len(evt_queue) + 1] = h
      /\ \A i \in 1 .. Len(evt_queue) : evt_queue'[i] = evt_queue[i]
      /\ Head(evt_queue') = IF evt_queue = <<>> THEN h ELSE Head(evt_queue)
  BY <1>1, <1>2
<1>4. Delivered' = Delivered
  BY <1>2, <1>3 DEF Delivered, Other
<1>5. Pending(Delivered)' = Pending(Delivered) /\ Pending(Other(Delivered))' = Pending(Other(Delivered))
  BY <1>1, <1>4 DEF Pending, Busy, Other
<1>6. Oldest' = Oldest
  BY <1>4, <1>5 DEF Oldest, Other
<1>7. \A i \in 1 .. Len(evt_queue') - 1 : evt_queue'[i + 1] = Other(evt_queue'[i])
  <2> SUFFICES ASSUME NEW i \in 1 .. Len(evt_queue) PROVE evt_queue'[i + 1] = Other(evt_queue'[i])
    BY <1>1, <1>3
  <2>1. CASE i = Len(evt_queue)
    <3>1. evt_queue # <<>> /\ evt_queue[i] = Other(h)
      BY <1>1, <1>2, <2>1 DEF Order, EventsInOrder
    <3> QED
      BY <1>2, <1>3, <2>1, <3>1
  <2>2. CASE i # Len(evt_queue)
    <3>1. i \in 1 .. Len(evt_queue) - 1 /\ i + 1 \in 1 .. Len(evt_queue)
      BY <1>1, <2>2
    <3>2. evt_queue[i + 1] = Other(evt_queue[i])
      BY <3>1 DEF Order, EventsInOrder
    <3> QED
      BY <1>3, <3>1, <3>2
  <2> QED
    BY <2>1, <2>2
<1>8. EventsInOrder'
  BY <1>1, <1>2, <1>3, <1>5, <1>6, <1>7 DEF Order, EventsInOrder, Other
<1>9. HandlersInOrder'
  BY <1>1, <1>6 DEF Order, HandlersInOrder, Busy, Ahead, Other
<1> QED
  BY <1>8, <1>9 DEF Order

\* The event that is delivered was the first of the bus's queue.
LEMMA DeliverEvents ==
  ASSUME CallsInv, EventsInOrder, Deliver, ~lost'
  PROVE  EventsInOrder' /\ Oldest' = Oldest
<1>0. PICK h, d : h = Head(evt_queue) /\ d = Other(h)
  OBVIOUS
<1>1. /\ evt_queue \in Seq(Handlers) /\ evt_queue # <<>> /\ Len(evt_queue) \in Nat \ {0}
      /\ evt_queue' = Tail(evt_queue) /\ UNCHANGED <<link, connected>>
      /\ queued \in [Handlers -> 0 .. Depth] /\ Depth \in Nat /\ pc \in [Fibers -> PCs]
      /\ Handlers \subseteq Fibers
  BY DepthAssumption, QueuesTyped DEF CallsInv, TypeOK, Deliver
<1>2. h \in Handlers /\ d \in Handlers /\ d # h /\ Other(d) = h /\ Delivered = d /\ h = evt_queue[1]
  BY <1>0, <1>1, OtherHandlers DEF Delivered
<1>3. \/ /\ Busy(h) /\ queued' = [queued EXCEPT ![h] = queued[h] + 1] /\ pc' = pc
      \/ /\ ~Busy(h) /\ queued' = queued
         /\ \E x \in {"regFree", "regDone"} : pc' = [pc EXCEPT ![h] = x]
  <2>2. CASE Busy(h)
    <3>1. /\ queued' = [queued EXCEPT ![h] = IF queued[h] < Depth THEN queued[h] + 1 ELSE queued[h]]
          /\ pc' = pc
      BY <1>0, <2>2 DEF Deliver
    <3>2. ~(queued[h] >= Depth)
      BY <1>0, <2>2, Zenon DEF Deliver
    <3>3. queued[h] < Depth
      BY <1>1, <1>2, <3>2
    <3> QED
      BY <2>2, <3>1, <3>3
  <2>3. CASE ~Busy(h)
    BY <1>0, <2>3 DEF Deliver, scroll
  <2> QED
    BY <2>2, <2>3
<1>4. /\ queued[h] \in Nat /\ Pending(h) \in Nat /\ Pending(d) \in Nat
      /\ Busy(h) => Pending(h) = queued[h] + 1
      /\ ~Busy(h) => Pending(h) = 0 /\ queued[h] = 0
  BY <1>2, PendingEvents
<1>5. Pending(h)' = Pending(h) + 1 /\ Pending(d)' = Pending(d)
  <2>1. CASE Busy(h)
    <3>1. queued' = [queued EXCEPT ![h] = queued[h] + 1] /\ pc' = pc
      BY <1>3, <2>1
    <3>2. queued'[h] = queued[h] + 1 /\ queued'[d] = queued[d]
      BY <1>1, <1>2, <3>1
    <3> QED
      BY <1>2, <1>4, <2>1, <3>1, <3>2 DEF Pending, Busy, Other
  <2>2. CASE ~Busy(h)
    <3>1. PICK x \in {"regFree", "regDone"} : pc' = [pc EXCEPT ![h] = x] /\ queued' = queued
      BY <1>3, <2>2
    <3>2. pc'[h] # "out" /\ pc'[d] = pc[d]
      BY <1>1, <1>2, <3>1
    <3> QED
      BY <1>2, <1>4, <2>2, <3>1, <3>2 DEF Pending, Busy, Other
  <2> QED
    BY <2>1, <2>2
<1>6. /\ Len(evt_queue') = Len(evt_queue) - 1
      /\ \A i \in 1 .. Len(evt_queue) - 1 : evt_queue'[i] = evt_queue[i + 1]
      /\ evt_queue' # <<>> <=> Len(evt_queue) > 1
      /\ evt_queue' # <<>> => Head(evt_queue') = evt_queue[2]
  <2>1. /\ evt_queue' \in Seq(Handlers) /\ Len(evt_queue') = Len(evt_queue) - 1
        /\ \A i \in 1 .. Len(evt_queue) - 1 : evt_queue'[i] = evt_queue[i + 1]
    BY <1>1
  <2>2. evt_queue' # <<>> <=> Len(evt_queue') # 0
    BY <2>1
  <2>3. Len(evt_queue) > 1 => Head(evt_queue') = evt_queue[2]
    BY <1>1, <2>1
  <2> QED
    BY <1>1, <2>1, <2>2, <2>3
<1>7. Delivered' = h
  <2>1. CASE evt_queue' = <<>>
    BY <1>1, <1>2, <1>6, <2>1 DEF Delivered, EventsInOrder, HandlerOf
  <2>2. CASE evt_queue' # <<>>
    <3>1. evt_queue[1 + 1] = Other(evt_queue[1])
      BY <1>1, <1>6, <2>2 DEF EventsInOrder
    <3>2. evt_queue[2] = d
      BY <1>0, <1>2, <3>1
    <3> QED
      BY <1>2, <1>6, <2>2, <3>2 DEF Delivered, Other
  <2> QED
    BY <2>1, <2>2
<1>8. /\ Oldest = IF Pending(d) = Pending(h) THEN h ELSE d
      /\ Pending(d) = Pending(h) \/ Pending(d) = Pending(h) + 1
  BY <1>2, <1>4 DEF Oldest, EventsInOrder
<1>9. Oldest' = IF Pending(h)' = Pending(d)' THEN d ELSE h
  <2>1. Pending(Delivered)' = Pending(h)' /\ Pending(Other(Delivered))' = Pending(d)'
    BY <1>0, <1>7 DEF Pending, Busy, Other
  <2> QED
    BY <1>0, <1>7, <2>1 DEF Oldest, Other
<1>10. Oldest' = Oldest
  BY <1>4, <1>5, <1>8, <1>9
<1>11. (Pending(Delivered) - Pending(Other(Delivered)))' \in {0, 1}
  <2>1. Pending(Delivered)' = Pending(h)' /\ Pending(Other(Delivered))' = Pending(d)'
    BY <1>0, <1>7 DEF Pending, Busy, Other
  <2>2. Pending(Delivered)' = Pending(h) + 1 /\ Pending(Other(Delivered))' = Pending(d)
    BY <1>5, <2>1
  <2>3. (Pending(h) + 1) - Pending(d) \in {0, 1}
    BY <1>4, <1>8
  <2> QED
    BY <2>2, <2>3
<1>12. \A i \in 1 .. Len(evt_queue') - 1 : evt_queue'[i + 1] = Other(evt_queue'[i])
  <2> SUFFICES ASSUME NEW i \in 1 .. Len(evt_queue') - 1 PROVE evt_queue'[i + 1] = Other(evt_queue'[i])
    OBVIOUS
  <2>1. i \in 1 .. Len(evt_queue) - 1 /\ i + 1 \in 1 .. Len(evt_queue) - 1
    BY <1>1, <1>6
  <2>2. evt_queue[(i + 1) + 1] = Other(evt_queue[i + 1])
    BY <2>1 DEF EventsInOrder
  <2> QED
    BY <1>6, <2>1, <2>2
<1>13. evt_queue' # <<>> => evt_queue'[Len(evt_queue')] = HandlerOf(link)'
  BY <1>1, <1>6 DEF EventsInOrder, HandlerOf
<1> QED
  BY <1>1, <1>10, <1>11, <1>12, <1>13 DEF EventsInOrder, Other

LEMMA DeliverOrder ==
  ASSUME CallsInv, Order, Deliver, ~lost'
  PROVE  Order'
<1>1. EventsInOrder' /\ Oldest' = Oldest
  BY DeliverEvents DEF Order
<1>2. PICK o, y : Two(o, y)
  BY TwoHandlers DEF Order
<1>3. InOrder(o, y)
  BY <1>2, OrderOfTwo DEF Two, Order
<1>0. PICK h : h = Head(evt_queue)
  OBVIOUS
<1>4. /\ h \in {o, y} /\ current = "idle" /\ ~leaving
      /\ UNCHANGED <<freeQueue, current>>
  BY <1>0, <1>2 DEF CallsInv, TypeOK, Deliver, Two
<1>5. /\ leaving' = (runQueue' # <<>>)
      /\ \/ Busy(h) /\ UNCHANGED <<display, runQueue, pc>>
         \/ /\ ~Busy(h) /\ runQueue' = Append(runQueue, h)
            /\ \/ display # "none" /\ pc' = [pc EXCEPT ![h] = "regFree"] /\ display' = display
               \/ display = "none" /\ pc' = [pc EXCEPT ![h] = "regDone"] /\ display' = h
  BY <1>0 DEF Deliver, scroll
<1>6. InOrder(o, y)'
  <2>1. CASE Busy(h)
    BY <1>3, <1>4, <1>5, <2>1 DEF InOrder, Ahead
  <2>2. CASE ~Busy(h)
    <3>1. leaving'
      <4>1. runQueue \in Queue(Fibers) /\ h \in Fibers
        BY <1>2, <1>4, QueuesTyped DEF CallsInv, Two
      <4>2. Append(runQueue, h) # <<>>
        BY <4>1 DEF Queue
      <4> QED
        BY <1>5, <2>2, <4>2
    <3>2. \A g \in {o, y} :
             pc'[g] = IF g = h THEN IF display = "none" THEN "regDone" ELSE "regFree" ELSE pc[g]
      BY <1>2, <1>4, <1>5, <2>2, TwoPlaces
    <3>3. display' # "none"
      BY <1>2, <1>4, <1>5, <2>2, TwoPlaces
    <3>4. CASE h = o
      BY <1>2, <1>4, <2>2, <3>1, <3>2, <3>3, <3>4 DEF InOrder, Two, Busy
    <3>5. CASE h = y
      <4>1. pc[o] # "out"
        <5>1. Pending(o) \in Nat /\ (~Busy(o) => Pending(o) = 0)
          BY <1>2, PendingEvents DEF Two
        <5>2. o = Oldest /\ y = Other(o) /\ o = Other(y) /\ y # o
          BY <1>2 DEF Two
        <5>3. Delivered = o
          BY <1>0, <3>5, <5>2 DEF Delivered, Deliver
        <5>4. Pending(o) - Pending(y) = 1
          BY <5>2, <5>3, OldestFirst DEF Order
        <5>5. Pending(y) \in Nat
          BY <1>2, PendingEvents DEF Two
        <5> QED
          BY <5>1, <5>4, <5>5 DEF Busy
      <4>2. pc[y] = "out"
        BY <2>2, <3>5 DEF Busy
      <4>3. pc[o] \in {"woken", "regDone", "waitDone", "waitFree", "done"}
        BY <1>2, <1>3, <1>4, <4>1, TwoPlaces DEF InOrder, PCs, Waiting, Two
      <4>4. CASE display = "none"
        BY <1>2, <1>3, <1>4, <3>1, <3>2, <3>3, <3>5, <4>2, <4>3, <4>4, TwoPlaces
           DEF InOrder, Ahead, Two
      <4>5. CASE display # "none"
        BY <1>2, <1>3, <1>4, <3>1, <3>2, <3>3, <3>5, <4>2, <4>3, <4>5, TwoPlaces
           DEF InOrder, Ahead, Two
      <4> QED
        BY <4>4, <4>5
    <3> QED
      BY <1>4, <3>4, <3>5
  <2> QED
    BY <2>1, <2>2
<1>7. HandlersInOrder'
  BY <1>1, <1>2, <1>6, OrderOfTwo DEF Two
<1> QED
  BY <1>1, <1>7 DEF Order

\* The handler that ends is the one of the oldest event, and the other is the next.
LEMMA FinishOrder ==
  ASSUME CallsInv, Order, NEW h \in Handlers, Finish(h)
  PROVE  Order'
<1>1. PICK o, y : Two(o, y)
  BY TwoHandlers DEF Order
<1>2. InOrder(o, y)
  BY <1>1, OrderOfTwo DEF Two, Order
<1>3. /\ UNCHANGED <<link, evt_queue, display, freeQueue, current>> /\ leaving' = TRUE
      /\ connected' = (h = "onConnected")
      /\ pc[h] = "done" \/ (pc[h] = "woken" /\ display # "none")
      /\ \/ /\ queued[h] > 0 /\ queued' = [queued EXCEPT ![h] = queued[h] - 1]
            /\ pc' = [pc EXCEPT ![h] = "scroll"]
         \/ /\ queued[h] = 0 /\ queued' = queued
            /\ pc' = [pc EXCEPT ![h] = "out"]
  BY DEF Finish, Running
<1>4. h = o /\ pc[y] \in {"out", "regDone", "waitDone", "woken"}
  BY <1>1, <1>2, <1>3, TwoPlaces DEF Two, InOrder, Ahead
<1>5. /\ o \in Handlers /\ y \in Handlers /\ o # y /\ Other(o) = y /\ Other(y) = o
      /\ o \in Fibers /\ y \in Fibers /\ pc \in [Fibers -> PCs]
      /\ queued \in [Handlers -> 0 .. Depth] /\ Depth \in Nat
  BY <1>1, QueuesTyped, DepthAssumption DEF Two, CallsInv, TypeOK
<1>6. /\ pc'[o] = IF queued[o] > 0 THEN "scroll" ELSE "out"
      /\ pc'[y] = pc[y] /\ queued'[y] = queued[y]
      /\ queued'[o] = IF queued[o] > 0 THEN queued[o] - 1 ELSE 0
  BY <1>3, <1>4, <1>5
<1>7. /\ queued[o] \in Nat /\ Pending(o) = queued[o] + 1 /\ Pending(y) \in Nat
  BY <1>3, <1>4, <1>5, PendingEvents DEF Busy
<1>8. Pending(o)' = Pending(o) - 1 /\ Pending(y)' = Pending(y)
  <2>1. Pending(o)' = queued[o]
    BY <1>6, <1>7 DEF Pending, Busy
  <2>2. Pending(y)' = Pending(y)
    BY <1>6 DEF Pending, Busy
  <2> QED
    BY <1>7, <2>1, <2>2
<1>9. Delivered' = Delivered
  BY <1>3 DEF Delivered, HandlerOf, Other
<1>10. /\ Delivered \in {o, y} /\ o = Oldest
       /\ Delivered = o => Pending(o) = Pending(y) + 1
       /\ Delivered = y => Pending(o) = Pending(y)
  <2>1. /\ Delivered \in Handlers /\ Pending(Oldest) - Pending(Other(Oldest)) \in {0, 1}
        /\ Oldest = Delivered <=> Pending(Oldest) - Pending(Other(Oldest)) = 1
    BY OldestFirst DEF Order
  <2>2. o = Oldest /\ y = Other(Oldest) /\ Handlers = {o, y}
    BY <1>1 DEF Two
  <2>3. Pending(o) - Pending(y) \in {0, 1} /\ (o = Delivered <=> Pending(o) - Pending(y) = 1)
    BY <2>1, <2>2
  <2>4. Pending(o) \in Nat
    BY <1>7
  <2> QED
    BY <1>5, <1>7, <2>1, <2>2, <2>3, <2>4
<1>11. /\ Oldest' = y
       /\ (Pending(Delivered) - Pending(Other(Delivered)))' \in {0, 1}
  <2>1. CASE Delivered = o
    <3>1. Pending(Delivered)' = Pending(o)' /\ Pending(Other(Delivered))' = Pending(y)'
      BY <1>5, <1>9, <2>1 DEF Pending, Busy, Other
    <3>2. Pending(o)' = Pending(y) /\ Pending(y)' = Pending(y) /\ Pending(y) \in Nat
      BY <1>7, <1>8, <1>10, <2>1
    <3> QED
      BY <1>5, <1>9, <2>1, <3>1, <3>2 DEF Oldest, Other
  <2>2. CASE Delivered = y
    <3>1. Pending(Delivered)' = Pending(y)' /\ Pending(Other(Delivered))' = Pending(o)'
      BY <1>5, <1>9, <2>2 DEF Pending, Busy, Other
    <3>2. Pending(Delivered)' = Pending(y) /\ Pending(Other(Delivered))' = Pending(y) - 1
      BY <1>7, <1>8, <1>10, <2>2, <3>1
    <3> QED
      BY <1>5, <1>7, <1>9, <2>2, <3>2 DEF Oldest, Other
  <2> QED
    BY <1>10, <2>1, <2>2
<1>12. connected' = (Oldest' = "onDisconnected")
  BY <1>3, <1>4, <1>5, <1>11 DEF Handlers
<1>13. EventsInOrder'
  BY <1>3, <1>11, <1>12 DEF Order, EventsInOrder, HandlerOf, Other
<1>14. InOrder(y, o)'
  <2>1. pc'[y] \in {"out", "regDone", "waitDone", "woken"} /\ pc'[o] \in {"scroll", "out"}
    BY <1>4, <1>6
  <2>2. pc'[o] = "scroll" => pc[y] # "out"
    BY <1>1, <1>6 DEF Two, Busy
  <2> QED
    BY <1>3, <1>6, <2>1, <2>2 DEF InOrder, Ahead
<1>15. Handlers = {y, o}
  BY <1>1 DEF Two
<1>16. HandlersInOrder'
  BY <1>5, <1>11, <1>14, <1>15, OrderOfTwo
<1> QED
  BY <1>13, <1>16 DEF Order

-----------------------------------------------------------------------------
(* The last handler to end is that of the last event.                      *)

\* Once a queue has overflowed, or the end of an animation has been missed, the handlers
\* may end in any order.
OrderInv == CallsInv /\ (lost \/ missed \/ Order)

LEMMA InitOrder == Init => OrderInv
<1> SUFFICES ASSUME Init PROVE Order
  BY InitCalls DEF OrderInv
<1>1. /\ link = FALSE /\ connected = FALSE /\ evt_queue = <<>> /\ Len(evt_queue) = 0
      /\ \A h \in Handlers : pc[h] = "out" /\ queued[h] = 0
  BY DEF Init, Fibers, Handlers
<1>2. Delivered = "onDisconnected" /\ Other(Delivered) = "onConnected"
  BY <1>1 DEF Delivered, HandlerOf, Other
<1>3. \A h \in Handlers : Pending(h) = 0
  BY <1>1 DEF Pending, Busy
<1>4. Pending(Delivered) = 0 /\ Pending(Other(Delivered)) = 0
  BY <1>2, <1>3 DEF Handlers
<1>5. Oldest = "onConnected" /\ Other(Oldest) = "onDisconnected"
  BY <1>2, <1>4 DEF Oldest, Other
<1>6. EventsInOrder
  <2>1. \A i \in 1 .. Len(evt_queue) - 1 : evt_queue[i + 1] = Other(evt_queue[i])
    BY <1>1
  <2>2. connected = (Oldest = "onDisconnected")
    BY <1>1, <1>5
  <2>3. Pending(Delivered) - Pending(Other(Delivered)) \in {0, 1}
    BY <1>4
  <2> QED
    BY <1>1, <2>1, <2>2, <2>3 DEF EventsInOrder
<1>7. HandlersInOrder
  BY <1>1, <1>5 DEF HandlersInOrder, Busy, Handlers
<1> QED
  BY <1>6, <1>7 DEF Order

LEMMA NextOrder == OrderInv /\ [Next]_vars => OrderInv'
<1> SUFFICES ASSUME OrderInv, [Next]_vars PROVE OrderInv'
  OBVIOUS
<1>1. CallsInv /\ CallsInv'
  BY NextCalls DEF OrderInv
<1>2. (lost => lost') /\ (missed => missed')
  <2>1. CASE UNCHANGED vars
    BY <2>1 DEF vars
  <2>2. CASE Connect \/ Disconnect
    <3>1. missed' = missed
      BY <2>2 DEF Connect, Disconnect, Raise
    <3>2. lost => lost'
      BY <2>2, Zenon DEF Connect, Disconnect, Raise
    <3> QED
      BY <3>1, <3>2
  <2>3. CASE animationUpdate
    BY <2>3, Zenon DEF animationUpdate
  <2>4. CASE Deliver
    <3>1. missed' = missed
      BY <2>4 DEF Deliver
    <3>2. lost => lost'
      <4>1. lost' = lost \/ lost' = (lost \/ queued[Head(evt_queue)] >= Depth)
        BY <2>4, SMT DEF Deliver
      <4> QED
        BY <4>1, Zenon
    <3> QED
      BY <3>1, <3>2
  <2>5. CASE MainWakes \/ Schedule \/ MainSleeps
    BY <2>5 DEF MainWakes, Schedule, MainSleeps
  <2>6. ASSUME NEW h \in Handlers,
               RegisterFree(h) \/ RegisterDone(h) \/ Starts(h) \/ Finish(h) \/ Again(h)
        PROVE  UNCHANGED <<lost, missed>>
    BY <2>6 DEF RegisterFree, RegisterDone, Starts, Finish, Again
  <2> QED
    BY <2>1, <2>2, <2>3, <2>4, <2>5, <2>6 DEF Next, Fiber
<1>3. ASSUME ~lost', ~missed' PROVE Order'
  <2>0. Order
    BY <1>2, <1>3 DEF OrderInv
  <2>1. CASE UNCHANGED vars
    BY <2>0, <2>1 DEF Order, EventsInOrder, HandlersInOrder, Ahead, Oldest, Delivered, Pending,
          Busy, vars, bus, queues
  <2>2. CASE Connect \/ Disconnect
    <3>1. Connect => Raise(HandlerOf(TRUE), TRUE)
      BY DEF Connect, HandlerOf
    <3>2. Disconnect => Raise(HandlerOf(FALSE), FALSE)
      BY DEF Disconnect, HandlerOf
    <3> QED
      BY <1>1, <1>3, <2>0, <2>2, <3>1, <3>2, RaiseOrder
  <2>3. CASE animationUpdate \/ MainWakes \/ Schedule \/ Deliver \/ MainSleeps
    BY <1>1, <1>3, <2>0, <2>3, EndOrder, MainOrder, ScheduleOrder, DeliverOrder
  <2>4. ASSUME NEW h \in Handlers,
               RegisterFree(h) \/ RegisterDone(h) \/ Starts(h) \/ Finish(h) \/ Again(h)
        PROVE  Order'
    BY <1>1, <2>0, <2>4, RegisterFreeOrder, RegisterDoneOrder, StartsOrder, FinishOrder, AgainOrder
  <2> QED
    BY <2>1, <2>2, <2>3, <2>4 DEF Next, Fiber
<1> QED
  BY <1>1, <1>3 DEF OrderInv

\* With nothing left to do the last handler that ended is that of the last event.
LEMMA QuietIsTrue == OrderInv => ConnectedIsTrue
<1> SUFFICES ASSUME CallsInv, Order, Quiet PROVE connected = link
  BY DEF OrderInv, ConnectedIsTrue
<1>1. link \in BOOLEAN /\ connected = (Oldest = "onDisconnected")
  BY DEF CallsInv, TypeOK, Order, EventsInOrder
<1>2. Delivered = HandlerOf(link) /\ Delivered \in Handlers /\ Other(Delivered) \in Handlers
  BY <1>1, OtherHandlers DEF Quiet, Delivered
<1>3. Pending(Delivered) = 0 /\ Pending(Other(Delivered)) = 0
  BY <1>2, PendingEvents DEF Quiet
<1>4. Oldest = Other(HandlerOf(link))
  BY <1>2, <1>3 DEF Oldest
<1> QED
  BY <1>1, <1>4 DEF Other, HandlerOf

\* However often the link comes and goes while the handlers wait for the display, when
\* all of them have ended the application knows whether it is connected, unless an event
\* was dropped or an end of an animation missed (onConnected, onDisconnected).
THEOREM HandlersEndInOrder == Spec => []ConnectedIsTrue
<1>1. Init => OrderInv
  BY InitOrder
<1>2. OrderInv /\ [Next]_vars => OrderInv'
  BY NextOrder
<1>3. OrderInv => ConnectedIsTrue
  BY QuietIsTrue
<1> QED
  BY <1>1, <1>2, <1>3, PTL DEF Spec

-----------------------------------------------------------------------------
(* The display.                                                            *)

Animations ==
    [mode : Screen!Kinds, length : Nat, stride : Int, char : Nat,
     position : -Half .. Half - 1, rendered : BOOLEAN]

ScreenTypes ==
    /\ RUNNING \in BOOLEAN /\ animation \in Animations
    /\ place \in [Callers -> Screen!PCs] /\ owner \subseteq Callers /\ stranded \subseteq Callers
    /\ wanted \in [Callers -> Effects \cup {Screen!None}]
    /\ queue \in Queue(Callers) /\ ToSet(queue) = {f \in Callers : place[f] = "free"}

\* Until a fiber waits for the end of its animation nobody else begins one.
Begun == \A f \in Callers : place[f] = "begun" /\ Screen!Busy => owner = {f}

ScreenInv == ScreenTypes /\ Begun /\ Screen!AnimationsQueue

\* No animation, too, has its types.
LEMMA OverTyped == Screen!Over \in Animations
<1>1. 0 \in -Half .. Half - 1
  BY DisplayAssumption DEF Screen!ConstantsOK
<1> QED
  BY <1>1 DEF Screen!Over, Animations, Screen!Kinds

\* What begins is an animation of the effect's kind, ...
LEMMA BeginTyped ==
    ASSUME NEW e \in Effects \cup {Screen!None}, e.mode # "NONE"
    PROVE  Screen!Begin(e) \in Animations /\ Screen!Begin(e).mode # "NONE"
<1>1. /\ e \in [mode : Screen!Kinds, length : 0 .. Half, stride : Int, start : -Half .. Half - 1]
      /\ WIDTH \in Nat \ {0} /\ Half \in Nat /\ Half > 2 * WIDTH
  BY DisplayAssumption DEF Screen!ConstantsOK, Screen!None
<1>2. /\ e.mode \in Screen!Modes /\ e.length \in 0 .. Half /\ e.stride \in Int
      /\ e.start \in -Half .. Half - 1
  BY <1>1 DEF Screen!Kinds
<1>3. /\ Screen!Over \in Animations /\ e.mode \in Screen!Kinds
      /\ e.length \in Nat /\ -e.stride \in Int
  BY <1>1, <1>2, OverTyped DEF Screen!Kinds
<1>4. CASE e.mode = "PRINT_CHARACTER"
  <2>1. Screen!Begin(e) = Screen!printCharAsync(e)
    BY <1>4 DEF Screen!Begin
  <2>2. Screen!printCharAsync(e) \in Animations /\ Screen!printCharAsync(e).mode = e.mode
    BY <1>2, <1>3 DEF Screen!printCharAsync, Animations
  <2> QED
    BY <2>1, <2>2
<1>5. CASE e.mode = "PRINT_TEXT"
  <2>1. Screen!Begin(e) = Screen!printAsync(e)
    BY <1>5 DEF Screen!Begin
  <2>2. Screen!printAsync(e) \in Animations /\ Screen!printAsync(e).mode = e.mode
    BY <1>2, <1>3 DEF Screen!printAsync, Animations
  <2> QED
    BY <2>1, <2>2
<1>6. CASE e.mode = "SCROLL_TEXT"
  <2>1. Screen!Begin(e) = Screen!scrollAsync(e)
    BY <1>6 DEF Screen!Begin
  <2>2. WIDTH - 1 \in -Half .. Half - 1
    BY <1>1
  <2>3. Screen!scrollAsync(e) \in Animations /\ Screen!scrollAsync(e).mode = e.mode
    BY <1>2, <1>3, <2>2 DEF Screen!scrollAsync, Animations
  <2> QED
    BY <2>1, <2>3
<1>7. CASE e.mode = "SCROLL_IMAGE"
  <2>1. Screen!Begin(e) = Screen!scrollImageAsync(e)
    BY <1>7 DEF Screen!Begin
  <2>2. PICK from \in -Half .. Half - 1 : from = IF e.stride < 0 THEN WIDTH ELSE -e.length
    <3>1. (IF e.stride < 0 THEN WIDTH ELSE -e.length) \in -Half .. Half - 1
      BY <1>1, <1>2
    <3> QED
      BY <3>1
  <2>3. Screen!scrollImageAsync(e) =
            [Screen!Over EXCEPT !.mode = e.mode, !.length = e.length, !.stride = e.stride,
                                !.position = from]
    BY <2>2 DEF Screen!scrollImageAsync
  <2>4. Screen!scrollImageAsync(e) \in Animations /\ Screen!scrollImageAsync(e).mode = e.mode
    BY <1>2, <1>3, <2>3 DEF Animations
  <2> QED
    BY <2>1, <2>4
<1>8. CASE e.mode = "ANIMATE_IMAGE"
  <2>1. Screen!Begin(e) = Screen!animateAsync(e)
    BY <1>8 DEF Screen!Begin
  <2>2. Screen!animateAsync(e) \in Animations /\ Screen!animateAsync(e).mode = e.mode
    BY <1>2, <1>3 DEF Screen!animateAsync, Animations
  <2> QED
    BY <2>1, <2>2
<1> QED
  BY <1>2, <1>4, <1>5, <1>6, <1>7, <1>8 DEF Screen!Modes

\* ... and an update ends it or moves it on.
LEMMA UpdatedTyped ==
    ASSUME NEW a \in Animations, a.mode # "NONE"
    PROVE  /\ Screen!Updated(a) \in Animations
           /\ Screen!Updated(a) = Screen!Over \/ Screen!Updated(a).mode # "NONE"
<1>1. /\ WIDTH \in Nat \ {0} /\ SPACING \in Nat \ {0} /\ Half \in Nat
      /\ Half > 2 * WIDTH /\ Half >= WIDTH + SPACING
  BY DisplayAssumption DEF Screen!ConstantsOK
<1>2. /\ a.mode \in Screen!Modes /\ a.length \in Nat /\ a.stride \in Int /\ a.char \in Nat
      /\ a.position \in -Half .. Half - 1 /\ a.rendered \in BOOLEAN
  BY DEF Animations, Screen!Kinds
<1>3. Screen!Over \in Animations
  BY OverTyped
<1>4. ASSUME NEW n \in Int PROVE Screen!Wrap(n) \in -Half .. Half - 1
  <2>1. PICK m \in Nat : m = 2 * Half /\ m > 0
    BY <1>1
  <2>2. (n + Half) % m \in 0 .. m - 1
    BY <1>1, <2>1
  <2> QED
    BY <1>1, <2>1, <2>2 DEF Screen!Wrap
<1>6. Screen!Shifted(a) \in Animations /\ Screen!Shifted(a).mode # "NONE"
  <2>1. PICK q \in -Half .. Half - 1 : q = Screen!Wrap(a.position + a.stride)
    BY <1>1, <1>2, <1>4
  <2>2. Screen!Shifted(a) = [a EXCEPT !.position = q, !.rendered = TRUE]
    BY <2>1 DEF Screen!Shifted
  <2> QED
    BY <1>2, <2>2 DEF Animations
<1>7. CASE a.mode = "PRINT_CHARACTER"
  BY <1>3, <1>7 DEF Screen!Updated
<1>8. CASE a.mode = "PRINT_TEXT"
  <2>1. ASSUME NEW b, b = [a EXCEPT !.char = a.char + 1]
        PROVE  b \in Animations /\ b.mode # "NONE"
    BY <1>2, <2>1 DEF Animations
  <2>2. Screen!Updated(a) \in {Screen!Over, [a EXCEPT !.char = a.char + 1]}
    BY <1>8 DEF Screen!Updated, Screen!updatePrintText
  <2> QED
    BY <1>3, <2>1, <2>2
<1>9. CASE a.mode = "SCROLL_TEXT"
  <2>1. ASSUME NEW b, b = [a EXCEPT !.position = 0, !.char = a.char + 1]
        PROVE  b \in Animations /\ b.mode # "NONE"
    <3>1. PICK q \in -Half .. Half - 1 : q = 0
      BY <1>1
    <3>2. PICK c \in Nat : c = a.char + 1
      BY <1>2
    <3>3. b = [a EXCEPT !.position = q, !.char = c]
      BY <2>1, <3>1, <3>2
    <3> QED
      BY <1>2, <3>3 DEF Animations
  <2>2. ASSUME NEW b, a.position + 1 < WIDTH + SPACING, b = [a EXCEPT !.position = a.position + 1]
        PROVE  b \in Animations /\ b.mode # "NONE"
    <3>1. a.position + 1 \in -Half .. Half - 1
      BY <1>1, <1>2, <2>2
    <3> QED
      BY <1>2, <2>2, <3>1 DEF Animations
  <2>3. \/ Screen!Updated(a) = Screen!Over
        \/ Screen!Updated(a) = [a EXCEPT !.position = 0, !.char = a.char + 1]
        \/ /\ a.position + 1 < WIDTH + SPACING
           /\ Screen!Updated(a) = [a EXCEPT !.position = a.position + 1]
    BY <1>9 DEF Screen!Updated, Screen!updateScrollText
  <2> QED
    BY <1>3, <2>1, <2>2, <2>3
<1>10. CASE a.mode = "SCROLL_IMAGE"
  <2>1. Screen!Updated(a) \in {Screen!Over, Screen!Shifted(a)}
    BY <1>10 DEF Screen!Updated, Screen!updateScrollImage
  <2> QED
    BY <1>3, <1>6, <2>1
<1>11. CASE a.mode = "ANIMATE_IMAGE"
  <2>1. Screen!Updated(a) \in {Screen!Over, Screen!Shifted(a)}
    BY <1>11 DEF Screen!Updated, Screen!updateAnimateImage
  <2> QED
    BY <1>3, <1>6, <2>1
<1> QED
  BY <1>2, <1>7, <1>8, <1>9, <1>10, <1>11 DEF Screen!Modes

LEMMA ScreenInit == Screen!Init => ScreenInv
<1> SUFFICES ASSUME Screen!Init PROVE ScreenInv
  OBVIOUS
<1>1. place = [f \in Callers |-> "idle"] /\ queue = <<>>
  BY DEF Screen!Init
<1>2. queue \in Queue(Callers) /\ ToSet(queue) = {}
  BY <1>1, ShortQueues
<1>3. place \in [Callers -> Screen!PCs]
  BY <1>1 DEF Screen!PCs
<1>4. ScreenTypes
  BY <1>1, <1>2, <1>3, OverTyped DEF Screen!Init, ScreenTypes
<1>5. Begun /\ Screen!AnimationsQueue
  BY <1>1 DEF Begun, Screen!AnimationsQueue
<1> QED
  BY <1>4, <1>5 DEF ScreenInv

LEMMA QueuedSet == ASSUME ScreenTypes PROVE Screen!Queued = {f \in Callers : place[f] = "free"}
BY DEF ScreenTypes, Screen!Queued, ToSet

\* The events: who has waited for the end of his animation goes on, those in w are
\* woken, and the others stay where they are.
LEMMA WakeQueue ==
    ASSUME ScreenTypes, NEW w \in SUBSET Callers, NEW places, Screen!Wake(w, places),
           places \in [Callers -> Screen!PCs],
           \A f \in Callers : places[f] = "free" <=> place[f] = "free"
    PROVE  /\ place' \in [Callers -> Screen!PCs] /\ stranded' \subseteq Callers
           /\ stranded' = stranded \ (w \cup {f \in Callers : place[f] = "shown"})
           /\ queue' \in Queue(Callers) /\ ToSet(queue') = {f \in Callers : place'[f] = "free"}
           /\ \A f \in Callers : place'[f] = IF place[f] = "shown" THEN "idle"
                                             ELSE IF f \in w THEN "woken" ELSE places[f]
<1>1. /\ place' = [f \in Callers |-> IF place[f] = "shown" THEN "idle"
                                     ELSE IF f \in w THEN "woken" ELSE places[f]]
      /\ queue' = OnlyIn(queue, Callers \ w)
      /\ stranded' = stranded \ (w \cup {f \in Callers : place[f] = "shown"})
  BY DEF Screen!Wake, Screen!OnlyIn, OnlyIn
<1>2. \A f \in Callers : place'[f] = IF place[f] = "shown" THEN "idle"
                                     ELSE IF f \in w THEN "woken" ELSE places[f]
  BY <1>1
<1>3. place' \in [Callers -> Screen!PCs]
  BY <1>1 DEF Screen!PCs, Screen!Asleep
<1>4. queue' \in Queue(Callers) /\ ToSet(queue') = ToSet(queue) \cap (Callers \ w)
  BY <1>1, OnlyInQueue DEF ScreenTypes
<1>5. ToSet(queue') = {f \in Callers : place'[f] = "free"}
  BY <1>2, <1>4 DEF ScreenTypes
<1> QED
  BY <1>1, <1>2, <1>3, <1>4, <1>5 DEF ScreenTypes

\* The animation moves on or ends.
LEMMA ScreenUpdate ==
    ASSUME ScreenInv, Screen!animationUpdate
    PROVE  ScreenInv'
<1> USE DEF ScreenInv
<1>1. /\ Screen!Busy /\ animation' = Screen!Updated(animation)
      /\ RUNNING' = RUNNING /\ wanted' = wanted
  BY DEF Screen!animationUpdate
<1>2. /\ animation' \in Animations
      /\ animation' # Screen!Over => Screen!Busy'
  BY <1>1, UpdatedTyped DEF ScreenTypes, Screen!Busy
<1>3. CASE animation' # Screen!Over
  <2>1. UNCHANGED <<owner, place, queue, stranded>>
    BY <1>3 DEF Screen!animationUpdate
  <2>2. ScreenTypes'
    BY <1>1, <1>2, <2>1 DEF ScreenTypes
  <2>3. Begun'
    BY <1>1, <2>1 DEF Begun
  <2>4. Screen!AnimationsQueue'
    BY <1>1, <1>2, <1>3, <2>1 DEF Screen!AnimationsQueue
  <2> QED
    BY <2>2, <2>3, <2>4
<1>4. CASE animation' = Screen!Over
  <2>1. PICK w : w = IF queue = <<>> THEN {} ELSE {Head(queue)}
    OBVIOUS
  <2>2. owner' = {} /\ Screen!Wake(w, place)
    BY <1>4, <2>1 DEF Screen!animationUpdate, Screen!sendAnimationCompleteEvent
  <2>3. /\ w \in SUBSET Callers /\ w \subseteq ToSet(queue)
        /\ w = {} => queue = <<>>
    BY <2>1, HeadIsFirst DEF ScreenTypes
  <2>4. /\ place' \in [Callers -> Screen!PCs] /\ stranded' \subseteq Callers
        /\ stranded' = stranded \ (w \cup {f \in Callers : place[f] = "shown"})
        /\ queue' \in Queue(Callers) /\ ToSet(queue') = {f \in Callers : place'[f] = "free"}
        /\ \A f \in Callers : place'[f] = IF place[f] = "shown" THEN "idle"
                                          ELSE IF f \in w THEN "woken" ELSE place[f]
    <3>1. ScreenTypes
      OBVIOUS
    <3>2. place \in [Callers -> Screen!PCs]
      BY <3>1 DEF ScreenTypes
    <3>3. place' \in [Callers -> Screen!PCs] /\ stranded' \subseteq Callers
      BY <2>2, <2>3, <3>1, <3>2, WakeQueue
    <3>4. stranded' = stranded \ (w \cup {f \in Callers : place[f] = "shown"})
      BY <2>2 DEF Screen!Wake
    <3>5. queue' \in Queue(Callers) /\ ToSet(queue') = {f \in Callers : place'[f] = "free"}
      BY <2>2, <2>3, <3>1, <3>2, WakeQueue
    <3>6. \A f \in Callers : place'[f] = IF place[f] = "shown" THEN "idle"
                                          ELSE IF f \in w THEN "woken" ELSE place[f]
      BY <2>2 DEF Screen!Wake
    <3> QED
      BY <3>3, <3>4, <3>5, <3>6
  <2>5. ScreenTypes'
    BY <1>1, <1>2, <2>2, <2>4 DEF ScreenTypes
  <2>6. ~Screen!Busy'
    BY <1>4 DEF Screen!Busy, Screen!Over
  <2>7. Begun'
    BY <2>6 DEF Begun
  <2>8. ASSUME NEW f \in Callers \ stranded', place'[f] = "free"
        PROVE  \E g \in Callers : place'[g] = "woken"
    <3>1. place[f] = "free" /\ f \in ToSet(queue)
      BY <2>4, <2>8 DEF ScreenTypes
    <3>2. queue # <<>>
      BY <3>1, ShortQueues
    <3>3. PICK g \in w : TRUE
      BY <2>3, <3>2
    <3>4. place[g] = "free" /\ g \in Callers
      BY <2>3, <3>3 DEF ScreenTypes
    <3> QED
      BY <2>4, <3>3, <3>4
  <2>9. \A f \in Callers : place'[f] # "shown"
    BY <2>3, <2>4 DEF ScreenTypes
  <2>10. Screen!AnimationsQueue'
    BY <2>8, <2>9 DEF Screen!AnimationsQueue
  <2> QED
    BY <2>5, <2>7, <2>10
<1> QED
  BY <1>3, <1>4

\* A fiber shows its effect on a free display.
LEMMA ScreenShow ==
    ASSUME ScreenInv, NEW f \in Callers, NEW e \in Effects \cup {Screen!None},
           place[f] \in {"idle", "woken"}, Screen!Has(f, place[f]), Screen!Show(f, e)
    PROVE  ScreenInv'
<1> USE DEF ScreenInv
<1>1. /\ ~Screen!Busy /\ wanted' = [wanted EXCEPT ![f] = Screen!None]
      /\ RUNNING' = RUNNING /\ queue' = queue
      /\ place \in [Callers -> Screen!PCs]
  BY DEF Screen!Show, ScreenTypes
<1>2. wanted' \in [Callers -> Effects \cup {Screen!None}]
  BY <1>1 DEF ScreenTypes
<1>3. \A g \in Callers \ {f} : place[g] # "begun"
  BY DEF Screen!Has, Screen!Inside
<1>4. \A g \in Callers \ stranded : place[g] # "shown"
  BY <1>1 DEF Screen!AnimationsQueue
<1>5. CASE e.mode = "NONE"
  <2>1. /\ place' = [place EXCEPT ![f] = "idle"] /\ animation' = animation /\ owner' = owner
        /\ stranded' = IF \E g \in Callers \ {f} : place[g] = "woken" THEN stranded
                       ELSE stranded \cup {g \in Callers : place[g] = "free"}
    BY <1>5, QueuedSet DEF Screen!Show, Screen!Goto
  <2>2. /\ place' \in [Callers -> Screen!PCs] /\ place'[f] = "idle"
        /\ \A g \in Callers \ {f} : place'[g] = place[g]
    BY <1>1, <2>1 DEF Screen!PCs
  <2>3. stranded \subseteq stranded' /\ stranded' \subseteq Callers
    BY <2>1 DEF ScreenTypes
  <2>4. ToSet(queue') = {g \in Callers : place'[g] = "free"}
    BY <1>1, <2>2 DEF ScreenTypes
  <2>5. ScreenTypes'
    BY <1>1, <1>2, <2>1, <2>2, <2>3, <2>4 DEF ScreenTypes
  <2>6. Begun'
    BY <1>3, <2>2 DEF Begun
  <2>7. ASSUME NEW g \in Callers \ stranded', place'[g] = "free"
        PROVE  \E h \in Callers : place'[h] = "woken"
    <3>1. PICK h \in Callers \ {f} : place[h] = "woken"
      BY <2>1, <2>2, <2>7
    <3> QED
      BY <2>2, <3>1
  <2>8. \A g \in Callers \ stranded' : place'[g] # "shown"
    BY <1>4, <2>2, <2>3
  <2>9. Screen!AnimationsQueue'
    BY <2>7, <2>8 DEF Screen!AnimationsQueue
  <2> QED
    BY <2>5, <2>6, <2>9
<1>6. CASE e.mode # "NONE"
  <2>1. /\ place' = [place EXCEPT ![f] = "begun"] /\ animation' = Screen!Begin(e)
        /\ owner' = {f} /\ stranded' = stranded
    BY <1>6 DEF Screen!Show, Screen!Goto
  <2>2. /\ place' \in [Callers -> Screen!PCs] /\ place'[f] = "begun"
        /\ \A g \in Callers \ {f} : place'[g] = place[g]
    BY <1>1, <2>1 DEF Screen!PCs, Screen!Inside
  <2>3. animation' \in Animations /\ Screen!Busy'
    BY <1>6, <2>1, BeginTyped DEF Screen!Busy
  <2>4. ToSet(queue') = {g \in Callers : place'[g] = "free"}
    BY <1>1, <2>2 DEF ScreenTypes
  <2>5. ScreenTypes'
    BY <1>1, <1>2, <2>1, <2>2, <2>3, <2>4 DEF ScreenTypes
  <2>6. Begun'
    BY <1>3, <2>1, <2>2 DEF Begun
  <2>7. \A g \in Callers \ stranded' : place'[g] # "shown"
    BY <1>4, <2>1, <2>2
  <2>8. Screen!AnimationsQueue'
    BY <2>3, <2>7 DEF Screen!AnimationsQueue
  <2> QED
    BY <2>5, <2>6, <2>8
<1> QED
  BY <1>5, <1>6

\* A fiber that had the processor goes from one place to another and the animation
\* stays as it is.
LEMMA ScreenGoes ==
    ASSUME ScreenInv, NEW f \in Callers, NEW l \in Screen!PCs \ {"free", "begun"},
           place[f] \notin {"free", "woken"}, \A g \in Callers \ {f} : place[g] # "begun",
           place' = [place EXCEPT ![f] = l],
           animation' = animation, owner' = owner, queue' = queue,
           stranded' = stranded \/ stranded' = stranded \cup {f},
           l = "shown" /\ f \notin stranded' => Screen!Busy /\ owner = {f},
           RUNNING' \in BOOLEAN, wanted' \in [Callers -> Effects \cup {Screen!None}]
    PROVE  ScreenInv'
<1> USE DEF ScreenInv
<1>1. /\ place' \in [Callers -> Screen!PCs] /\ place'[f] = l
      /\ \A g \in Callers \ {f} : place'[g] = place[g]
  BY DEF ScreenTypes
<1>2. ToSet(queue') = {g \in Callers : place'[g] = "free"}
  BY <1>1 DEF ScreenTypes
<1>3. stranded' \subseteq Callers /\ stranded \subseteq stranded'
  BY DEF ScreenTypes
<1>4. ScreenTypes'
  BY <1>1, <1>2, <1>3 DEF ScreenTypes
<1>5. Begun'
  BY <1>1 DEF Begun
<1>6. Screen!Busy' = Screen!Busy
  BY DEF Screen!Busy
<1>7. ASSUME NEW g \in Callers \ stranded', place'[g] = "free"
      PROVE  Screen!Busy' \/ \E h \in Callers : place'[h] = "woken"
  <2>1. g # f /\ place[g] = "free"
    BY <1>1, <1>7
  <2>2. Screen!Busy \/ \E h \in Callers : place[h] = "woken"
    BY <1>3, <2>1 DEF Screen!AnimationsQueue
  <2> QED
    BY <1>1, <1>6, <2>2
<1>8. ASSUME NEW g \in Callers \ stranded', place'[g] = "shown"
      PROVE  Screen!Busy' /\ owner' = {g}
  BY <1>1, <1>3, <1>6, <1>8 DEF Screen!AnimationsQueue
<1>9. Screen!AnimationsQueue'
  BY <1>7, <1>8 DEF Screen!AnimationsQueue
<1> QED
  BY <1>4, <1>5, <1>9

LEMMA ScreenStep ==
    ASSUME ScreenInv, Screen!Next
    PROVE  ScreenInv'
<1> USE DEF ScreenInv
<1>1. CASE Screen!animationUpdate
  BY <1>1, ScreenUpdate
<1>2. ASSUME NEW f \in Callers, NEW e \in Effects, Screen!Call(f, e) PROVE ScreenInv'
  <2>1. Screen!Has(f, "idle") /\ place[f] = "idle"
    BY <1>2 DEF Screen!Call, Screen!Has
  <2>2. CASE Screen!Show(f, e)
    BY <2>1, <2>2, ScreenShow
  <2>3. CASE ~Screen!Show(f, e)
    <3>1. /\ wanted' = [wanted EXCEPT ![f] = e] /\ place' = [place EXCEPT ![f] = "register"]
          /\ animation' = animation /\ owner' = owner /\ queue' = queue
          /\ stranded' = stranded /\ RUNNING' = RUNNING
      BY <1>2, <2>3 DEF Screen!Call, Screen!Goto
    <3>2. \A g \in Callers \ {f} : place[g] # "begun"
      BY <2>1 DEF Screen!Has, Screen!Inside
    <3>3. /\ RUNNING' \in BOOLEAN /\ wanted' \in [Callers -> Effects \cup {Screen!None}]
          /\ "register" \in Screen!PCs \ {"free", "begun"}
      BY <3>1 DEF ScreenTypes, Screen!PCs, Screen!Inside
    <3> QED
      BY <2>1, <3>1, <3>2, <3>3, ScreenGoes
  <2> QED
    BY <2>2, <2>3
<1>3. ASSUME NEW f \in Callers, NEW e \in Effects, Screen!Async(f, e) PROVE ScreenInv'
  <2>1. /\ ~Screen!Busy /\ e.mode # "NONE" /\ animation' = Screen!Begin(e)
        /\ UNCHANGED <<RUNNING, owner, place, wanted, queue, stranded>>
        /\ \A g \in Callers : place[g] # "begun"
    BY <1>3 DEF Screen!Async, Screen!Has, Screen!Inside
  <2>2. animation' \in Animations /\ Screen!Busy'
    BY <2>1, BeginTyped DEF Screen!Busy
  <2>3. ScreenTypes'
    BY <2>1, <2>2 DEF ScreenTypes
  <2>4. Begun' /\ Screen!AnimationsQueue'
    BY <2>1, <2>2 DEF Begun, Screen!AnimationsQueue
  <2> QED
    BY <2>3, <2>4
<1>4. ASSUME NEW f \in Callers, Screen!waitForFreeDisplay(f) PROVE ScreenInv'
  <2>1. /\ place[f] = "register" /\ place' = [place EXCEPT ![f] = "free"]
        /\ queue' = Append(queue, f)
        /\ stranded' = IF Screen!Busy THEN stranded ELSE stranded \cup {f}
        /\ UNCHANGED <<RUNNING, animation, owner, wanted>>
        /\ \A g \in Callers \ {f} : place[g] # "begun"
    BY <1>4 DEF Screen!waitForFreeDisplay, Screen!Has, Screen!Goto, Screen!Inside
  <2>2. /\ place' \in [Callers -> Screen!PCs] /\ place'[f] = "free"
        /\ \A g \in Callers \ {f} : place'[g] = place[g]
    BY <2>1 DEF ScreenTypes, Screen!PCs, Screen!Asleep
  <2>3. queue' \in Queue(Callers) /\ ToSet(queue') = ToSet(queue) \cup {f}
    BY <2>1, AppendQueue DEF ScreenTypes
  <2>4. ToSet(queue') = {g \in Callers : place'[g] = "free"}
    BY <2>2, <2>3 DEF ScreenTypes
  <2>5. stranded \subseteq stranded' /\ stranded' \subseteq Callers
    BY <2>1 DEF ScreenTypes
  <2>6. ScreenTypes'
    BY <2>1, <2>2, <2>3, <2>4, <2>5 DEF ScreenTypes
  <2>7. Screen!Busy' = Screen!Busy
    BY <2>1 DEF Screen!Busy
  <2>8. Begun'
    BY <2>1, <2>2 DEF Begun
  <2>9. ASSUME NEW g \in Callers \ stranded', place'[g] = "free"
        PROVE  Screen!Busy' \/ \E h \in Callers : place'[h] = "woken"
    <3>1. CASE g = f
      BY <2>1, <2>7, <2>9, <3>1
    <3>2. CASE g # f
      <4>1. Screen!Busy \/ \E h \in Callers : place[h] = "woken"
        BY <2>2, <2>5, <2>9, <3>2 DEF Screen!AnimationsQueue
      <4> QED
        BY <2>1, <2>2, <2>7, <4>1
    <3> QED
      BY <3>1, <3>2
  <2>10. ASSUME NEW g \in Callers \ stranded', place'[g] = "shown"
         PROVE  Screen!Busy' /\ owner' = {g}
    BY <2>1, <2>2, <2>5, <2>7, <2>10 DEF Screen!AnimationsQueue
  <2>11. Screen!AnimationsQueue'
    BY <2>9, <2>10 DEF Screen!AnimationsQueue
  <2> QED
    BY <2>6, <2>8, <2>11
<1>5. ASSUME NEW f \in Callers, Screen!fiberWait(f) PROVE ScreenInv'
  <2>1. /\ place[f] = "begun" /\ place' = [place EXCEPT ![f] = "shown"]
        /\ stranded' = IF Screen!Busy THEN stranded ELSE stranded \cup {f}
        /\ animation' = animation /\ owner' = owner /\ queue' = queue
        /\ RUNNING' = RUNNING /\ wanted' = wanted
        /\ \A g \in Callers \ {f} : place[g] # "begun"
    BY <1>5 DEF Screen!fiberWait, Screen!Has, Screen!Goto, Screen!Inside
  <2>2. f \notin stranded' => Screen!Busy /\ owner = {f}
    BY <2>1 DEF Begun
  <2>3. "shown" \in Screen!PCs \ {"free", "begun"}
    BY DEF Screen!PCs, Screen!Asleep
  <2>4. RUNNING' \in BOOLEAN /\ wanted' \in [Callers -> Effects \cup {Screen!None}]
    BY <2>1 DEF ScreenTypes
  <2> QED
    BY <2>1, <2>2, <2>3, <2>4, ScreenGoes
<1>6. ASSUME NEW f \in Callers, Screen!stopAnimation(f) PROVE ScreenInv'
  <2> DEFINE left == [place EXCEPT ![f] = "idle"]
  <2>1. /\ place[f] = "stopping" /\ animation' = Screen!Over /\ owner' = {}
        /\ Screen!Wake(Screen!Queued, left)
        /\ RUNNING' = RUNNING /\ wanted' = wanted
    BY <1>6 DEF Screen!stopAnimation, Screen!Has
  <2>2. /\ left \in [Callers -> Screen!PCs] /\ Screen!Queued \in SUBSET Callers
        /\ \A g \in Callers : left[g] = "free" <=> place[g] = "free"
        /\ \A g \in Callers \ {f} : left[g] = place[g]
    BY <2>1, QueuedSet DEF ScreenTypes, Screen!PCs
  <2> HIDE DEF left
  <2>3. /\ place' \in [Callers -> Screen!PCs] /\ stranded' \subseteq Callers
        /\ queue' \in Queue(Callers) /\ ToSet(queue') = {g \in Callers : place'[g] = "free"}
        /\ \A g \in Callers : place'[g] = IF place[g] = "shown" THEN "idle"
                                          ELSE IF g \in Screen!Queued THEN "woken" ELSE left[g]
    <3>1. ScreenTypes
      OBVIOUS
    <3>2. PICK w : w = Screen!Queued
      OBVIOUS
    <3>3. PICK l : l = left
      OBVIOUS
    <3>4. w \in SUBSET Callers /\ Screen!Wake(w, l)
      BY <2>1, <2>2, <3>2, <3>3
    <3>5. l \in [Callers -> Screen!PCs] /\ \A g \in Callers : l[g] = "free" <=> place[g] = "free"
      BY <2>2, <3>3
    <3>6. /\ place' \in [Callers -> Screen!PCs] /\ stranded' \subseteq Callers
          /\ queue' \in Queue(Callers) /\ ToSet(queue') = {g \in Callers : place'[g] = "free"}
          /\ \A g \in Callers : place'[g] = IF place[g] = "shown" THEN "idle"
                                            ELSE IF g \in w THEN "woken" ELSE l[g]
      <4>1. place' \in [Callers -> Screen!PCs] /\ stranded' \subseteq Callers
        BY <3>1, <3>4, <3>5, WakeQueue
      <4>2. queue' \in Queue(Callers)
        BY <3>1, <3>4, <3>5, WakeQueue
      <4>3. ToSet(queue') = {g \in Callers : place'[g] = "free"}
        BY <3>1, <3>4, <3>5, WakeQueue
      <4>4. \A g \in Callers : place'[g] = IF place[g] = "shown" THEN "idle"
                                            ELSE IF g \in w THEN "woken" ELSE l[g]
        BY <3>4 DEF Screen!Wake
      <4> QED
        BY <4>1, <4>2, <4>3, <4>4
    <3> QED
      BY <3>2, <3>3, <3>6
  <2>4. ScreenTypes'
    BY <2>1, <2>3, OverTyped DEF ScreenTypes
  <2>5. ~Screen!Busy'
    BY <2>1 DEF Screen!Busy, Screen!Over
  <2>6. Begun'
    BY <2>5 DEF Begun
  <2>7. \A g \in Callers : place'[g] \notin {"free", "shown"}
    <3> SUFFICES ASSUME NEW g \in Callers PROVE place'[g] \notin {"free", "shown"}
      OBVIOUS
    <3>1. left[g] = "free" => g \in Screen!Queued
      BY <2>2, QueuedSet
    <3>2. left[g] = "shown" => place[g] = "shown"
      BY <2>2 DEF left, ScreenTypes
    <3> QED
      BY <2>3, <3>1, <3>2
  <2>8. Screen!AnimationsQueue'
    BY <2>7 DEF Screen!AnimationsQueue
  <2> QED
    BY <2>4, <2>6, <2>8
<1>7. ASSUME NEW f \in Callers, Screen!Woken(f) PROVE ScreenInv'
  <2>1. Screen!Has(f, "woken") /\ place[f] = "woken"
    BY <1>7 DEF Screen!Woken, Screen!Has
  <2>2. CASE Screen!Show(f, wanted[f])
    <3>1. wanted[f] \in Effects \cup {Screen!None}
      BY DEF ScreenTypes
    <3> QED
      BY <2>1, <2>2, <3>1, ScreenShow
  <2>3. CASE ~Screen!Show(f, wanted[f])
    <3>1. /\ Screen!Busy /\ wanted' = [wanted EXCEPT ![f] = Screen!None]
          /\ place' = [place EXCEPT ![f] = "idle"] /\ animation' = animation /\ owner' = owner
          /\ queue' = queue /\ stranded' = stranded /\ RUNNING' = RUNNING
          /\ \A g \in Callers \ {f} : place[g] # "begun"
      BY <1>7, <2>1, <2>3 DEF Screen!Woken, Screen!Goto, Screen!Has, Screen!Inside
    <3>2. /\ place' \in [Callers -> Screen!PCs] /\ place'[f] = "idle"
          /\ \A g \in Callers \ {f} : place'[g] = place[g]
      BY <3>1 DEF ScreenTypes, Screen!PCs
    <3>3. ToSet(queue') = {g \in Callers : place'[g] = "free"}
      BY <2>1, <3>1, <3>2 DEF ScreenTypes
    <3>4. wanted' \in [Callers -> Effects \cup {Screen!None}]
      BY <3>1 DEF ScreenTypes
    <3>5. ScreenTypes'
      BY <3>1, <3>2, <3>3, <3>4 DEF ScreenTypes
    <3>6. Screen!Busy'
      BY <3>1 DEF Screen!Busy
    <3>7. Begun'
      BY <3>1, <3>2 DEF Begun
    <3>8. Screen!AnimationsQueue'
      BY <3>1, <3>2, <3>6 DEF Screen!AnimationsQueue
    <3> QED
      BY <3>5, <3>7, <3>8
  <2> QED
    BY <2>2, <2>3
<1>8. ASSUME NEW f \in Callers, Screen!StopTest(f) PROVE ScreenInv'
  <2>1. /\ place[f] = "idle" /\ place' = [place EXCEPT ![f] = "stopping"]
        /\ animation' = animation /\ owner' = owner /\ queue' = queue /\ stranded' = stranded
        /\ RUNNING' = RUNNING /\ wanted' = wanted
        /\ \A g \in Callers \ {f} : place[g] # "begun"
    BY <1>8 DEF Screen!StopTest, Screen!Has, Screen!Goto, Screen!Inside
  <2>2. /\ "stopping" \in Screen!PCs \ {"free", "begun"} /\ RUNNING' \in BOOLEAN
        /\ wanted' \in [Callers -> Effects \cup {Screen!None}]
    BY <2>1 DEF Screen!PCs, Screen!Inside, ScreenTypes
  <2> QED
    BY <2>1, <2>2, ScreenGoes
<1>9. ASSUME NEW f \in Callers, Screen!setEnable(f) PROVE ScreenInv'
  <2>1. /\ RUNNING' \in BOOLEAN /\ UNCHANGED <<animation, owner, place, wanted, queue, stranded>>
    BY <1>9 DEF Screen!setEnable, ScreenTypes
  <2>2. ScreenTypes'
    BY <2>1 DEF ScreenTypes
  <2>3. Begun' /\ Screen!AnimationsQueue'
    BY <2>1 DEF Begun, Screen!AnimationsQueue, Screen!Busy
  <2> QED
    BY <2>2, <2>3
<1> QED
  BY <1>1, <1>2, <1>3, <1>4, <1>5, <1>6, <1>7, <1>8, <1>9 DEF Screen!Next, Screen!Goes

LEMMA ScreenInvariance == DisplaySpec => []ScreenInv
<1> DEFINE v == <<part, vars, displayVars>>
<1>1. DisplayInit => ScreenInv
  BY ScreenInit DEF DisplayInit
<1>2. ScreenInv /\ [DisplayNext]_v => ScreenInv'
  <2>1. UNCHANGED v => UNCHANGED displayVars
    OBVIOUS
  <2>2. DisplayNext => UNCHANGED displayVars \/ Screen!Next
    BY DEF DisplayNext, Others
  <2>3. ASSUME ScreenInv, UNCHANGED displayVars PROVE ScreenInv'
    <3>1. UNCHANGED <<RUNNING, animation, owner, place, wanted, queue, stranded>>
      BY <2>3 DEF displayVars
    <3>2. ScreenTypes'
      BY <2>3, <3>1 DEF ScreenInv, ScreenTypes
    <3>3. Begun' /\ Screen!AnimationsQueue'
      BY <2>3, <3>1 DEF ScreenInv, Begun, Screen!AnimationsQueue, Screen!Busy
    <3> QED
      BY <3>2, <3>3 DEF ScreenInv
  <2> QED
    BY <2>1, <2>2, <2>3, ScreenStep
<1> QED
  BY <1>1, <1>2, PTL DEF DisplaySpec

\* A queue has as many places as there are fibers in it.
LEMMA QueueLength ==
    ASSUME NEW A, NEW q \in Queue(A)
    PROVE  Cardinality(ToSet(q)) = Len(q)
<1>1. Len(q) \in Nat /\ DOMAIN q = 1 .. Len(q)
  BY InQueue DEF Queue
<1>2. \A k, l \in 1 .. Len(q) : q[k] = q[l] => k = l
  BY <1>1 DEF Queue, IsInjective
<1>3. q \in Bijection(1 .. Len(q), ToSet(q))
  <2>1. q \in Seq(A) /\ \A i \in 1 .. Len(q) : q[i] \in ToSet(q)
    BY <1>1 DEF Queue, ToSet
  <2>2. q \in [1 .. Len(q) -> ToSet(q)]
    BY <1>1, <2>1
  <2>3. \A g \in ToSet(q) : \E i \in 1 .. Len(q) : q[i] = g
    BY <1>1 DEF ToSet
  <2> QED
    BY <1>2, <2>2, <2>3 DEF Bijection, Injection, Surjection, IsInjective
<1>4. IsFiniteSet(1 .. Len(q)) /\ Cardinality(1 .. Len(q)) = Len(q)
  <2>1. \A b \in Int : /\ IsFiniteSet(1 .. b)
                       /\ Cardinality(1 .. b) = IF 1 > b THEN 0 ELSE b - 1 + 1
    BY FS_Interval
  <2> QED
    BY <1>1, <2>1
<1> QED
  BY <1>3, <1>4, FS_Bijection DEF ExistsBijection

\* Both the handlers' and the display's variables keep their types, whatever is shown
\* and however it moves: the position wraps and stays a position, and the fibers that
\* wait for the display are those in its queue, each once.
THEOREM DisplayTyped == DisplaySpec => []DisplayTypeOK
<1> DEFINE v == <<part, vars, displayVars>>
<1>1. DisplayInit => CallsInv
  BY InitCalls DEF DisplayInit
<1>2. CallsInv /\ [DisplayNext]_v => CallsInv'
  <2>1. UNCHANGED v => UNCHANGED vars
    OBVIOUS
  <2>2. DisplayNext => [Next]_vars
    BY DEF DisplayNext, Others
  <2> QED
    BY <2>1, <2>2, NextCalls
<1>3. ScreenInv => Screen!TypeOK
  <2> SUFFICES ASSUME ScreenInv PROVE Screen!TypeOK
    OBVIOUS
  <2>1. ScreenTypes
    BY DEF ScreenInv
  <2>2. animation.mode \in Screen!Kinds /\ animation.position \in -Half .. Half - 1
    BY <2>1 DEF ScreenTypes, Animations
  <2>3. Screen!Queued = {f \in Callers : place[f] = "free"}
    BY <2>1, QueuedSet
  <2>4. Cardinality(Screen!Queued) = Len(queue)
    BY <2>1, <2>3, QueueLength DEF ScreenTypes
  <2>5. Len(queue) = Screen!Cardinality(Screen!Queued)
    <3>1. \A X : Screen!Cardinality(X) = Cardinality(X)
      BY Zenon DEF Screen!Cardinality, Cardinality
    <3> QED
      BY <2>4, <3>1
  <2> QED
    BY <2>1, <2>2, <2>3, <2>5 DEF Screen!TypeOK, ScreenTypes
<1>4. CallsInv => TypeOK
  BY DEF CallsInv
<1> QED
  BY <1>1, <1>2, <1>3, <1>4, ScreenInvariance, PTL DEF DisplaySpec, DisplayTypeOK

\* Whoever waits for the display waits for an animation, or for one who has been woken
\* before him, and whoever waits for the end of his animation has one, but for those
\* who looked before it ended or whose turn was spent on what takes no time
\* (waitForFreeDisplay, fiber_wait_for_event, sendAnimationCompleteEvent).
THEOREM AnimationsAreAwaited == DisplaySpec => []AnimationsQueue
<1>1. ScreenInv => AnimationsQueue
  BY DEF ScreenInv, AnimationsQueue
<1> QED
  BY <1>1, ScreenInvariance, PTL
=============================================================================
