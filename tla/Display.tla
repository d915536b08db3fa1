------------------------------ MODULE Display ------------------------------
(***************************************************************************)
(* The animations of MicroBitDisplay.cpp, for any fibers: print, scroll    *)
(* and animate in their blocking and asynchronous forms, the queue for the *)
(* display, stopAnimation() and enable(), with the update of the animation *)
(* in the timer's interrupt, which comes between any two steps.            *)
(*                                                                         *)
(* A fiber keeps the processor until it sleeps.  What the pixels are is    *)
(* left out; where an animation stands is kept, since that is what ends    *)
(* it.  A tick of the model is one at which animationDelay has passed.     *)
(***************************************************************************)
EXTENDS Integers, FiniteSets, Queues

CONSTANTS
    Fibers,
    Effects,       \* what may be shown
    WIDTH,         \* of the display; the image is twice as wide
    SPACING,       \* MICROBIT_DISPLAY_SPACING
    Half           \* a position is int16_t and wraps from Half - 1 to -Half

\* An effect: the animation it sets up ("NONE" for a delay of zero, or a string of
\* one character), the length of its text or the width of its image, its stride and
\* where an animated image starts.
Modes == {"PRINT_CHARACTER", "PRINT_TEXT", "SCROLL_TEXT", "SCROLL_IMAGE", "ANIMATE_IMAGE"}
Kinds == Modes \cup {"NONE"}

ConstantsOK ==
    /\ WIDTH \in Nat \ {0} /\ SPACING \in Nat \ {0}
    /\ Half \in Nat /\ Half > 2 * WIDTH /\ Half >= WIDTH + SPACING
    /\ Effects \subseteq [mode : Kinds, length : 0 .. Half, stride : Int,
                          start : -Half .. Half - 1]

VARIABLES
    RUNNING,       \* MICROBIT_COMPONENT_RUNNING
    animation,     \* animationMode and where the animation stands
    owner,         \* history: the fiber that waits for its end, or will; {} if none does
    pc,            \* where each fiber is; "idle" in code of its own
    wanted,        \* the effect of its call, until it is shown
    queue,         \* fibers that wait for FREE, in the order of the wait queue
    stranded       \* history: fibers that wait for an event that is over

vars == <<RUNNING, animation, owner, pc, wanted, queue, stranded>>

\* In the middle of a call, with the processor, or asleep, or to be run again.
Inside == {"register", "begun", "stopping"}
Asleep == {"free", "shown"}
PCs == Inside \cup Asleep \cup {"idle", "woken"}

None == [mode |-> "NONE", length |-> 0, stride |-> 0, start |-> 0]
Over == [mode |-> "NONE", length |-> 0, stride |-> 0, char |-> 0, position |-> 0,
         rendered |-> FALSE]
Busy == animation.mode /= "NONE"

Init ==
    /\ RUNNING = TRUE
    /\ animation = Over /\ owner = {}
    /\ pc = [f \in Fibers |-> "idle"] /\ wanted = [f \in Fibers |-> None]
    /\ queue = <<>> /\ stranded = {}

-----------------------------------------------------------------------------
(* Animations.                                                             *)

Wrap(n) == ((n + Half) % (2 * Half)) - Half

\* What each asynchronous call sets up when the display is free.
printCharAsync(e) == [Over EXCEPT !.mode = e.mode]
printAsync(e) == [Over EXCEPT !.mode = e.mode, !.length = e.length]
scrollAsync(e) == [Over EXCEPT !.mode = e.mode, !.length = e.length, !.position = WIDTH - 1]
scrollImageAsync(e) ==
    [Over EXCEPT !.mode = e.mode, !.length = e.length, !.stride = e.stride,
                 !.position = IF e.stride < 0 THEN WIDTH ELSE -e.length]
animateAsync(e) ==
    [Over EXCEPT !.mode = e.mode, !.length = e.length, !.stride = -e.stride,
                 !.position = e.start]

Begin(e) ==
    CASE e.mode = "PRINT_CHARACTER" -> printCharAsync(e)
      [] e.mode = "PRINT_TEXT" -> printAsync(e)
      [] e.mode = "SCROLL_TEXT" -> scrollAsync(e)
      [] e.mode = "SCROLL_IMAGE" -> scrollImageAsync(e)
      [] e.mode = "ANIMATE_IMAGE" -> animateAsync(e)

\* Where an animation stands after an update, or Over.
updateScrollText(a) ==
    IF a.position + 1 < WIDTH + SPACING THEN [a EXCEPT !.position = @ + 1]
    ELSE IF a.char > a.length THEN Over
    ELSE [a EXCEPT !.position = 0, !.char = @ + 1]

updatePrintText(a) == IF a.char > a.length THEN Over ELSE [a EXCEPT !.char = @ + 1]

Pasted(a) == a.position < 2 * WIDTH /\ a.position + a.length > 0
Shifted(a) == [a EXCEPT !.position = Wrap(@ + a.stride), !.rendered = TRUE]

updateScrollImage(a) ==
    IF (~Pasted(a) /\ a.rendered) \/ a.stride = 0 THEN Over ELSE Shifted(a)

updateAnimateImage_UntilLast(a) ==
    IF a.position <= WIDTH + a.stride - a.length /\ a.rendered THEN Over ELSE Shifted(a)
updateAnimateImage(a) ==
    IF (a.position <= WIDTH + a.stride - a.length /\ a.rendered) \/ a.stride = 0
    THEN Over ELSE Shifted(a)

Updated(a) ==
    CASE a.mode = "PRINT_CHARACTER" -> Over
      [] a.mode = "PRINT_TEXT" -> updatePrintText(a)
      [] a.mode = "SCROLL_TEXT" -> updateScrollText(a)
      [] a.mode = "SCROLL_IMAGE" -> updateScrollImage(a)
      [] a.mode = "ANIMATE_IMAGE" -> updateAnimateImage(a)

\* The event ANIMATION_COMPLETE wakes who waits for it, who returns and goes on; FREE
\* wakes the fibers in w; the others are in their places.
Wake(w, places) ==
    /\ pc' = [f \in Fibers |-> IF pc[f] = "shown" THEN "idle"
                               ELSE IF f \in w THEN "woken" ELSE places[f]]
    /\ queue' = OnlyIn(queue, Fibers \ w)
    /\ stranded' = stranded \ (w \cup {f \in Fibers : pc[f] = "shown"})

Queued == {queue[k] : k \in DOMAIN queue}

sendAnimationCompleteEvent_OnlyComplete == Wake({}, pc)
sendAnimationCompleteEvent == Wake(IF queue = <<>> THEN {} ELSE {Head(queue)}, pc)

animationUpdate ==
    /\ RUNNING /\ Busy
    /\ animation' = Updated(animation)
    /\ IF animation' = Over
       THEN owner' = {} /\ sendAnimationCompleteEvent
       ELSE UNCHANGED <<owner, pc, queue, stranded>>
    /\ UNCHANGED <<RUNNING, wanted>>

-----------------------------------------------------------------------------
(* Calls.                                                                  *)

\* The fiber has the processor and is in the place p.
Has(f, p) == pc[f] = p /\ \A g \in Fibers \ {f} : pc[g] \notin Inside
Goto(f, p) == pc' = [pc EXCEPT ![f] = p]

\* The display is free: what needs no time is printed, and nobody is told that the
\* display is still free; else the animation begins.
Show(f, e) ==
    /\ ~Busy
    /\ wanted' = [wanted EXCEPT ![f] = None]
    /\ IF e.mode = "NONE"
       THEN /\ Goto(f, "idle")
            /\ stranded' = IF \E g \in Fibers \ {f} : pc[g] = "woken" THEN stranded
                           ELSE stranded \cup Queued
            /\ UNCHANGED <<animation, owner>>
       ELSE /\ Goto(f, "begun")
            /\ animation' = Begin(e) /\ owner' = {f}
            /\ UNCHANGED stranded
    /\ UNCHANGED <<RUNNING, queue>>

\* printChar, print, scroll, animate, up to waitForFreeDisplay
Call(f, e) ==
    /\ Has(f, "idle")
    /\ \/ Show(f, e)
       \/ /\ Busy
          /\ wanted' = [wanted EXCEPT ![f] = e]
          /\ Goto(f, "register")
          /\ UNCHANGED <<RUNNING, animation, owner, queue, stranded>>

\* fiber_wait_for_event: the animation may have ended since the fiber looked.
waitForFreeDisplay(f) ==
    /\ Has(f, "register")
    /\ Goto(f, "free")
    /\ queue' = Append(queue, f)
    /\ stranded' = IF Busy THEN stranded ELSE stranded \cup {f}
    /\ UNCHANGED <<RUNNING, animation, owner, wanted>>

\* The fiber runs again: it shows its effect, or gives up if the display has been taken.
Woken(f) ==
    /\ Has(f, "woken")
    /\ \/ Show(f, wanted[f])
       \/ /\ Busy
          /\ wanted' = [wanted EXCEPT ![f] = None]
          /\ Goto(f, "idle")
          /\ UNCHANGED <<RUNNING, animation, owner, queue, stranded>>

\* Likewise the animation of the fiber itself, if it is short.
fiberWait(f) ==
    /\ Has(f, "begun")
    /\ Goto(f, "shown")
    /\ stranded' = IF Busy THEN stranded ELSE stranded \cup {f}
    /\ UNCHANGED <<RUNNING, animation, owner, wanted, queue>>

\* printAsync, scrollAsync, animateAsync; if the display is busy they do nothing.
Async(f, e) ==
    /\ Has(f, "idle") /\ ~Busy /\ e.mode /= "NONE"
    /\ animation' = Begin(e)
    /\ UNCHANGED <<RUNNING, owner, pc, wanted, queue, stranded>>

\* stopAnimation: the mode is tested, then it is cleared and everybody is woken.
StopTest(f) ==
    /\ Has(f, "idle") /\ Busy
    /\ Goto(f, "stopping")
    /\ UNCHANGED <<RUNNING, animation, owner, wanted, queue, stranded>>

stopAnimation(f) ==
    /\ Has(f, "stopping")
    /\ animation' = Over /\ owner' = {}
    /\ Wake(Queued, [pc EXCEPT ![f] = "idle"])
    /\ UNCHANGED <<RUNNING, wanted>>

setEnable(f) ==
    /\ Has(f, "idle")
    /\ RUNNING' = ~RUNNING
    /\ UNCHANGED <<animation, owner, pc, wanted, queue, stranded>>

-----------------------------------------------------------------------------
Goes(f) == waitForFreeDisplay(f) \/ fiberWait(f) \/ stopAnimation(f)

Next ==
    \/ animationUpdate
    \/ \E f \in Fibers :
          \/ \E e \in Effects : Call(f, e) \/ Async(f, e)
          \/ Goes(f) \/ Woken(f) \/ StopTest(f) \/ setEnable(f)

\* The timer ticks, a fiber goes on until it sleeps, and round robin comes to each
\* that is runnable, however many calls the others make.
Fairness ==
    /\ WF_vars(animationUpdate)
    /\ WF_vars(\E f \in Fibers : Goes(f))
    /\ \A f \in Fibers : SF_vars(Woken(f))

Spec == Init /\ [][Next]_vars /\ Fairness

-----------------------------------------------------------------------------
(* Properties.                                                             *)

TypeOK ==
    /\ RUNNING \in BOOLEAN
    /\ animation.mode \in Kinds /\ animation.position \in -Half .. Half - 1
    /\ pc \in [Fibers -> PCs] /\ owner \subseteq Fibers /\ stranded \subseteq Fibers
    /\ wanted \in [Fibers -> Effects \cup {None}]
    /\ Queued = {f \in Fibers : pc[f] = "free"} /\ Len(queue) = Cardinality(Queued)

\* Whoever waits for the display waits for an animation or has somebody before him
\* who has been woken; whoever waits for the end of his animation has one.  Not so
\* if what he waits for ended between his look at the display and his registration,
\* or if the one who was woken shows what takes no time: then the display is free,
\* and those in the queue wait until it has been used again.
AnimationsQueue ==
    \A f \in Fibers \ stranded :
        /\ pc[f] = "free" => Busy \/ \E g \in Fibers : pc[g] = "woken"
        /\ pc[f] = "shown" => Busy /\ owner = {f}

\* Every animation ends, also one that is moved the wrong way, whose position wraps,
\* and so does every call, unless the display is off or the fiber is stranded.
AnimationsEnd == []<>(~Busy \/ ~RUNNING)
CallsEnd == \A f \in Fibers : []<>(pc[f] \notin Asleep \/ f \in stranded \/ ~RUNNING)

=============================================================================
