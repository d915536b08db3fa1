----------------------------- MODULE MCDisplay -----------------------------
(***************************************************************************)
(* The two handlers that scroll a letter, with the bus and the scheduler   *)
(* in detail, and the display for any callers and effects, checked         *)
(* together: a behaviour picks one of the two, each as fair as its own     *)
(* module says, and the other keeps its initial state.                     *)
(***************************************************************************)
EXTENDS LinkHandlers, Integers, FiniteSets

CONSTANTS
    Callers, WIDTH, SPACING, Half

VARIABLES
    part,
    RUNNING, animation, owner, place, wanted, queue, stranded

displayVars == <<RUNNING, animation, owner, place, wanted, queue, stranded>>

\* An effect of each kind: a text that is empty, images that are scrolled to the left
\* and to the right, moved step by step, moved the wrong way, or not at all.
Effect(mode, length, stride, start) ==
    [mode |-> mode, length |-> length, stride |-> stride, start |-> start]
Effects ==
    {Effect("NONE", 0, 0, 0), Effect("PRINT_CHARACTER", 0, 0, 0), Effect("PRINT_TEXT", 1, 0, 0),
     Effect("SCROLL_TEXT", 0, 0, 0), Effect("SCROLL_IMAGE", 1, -1, 0),
     Effect("SCROLL_IMAGE", 1, 2, 0), Effect("ANIMATE_IMAGE", 2, 1, 1),
     Effect("ANIMATE_IMAGE", 2, -1, 1), Effect("ANIMATE_IMAGE", 1, 0, 2)}

Screen == INSTANCE Display WITH Fibers <- Callers, pc <- place

ASSUME DisplayAssumption == Screen!ConstantsOK

DisplayInit == part \in {"handlers", "display"} /\ Init /\ Screen!Init

Others(x) ==
    /\ part = x /\ UNCHANGED part
    /\ x /= "handlers" => UNCHANGED vars
    /\ x /= "display" => UNCHANGED displayVars

DisplayNext ==
    \/ Others("handlers") /\ Next
    \/ Others("display") /\ Screen!Next

\* Each part as fair as its own module says; in the other nothing is enabled.
DisplayFairness ==
    /\ WF_vars(Others("handlers") /\ Fiber)
    /\ SF_vars(Others("handlers") /\ Deliver)
    /\ WF_vars(Others("handlers") /\ animationUpdate)
    /\ WF_displayVars(Others("display") /\ Screen!animationUpdate)
    /\ WF_displayVars(Others("display") /\ \E c \in Callers : Screen!Goes(c))
    /\ \A c \in Callers : SF_displayVars(Others("display") /\ Screen!Woken(c))

DisplaySpec ==
    DisplayInit /\ [][DisplayNext]_<<part, vars, displayVars>> /\ DisplayFairness

-----------------------------------------------------------------------------
\* Both parts' variables keep their types; each part's comment says what they are.
DisplayTypeOK == TypeOK /\ Screen!TypeOK

\* Whoever waits for the display, or for the end of his animation, waits for something
\* that is still to come, but for the cases that the module names.
AnimationsQueue == Screen!AnimationsQueue

\* Every animation ends, and every call, unless the display is off or the fiber waits
\* for what is over.
AnimationsEnd == Screen!AnimationsEnd /\ Screen!CallsEnd

=============================================================================
