------------------------------- MODULE Queues -------------------------------
(***************************************************************************)
(* The queues of fibers of MicroBitFiber.cpp: lists in which every fiber   *)
(* knows its neighbours, so that it can be taken out of the middle.  A     *)
(* queue is the sequence of the fibers linked in it.  The display's queue  *)
(* of the fibers that wait for it and what an Android phone has still to   *)
(* send are sequences of the same kind.                                    *)
(***************************************************************************)
EXTENDS Naturals, Sequences, SequencesExt

\* What is a queue of elements of A: nobody is linked in it twice.
Queue(A) == {q \in Seq(A) : IsInjective(q)}

\* Those of queue that are in S, in their order: what is left of a queue, or
\* what is moved to the end of another, when fibers are taken out one by one.
OnlyIn(queue, S) ==
    LET part[i \in 0 .. Len(queue)] ==
            IF i = 0 THEN <<>>
            ELSE IF queue[i] \in S THEN Append(part[i - 1], queue[i]) ELSE part[i - 1]
    IN  part[Len(queue)]

\* dequeue_fiber().
Without(queue, g) == OnlyIn(queue, ToSet(queue) \ {g})
=============================================================================
