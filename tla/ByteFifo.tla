------------------------------ MODULE ByteFifo ------------------------------
(***************************************************************************)
(* What a receive buffer promises: bytes come out in the order in which    *)
(* they arrived, none twice, and one is refused only when the buffer holds *)
(* Capacity of them.  got is what the current operation has taken out,     *)
(* offered counts the bytes that came, kept or not.                        *)
(***************************************************************************)
EXTENDS Integers, Sequences

CONSTANTS Bytes, Capacity

VARIABLES q, got, offered

fifoVars == <<q, got, offered>>

FifoInit ==
    /\ q = <<>>
    /\ got = <<>>
    /\ offered = 0

Arrive(b) ==
    /\ Len(q) < Capacity
    /\ q' = Append(q, b)
    /\ offered' = offered + 1
    /\ UNCHANGED got

Refuse ==
    /\ Len(q) = Capacity
    /\ offered' = offered + 1
    /\ UNCHANGED <<q, got>>

Take(n) ==
    /\ n \in 1 .. Len(q)
    /\ got' = got \o SubSeq(q, 1, n)
    /\ q' = SubSeq(q, n + 1, Len(q))
    /\ UNCHANGED offered

NewOperation ==
    /\ got' = <<>>
    /\ UNCHANGED <<q, offered>>

FifoNext ==
    \/ \E b \in Bytes : Arrive(b)
    \/ Refuse
    \/ \E n \in 1 .. Capacity : Take(n)
    \/ NewOperation

FifoSpec == FifoInit /\ [][FifoNext]_fifoVars
=============================================================================
