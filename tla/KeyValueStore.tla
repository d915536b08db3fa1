--------------------------- MODULE KeyValueStore ---------------------------
(***************************************************************************)
(* What the flash store promises: a map that changes only by the call      *)
(* under way, at one moment of it, and that a reset leaves as it was before *)
(* that moment or after it.  A reset while the call is writing the store    *)
(* page breaks the promise: anything may be found afterwards.               *)
(***************************************************************************)
EXTENDS Naturals, FiniteSets

CONSTANTS Keys, Values, None, Capacity
VARIABLES
    map,       \* the value of each key, or None
    call,      \* the call under way: [kind, key, val], or None
    effected,  \* the call has had its effect
    broken     \* a reset has damaged the store

kvVars == <<map, call, effected, broken>>

Calls == [kind : {"put", "remove"}, key : Keys, val : Values]

KVInit ==
    /\ map = [k \in Keys |-> None]
    /\ call = None
    /\ effected = FALSE
    /\ broken = FALSE

Applied(m, r) == [m EXCEPT ![r.key] = IF r.kind = "put" THEN r.val ELSE None]

Invoke(r) ==
    /\ call = None
    /\ call' = r
    /\ UNCHANGED <<map, effected, broken>>

Effect ==
    /\ call # None /\ ~effected
    /\ map' = Applied(map, call)
    /\ effected' = TRUE
    /\ UNCHANGED <<call, broken>>

Full == Cardinality({k \in Keys : map[k] # None}) = Capacity

\* A call returns when it has had its effect, when it has none to have, or when
\* a new key finds the store full.
Return ==
    /\ call # None
    /\ effected \/ map = Applied(map, call) \/ (call.kind = "put" /\ map[call.key] = None /\ Full)
    /\ call' = None
    /\ effected' = FALSE
    /\ UNCHANGED <<map, broken>>

\* A reset ends the call.  One that comes while the page is written, or while
\* the empty store is first written, breaks it.
Reset ==
    /\ call' = None
    /\ effected' = FALSE
    /\ UNCHANGED <<map, broken>>

Break ==
    /\ effected \/ map = [k \in Keys |-> None]
    /\ broken' = TRUE

KVNext ==
    \/ broken /\ broken'
    \/ ~broken /\ ((\E r \in Calls : Invoke(r)) \/ Effect \/ Return \/ Reset \/ Break)

KVSpec == KVInit /\ [][KVNext]_kvVars
=============================================================================
