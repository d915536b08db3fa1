---------------------------- MODULE FlashStorage ----------------------------
(***************************************************************************)
(* MicroBitStorage: a key-value store in one page of flash.  Every change  *)
(* builds the new page in the scratch page, erases the store page and      *)
(* copies the scratch page over, word by word.  The processor may be reset *)
(* between any two writes; flash survives, the rest does not.              *)
(*                                                                         *)
(* A page is its words: the magic, the size, and two for each pair, its    *)
(* key and its value.  Programming flash only clears bits, so a word that  *)
(* is not erased when it is written holds neither value: Corrupt.  A reset  *)
(* in the middle of a word, a key or a value of several words, or of an     *)
(* erasure, is taken for one before or after it.                            *)
(***************************************************************************)
EXTENDS Integers

CONSTANTS
    Keys, Values,
    Capacity,          \* how many pairs fit the page
    Magic,             \* MICROBIT_STORAGE_MAGIC
    Erased, Corrupt,   \* contents of a word
    Zero,              \* the value of a pair whose bytes are all 0
    None,
    MaxCalls,          \* bound: calls of put() and remove()
    MaxResets          \* bound: resets

ASSUME CapacityAssumption == Capacity \in Nat \ {0}
ASSUME BoundsAssumption == MaxCalls \in Nat /\ MaxResets \in Nat
ASSUME WordsAssumption ==
    /\ {Magic, Erased, Corrupt, None} \cap (Keys \cup Values \cup Int) = {}
    /\ Magic # Erased /\ Magic # Corrupt /\ Erased # Corrupt /\ Zero \in Values
    /\ None \notin {Magic, Erased, Corrupt}

Last == 2 * Capacity + 1
WordsOf == {Magic, Erased, Corrupt} \cup Keys \cup Values \cup 0 .. Capacity
Pages == [0 .. Last -> WordsOf]
Blank == [w \in 0 .. Last |-> Erased]

VARIABLES
    store, scratch,
    pc, op,
    n,          \* storeSize
    i,          \* the pair of the store page put() or remove() looks at
    to,         \* the pair of the scratch page remove() writes next
    found,
    j,          \* the word flashCopy() copies next
    limit,      \* and how many it copies
    calls, resets,
    history,    \* history: the pairs that were ever put
    torn        \* history: a reset came while the store page was being written

flash == <<store, scratch>>
locals == <<op, n, i, to, found, j, limit>>
bounds == <<calls, resets>>
vars == <<flash, pc, locals, bounds, history, torn>>

Ops == [kind : {"put", "remove"}, key : Keys, val : Values]
ASSUME NoneAssumption == None \notin Ops
PCs == {"boot", "formatStore", "idle", "look", "scan", "eraseStore", "copy"}

\* A device whose store page was never used.
Init ==
    /\ store = Blank /\ scratch = Blank
    /\ pc = "boot" /\ op = None
    /\ n = 0 /\ i = 1 /\ to = 1 /\ found = FALSE /\ j = 0 /\ limit = 0
    /\ calls = 0 /\ resets = 0
    /\ history = {} /\ torn = FALSE

-----------------------------------------------------------------------------
(* Flash.                                                                  *)

\* flashWordWrite().
Written(page, w, v) ==
    IF v = Erased THEN page
    ELSE [page EXCEPT ![w] = IF page[w] = Erased THEN v ELSE Corrupt]

\* scratchKeyValueStore() and scratchKeyValuePair(); a negative size is -1,
\* whose bits are those of an erased word.
WithHeader(page, size) ==
    Written(Written(page, 0, Magic), 1, IF size < 0 THEN Erased ELSE size)
WithPair(page, slot, key, val) ==
    Written(Written(page, 2 * slot, key), 2 * slot + 1, val)

KeyAt(page, slot) == page[2 * slot]
ValAt(page, slot) == page[2 * slot + 1]

\* size() of a page that holds the magic.
SizeOf(page) == IF page[1] = Erased THEN -1 ELSE page[1]

\* get(): the first pair with the key.  A size of -1 ends the search before it
\* begins and is taken for a match with the pair that has not been read.
Slots(page, key) == {s \in 1 .. SizeOf(page) : KeyAt(page, s) = key}
get(page, key) ==
    IF SizeOf(page) < 0 THEN Zero
    ELSE IF Slots(page, key) = {} THEN None
    ELSE ValAt(page, CHOOSE s \in Slots(page, key) : \A t \in Slots(page, key) : s <= t)

-----------------------------------------------------------------------------
(* The constructor's size().                                               *)

BootKnown ==
    /\ pc = "boot"
    /\ store[0] = Magic
    /\ pc' = "idle"
    /\ UNCHANGED <<flash, locals, bounds, history, torn>>

BootFormat ==
    /\ pc = "boot"
    /\ store[0] # Magic
    /\ scratch' = WithHeader(Blank, 0)
    /\ pc' = "formatStore"
    /\ UNCHANGED <<store, locals, bounds, history, torn>>

FormatStore ==
    /\ pc = "formatStore"
    /\ store' = Blank
    /\ j' = 0
    /\ limit' = Last + 1
    /\ pc' = "copy"
    /\ UNCHANGED <<scratch, op, n, i, to, found, bounds, history, torn>>

-----------------------------------------------------------------------------
(* put() and remove().                                                     *)

put(k, v) ==
    /\ pc = "idle" /\ calls < MaxCalls
    /\ calls' = calls + 1
    /\ history' = history \cup {<<k, v>>}
    /\ op' = [kind |-> "put", key |-> k, val |-> v]
    /\ pc' = "look"
    /\ UNCHANGED <<flash, n, i, to, found, j, limit, resets, torn>>

remove(k) ==
    /\ pc = "idle" /\ calls < MaxCalls
    /\ calls' = calls + 1
    /\ op' = [kind |-> "remove", key |-> k, val |-> Zero]
    /\ pc' = "look"
    /\ UNCHANGED <<flash, n, i, to, found, j, limit, resets, history, torn>>

Return ==
    /\ op' = None
    /\ pc' = "idle"

\* put() finds that the value is there, remove() that there is nothing.
NothingToDo ==
    /\ pc = "look"
    /\ IF op.kind = "put" THEN get(store, op.key) = op.val ELSE SizeOf(store) = 0
    /\ Return
    /\ UNCHANGED <<flash, n, i, to, found, j, limit, bounds, history, torn>>

FreshScratch_Kept == scratch
FreshScratch == Blank

EraseScratch ==
    /\ pc = "look"
    /\ IF op.kind = "put" THEN get(store, op.key) # op.val ELSE SizeOf(store) # 0
    /\ scratch' = FreshScratch
    /\ n' = SizeOf(store)
    /\ i' = 1
    /\ to' = 1
    /\ found' = FALSE
    /\ pc' = "scan"
    /\ UNCHANGED <<store, op, j, limit, bounds, history, torn>>

\* The pair the loop looks at, copied to a slot of the scratch page.
Moved_WrongValue(slot) == WithPair(scratch, slot, KeyAt(store, i), ValAt(store, slot))
Moved(slot) == WithPair(scratch, slot, KeyAt(store, i), ValAt(store, i))

Matches == KeyAt(store, i) = op.key

ScanPut ==
    /\ pc = "scan" /\ op.kind = "put" /\ i <= n
    /\ \/ /\ Matches
          /\ found' = TRUE
          /\ scratch' = WithPair(WithHeader(scratch, n), i, op.key, op.val)
       \/ /\ ~Matches
          /\ scratch' = Moved(i)
          /\ UNCHANGED found
    /\ i' = i + 1
    /\ UNCHANGED <<store, pc, op, n, to, j, limit, bounds, history, torn>>

ScanRemove ==
    /\ pc = "scan" /\ op.kind = "remove" /\ i <= n
    /\ \/ /\ Matches
          /\ found' = TRUE
          /\ scratch' = WithHeader(scratch, n - 1)
          /\ UNCHANGED to
       \/ /\ ~Matches
          /\ scratch' = Moved(to)
          /\ to' = to + 1
          /\ UNCHANGED found
    /\ i' = i + 1
    /\ UNCHANGED <<store, pc, op, n, j, limit, bounds, history, torn>>

\* The words of the header and of so many pairs.
WordsOfPairs_OneMore(size) == 2 + 2 * (size + 1)
WordsOfPairs_NoHeader(size) == 2 * size
WordsOfPairs(size) == 2 + 2 * size

\* A pair with the key was found.
ScanFound ==
    /\ pc = "scan" /\ i > n /\ found
    /\ limit' = WordsOfPairs(n)
    /\ pc' = "eraseStore"
    /\ UNCHANGED <<flash, op, n, i, to, found, j, bounds, history, torn>>

\* put() adds a pair behind the others, if there is room.
AddPair ==
    /\ pc = "scan" /\ op.kind = "put" /\ i > n /\ ~found
    /\ n # Capacity
    /\ n' = n + 1
    /\ scratch' = WithPair(WithHeader(scratch, n'), i, op.key, op.val)
    /\ limit' = WordsOfPairs(n')
    /\ pc' = "eraseStore"
    /\ UNCHANGED <<store, op, i, to, found, j, bounds, history, torn>>

NoResources ==
    /\ pc = "scan" /\ op.kind = "put" /\ i > n /\ ~found
    /\ n = Capacity
    /\ Return
    /\ UNCHANGED <<flash, n, i, to, found, j, limit, bounds, history, torn>>

NoData ==
    /\ pc = "scan" /\ op.kind = "remove" /\ i > n /\ ~found
    /\ scratch' = WithHeader(scratch, n)
    /\ Return
    /\ UNCHANGED <<store, n, i, to, found, j, limit, bounds, history, torn>>

EraseStore ==
    /\ pc = "eraseStore"
    /\ store' = Blank
    /\ j' = 0
    /\ pc' = "copy"
    /\ UNCHANGED <<scratch, op, n, i, to, found, limit, bounds, history, torn>>

\* flashCopy(), a word at a time.
Copy ==
    /\ pc = "copy" /\ j < limit
    /\ store' = Written(store, j, scratch[j])
    /\ j' = j + 1
    /\ UNCHANGED <<scratch, pc, op, n, i, to, found, limit, bounds, history, torn>>

CopyEnd ==
    /\ pc = "copy" /\ j = limit
    /\ Return
    /\ UNCHANGED <<flash, n, i, to, found, j, limit, bounds, history, torn>>

-----------------------------------------------------------------------------
\* While the page is copied the store page is not whole; the first format has
\* nothing to lose but its header.
InWindow == pc = "copy" /\ j < limit /\ (op # None \/ j = 1)

Reset ==
    /\ resets < MaxResets
    /\ resets' = resets + 1
    /\ pc' = "boot" /\ op' = None
    /\ torn' = (torn \/ InWindow)
    /\ UNCHANGED <<flash, n, i, to, found, j, limit, calls, history>>

Next ==
    \/ BootKnown \/ BootFormat \/ FormatStore
    \/ \E k \in Keys : remove(k) \/ \E v \in Values : put(k, v)
    \/ NothingToDo \/ EraseScratch \/ ScanPut \/ ScanRemove \/ ScanFound
    \/ AddPair \/ NoResources \/ NoData \/ EraseStore \/ Copy \/ CopyEnd
    \/ Reset

Spec == Init /\ [][Next]_vars

-----------------------------------------------------------------------------
(* Properties.                                                             *)

\* Every variable has its type; no call writes beyond the page.
TypeOK ==
    /\ store \in Pages /\ scratch \in Pages
    /\ pc \in PCs /\ op \in Ops \cup {None}
    /\ n \in -1 .. Capacity /\ i \in 1 .. Capacity + 1 /\ to \in 1 .. Capacity + 1
    /\ found \in BOOLEAN /\ torn \in BOOLEAN
    /\ j \in 0 .. Last + 1 /\ limit \in 0 .. Last + 1
    /\ calls \in 0 .. MaxCalls /\ resets \in 0 .. MaxResets
    /\ history \subseteq Keys \X Values

\* No word is written twice between two erasures of its page, whatever resets
\* interrupt (put, remove, size).
NoOverwrite == \A w \in 0 .. Last : store[w] # Corrupt /\ scratch[w] # Corrupt

\* A value that is found under a key was put there under that key, whatever
\* pairs were moved, removed or lost to a reset; what a reset can leave behind
\* is a pair without its value, or a header without its size (get).
ValuesKeepTheirKeys ==
    pc = "idle" => \A k \in Keys :
        \/ get(store, k) = None
        \/ <<k, get(store, k)>> \in history
        \/ torn /\ (get(store, k) = Erased \/ SizeOf(store) < 0)

\* What is stored is read from the store page, but from the scratch page while
\* that is copied: put() and remove() take effect when they erase the store
\* page, and a reset at any other time leaves the old or the new map.
Contents ==
    [k \in Keys |->
        IF pc = "copy" THEN get(scratch, k)
        ELSE IF store[0] = Magic THEN get(store, k) ELSE None]
Map == INSTANCE KeyValueStore WITH
          map <- Contents, call <- op, effected <- (op # None /\ pc = "copy"),
          broken <- torn
ImplementsKeyValueStore == Map!KVSpec
=============================================================================
