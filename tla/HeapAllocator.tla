---------------------------- MODULE HeapAllocator ----------------------------
(***************************************************************************)
(* MicroBitHeapAllocator.cpp: malloc and free over heaps whose blocks carry *)
(* their length, and whether they are free, in their first word.           *)
(*                                                                         *)
(* Addresses count words.  A walk over a heap runs with the interrupts     *)
(* disabled; between two walks of a malloc, and between the reading and    *)
(* the writing of the header in a free, other contexts make calls of their *)
(* own.  Owners write what they like into their blocks, words that look    *)
(* like headers too.                                                       *)
(***************************************************************************)
EXTENDS Integers

CONSTANTS
    H,           \* MICROBIT_MAXIMUM_HEAPS
    Start, End,  \* where the heaps are; End is behind the last word
    Top,         \* the last address
    Needs,       \* what callers ask for, the header included
    Contexts,    \* the fiber that runs, and interrupts
    None,
    Words        \* what owners write

Addr == 0 .. Top
Heaps == 1 .. H

ASSUME HeapAssumption ==
    /\ H \in Nat /\ Top \in Nat
    /\ Start \in [Heaps -> Nat] /\ End \in [Heaps -> Nat]
    /\ \A h \in Heaps : Start[h] + 2 <= End[h] /\ End[h] <= Top + 1
    /\ \A g, h \in Heaps : g /= h => End[g] <= Start[h] \/ End[h] <= Start[g]
ASSUME NeedsAssumption == Needs \subseteq {n \in Nat : n >= 2}
ASSUME NoneAssumption == None \notin Contexts
ASSUME WordsAssumption == Words \subseteq Nat

VARIABLES
    heap_count,
    word, free,   \* memory: a word without its highest bit, and where that is set
    pc,           \* what each context is at: "idle", "malloc" or "free"
    need, heap,   \* of a malloc: blocksNeeded, and the heap it looks at
    cb, seen,     \* of a free: the header's address and what was read there
    walker,       \* the context whose walk has disabled the interrupts
    block,        \* where the walk is
    \* history
    hdrs,         \* the addresses of the headers
    asked         \* what the owner of the block there asked for, 0 without one

memory == <<word, free>>
calls == <<pc, need, heap, cb, seen>>
walk == <<walker, block>>
vars == <<heap_count, memory, calls, walk, hdrs, asked>>

\* The locals of a call end with it.
Return(c) ==
    /\ pc' = [pc EXCEPT ![c] = "idle"]
    /\ need' = [need EXCEPT ![c] = 2] /\ heap' = [heap EXCEPT ![c] = 1]
    /\ cb' = [cb EXCEPT ![c] = 0] /\ seen' = [seen EXCEPT ![c] = 0]

Init ==
    /\ heap_count = 0
    /\ word = [a \in Addr |-> 0] /\ free = {}
    /\ pc = [c \in Contexts |-> "idle"]
    /\ need = [c \in Contexts |-> 2] /\ heap = [c \in Contexts |-> 1]
    /\ cb = [c \in Contexts |-> 0] /\ seen = [c \in Contexts |-> 0]
    /\ walker = None /\ block = 0
    /\ hdrs = {} /\ asked = [a \in Addr |-> 0]

-----------------------------------------------------------------------------
\* The whole region becomes one free block.
microbit_create_heap ==
    /\ walker = None /\ heap_count < H
    /\ heap_count' = heap_count + 1
    /\ LET s == Start[heap_count + 1]
       IN  /\ word' = [word EXCEPT ![s] = End[heap_count + 1] - s]
           /\ free' = free \cup {s}
           /\ hdrs' = hdrs \cup {s}
    /\ UNCHANGED <<calls, walk, asked>>

-----------------------------------------------------------------------------
(* malloc: each heap in turn, then the native allocator.                   *)

microbit_malloc(c, n) ==
    /\ walker = None /\ pc[c] = "idle"
    /\ pc' = [pc EXCEPT ![c] = "malloc"]
    /\ need' = [need EXCEPT ![c] = n]
    /\ heap' = [heap EXCEPT ![c] = 1]
    /\ UNCHANGED <<heap_count, memory, cb, seen, walk, hdrs, asked>>

Begin(c) ==
    /\ walker = None /\ pc[c] = "malloc" /\ heap[c] <= heap_count
    /\ walker' = c
    /\ block' = Start[heap[c]]
    /\ UNCHANGED <<heap_count, memory, calls, hdrs, asked>>

native_malloc(c) ==
    /\ walker = None /\ pc[c] = "malloc" /\ heap[c] > heap_count
    /\ Return(c)
    /\ UNCHANGED <<heap_count, memory, walk, hdrs, asked>>

\* The walk of c.
End_(c) == End[heap[c]]
next == block + word[block]
Walks(c) == walker = c /\ block < End_(c)
Mergeable_NoEnd(c) == next \in free
Mergeable_Never(c) == FALSE
Mergeable(c) == next < End_(c) /\ next \in free
Fits_LessHeader(c) == word[block] >= need[c] - 1
Fits(c) == word[block] >= need[c]

WalkUsed(c) ==
    /\ Walks(c) /\ block \notin free
    /\ block' = next
    /\ UNCHANGED <<heap_count, memory, calls, walker, hdrs, asked>>

Merge(c) ==
    /\ Walks(c) /\ block \in free /\ Mergeable(c)
    /\ word' = [word EXCEPT ![block] = @ + word[next]]
    /\ hdrs' = hdrs \ {next}
    /\ UNCHANGED <<heap_count, free, calls, walk, asked>>

WalkSmall(c) ==
    /\ Walks(c) /\ block \in free /\ ~Mergeable(c) /\ ~Fits(c)
    /\ block' = next
    /\ UNCHANGED <<heap_count, memory, calls, walker, hdrs, asked>>

\* A rest of at most one word is given away with the block.
Whole(c) == word[block] <= need[c] + 1 \/ block + need[c] + 1 >= End_(c)

Take(c) ==
    /\ Walks(c) /\ block \in free /\ ~Mergeable(c) /\ Fits(c)
    /\ \/ /\ Whole(c)
          /\ free' = free \ {block}
          /\ UNCHANGED <<word, hdrs>>
       \/ /\ ~Whole(c)
          /\ word' = [word EXCEPT ![block] = need[c], ![block + need[c]] = word[block] - need[c]]
          /\ free' = (free \ {block}) \cup {block + need[c]}
          /\ hdrs' = hdrs \cup {block + need[c]}
    /\ asked' = [asked EXCEPT ![block] = need[c]]
    /\ Return(c)
    /\ walker' = None /\ block' = 0
    /\ UNCHANGED heap_count

\* NULL from this heap: on to the next.
Full(c) ==
    /\ walker = c /\ block >= End_(c)
    /\ heap' = [heap EXCEPT ![c] = @ + 1]
    /\ walker' = None /\ block' = 0
    /\ UNCHANGED <<heap_count, memory, pc, need, cb, seen, hdrs, asked>>

-----------------------------------------------------------------------------
(* free: *cb |= FREE, with the interrupts enabled.                         *)

InHeap(p) == \E h \in 1 .. heap_count : Start[h] < p /\ p < End[h]

microbit_free(c, a) ==
    /\ walker = None /\ pc[c] = "idle" /\ asked[a] > 0 /\ InHeap(a + 1)
    /\ pc' = [pc EXCEPT ![c] = "free"]
    /\ cb' = [cb EXCEPT ![c] = a]
    /\ seen' = [seen EXCEPT ![c] = word[a]]
    /\ asked' = [asked EXCEPT ![a] = 0]
    /\ UNCHANGED <<heap_count, memory, need, heap, walk, hdrs>>

FreeWrite(c) ==
    /\ walker = None /\ pc[c] = "free"
    /\ word' = [word EXCEPT ![cb[c]] = seen[c]]
    /\ free' = free \cup {cb[c]}
    /\ Return(c)
    /\ UNCHANGED <<heap_count, walk, hdrs, asked>>

\* The owner of the block at a writes into it.
Payload(a) == a + 1 .. a + asked[a] - 1
Write(a, x, w) ==
    /\ walker = None /\ asked[a] > 0 /\ x \in Payload(a)
    /\ word' = [word EXCEPT ![x] = w]
    /\ free' \in {free \cup {x}, free \ {x}}
    /\ UNCHANGED <<heap_count, calls, walk, hdrs, asked>>

-----------------------------------------------------------------------------
Allocator ==
    \/ microbit_create_heap
    \/ \E c \in Contexts :
        \/ \E n \in Needs : microbit_malloc(c, n)
        \/ Begin(c) \/ native_malloc(c)
        \/ WalkUsed(c) \/ Merge(c) \/ WalkSmall(c) \/ Take(c) \/ Full(c)
        \/ \E a \in Addr : microbit_free(c, a)
        \/ FreeWrite(c)
Next == Allocator \/ \E a, x \in Addr, w \in Words : Write(a, x, w)

Spec == Init /\ [][Next]_vars

-----------------------------------------------------------------------------
(* What the allocator promises.                                            *)

TypeOK ==
    /\ heap_count \in 0 .. H
    /\ word \in [Addr -> Nat] /\ free \subseteq Addr
    /\ pc \in [Contexts -> {"idle", "malloc", "free"}]
    /\ need \in [Contexts -> {n \in Nat : n >= 2}]
    /\ heap \in [Contexts -> Nat \ {0}]
    /\ cb \in [Contexts -> Addr] /\ seen \in [Contexts -> Nat]
    /\ walker \in Contexts \cup {None} /\ block \in Nat
    /\ hdrs \subseteq Addr /\ asked \in [Addr -> Nat]

\* The blocks of each heap lie side by side from its start to its end.
Tiled ==
    \A h \in 1 .. heap_count :
        /\ Start[h] \in hdrs
        /\ \A a \in hdrs :
            Start[h] <= a /\ a < End[h] =>
                /\ word[a] > 0
                /\ a + word[a] = End[h] \/ (a + word[a] < End[h] /\ a + word[a] \in hdrs)
                /\ \A b \in hdrs : b <= a \/ b >= a + word[a]

InSomeHeap ==
    \A a \in hdrs : \E h \in 1 .. heap_count : Start[h] <= a /\ a < End[h]

\* What an owner asked for is a used block, at least that long.
Owned == \A a \in Addr : asked[a] > 0 => a \in hdrs \ free /\ asked[a] <= word[a]

\* A block is nobody else's, lies inside a heap, and what anybody writes into his
\* own never makes the walk leave the headers.
OwnersAreSafe == Tiled /\ InSomeHeap /\ Owned

\* Neither malloc nor free, of whatever context, changes a word that belongs to an
\* owner: only owners write there.
PayloadKept ==
    [][Allocator =>
        \A a \in Addr : asked[a] > 0 => \A x \in Payload(a) :
            word'[x] = word[x] /\ (x \in free' <=> x \in free)]_vars

\* malloc leaves a heap only when no free block of it, joined with the free blocks
\* behind it, is long enough.
RefusesOnlyWhenFull ==
    \A c \in Contexts : walker = c => \A a \in hdrs \cap free :
        Start[heap[c]] <= a /\ a < block =>
            /\ word[a] < need[c]
            /\ a + word[a] = End_(c) \/ a + word[a] \notin free

=============================================================================
