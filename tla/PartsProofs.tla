----------------------------- MODULE PartsProofs -----------------------------
(***************************************************************************)
(* The parts of MCParts, each for all values of its constants: the heap is *)
(* safe, a press is one click, a channel of the servo drives the pin that  *)
(* knows it, the phone's lines arrive in order, the listeners are served,  *)
(* and the radio hands its frames over.                                    *)
(***************************************************************************)
EXTENDS MCParts, QueueProofs, SequenceTheorems, FiniteSetTheorems

-----------------------------------------------------------------------------
(* The heap.  What owners write may look like a header: the proof shows    *)
(* that no walk comes across it.                                           *)

\* Where the walk is: at a header of its heap, or behind the heap's last word.
WalkerOK ==
    walker \in Contexts =>
        /\ pc[walker] = "malloc" /\ heap[walker] <= heap_count
        /\ \/ block = End[heap[walker]]
           \/ block \in hdrs /\ Start[heap[walker]] <= block /\ block < End[heap[walker]]

\* A free that has read the header and not yet written it: the block is used, has
\* no owner and is nobody else's to free.
FreeingOK ==
    \A c \in Contexts : pc[c] = "free" =>
        /\ cb[c] \in hdrs \ free /\ seen[c] = word[cb[c]] /\ asked[cb[c]] = 0
        /\ \A d \in Contexts : pc[d] = "free" /\ cb[d] = cb[c] => d = c

IInv == TypeOK /\ OwnersAreSafe /\ WalkerOK /\ FreeingOK

-----------------------------------------------------------------------------
\* A word is in one heap only.
LEMMA HeapsLieApart ==
    ASSUME NEW g \in Heaps, NEW h \in Heaps, NEW a \in Int,
           Start[g] <= a, a < End[g], Start[h] <= a, a < End[h]
    PROVE  g = h
<1>1. g /= h => End[g] <= Start[h] \/ End[h] <= Start[g]
  BY HeapAssumption
<1>2. Start[g] \in Nat /\ End[g] \in Nat /\ Start[h] \in Nat /\ End[h] \in Nat
  BY HeapAssumption
<1> QED
  BY <1>1, <1>2

\* The heaps that are there are heaps.
LEMMA HeapIndex ==
    ASSUME NEW k \in 0 .. H, NEW j \in Nat \ {0}, j <= k
    PROVE  j \in Heaps /\ j \in 1 .. k
<1>1. H \in Nat
  BY HeapAssumption
<1> QED
  BY <1>1 DEF Heaps

\* The words of a heap are addresses.
LEMMA HeapIsMemory ==
    ASSUME NEW h \in Heaps
    PROVE  /\ Start[h] \in Addr /\ End[h] \in Nat /\ Start[h] + 2 <= End[h]
           /\ \A a \in Int : Start[h] <= a /\ a < End[h] => a \in Addr
BY HeapAssumption DEF Heaps, Addr

\* What a header says of its block, all of it in one heap.
LEMMA BlockFacts ==
    ASSUME TypeOK, Tiled, InSomeHeap, NEW a \in hdrs
    PROVE  /\ a \in Addr /\ word[a] \in Nat /\ word[a] > 0
           /\ \E h \in 1 .. heap_count :
                /\ h \in Heaps /\ Start[h] <= a /\ a + word[a] <= End[h]
                /\ a + word[a] < End[h] => a + word[a] \in hdrs
           /\ \A b \in hdrs : b <= a \/ b >= a + word[a]
<1>1. a \in Addr /\ word[a] \in Nat
  BY DEF TypeOK
<1>2. PICK h \in 1 .. heap_count : Start[h] <= a /\ a < End[h]
  BY DEF InSomeHeap
<1>3. h \in Heaps /\ Start[h] \in Nat /\ End[h] \in Nat /\ a \in Int
  BY <1>1, HeapAssumption, SMTT(30) DEF TypeOK, Heaps, Addr
<1>4. /\ word[a] > 0
      /\ a + word[a] = End[h] \/ (a + word[a] < End[h] /\ a + word[a] \in hdrs)
      /\ \A b \in hdrs : b <= a \/ b >= a + word[a]
  BY <1>2 DEF Tiled
<1>5. a + word[a] <= End[h] /\ (a + word[a] < End[h] => a + word[a] \in hdrs)
  BY <1>1, <1>3, <1>4 DEF Addr
<1> QED
  BY <1>1, <1>2, <1>3, <1>4, <1>5

\* The owner's words are no header and no word of another block.
LEMMA PayloadIsPrivate ==
    ASSUME TypeOK, OwnersAreSafe, NEW a \in Addr, asked[a] > 0, NEW x \in Payload(a),
           NEW b \in hdrs
    PROVE  x \in Addr /\ x /= b /\ (b /= a => x < b \/ x >= b + word[b])
<1>1. a \in hdrs /\ asked[a] <= word[a] /\ asked[a] \in Nat
  BY DEF OwnersAreSafe, Owned, TypeOK
<1>2. /\ a \in Addr /\ word[a] \in Nat /\ word[a] > 0
      /\ \E h \in 1 .. heap_count : h \in Heaps /\ Start[h] <= a /\ a + word[a] <= End[h]
      /\ \A c \in hdrs : c <= a \/ c >= a + word[a]
  BY <1>1, BlockFacts DEF OwnersAreSafe
<1>3. b \in Addr /\ word[b] \in Nat /\ \A c \in hdrs : c <= b \/ c >= b + word[b]
  BY BlockFacts DEF OwnersAreSafe
<1>4. x \in Int /\ a < x /\ x < a + word[a]
  BY <1>1, <1>2 DEF Payload, Addr
<1>5. x \in Addr
  <2>1. PICK h \in Heaps : Start[h] <= a /\ a + word[a] <= End[h]
    BY <1>2
  <2>2. Start[h] <= x /\ x < End[h]
    BY <2>1, <1>2, <1>4, HeapIsMemory DEF Addr
  <2> QED
    BY <2>1, <2>2, <1>4, HeapIsMemory
<1> QED
  BY <1>1, <1>2, <1>3, <1>4, <1>5 DEF Addr

\* What lies behind the block a walk is at.
LEMMA WalkFacts ==
    ASSUME IInv, NEW c \in Contexts, Walks(c)
    PROVE  /\ heap[c] \in Heaps /\ heap[c] <= heap_count /\ pc[c] = "malloc"
           /\ block \in hdrs /\ Start[heap[c]] <= block /\ block < End[heap[c]]
           /\ word[block] > 0 /\ next <= End[heap[c]] /\ next \in Nat
           /\ next < End[heap[c]] => next \in hdrs
<1>1. walker = c /\ block < End[heap[c]] /\ TypeOK
  BY DEF Walks, End_, IInv
<1>2. /\ pc[c] = "malloc" /\ heap[c] <= heap_count
      /\ \/ block = End[heap[c]]
         \/ block \in hdrs /\ Start[heap[c]] <= block /\ block < End[heap[c]]
  BY <1>1 DEF IInv, WalkerOK
<1>3. heap_count \in 0 .. H /\ heap[c] \in Nat \ {0} /\ H \in Nat
  BY <1>1, HeapAssumption DEF TypeOK
<1>4. heap[c] \in Heaps /\ heap[c] \in 1 .. heap_count
  BY <1>2, <1>3 DEF Heaps
<1>5. End[heap[c]] \in Nat
  BY <1>4, HeapAssumption
<1>6. block \in hdrs /\ Start[heap[c]] <= block
  BY <1>1, <1>2, <1>5
<1>7. /\ word[block] > 0
      /\ next = End[heap[c]] \/ (next < End[heap[c]] /\ next \in hdrs)
  BY <1>1, <1>4, <1>6 DEF IInv, OwnersAreSafe, Tiled, next
<1>8. next \in Nat
  <2>1. block \in Nat /\ word[block] \in Nat
    BY <1>1, <1>6 DEF TypeOK
  <2> QED
    BY <2>1 DEF next
<1> QED
  BY <1>1, <1>2, <1>4, <1>5, <1>6, <1>7, <1>8

-----------------------------------------------------------------------------
(* The types.                                                              *)

LEMMA InitTypes == Init => TypeOK
BY HeapAssumption, NoneAssumption DEF Init, TypeOK, Addr

\* The calls of an action that touches none of them, and of one that returns.
CallsOK ==
    /\ pc \in [Contexts -> {"idle", "malloc", "free"}]
    /\ need \in [Contexts -> {n \in Nat : n >= 2}]
    /\ heap \in [Contexts -> Nat \ {0}]
    /\ cb \in [Contexts -> Addr] /\ seen \in [Contexts -> Nat]

LEMMA ReturnTypes ==
    ASSUME CallsOK, NEW c \in Contexts, Return(c)
    PROVE  CallsOK'
<1>1. 0 \in Addr
  BY HeapAssumption DEF Addr
<1> QED
  BY <1>1 DEF CallsOK, Return

LEMMA TypesStay ==
    ASSUME IInv, Next
    PROVE  TypeOK'
<1>1. /\ heap_count \in 0 .. H /\ word \in [Addr -> Nat] /\ free \subseteq Addr
      /\ walker \in Contexts \cup {None} /\ block \in Nat
      /\ hdrs \subseteq Addr /\ asked \in [Addr -> Nat] /\ CallsOK
  BY DEF IInv, TypeOK, CallsOK
<1>2. CASE microbit_create_heap
  <2>1. heap_count' \in 0 .. H /\ heap_count' = heap_count + 1 /\ heap_count + 1 \in Heaps
    BY <1>1, <1>2, HeapAssumption DEF microbit_create_heap, Heaps
  <2>2. /\ Start[heap_count + 1] \in Addr
        /\ End[heap_count + 1] - Start[heap_count + 1] \in Nat
    BY <2>1, HeapIsMemory DEF Addr
  <2>3. word' \in [Addr -> Nat] /\ free' \subseteq Addr /\ hdrs' \subseteq Addr
    BY <1>1, <1>2, <2>2 DEF microbit_create_heap
  <2> QED
    BY <1>1, <1>2, <2>1, <2>3 DEF microbit_create_heap, calls, walk, TypeOK, CallsOK
<1>3. ASSUME NEW c \in Contexts, NEW n \in Needs, microbit_malloc(c, n)
      PROVE  TypeOK'
  <2>1. n \in {k \in Nat : k >= 2}
    BY NeedsAssumption
  <2>2. CallsOK'
    BY <1>1, <1>3, <2>1 DEF microbit_malloc, CallsOK
  <2> QED
    BY <1>1, <1>3, <2>2 DEF microbit_malloc, memory, walk, TypeOK, CallsOK
<1>4. ASSUME NEW c \in Contexts, Begin(c)
      PROVE  TypeOK'
  <2>1. heap[c] \in Heaps
    <3>1. heap[c] <= heap_count /\ heap[c] \in Nat \ {0} /\ heap_count \in 0 .. H
      BY <1>1, <1>4 DEF Begin, CallsOK
    <3> QED
      BY <3>1, HeapIndex
  <2>2. Start[heap[c]] \in Nat
    BY <2>1, HeapAssumption
  <2> QED
    BY <1>1, <1>4, <2>2 DEF Begin, memory, calls, TypeOK, CallsOK
<1>5. ASSUME NEW c \in Contexts, native_malloc(c)
      PROVE  TypeOK'
  BY <1>1, <1>5, ReturnTypes DEF native_malloc, memory, walk, TypeOK, CallsOK
<1>6. ASSUME NEW c \in Contexts, WalkUsed(c) \/ WalkSmall(c)
      PROVE  TypeOK'
  <2>1. next \in Nat
    BY <1>6, WalkFacts DEF WalkUsed, WalkSmall
  <2> QED
    BY <1>1, <1>6, <2>1 DEF WalkUsed, WalkSmall, memory, calls, TypeOK, CallsOK
<1>7. ASSUME NEW c \in Contexts, Merge(c)
      PROVE  TypeOK'
  <2>1. block \in Addr /\ next \in Addr
    BY <1>1, <1>7, WalkFacts DEF Merge, Mergeable, End_
  <2>2. word' \in [Addr -> Nat]
    BY <1>1, <1>7, <2>1 DEF Merge
  <2> QED
    BY <1>1, <1>7, <2>2 DEF Merge, calls, walk, TypeOK, CallsOK
<1>8. ASSUME NEW c \in Contexts, Take(c)
      PROVE  TypeOK'
  <2>1. /\ block \in Addr /\ need[c] \in Nat /\ word[block] \in Nat
        /\ heap[c] \in Heaps /\ Start[heap[c]] <= block /\ need[c] <= word[block]
    BY <1>1, <1>8, WalkFacts DEF Take, Fits, CallsOK
  <2>2. CallsOK'
    BY <1>1, <1>8, ReturnTypes DEF Take
  <2>3. asked' \in [Addr -> Nat]
    BY <1>1, <1>8, <2>1 DEF Take
  <2>4. ~Whole(c) => block + need[c] \in Addr
    <3>1. ~Whole(c) => ~(block + need[c] + 1 >= End[heap[c]])
      BY DEF Whole, End_
    <3>2. Start[heap[c]] \in Nat /\ End[heap[c]] \in Nat /\ block \in Int
      BY <2>1, HeapAssumption DEF Addr
    <3>3. ~Whole(c) => Start[heap[c]] <= block + need[c] /\ block + need[c] < End[heap[c]]
      BY <2>1, <3>1, <3>2
    <3> QED
      BY <2>1, <3>2, <3>3, HeapIsMemory
  <2>5. word' \in [Addr -> Nat] /\ free' \subseteq Addr /\ hdrs' \subseteq Addr
    <3>1. CASE Whole(c)
      BY <1>1, <1>8, <3>1 DEF Take
    <3>2. CASE ~Whole(c)
      <4>1. /\ word' = [word EXCEPT ![block] = need[c],
                                   ![block + need[c]] = word[block] - need[c]]
            /\ free' = (free \ {block}) \cup {block + need[c]}
            /\ hdrs' = hdrs \cup {block + need[c]}
        BY <1>8, <3>2 DEF Take
      <4>2. word[block] - need[c] \in Nat
        BY <2>1
      <4> QED
        BY <1>1, <2>1, <2>4, <3>2, <4>1, <4>2
    <3> QED
      BY <3>1, <3>2
  <2> QED
    BY <1>1, <1>8, <2>2, <2>3, <2>5 DEF Take, TypeOK, CallsOK
<1>9. ASSUME NEW c \in Contexts, Full(c)
      PROVE  TypeOK'
  BY <1>1, <1>9 DEF Full, memory, TypeOK, CallsOK
<1>10. ASSUME NEW c \in Contexts, NEW a \in Addr, microbit_free(c, a)
       PROVE  TypeOK'
  <2>1. word[a] \in Nat
    BY <1>1
  <2> QED
    BY <1>1, <1>10, <2>1 DEF microbit_free, memory, walk, TypeOK, CallsOK
<1>11. ASSUME NEW c \in Contexts, FreeWrite(c)
       PROVE  TypeOK'
  <2>1. cb[c] \in Addr /\ seen[c] \in Nat
    BY <1>1 DEF CallsOK
  <2> QED
    BY <1>1, <1>11, <2>1, ReturnTypes DEF FreeWrite, walk, TypeOK, CallsOK
<1>12. ASSUME NEW a \in Addr, NEW x \in Addr, NEW w \in Words, Write(a, x, w)
       PROVE  TypeOK'
  <2>1. w \in Nat
    BY WordsAssumption
  <2> QED
    BY <1>1, <1>12, <2>1 DEF Write, calls, walk, TypeOK, CallsOK
<1> QED
  BY <1>2, <1>3, <1>4, <1>5, <1>6, <1>7, <1>8, <1>9, <1>10, <1>11, <1>12
  DEF Next, Allocator

-----------------------------------------------------------------------------
(* Owners and headers.                                                     *)

\* Two headers, and the heaps they are in.
LEMMA TileFacts ==
    ASSUME TypeOK, Tiled, InSomeHeap, NEW a \in hdrs, NEW h \in 1 .. heap_count,
           Start[h] <= a, a < End[h]
    PROVE  /\ h \in Heaps /\ Start[h] \in Nat /\ End[h] \in Nat
           /\ a \in Nat /\ word[a] \in Nat /\ word[a] > 0
           /\ a + word[a] <= End[h] /\ (a + word[a] < End[h] => a + word[a] \in hdrs)
           /\ \A b \in hdrs : b <= a \/ b >= a + word[a]
<1>1. heap_count \in 0 .. H /\ H \in Nat
  BY HeapAssumption DEF TypeOK
<1>2. h \in Heaps
  BY <1>1 DEF Heaps
<1>3. Start[h] \in Nat /\ End[h] \in Nat
  BY <1>2, HeapAssumption
<1>4. a \in Nat /\ word[a] \in Nat
  <2>1. a \in Addr /\ word[a] \in Nat
    BY DEF TypeOK
  <2> QED
    BY <2>1 DEF Addr
<1>5. /\ word[a] > 0
      /\ a + word[a] = End[h] \/ (a + word[a] < End[h] /\ a + word[a] \in hdrs)
      /\ \A b \in hdrs : b <= a \/ b >= a + word[a]
  BY DEF Tiled
<1> QED
  BY <1>2, <1>3, <1>4, <1>5

LEMMA CreateKeepsOwners ==
    ASSUME IInv, microbit_create_heap
    PROVE  OwnersAreSafe'
<1> DEFINE g == heap_count + 1
           s == Start[g]
<1>1. /\ TypeOK /\ Tiled /\ InSomeHeap /\ Owned
      /\ heap_count \in 0 .. H /\ heap_count < H /\ heap_count' = g
      /\ word \in [Addr -> Nat] /\ hdrs \subseteq Addr
  BY DEF IInv, OwnersAreSafe, TypeOK, microbit_create_heap
<1>2. g \in Heaps /\ H \in Nat
  BY <1>1, HeapAssumption DEF Heaps
<1>3. s \in Addr /\ s \in Nat /\ End[g] \in Nat /\ s + 2 <= End[g]
  BY <1>2, HeapAssumption, HeapIsMemory
<1>4. /\ word' = [word EXCEPT ![s] = End[g] - s] /\ free' = free \cup {s}
      /\ hdrs' = hdrs \cup {s} /\ asked' = asked
  BY DEF microbit_create_heap
<1>5. /\ word'[s] = End[g] - s
      /\ \A a \in Addr \ {s} : word'[a] = word[a]
  BY <1>1, <1>3, <1>4
<1>6. \A h \in 1 .. heap_count : h \in Heaps /\ h /= g
  BY <1>1, <1>2 DEF Heaps
<1>7. \A h \in 1 .. heap_count :
          Start[h] \in Nat /\ End[h] \in Nat /\ (End[h] <= s \/ End[g] <= Start[h])
  BY <1>2, <1>6, HeapAssumption
<1>8. \A a \in hdrs : a \in Nat /\ a /= s /\ (a < s \/ a >= End[g])
  <2> SUFFICES ASSUME NEW a \in hdrs
               PROVE  a \in Nat /\ a /= s /\ (a < s \/ a >= End[g])
    OBVIOUS
  <2>1. PICK h \in 1 .. heap_count : Start[h] <= a /\ a < End[h]
    BY <1>1 DEF InSomeHeap
  <2>2. a \in Nat
    BY <1>1 DEF Addr
  <2> QED
    BY <1>3, <1>7, <2>1, <2>2
<1>9. \A h \in 1 .. heap_count' : h \in 1 .. heap_count \/ h = g
  BY <1>1
<1>10. Tiled'
  <2> SUFFICES ASSUME NEW h \in 1 .. heap_count'
               PROVE  /\ Start[h] \in hdrs'
                      /\ \A a \in hdrs' :
                            Start[h] <= a /\ a < End[h] =>
                            /\ word'[a] > 0
                            /\ \/ a + word'[a] = End[h]
                               \/ a + word'[a] < End[h] /\ a + word'[a] \in hdrs'
                            /\ \A b \in hdrs' : b <= a \/ b >= a + word'[a]
    BY DEF Tiled
  <2>1. CASE h = g
    <3>1. \A a \in hdrs' : Start[h] <= a /\ a < End[h] => a = s
      BY <1>3, <1>4, <1>8, <2>1
    <3>2. s + word'[s] = End[g] /\ word'[s] > 0
      BY <1>3, <1>5
    <3>3. \A b \in hdrs' : b <= s \/ b >= End[g]
      BY <1>3, <1>4, <1>8
    <3> QED
      BY <1>4, <2>1, <3>1, <3>2, <3>3
  <2>2. CASE h \in 1 .. heap_count
    <3>1. Start[h] \in hdrs'
      BY <1>1, <1>4, <2>2 DEF Tiled
    <3>2. ASSUME NEW a \in hdrs', Start[h] <= a, a < End[h]
          PROVE  /\ word'[a] > 0
                 /\ \/ a + word'[a] = End[h]
                    \/ a + word'[a] < End[h] /\ a + word'[a] \in hdrs'
                 /\ \A b \in hdrs' : b <= a \/ b >= a + word'[a]
      <4>1. a /= s
        BY <1>3, <1>7, <2>2, <3>2
      <4>2. a \in hdrs /\ a \in Addr /\ word'[a] = word[a]
        BY <1>1, <1>4, <1>5, <4>1
      <4>3. /\ a \in Nat /\ word[a] \in Nat /\ word[a] > 0
            /\ a + word[a] <= End[h] /\ (a + word[a] < End[h] => a + word[a] \in hdrs)
            /\ \A b \in hdrs : b <= a \/ b >= a + word[a]
        BY <1>1, <2>2, <3>2, <4>2, TileFacts
      <4>4. s <= a \/ s >= a + word[a]
        BY <1>3, <1>7, <2>2, <3>2, <4>3
      <4>5. End[h] \in Nat
        BY <1>7, <2>2
      <4> QED
        BY <1>4, <4>2, <4>3, <4>4, <4>5
    <3> QED
      BY <3>1, <3>2
  <2> QED
    BY <1>9, <2>1, <2>2
<1>11. InSomeHeap'
  <2>1. \A h \in 1 .. heap_count : h \in 1 .. heap_count'
    BY <1>1
  <2>2. g \in 1 .. heap_count' /\ Start[g] <= s /\ s < End[g]
    BY <1>1, <1>3
  <2> QED
    BY <1>1, <1>4, <2>1, <2>2 DEF InSomeHeap
<1>12. Owned'
  <2> SUFFICES ASSUME NEW a \in Addr, asked[a] > 0
               PROVE  a \in hdrs' \ free' /\ asked[a] <= word'[a]
    BY <1>4 DEF Owned
  <2>1. a \in hdrs \ free /\ asked[a] <= word[a]
    BY <1>1 DEF Owned
  <2>2. a /= s
    BY <1>8, <2>1
  <2> QED
    BY <1>4, <1>5, <2>1, <2>2
<1> QED
  BY <1>10, <1>11, <1>12 DEF OwnersAreSafe

LEMMA MergeKeepsOwners ==
    ASSUME IInv, NEW c \in Contexts, Merge(c)
    PROVE  OwnersAreSafe'
<1> DEFINE h == heap[c]
<1>1. /\ TypeOK /\ Tiled /\ InSomeHeap /\ Owned
      /\ word \in [Addr -> Nat] /\ hdrs \subseteq Addr /\ block \in Nat
  BY DEF IInv, OwnersAreSafe, TypeOK
<1>2. /\ h \in Heaps /\ h <= heap_count /\ block \in hdrs
      /\ Start[h] <= block /\ block < End[h] /\ next \in hdrs /\ next < End[h]
  BY WalkFacts DEF Merge, Mergeable, End_
<1>3. h \in 1 .. heap_count
  BY <1>1, <1>2 DEF Heaps, TypeOK
<1>4. /\ Start[h] \in Nat /\ End[h] \in Nat
      /\ word[block] \in Nat /\ word[block] > 0
      /\ \A b \in hdrs : b <= block \/ b >= block + word[block]
  BY <1>1, <1>2, <1>3, TileFacts
<1>5. next = block + word[block] /\ Start[h] <= next
  BY <1>2, <1>4, <1>1 DEF next
<1>6. /\ word[next] \in Nat /\ word[next] > 0 /\ next \in Nat
      /\ next + word[next] <= End[h]
      /\ next + word[next] < End[h] => next + word[next] \in hdrs
      /\ \A b \in hdrs : b <= next \/ b >= next + word[next]
  BY <1>1, <1>2, <1>3, <1>5, TileFacts
<1>7. /\ word' = [word EXCEPT ![block] = @ + word[next]] /\ hdrs' = hdrs \ {next}
      /\ free' = free /\ heap_count' = heap_count /\ asked' = asked
      /\ block \in free /\ next \in free
  BY DEF Merge, Mergeable
<1>8. /\ word'[block] = word[block] + word[next]
      /\ \A a \in hdrs : a /= block => word'[a] = word[a]
  BY <1>1, <1>2, <1>7
<1>9. Tiled'
  <2> SUFFICES ASSUME NEW g \in 1 .. heap_count
               PROVE  /\ Start[g] \in hdrs'
                      /\ \A a \in hdrs' :
                            Start[g] <= a /\ a < End[g] =>
                            /\ word'[a] > 0
                            /\ \/ a + word'[a] = End[g]
                               \/ a + word'[a] < End[g] /\ a + word'[a] \in hdrs'
                            /\ \A b \in hdrs' : b <= a \/ b >= a + word'[a]
    BY <1>7 DEF Tiled
  <2>1. Start[g] \in hdrs /\ g \in Heaps
    BY <1>1, HeapAssumption DEF Tiled, TypeOK, Heaps
  <2>2. Start[g] \in Nat /\ End[g] \in Nat /\ Start[g] < End[g]
    BY <2>1, HeapAssumption
  <2>3. g /= h => End[g] <= Start[h] \/ End[h] <= Start[g]
    BY <1>2, <2>1, HeapAssumption
  <2>4. Start[g] /= next
    BY <1>1, <1>2, <1>4, <1>5, <1>6, <2>2, <2>3
  <2>5. ASSUME NEW a \in hdrs', Start[g] <= a, a < End[g]
        PROVE  /\ word'[a] > 0
               /\ \/ a + word'[a] = End[g]
                  \/ a + word'[a] < End[g] /\ a + word'[a] \in hdrs'
               /\ \A b \in hdrs' : b <= a \/ b >= a + word'[a]
    <3>1. /\ a \in hdrs /\ a /= next
          /\ a \in Nat /\ word[a] \in Nat /\ word[a] > 0
          /\ a + word[a] <= End[g] /\ (a + word[a] < End[g] => a + word[a] \in hdrs)
          /\ \A b \in hdrs : b <= a \/ b >= a + word[a]
      BY <1>1, <1>7, <2>5, TileFacts
    <3>2. CASE a = block
      <4>1. g = h
        BY <1>1, <1>2, <1>4, <2>2, <2>3, <2>5, <3>2
      <4>2. a + word'[a] = next + word[next] /\ word'[a] > 0
        BY <1>1, <1>4, <1>5, <1>6, <1>8, <3>2
      <4>3. next + word[next] /= next
        BY <1>6
      <4>4. \A b \in hdrs' : b <= a \/ b >= next + word[next]
        BY <1>1, <1>4, <1>5, <1>6, <1>7, <3>2
      <4> QED
        BY <1>4, <1>6, <1>7, <4>1, <4>2, <4>3, <4>4
    <3>3. CASE a /= block
      <4>1. word'[a] = word[a]
        BY <1>8, <3>1, <3>3
      <4>2. a + word[a] /= next
        BY <1>1, <1>2, <1>4, <1>5, <3>1, <3>3
      <4> QED
        BY <1>7, <2>2, <3>1, <4>1, <4>2
    <3> QED
      BY <3>2, <3>3
  <2> QED
    BY <1>7, <2>1, <2>4, <2>5
<1>10. InSomeHeap'
  BY <1>1, <1>7 DEF InSomeHeap
<1>11. Owned'
  <2> SUFFICES ASSUME NEW a \in Addr, asked[a] > 0
               PROVE  a \in hdrs' \ free' /\ asked[a] <= word'[a]
    BY <1>7 DEF Owned
  <2>1. a \in hdrs \ free /\ asked[a] <= word[a]
    BY <1>1 DEF Owned
  <2> QED
    BY <1>7, <1>8, <2>1
<1> QED
  BY <1>9, <1>10, <1>11 DEF OwnersAreSafe

LEMMA TakeKeepsOwners ==
    ASSUME IInv, NEW c \in Contexts, Take(c)
    PROVE  OwnersAreSafe'
<1> DEFINE h == heap[c]
           n == need[c]
           rest == block + n
<1>1. /\ TypeOK /\ Tiled /\ InSomeHeap /\ Owned
      /\ word \in [Addr -> Nat] /\ hdrs \subseteq Addr /\ block \in Nat
      /\ n \in Nat /\ n >= 2 /\ asked \in [Addr -> Nat]
  BY DEF IInv, OwnersAreSafe, TypeOK
<1>2. /\ h \in Heaps /\ h <= heap_count /\ block \in hdrs
      /\ Start[h] <= block /\ block < End[h]
  BY WalkFacts DEF Take
<1>3. h \in 1 .. heap_count
  BY <1>1, <1>2 DEF Heaps, TypeOK
<1>4. /\ Start[h] \in Nat /\ End[h] \in Nat
      /\ word[block] \in Nat /\ word[block] > 0
      /\ block + word[block] <= End[h]
      /\ block + word[block] < End[h] => block + word[block] \in hdrs
      /\ \A b \in hdrs : b <= block \/ b >= block + word[block]
  BY <1>1, <1>2, <1>3, TileFacts
<1>5. /\ heap_count' = heap_count /\ block \in free /\ n <= word[block]
      /\ asked' = [asked EXCEPT ![block] = n]
  BY DEF Take, Fits
<1>6. asked'[block] = n /\ \A a \in Addr : a /= block => asked'[a] = asked[a]
  BY <1>1, <1>2, <1>5
<1>7. CASE word' = word /\ hdrs' = hdrs /\ free' = free \ {block}
  <2>1. Tiled' /\ InSomeHeap'
    BY <1>1, <1>5, <1>7 DEF Tiled, InSomeHeap
  <2>2. Owned'
    BY <1>1, <1>2, <1>5, <1>6, <1>7 DEF Owned
  <2> QED
    BY <2>1, <2>2 DEF OwnersAreSafe
<1>8. CASE /\ ~Whole(c)
           /\ word' = [word EXCEPT ![block] = n, ![rest] = word[block] - n]
           /\ free' = (free \ {block}) \cup {rest} /\ hdrs' = hdrs \cup {rest}
  <2>1. n + 1 < word[block] /\ rest + 1 < End[h]
    <3>1. ~(word[block] <= n + 1) /\ ~(rest + 1 >= End[h])
      BY <1>8 DEF Whole, End_
    <3> QED
      BY <1>1, <1>4, <3>1
  <2>2. rest \in Nat /\ Start[h] <= rest /\ rest < End[h] /\ rest /= block
    BY <1>1, <1>2, <1>4, <2>1
  <2>3. rest \in Addr
    BY <1>2, <2>2, HeapIsMemory
  <2>4. rest \notin hdrs
    BY <1>1, <1>4, <2>1
  <2>5. /\ word'[block] = n /\ word'[rest] = word[block] - n
        /\ \A a \in Addr : a /= block /\ a /= rest => word'[a] = word[a]
    BY <1>1, <1>2, <1>8, <2>2, <2>3
  <2>9. \A b \in hdrs' : b \in Nat /\ (b \in hdrs \/ b = rest)
    <3>1. \A b \in Addr : b \in Nat
      BY DEF Addr
    <3> QED
      BY <1>1, <1>8, <2>2, <3>1
  <2>10. hdrs \subseteq hdrs' /\ rest \in hdrs'
    BY <1>8
  <2>6. Tiled'
    <3> SUFFICES ASSUME NEW g \in 1 .. heap_count
                 PROVE  /\ Start[g] \in hdrs'
                        /\ \A a \in hdrs' :
                              Start[g] <= a /\ a < End[g] =>
                              /\ word'[a] > 0
                              /\ \/ a + word'[a] = End[g]
                                 \/ a + word'[a] < End[g] /\ a + word'[a] \in hdrs'
                              /\ \A b \in hdrs' : b <= a \/ b >= a + word'[a]
      BY <1>5 DEF Tiled
    <3>1. Start[g] \in hdrs /\ g \in Heaps
      BY <1>1, HeapAssumption DEF Tiled, TypeOK, Heaps
    <3>2. ASSUME NEW a \in hdrs', Start[g] <= a, a < End[g]
          PROVE  /\ word'[a] > 0
                 /\ \/ a + word'[a] = End[g]
                    \/ a + word'[a] < End[g] /\ a + word'[a] \in hdrs'
                 /\ \A b \in hdrs' : b <= a \/ b >= a + word'[a]
      <4>1. CASE a = block
        <5>1. g = h
          BY <1>1, <1>2, <3>1, <3>2, <4>1, HeapsLieApart
        <5>2. \A b \in hdrs' : b <= block \/ b >= rest
          BY <1>1, <1>4, <2>1, <2>9
        <5> QED
          BY <1>1, <1>8, <2>2, <2>5, <4>1, <5>1, <5>2
      <4>2. CASE a = rest
        <5>1. g = h
          <6>1. rest \in Int /\ Start[g] <= rest /\ rest < End[g]
            BY <2>2, <3>2, <4>2
          <6>2. h \in Heaps
            BY <1>2
          <6> QED
            BY <2>2, <3>1, <6>1, <6>2, HeapsLieApart
        <5>2. a + word'[a] = block + word[block] /\ word'[a] > 0
          BY <1>1, <1>4, <2>1, <2>5, <4>2
        <5>3. \A b \in hdrs' : b <= rest \/ b >= block + word[block]
          BY <1>1, <1>4, <2>1, <2>9
        <5>4. \/ block + word[block] = End[h]
              \/ block + word[block] < End[h] /\ block + word[block] \in hdrs'
          BY <1>1, <1>4, <2>10
        <5> QED
          BY <4>2, <5>4, <5>1, <5>2, <5>3
      <4>3. CASE a /= block /\ a /= rest
        <5>1. /\ a \in hdrs /\ a \in Addr
          BY <1>1, <1>8, <3>2, <4>3
        <5>2. /\ a \in Nat /\ word[a] \in Nat /\ word[a] > 0 /\ End[g] \in Nat
              /\ a + word[a] <= End[g] /\ (a + word[a] < End[g] => a + word[a] \in hdrs)
              /\ \A b \in hdrs : b <= a \/ b >= a + word[a]
          BY <1>1, <3>2, <5>1, TileFacts
        <5>3. word'[a] = word[a]
          BY <2>5, <4>3, <5>1
        <5>4. rest <= a \/ rest >= a + word[a]
          BY <1>1, <1>2, <1>4, <2>1, <4>3, <5>1, <5>2
        <5>5. \A b \in hdrs' : b <= a \/ b >= a + word[a]
          BY <2>9, <5>2, <5>4
        <5>6. a + word[a] = End[g] \/ (a + word[a] < End[g] /\ a + word[a] \in hdrs')
          BY <2>10, <5>2
        <5> QED
          BY <5>2, <5>3, <5>5, <5>6
      <4> QED
        BY <4>1, <4>2, <4>3
    <3> QED
      BY <1>8, <3>1, <3>2
  <2>7. InSomeHeap'
    BY <1>1, <1>3, <1>5, <1>8, <2>2 DEF InSomeHeap
  <2>8. Owned'
    <3> SUFFICES ASSUME NEW a \in Addr, asked'[a] > 0
                 PROVE  a \in hdrs' \ free' /\ asked'[a] <= word'[a]
      BY DEF Owned
    <3>1. CASE a = block
      BY <1>1, <1>2, <1>6, <1>8, <2>2, <2>5, <3>1
    <3>2. CASE a /= block
      <4>1. asked'[a] = asked[a] /\ a \in hdrs \ free /\ asked[a] <= word[a]
        BY <1>1, <1>6, <3>2 DEF Owned
      <4> QED
        BY <1>8, <2>4, <2>5, <3>2, <4>1
    <3> QED
      BY <3>1, <3>2
  <2> QED
    BY <2>6, <2>7, <2>8 DEF OwnersAreSafe
<1> QED
  BY <1>7, <1>8 DEF Take

LEMMA FreeKeepsOwners ==
    ASSUME IInv, NEW c \in Contexts, FreeWrite(c)
    PROVE  /\ word' = word /\ cb[c] \in hdrs /\ asked[cb[c]] = 0
           /\ OwnersAreSafe'
<1>1. /\ cb[c] \in hdrs \ free /\ seen[c] = word[cb[c]] /\ asked[cb[c]] = 0
      /\ word \in [Addr -> Nat] /\ hdrs \subseteq Addr /\ asked \in [Addr -> Nat]
      /\ Tiled /\ InSomeHeap /\ Owned
  BY DEF IInv, FreeingOK, FreeWrite, TypeOK, OwnersAreSafe
<1>2. /\ word' = [word EXCEPT ![cb[c]] = seen[c]] /\ free' = free \cup {cb[c]}
      /\ heap_count' = heap_count /\ hdrs' = hdrs /\ asked' = asked
  BY DEF FreeWrite
<1>3. word' = word
  BY <1>1, <1>2
<1>4. Tiled' /\ InSomeHeap'
  BY <1>1, <1>2, <1>3 DEF Tiled, InSomeHeap
<1>5. Owned'
  BY <1>1, <1>2, <1>3 DEF Owned
<1> QED
  BY <1>1, <1>3, <1>4, <1>5 DEF OwnersAreSafe

LEMMA WriteKeepsOwners ==
    ASSUME IInv, NEW a \in Addr, NEW x \in Addr, NEW w \in Words, Write(a, x, w)
    PROVE  /\ \A b \in hdrs : word'[b] = word[b] /\ (b \in free' <=> b \in free)
           /\ OwnersAreSafe'
<1>1. /\ word \in [Addr -> Nat] /\ hdrs \subseteq Addr /\ TypeOK
      /\ Tiled /\ InSomeHeap /\ Owned /\ OwnersAreSafe
  BY DEF IInv, TypeOK, OwnersAreSafe
<1>2. /\ word' = [word EXCEPT ![x] = w] /\ free' \in {free \cup {x}, free \ {x}}
      /\ heap_count' = heap_count /\ hdrs' = hdrs /\ asked' = asked
      /\ asked[a] > 0 /\ x \in Payload(a)
  BY DEF Write
<1>3. \A b \in hdrs : b /= x
  BY <1>1, <1>2, PayloadIsPrivate
<1>4. \A b \in hdrs : word'[b] = word[b] /\ (b \in free' <=> b \in free)
  BY <1>1, <1>2, <1>3
<1>5. Tiled' /\ InSomeHeap'
  BY <1>1, <1>2, <1>4 DEF Tiled, InSomeHeap
<1>6. Owned'
  BY <1>1, <1>2, <1>4 DEF Owned
<1> QED
  BY <1>4, <1>5, <1>6 DEF OwnersAreSafe

LEMMA OwnersStaySafe ==
    ASSUME IInv, Next
    PROVE  OwnersAreSafe'
<1>1. Tiled /\ InSomeHeap /\ Owned
  BY DEF IInv, OwnersAreSafe
<1>2. ASSUME UNCHANGED <<heap_count, memory, hdrs, asked>>
      PROVE  OwnersAreSafe'
  BY <1>1, <1>2 DEF memory, OwnersAreSafe, Tiled, InSomeHeap, Owned
<1>3. ASSUME NEW c \in Contexts, NEW n \in Needs, microbit_malloc(c, n)
      PROVE  OwnersAreSafe'
  BY <1>2, <1>3 DEF microbit_malloc
<1>4. ASSUME NEW c \in Contexts,
             Begin(c) \/ native_malloc(c) \/ WalkUsed(c) \/ WalkSmall(c) \/ Full(c)
      PROVE  OwnersAreSafe'
  BY <1>2, <1>4 DEF Begin, native_malloc, WalkUsed, WalkSmall, Full
<1>5. ASSUME NEW c \in Contexts, NEW a \in Addr, microbit_free(c, a)
      PROVE  OwnersAreSafe'
  <2>1. /\ UNCHANGED <<heap_count, memory, hdrs>> /\ asked' = [asked EXCEPT ![a] = 0]
        /\ asked \in [Addr -> Nat]
    BY <1>5 DEF microbit_free, IInv, TypeOK
  <2>2. \A b \in Addr : asked'[b] > 0 => asked[b] > 0 /\ asked'[b] = asked[b]
    BY <2>1
  <2>3. Owned'
    BY <1>1, <2>1, <2>2 DEF Owned, memory
  <2>4. Tiled' /\ InSomeHeap'
    BY <1>1, <2>1 DEF Tiled, InSomeHeap, memory
  <2> QED
    BY <2>3, <2>4 DEF OwnersAreSafe
<1> QED
  BY <1>3, <1>4, <1>5, CreateKeepsOwners, MergeKeepsOwners, TakeKeepsOwners,
     FreeKeepsOwners, WriteKeepsOwners
  DEF Next, Allocator

-----------------------------------------------------------------------------
(* Walks and frees under way.                                              *)

LEMMA WalkersStay ==
    ASSUME IInv, Next
    PROVE  WalkerOK'
<1>1. ASSUME walker' = None
      PROVE  WalkerOK'
  BY <1>1, NoneAssumption DEF WalkerOK
<1>2. ASSUME NEW c \in Contexts, Begin(c)
      PROVE  WalkerOK'
  <2>1. /\ walker' = c /\ pc' = pc /\ heap' = heap /\ heap_count' = heap_count
        /\ hdrs' = hdrs /\ block' = Start[heap[c]]
        /\ pc[c] = "malloc" /\ heap[c] <= heap_count
    BY <1>2 DEF Begin, calls
  <2>2. heap_count \in 0 .. H /\ heap[c] \in Nat \ {0} /\ Tiled
    BY DEF IInv, TypeOK, OwnersAreSafe
  <2>3. heap[c] \in Heaps /\ heap[c] \in 1 .. heap_count
    BY <2>1, <2>2, HeapIndex
  <2>4. Start[heap[c]] \in hdrs
    BY <2>2, <2>3 DEF Tiled
  <2>5. Start[heap[c]] <= Start[heap[c]] /\ Start[heap[c]] < End[heap[c]]
    BY <2>3, HeapIsMemory DEF Addr
  <2> QED
    BY <2>1, <2>4, <2>5 DEF WalkerOK
<1>3. ASSUME NEW c \in Contexts, WalkUsed(c) \/ WalkSmall(c)
      PROVE  WalkerOK'
  <2>1. /\ walker' = c /\ pc' = pc /\ heap' = heap /\ heap_count' = heap_count
        /\ hdrs' = hdrs /\ block' = next /\ Walks(c)
    BY <1>3 DEF WalkUsed, WalkSmall, calls, Walks
  <2>2. /\ heap[c] \in Heaps /\ heap[c] <= heap_count /\ pc[c] = "malloc"
        /\ Start[heap[c]] <= block /\ word[block] > 0
        /\ next <= End[heap[c]] /\ next \in Nat
        /\ next < End[heap[c]] => next \in hdrs
    BY <2>1, WalkFacts
  <2>3. block \in Nat /\ block \in hdrs /\ word[block] \in Nat
    BY <2>1, WalkFacts DEF IInv, TypeOK
  <2>4. Start[heap[c]] \in Nat /\ End[heap[c]] \in Nat
    BY <2>2, HeapAssumption
  <2>5. Start[heap[c]] <= next
    BY <2>2, <2>3, <2>4 DEF next
  <2>6. next = End[heap[c]] \/ next < End[heap[c]]
    BY <2>2, <2>4
  <2> QED
    BY <2>1, <2>2, <2>5, <2>6 DEF WalkerOK
<1>4. ASSUME NEW c \in Contexts, Merge(c)
      PROVE  WalkerOK'
  <2>1. /\ walker = c /\ walker' = c /\ pc' = pc /\ heap' = heap /\ heap_count' = heap_count
        /\ hdrs' = hdrs \ {next} /\ block' = block /\ Walks(c)
    BY <1>4 DEF Merge, calls, walk, Walks
  <2>2. /\ heap[c] <= heap_count /\ pc[c] = "malloc" /\ block \in hdrs
        /\ Start[heap[c]] <= block /\ block < End[heap[c]] /\ word[block] > 0
    BY <2>1, WalkFacts
  <2>3. block \in Nat /\ word[block] \in Nat
    BY <2>2 DEF IInv, TypeOK
  <2>4. block /= next
    BY <2>2, <2>3 DEF next
  <2> QED
    BY <2>1, <2>2, <2>4 DEF WalkerOK
<1> QED
  BY <1>1, <1>2, <1>3, <1>4
  DEF Next, Allocator, microbit_create_heap, microbit_malloc, native_malloc, Take, Full,
      microbit_free, FreeWrite, Write, walk

\* A heap that is created lies apart from the blocks of the others.
LEMMA NewHeapIsApart ==
    ASSUME IInv, heap_count < H, NEW a \in hdrs
    PROVE  /\ a /= Start[heap_count + 1]
           /\ a + word[a] <= Start[heap_count + 1] \/ Start[heap_count + 1] < a
<1> DEFINE s == Start[heap_count + 1]
<1>1. TypeOK /\ Tiled /\ InSomeHeap /\ heap_count \in 0 .. H /\ H \in Nat
  BY HeapAssumption DEF IInv, OwnersAreSafe, TypeOK
<1>2. heap_count + 1 \in Heaps
  BY <1>1 DEF Heaps
<1>3. PICK h \in 1 .. heap_count : Start[h] <= a /\ a < End[h]
  BY <1>1 DEF InSomeHeap
<1>4. /\ h \in Heaps /\ Start[h] \in Nat /\ End[h] \in Nat /\ a \in Nat
      /\ word[a] \in Nat /\ word[a] > 0 /\ a + word[a] <= End[h]
  BY <1>1, <1>3, TileFacts
<1>5. h /= heap_count + 1
  BY <1>1, <1>3
<1>6. End[h] <= s \/ End[heap_count + 1] <= Start[h]
  BY <1>2, <1>4, <1>5, HeapAssumption
<1>7. s \in Nat /\ End[heap_count + 1] \in Nat /\ s + 2 <= End[heap_count + 1]
  BY <1>2, HeapAssumption
<1>8. a + word[a] <= s \/ s < a
  BY <1>3, <1>4, <1>6, <1>7
<1> QED
  BY <1>4, <1>7, <1>8

\* What a step that is not its owner's does to the words of a block, and what any
\* step does to the header of a used block.
LEMMA CreateKeepsWords ==
    ASSUME IInv, microbit_create_heap, NEW x \in Addr, x /= Start[heap_count + 1]
    PROVE  word'[x] = word[x] /\ (x \in free' <=> x \in free)
BY DEF microbit_create_heap, IInv, TypeOK

LEMMA MergeKeepsWords ==
    ASSUME IInv, NEW c \in Contexts, Merge(c), NEW x \in Addr, x /= block
    PROVE  word'[x] = word[x] /\ (x \in free' <=> x \in free)
BY DEF Merge, IInv, TypeOK

LEMMA TakeKeepsWords ==
    ASSUME IInv, NEW c \in Contexts, Take(c), NEW x \in Addr,
           x < block \/ x >= block + word[block]
    PROVE  word'[x] = word[x] /\ (x \in free' <=> x \in free)
<1>1. /\ block \in Nat /\ word[block] \in Nat /\ word[block] > 0
      /\ need[c] \in Nat /\ need[c] >= 2 /\ word \in [Addr -> Nat] /\ x \in Nat
  <2>1. block \in hdrs /\ word[block] > 0
    BY WalkFacts DEF Take
  <2>2. x \in Nat
    BY DEF Addr
  <2> QED
    BY <2>1, <2>2 DEF IInv, TypeOK
<1>2. x /= block
  BY <1>1
<1>3. ~Whole(c) => x /= block + need[c]
  <2>1. ~Whole(c) => ~(word[block] <= need[c] + 1)
    BY DEF Whole
  <2> QED
    BY <1>1, <2>1
<1>4. CASE word' = word /\ free' = free \ {block}
  BY <1>2, <1>4
<1>5. CASE /\ ~Whole(c)
           /\ word' = [word EXCEPT ![block] = need[c],
                                  ![block + need[c]] = word[block] - need[c]]
           /\ free' = (free \ {block}) \cup {block + need[c]}
  BY <1>1, <1>2, <1>3, <1>5
<1> QED
  BY <1>4, <1>5 DEF Take

LEMMA FreesStay ==
    ASSUME IInv, Next
    PROVE  FreeingOK'
<1>1. /\ TypeOK /\ OwnersAreSafe /\ FreeingOK /\ hdrs \subseteq Addr
      /\ pc \in [Contexts -> {"idle", "malloc", "free"}] /\ asked \in [Addr -> Nat]
      /\ cb \in [Contexts -> Addr] /\ seen \in [Contexts -> Nat]
  BY DEF IInv, TypeOK
<1>2. ASSUME \A d \in Contexts : pc'[d] = "free" =>
                /\ pc[d] = "free" /\ cb'[d] = cb[d] /\ seen'[d] = seen[d]
                /\ cb[d] \in hdrs' \ free' /\ word'[cb[d]] = word[cb[d]]
                /\ asked'[cb[d]] = asked[cb[d]]
      PROVE  FreeingOK'
  BY <1>1, <1>2 DEF FreeingOK
<1>3. ASSUME NEW c \in Contexts, Return(c)
      PROVE  \A d \in Contexts : pc'[d] = "free" =>
                d /= c /\ pc[d] = "free" /\ cb'[d] = cb[d] /\ seen'[d] = seen[d]
  BY <1>1, <1>3 DEF Return
<1>4. CASE microbit_create_heap
  <2>1. \A d \in Contexts : pc[d] = "free" => cb[d] /= Start[heap_count + 1]
    BY <1>1, <1>4, NewHeapIsApart DEF FreeingOK, microbit_create_heap
  <2> QED
    BY <1>1, <1>2, <1>4, <2>1, CreateKeepsWords DEF FreeingOK, microbit_create_heap, calls
<1>5. ASSUME NEW c \in Contexts, NEW n \in Needs, microbit_malloc(c, n)
      PROVE  FreeingOK'
  <2>1. \A d \in Contexts : pc'[d] = "free" => pc[d] = "free"
    BY <1>1, <1>5 DEF microbit_malloc
  <2> QED
    BY <1>1, <1>2, <1>5, <2>1 DEF FreeingOK, microbit_malloc, memory
<1>6. ASSUME NEW c \in Contexts, Begin(c) \/ WalkUsed(c) \/ WalkSmall(c) \/ Full(c)
      PROVE  FreeingOK'
  BY <1>1, <1>2, <1>6 DEF FreeingOK, Begin, WalkUsed, WalkSmall, Full, memory, calls
<1>7. ASSUME NEW c \in Contexts, native_malloc(c)
      PROVE  FreeingOK'
  BY <1>1, <1>2, <1>3, <1>7 DEF FreeingOK, native_malloc, memory
<1>8. ASSUME NEW c \in Contexts, Merge(c)
      PROVE  FreeingOK'
  <2>1. \A d \in Contexts : pc[d] = "free" =>
            cb[d] /= block /\ cb[d] /= next /\ cb[d] \in hdrs' \ free'
    BY <1>1, <1>8 DEF FreeingOK, Merge, Mergeable
  <2> QED
    BY <1>1, <1>2, <1>8, <2>1, MergeKeepsWords DEF FreeingOK, Merge, calls
<1>9. ASSUME NEW c \in Contexts, Take(c)
      PROVE  FreeingOK'
  <2>1. block \in free /\ block \in hdrs /\ hdrs \subseteq hdrs'
    BY <1>9, WalkFacts DEF Take
  <2>2. \A b \in hdrs : b /= block => b < block \/ b >= block + word[block]
    <3>1. \A b \in hdrs : b <= block \/ b >= block + word[block]
      BY <1>1, <2>1, BlockFacts DEF OwnersAreSafe
    <3>2. \A b \in hdrs : b \in Nat
      BY <1>1 DEF Addr
    <3> QED
      BY <2>1, <3>1, <3>2
  <2>3. \A b \in hdrs : b /= block =>
            word'[b] = word[b] /\ (b \in free' <=> b \in free) /\ asked'[b] = asked[b]
    BY <1>1, <1>9, <2>2, TakeKeepsWords DEF Take
  <2> QED
    BY <1>1, <1>2, <1>3, <1>9, <2>1, <2>3 DEF FreeingOK, Take
<1>10. ASSUME NEW c \in Contexts, NEW a \in Addr, microbit_free(c, a)
       PROVE  FreeingOK'
  <2>1. /\ pc' = [pc EXCEPT ![c] = "free"] /\ cb' = [cb EXCEPT ![c] = a]
        /\ seen' = [seen EXCEPT ![c] = word[a]] /\ asked' = [asked EXCEPT ![a] = 0]
        /\ word' = word /\ free' = free /\ hdrs' = hdrs /\ asked[a] > 0
    BY <1>10 DEF microbit_free, memory
  <2>2. a \in hdrs \ free
    BY <1>1, <2>1 DEF OwnersAreSafe, Owned
  <2>3. \A d \in Contexts : pc[d] = "free" => cb[d] /= a
    BY <1>1, <2>1 DEF FreeingOK
  <2>4. \A d \in Contexts : d /= c =>
            pc'[d] = pc[d] /\ cb'[d] = cb[d] /\ seen'[d] = seen[d]
    BY <1>1, <2>1
  <2>5. cb'[c] = a /\ seen'[c] = word[a] /\ asked'[a] = 0
    BY <1>1, <2>1
  <2>6. \A b \in Addr : b /= a => asked'[b] = asked[b]
    BY <1>1, <2>1
  <2>7. ASSUME NEW d \in Contexts, pc'[d] = "free"
        PROVE  /\ cb'[d] \in hdrs' \ free' /\ seen'[d] = word'[cb'[d]]
               /\ asked'[cb'[d]] = 0
               /\ \A e \in Contexts : pc'[e] = "free" /\ cb'[e] = cb'[d] => e = d
    <3>1. CASE d = c
      BY <2>1, <2>2, <2>3, <2>4, <2>5, <3>1
    <3>2. CASE d /= c
      BY <1>1, <2>1, <2>3, <2>4, <2>5, <2>6, <2>7, <3>2 DEF FreeingOK
    <3> QED
      BY <3>1, <3>2
  <2> QED
    BY <2>7 DEF FreeingOK
<1>11. ASSUME NEW c \in Contexts, FreeWrite(c)
       PROVE  FreeingOK'
  BY <1>1, <1>2, <1>3, <1>11, FreeKeepsOwners DEF FreeingOK, FreeWrite
<1>12. ASSUME NEW a \in Addr, NEW x \in Addr, NEW w \in Words, Write(a, x, w)
       PROVE  FreeingOK'
  BY <1>1, <1>2, <1>12, WriteKeepsOwners DEF FreeingOK, Write, calls
<1> QED
  BY <1>4, <1>5, <1>6, <1>7, <1>8, <1>9, <1>10, <1>11, <1>12 DEF Next, Allocator

-----------------------------------------------------------------------------
(* The theorems.                                                           *)

LEMMA HeapInit == Init => IInv
<1>1. Init => OwnersAreSafe
  BY DEF Init, OwnersAreSafe, Tiled, InSomeHeap, Owned
<1>2. Init => WalkerOK /\ FreeingOK
  BY NoneAssumption DEF Init, WalkerOK, FreeingOK
<1> QED
  BY <1>1, <1>2, InitTypes DEF IInv

LEMMA HeapStep == IInv /\ [Next]_vars => IInv'
<1>1. ASSUME IInv, Next
      PROVE  IInv'
  BY <1>1, TypesStay, OwnersStaySafe, WalkersStay, FreesStay DEF IInv
<1>2. ASSUME IInv, UNCHANGED vars
      PROVE  IInv'
  <2>1. UNCHANGED <<heap_count, word, free, pc, need, heap, cb, seen, walker, block, hdrs,
                    asked>>
    BY <1>2 DEF vars, memory, calls, walk
  <2> QED
    BY <1>2, <2>1
    DEF IInv, TypeOK, OwnersAreSafe, Tiled, InSomeHeap, Owned, WalkerOK, FreeingOK
<1> QED
  BY <1>1, <1>2

LEMMA Invariance == Spec => []IInv
  BY HeapInit, HeapStep, PTL DEF Spec

\* Blocks tile every heap, an owner's block is used and as long as he asked for, and
\* nothing that owners write into their blocks is ever taken for a header.
THEOREM HeapSafe == Spec => []OwnersAreSafe
<1>1. IInv => OwnersAreSafe
  BY DEF IInv
<1> QED
  BY <1>1, Invariance, PTL

LEMMA StepKeepsPayload ==
    ASSUME IInv, Allocator, NEW a \in Addr, asked[a] > 0, NEW x \in Payload(a)
    PROVE  word'[x] = word[x] /\ (x \in free' <=> x \in free)
<1>1. /\ TypeOK /\ OwnersAreSafe /\ Tiled /\ InSomeHeap
      /\ a \in hdrs \ free /\ asked[a] <= word[a] /\ asked[a] \in Nat
      /\ word[a] \in Nat
  BY DEF IInv, OwnersAreSafe, Owned, TypeOK
<1>2. x \in Addr /\ \A b \in hdrs : x /= b /\ (b /= a => x < b \/ x >= b + word[b])
  BY <1>1, PayloadIsPrivate
<1>3. CASE microbit_create_heap
  <2>1. a + word[a] <= Start[heap_count + 1] \/ Start[heap_count + 1] < a
    BY <1>1, <1>3, NewHeapIsApart DEF microbit_create_heap
  <2>2. a \in Nat /\ a < x /\ x < a + word[a] /\ x \in Nat
    BY <1>1, <1>2 DEF Payload, Addr
  <2>3. Start[heap_count + 1] \in Nat
    <3>1. heap_count \in 0 .. H /\ heap_count < H /\ H \in Nat
      BY <1>1, <1>3, HeapAssumption DEF TypeOK, microbit_create_heap
    <3>2. heap_count + 1 \in Heaps
      BY <3>1 DEF Heaps
    <3> QED
      BY <3>2, HeapAssumption
  <2>4. x /= Start[heap_count + 1]
    BY <1>1, <2>1, <2>2, <2>3
  <2> QED
    BY <1>2, <1>3, <2>4, CreateKeepsWords
<1>4. ASSUME NEW c \in Contexts, Merge(c)
      PROVE  word'[x] = word[x] /\ (x \in free' <=> x \in free)
  BY <1>2, <1>4, WalkFacts, MergeKeepsWords DEF Merge
<1>5. ASSUME NEW c \in Contexts, Take(c)
      PROVE  word'[x] = word[x] /\ (x \in free' <=> x \in free)
  <2>1. block \in hdrs /\ block /= a
    BY <1>1, <1>5, WalkFacts DEF Take
  <2> QED
    BY <1>2, <1>5, <2>1, TakeKeepsWords
<1>6. ASSUME NEW c \in Contexts, FreeWrite(c)
      PROVE  word'[x] = word[x] /\ (x \in free' <=> x \in free)
  BY <1>2, <1>6, FreeKeepsOwners DEF FreeWrite
<1>7. CASE UNCHANGED memory
  BY <1>7 DEF memory
<1> QED
  BY <1>3, <1>4, <1>5, <1>6, <1>7
  DEF Allocator, microbit_malloc, Begin, native_malloc, WalkUsed, WalkSmall, Full,
      microbit_free

\* No malloc and no free of any context changes a word that belongs to an owner.
THEOREM PayloadSafe == Spec => PayloadKept
<1>1. IInv => [Allocator =>
                 \A a \in Addr : asked[a] > 0 => \A x \in Payload(a) :
                     word'[x] = word[x] /\ (x \in free' <=> x \in free)]_vars
  BY StepKeepsPayload
<1> QED
  BY <1>1, Invariance, PTL DEF PayloadKept

LEMMA RefusalStays ==
    ASSUME IInv, RefusesOnlyWhenFull, Next
    PROVE  RefusesOnlyWhenFull'
<1>1. TypeOK /\ Tiled /\ InSomeHeap /\ hdrs \subseteq Addr
  BY DEF IInv, OwnersAreSafe, TypeOK
<1>2. ASSUME walker' = None
      PROVE  RefusesOnlyWhenFull'
  BY <1>2, NoneAssumption DEF RefusesOnlyWhenFull
<1>3. ASSUME NEW c \in Contexts, Begin(c)
      PROVE  RefusesOnlyWhenFull'
  <2>1. /\ walker' = c /\ block' = Start[heap[c]] /\ heap' = heap /\ hdrs' = hdrs
        /\ heap[c] <= heap_count
    BY <1>3 DEF Begin, calls
  <2>2. heap_count \in 0 .. H /\ heap[c] \in Nat \ {0}
    BY <1>1 DEF TypeOK
  <2>3. heap[c] \in Heaps
    BY <2>1, <2>2, HeapIndex
  <2>4. \A a \in hdrs : ~(Start[heap[c]] <= a /\ a < Start[heap[c]])
    <3>1. Start[heap[c]] \in Nat /\ \A a \in Addr : a \in Nat
      BY <2>3, HeapAssumption DEF Addr
    <3> QED
      BY <1>1, <3>1
  <2> QED
    BY <2>1, <2>4 DEF RefusesOnlyWhenFull
<1>4. ASSUME NEW c \in Contexts, Walks(c)
      PROVE  /\ heap[c] \in 1 .. heap_count /\ block \in hdrs
             /\ block \in Nat /\ word[block] \in Nat /\ word[block] > 0
             /\ Start[heap[c]] <= block /\ next = block + word[block]
             /\ next <= End_(c) /\ End_(c) \in Nat
             /\ \A a \in hdrs : a <= block \/ a >= next
             /\ \A a \in hdrs : a < block => a < next
  <2>1. /\ heap[c] \in Heaps /\ heap[c] <= heap_count /\ block \in hdrs
        /\ Start[heap[c]] <= block /\ block < End[heap[c]] /\ next <= End[heap[c]]
    BY <1>4, WalkFacts
  <2>2. heap[c] \in 1 .. heap_count
    BY <1>1, <2>1 DEF Heaps, TypeOK
  <2>3. /\ End[heap[c]] \in Nat /\ block \in Nat /\ word[block] \in Nat /\ word[block] > 0
        /\ \A b \in hdrs : b <= block \/ b >= block + word[block]
    BY <1>1, <2>1, <2>2, TileFacts
  <2>4. \A a \in hdrs : a \in Nat
    BY <1>1 DEF Addr
  <2> QED
    BY <2>1, <2>2, <2>3, <2>4 DEF next, End_
<1>5. ASSUME NEW c \in Contexts, WalkUsed(c) \/ WalkSmall(c)
      PROVE  RefusesOnlyWhenFull'
  <2>1. /\ walker = c /\ walker' = c /\ heap' = heap /\ hdrs' = hdrs /\ free' = free
        /\ word' = word /\ need' = need /\ block' = next /\ Walks(c)
        /\ block \in free => ~Mergeable(c) /\ ~Fits(c)
    BY <1>5 DEF WalkUsed, WalkSmall, calls, memory, Walks
  <2>2. ASSUME NEW a \in hdrs \cap free, Start[heap[c]] <= a, a < next
        PROVE  word[a] < need[c] /\ (a + word[a] = End_(c) \/ a + word[a] \notin free)
    <3>1. a < block \/ a = block
      <4>1. a \in Nat /\ next \in Nat
        <5>1. a \in Addr
          BY <1>1
        <5> QED
          BY <1>4, <2>1, <5>1 DEF Addr
      <4> QED
        BY <1>4, <2>1, <2>2, <4>1
    <3>2. CASE a < block
      BY <2>1, <2>2, <3>2 DEF RefusesOnlyWhenFull
    <3>3. CASE a = block
      <4>1. ~(word[block] >= need[c]) /\ ~(next < End_(c) /\ next \in free)
        BY <2>1, <2>2, <3>3 DEF Mergeable, Fits
      <4>2. need[c] \in Nat
        BY <1>1 DEF TypeOK
      <4>3. word[block] < need[c]
        BY <1>4, <2>1, <4>1, <4>2
      <4>4. next = End_(c) \/ next \notin free
        <5>1. next \in Nat
          BY <1>4, <2>1
        <5> QED
          BY <1>4, <2>1, <4>1, <5>1
      <4> QED
        BY <1>4, <2>1, <3>3, <4>3, <4>4
    <3> QED
      BY <3>1, <3>2, <3>3
  <2> QED
    BY <2>1, <2>2 DEF RefusesOnlyWhenFull, End_
<1>6. ASSUME NEW c \in Contexts, Merge(c)
      PROVE  RefusesOnlyWhenFull'
  <2>1. /\ walker = c /\ walker' = c /\ heap' = heap /\ hdrs' = hdrs \ {next}
        /\ free' = free /\ need' = need /\ block' = block /\ Walks(c)
    BY <1>6 DEF Merge, calls, walk, Walks
  <2>2. \A a \in hdrs : a < block => word'[a] = word[a]
    <3>1. \A a \in hdrs : a \in Addr /\ (a < block => a /= block)
      BY <1>1, <1>4, <2>1
    <3> QED
      BY <1>6, <3>1, MergeKeepsWords
  <2>3. ASSUME NEW a \in hdrs' \cap free', Start[heap[c]] <= a, a < block
        PROVE  word'[a] < need[c] /\ (a + word'[a] = End_(c) \/ a + word'[a] \notin free)
    BY <2>1, <2>2, <2>3 DEF RefusesOnlyWhenFull
  <2> QED
    BY <2>1, <2>3 DEF RefusesOnlyWhenFull, End_
<1> QED
  BY <1>2, <1>3, <1>5, <1>6
  DEF Next, Allocator, microbit_create_heap, microbit_malloc, native_malloc, Take, Full,
      microbit_free, FreeWrite, Write, walk

\* malloc leaves a heap only when none of its free blocks, joined with the free
\* blocks behind it, is long enough, whatever other contexts did since it began.
THEOREM RefusalIsHonest == Spec => []RefusesOnlyWhenFull
<1>1. Init => RefusesOnlyWhenFull
  BY NoneAssumption DEF Init, RefusesOnlyWhenFull
<1>2. IInv /\ RefusesOnlyWhenFull /\ [Next]_vars => RefusesOnlyWhenFull'
  <2>1. ASSUME RefusesOnlyWhenFull, UNCHANGED vars
        PROVE  RefusesOnlyWhenFull'
    BY <2>1 DEF RefusesOnlyWhenFull, vars, memory, calls, walk, End_
  <2> QED
    BY <2>1, RefusalStays
<1> QED
  BY <1>1, <1>2, Invariance, PTL DEF Spec

-----------------------------------------------------------------------------
(* The buttons.  While a button is down its counter is no further below    *)
(* the upper threshold than it has had ticks since; while it is up, no     *)
(* further above the lower one.  What the multi button supresses is what   *)
(* has been part of a click of A+B since the button went down.             *)

Steady ==
    \A b \in Button!Names :
        IF down[b] THEN THRESH_HI + 2 - stable[b] <= sigma[b]
        ELSE sigma[b] <= THRESH_LO + stable[b] - 2

Supressed ==
    \A b \in Button!Names :
        /\ supressed[b] => down[b]
        /\ down[b] => combined[b] = supressed[b]

ButtonTypes ==
    /\ Button!TypeOK
    /\ supressed \in [Button!Names -> BOOLEAN] /\ combined \in [Button!Names -> BOOLEAN]
    /\ began \in [Button!Names -> 0 .. 3] /\ ended \in [Button!Names -> -1 .. 3]
    /\ own \in [Button!Names -> Seq({"click", "long"})]

ButtonInv == ButtonTypes /\ Steady /\ Supressed /\ Button!EachPressClicksOnce

LEMMA ButtonInit ==
    ASSUME Button!ConstantsOK, Button!Init
    PROVE  ButtonInv
<1> USE DEF Button!Init, Button!Names
<1>1. SIGMA_MAX \in Nat /\ THRESH_HI \in Nat /\ THRESH_LO \in Nat \ {0} /\ HOLD_TIME \in Nat
      /\ THRESH_LO <= THRESH_HI
  BY DEF Button!ConstantsOK
<1>2. Button!TypeOK
  BY <1>1 DEF Button!TypeOK, Button!Debounce
<1>3. ButtonTypes
  BY <1>2 DEF ButtonTypes
<1>4. Steady /\ Supressed
  BY <1>1 DEF Steady, Supressed, Button!Debounce
<1>5. Button!EachPressClicksOnce
  BY DEF Button!EachPressClicksOnce
<1> QED
  BY <1>3, <1>4, <1>5 DEF ButtonInv

\* What the counter does in a tick.
LEMMA Counted ==
    ASSUME Button!ConstantsOK, ButtonTypes, NEW b \in Button!Names, NEW touched \in BOOLEAN
    PROVE  /\ Button!Follows(b, touched) \in 0 .. SIGMA_MAX
           /\ Button!Follows(b, touched) <= sigma[b] + 1
           /\ sigma[b] <= Button!Follows(b, touched) + 1
<1>1. SIGMA_MAX \in Nat /\ sigma[b] \in 0 .. SIGMA_MAX
  BY DEF Button!ConstantsOK, ButtonTypes, Button!TypeOK
<1> QED
  BY <1>1 DEF Button!Follows, Button!Least

\* Numbers of a button in a state of the invariant.
LEMMA ButtonNumbers ==
    ASSUME Button!ConstantsOK, ButtonTypes, NEW b \in Button!Names
    PROVE  /\ sigma[b] \in Nat /\ stable[b] \in 1 .. Button!Debounce
           /\ Button!Debounce = THRESH_HI + 2 - THRESH_LO
           /\ THRESH_HI \in Nat /\ THRESH_LO \in Nat \ {0} /\ THRESH_LO <= THRESH_HI
           /\ age[b] \in 0 .. HOLD_TIME /\ HOLD_TIME \in Nat \ {0}
           /\ Button!Older(b) \in 0 .. HOLD_TIME
           /\ down[b] \in BOOLEAN
<1>1. /\ THRESH_HI \in Nat /\ THRESH_LO \in Nat \ {0} /\ THRESH_LO <= THRESH_HI
      /\ HOLD_TIME \in Nat \ {0}
  BY DEF Button!ConstantsOK
<1>2. /\ sigma[b] \in Nat /\ stable[b] \in 1 .. Button!Debounce /\ age[b] \in 0 .. HOLD_TIME
      /\ down[b] \in BOOLEAN
  BY DEF ButtonTypes, Button!TypeOK, Button!ConstantsOK
<1>3. Button!Older(b) \in 0 .. HOLD_TIME
  BY <1>1, <1>2 DEF Button!Older, Button!Least
<1> QED
  BY <1>1, <1>2, <1>3 DEF Button!Debounce

\* The counter stays near the threshold that it has passed, and passes the other no
\* sooner than Debounce ticks later.
LEMMA CounterSteady ==
    ASSUME Button!ConstantsOK, ButtonTypes, Steady,
           NEW b \in Button!Names, NEW touched \in BOOLEAN, Button!systemTick(b, touched)
    PROVE  /\ Steady'
           /\ \A n \in Button!Names : down'[n] # down[n] => stable[n] >= Button!Debounce
<1> DEFINE s == Button!Follows(b, touched)
<1>1. s \in Nat /\ s <= sigma[b] + 1 /\ sigma[b] <= s + 1
  BY Counted DEF Button!ConstantsOK
<1>2. Button!Ticks(b, s)
      /\ (Button!Stay(b, s) \/ Button!Press(b, s) \/ Button!Hold(b, s) \/ Button!Release(b, s))
  BY DEF Button!systemTick
<1> HIDE DEF s
<1>3. /\ sigma'[b] = s
      /\ \A n \in Button!Names : n # b =>
             sigma'[n] = sigma[n] /\ stable'[n] = stable[n] /\ down'[n] = down[n]
  BY <1>2 DEF ButtonTypes, Button!TypeOK, Button!Ticks, Button!Stay, Button!Press, Button!Hold,
     Button!Release
<1>4. /\ sigma[b] \in Nat /\ stable[b] \in 1 .. Button!Debounce
      /\ Button!Debounce = THRESH_HI + 2 - THRESH_LO
      /\ THRESH_HI \in Nat /\ THRESH_LO \in Nat \ {0} /\ THRESH_LO <= THRESH_HI
  BY ButtonNumbers
<1>5. IF down[b] THEN THRESH_HI + 2 - stable[b] <= sigma[b]
      ELSE sigma[b] <= THRESH_LO + stable[b] - 2
  BY DEF Steady
<1>6. CASE Button!Stay(b, s) \/ Button!Hold(b, s)
  <2>1. /\ down' = down
        /\ stable'[b] = IF stable[b] + 1 < Button!Debounce THEN stable[b] + 1 ELSE Button!Debounce
        /\ down[b] => s >= THRESH_LO
        /\ ~down[b] => s <= THRESH_HI
    BY <1>1, <1>4, <1>6 DEF Button!Stay, Button!Hold, Button!Least, Button!GoesUp, Button!GoesDown,
       Button!Holds, ButtonTypes, Button!TypeOK
  <2>2. IF down'[b] THEN THRESH_HI + 2 - stable'[b] <= sigma'[b]
        ELSE sigma'[b] <= THRESH_LO + stable'[b] - 2
    BY <1>1, <1>3, <1>4, <1>5, <2>1
  <2> QED
    BY <1>3, <2>1, <2>2 DEF Steady
<1>7. CASE Button!Press(b, s)
  <2>1. down'[b] /\ stable'[b] = 1 /\ ~down[b] /\ s > THRESH_HI
    BY <1>7 DEF Button!Press, Button!GoesDown, ButtonTypes, Button!TypeOK
  <2>2. stable[b] >= Button!Debounce /\ THRESH_HI + 2 - stable'[b] <= sigma'[b]
    BY <1>1, <1>3, <1>4, <1>5, <2>1
  <2> QED
    BY <1>3, <2>1, <2>2 DEF Steady
<1>8. CASE Button!Release(b, s)
  <2>1. ~down'[b] /\ stable'[b] = 1 /\ down[b] /\ s < THRESH_LO
    BY <1>8 DEF Button!Release, Button!GoesUp, ButtonTypes, Button!TypeOK
  <2>2. stable[b] >= Button!Debounce /\ sigma'[b] <= THRESH_LO + stable'[b] - 2
    BY <1>1, <1>3, <1>4, <1>5, <2>1
  <2> QED
    BY <1>3, <2>1, <2>2 DEF Steady
<1> QED
  BY <1>2, <1>6, <1>7, <1>8

LEMMA TicksTyped ==
    ASSUME Button!ConstantsOK, ButtonTypes,
           NEW b \in Button!Names, NEW touched \in BOOLEAN, Button!systemTick(b, touched)
    PROVE  ButtonTypes'
<1> DEFINE s == Button!Follows(b, touched)
           D == Button!Debounce
           N2 == Button!Names
<1>1. s \in 0 .. SIGMA_MAX
  BY Counted
<1>2. Button!Ticks(b, s)
      /\ (Button!Stay(b, s) \/ Button!Press(b, s) \/ Button!Hold(b, s) \/ Button!Release(b, s))
  BY DEF Button!systemTick
<1> HIDE DEF s
<1>3. /\ sigma' \in [N2 -> 0 .. SIGMA_MAX] /\ turn' \in N2 /\ stage' = stage
  BY <1>1, <1>2 DEF Button!Ticks, ButtonTypes, Button!TypeOK, Button!other, Button!Names
<1>4. /\ stable[b] \in 1 .. D /\ D \in Nat \ {0}
      /\ Button!Older(b) \in 0 .. HOLD_TIME /\ 0 \in 0 .. HOLD_TIME
  BY ButtonNumbers
<1>5. Button!Least(stable[b] + 1, D) \in 1 .. D /\ 1 \in 1 .. D
  BY <1>4 DEF Button!Least
<1>6. /\ stable \in [N2 -> 1 .. D] /\ age \in [N2 -> 0 .. HOLD_TIME] /\ b \in N2
      /\ down \in [N2 -> BOOLEAN] /\ held \in [N2 -> BOOLEAN]
      /\ subDown = down /\ subHeld = held /\ stage \in 0 .. 3
      /\ supressed \in [N2 -> BOOLEAN] /\ combined \in [N2 -> BOOLEAN]
      /\ began \in [N2 -> 0 .. 3] /\ ended \in [N2 -> -1 .. 3]
      /\ own \in [N2 -> Seq({"click", "long"})]
  BY DEF ButtonTypes, Button!TypeOK
<1>7. Button!MultiClick(b) \o Button!ButtonClick(b) \in Seq({"click", "long"})
  <2>1. /\ Button!MultiClick(b) \in {<<>>, <<"click">>, <<"long">>}
        /\ Button!ButtonClick(b) \in {<<>>, <<"click">>, <<"long">>}
    BY Zenon DEF Button!MultiClick, Button!ButtonClick
  <2>2. {<<>>, <<"click">>, <<"long">>} \subseteq Seq({"click", "long"})
    OBVIOUS
  <2>3. \A x, y \in Seq({"click", "long"}) : x \o y \in Seq({"click", "long"})
    OBVIOUS
  <2>4. /\ Button!MultiClick(b) \in Seq({"click", "long"})
        /\ Button!ButtonClick(b) \in Seq({"click", "long"})
    BY <2>1, <2>2, Zenon
  <2> QED
    BY <2>3, <2>4, Zenon
<1> HIDE DEF D, N2
<1>8. CASE Button!Stay(b, s)
  <2>1. stable' \in [N2 -> 1 .. D] /\ age' \in [N2 -> 0 .. HOLD_TIME]
    BY <1>4, <1>5, <1>6, <1>8 DEF Button!Stay, D
  <2> QED
    BY <1>3, <1>6, <1>8, <2>1 DEF Button!Stay, Button!multi, ButtonTypes, Button!TypeOK, D, N2
<1>9. CASE Button!Press(b, s)
  <2>1. /\ stable' \in [N2 -> 1 .. D] /\ age' \in [N2 -> 0 .. HOLD_TIME]
        /\ began' \in [N2 -> 0 .. 3] /\ own' \in [N2 -> Seq({"click", "long"})]
    BY <1>4, <1>5, <1>6, <1>9 DEF Button!Press
  <2>2. /\ down' \in [N2 -> BOOLEAN] /\ subDown' = down' /\ combined' \in [N2 -> BOOLEAN]
    BY <1>6, <1>9 DEF Button!Press
  <2> QED
    BY <1>3, <1>6, <1>9, <2>1, <2>2 DEF Button!Press, ButtonTypes, Button!TypeOK, D, N2
<1>10. CASE Button!Hold(b, s)
  <2>1. stable' \in [N2 -> 1 .. D] /\ age' \in [N2 -> 0 .. HOLD_TIME]
    BY <1>4, <1>5, <1>6, <1>10 DEF Button!Hold, D
  <2>2. held' \in [N2 -> BOOLEAN] /\ subHeld' = held'
    BY <1>6, <1>10 DEF Button!Hold
  <2> QED
    BY <1>3, <1>6, <1>10, <2>1, <2>2 DEF Button!Hold, ButtonTypes, Button!TypeOK, D, N2
<1>11. CASE Button!Release(b, s)
  <2>1. /\ stable' \in [N2 -> 1 .. D] /\ age' \in [N2 -> 0 .. HOLD_TIME]
        /\ ended' \in [N2 -> -1 .. 3] /\ own' \in [N2 -> Seq({"click", "long"})]
    BY <1>4, <1>5, <1>6, <1>7, <1>11 DEF Button!Release
  <2>2. /\ down' \in [N2 -> BOOLEAN] /\ subDown' = down'
        /\ held' \in [N2 -> BOOLEAN] /\ subHeld' = held'
    BY <1>6, <1>11 DEF Button!Release
  <2>3. supressed' \in [N2 -> BOOLEAN] /\ combined' \in [N2 -> BOOLEAN]
    <3>1. Button!CombinedClick(b) \in BOOLEAN
      BY <1>6 DEF Button!CombinedClick, Button!other, Button!Names, N2
    <3>2. Button!Suppresses(b) \in [N2 -> BOOLEAN]
      BY <1>6, <3>1 DEF Button!Suppresses
    <3>3. \A n \in N2 : (combined[n] \/ Button!CombinedClick(b)) \in BOOLEAN
      OBVIOUS
    <3> QED
      BY <1>11, <3>2, <3>3 DEF Button!Release, N2
  <2> QED
    BY <1>3, <1>6, <1>11, <2>1, <2>2, <2>3 DEF Button!Release, ButtonTypes, Button!TypeOK, D, N2
<1> QED
  BY <1>2, <1>8, <1>9, <1>10, <1>11

LEMMA TicksSupress ==
    ASSUME Button!ConstantsOK, ButtonTypes, Supressed,
           NEW b \in Button!Names, NEW touched \in BOOLEAN, Button!systemTick(b, touched)
    PROVE  Supressed'
<1> DEFINE s == Button!Follows(b, touched)
<1>1. Button!Stay(b, s) \/ Button!Press(b, s) \/ Button!Hold(b, s) \/ Button!Release(b, s)
  BY DEF Button!systemTick
<1> HIDE DEF s
<1> USE DEF ButtonTypes, Button!TypeOK, Supressed
<1>2. CASE Button!Stay(b, s) \/ Button!Hold(b, s)
  BY <1>2 DEF Button!Stay, Button!Hold, Button!multi
<1>3. CASE Button!Press(b, s)
  BY <1>3 DEF Button!Press, Button!GoesDown
<1>4. CASE Button!Release(b, s)
  BY <1>4 DEF Button!Release, Button!Suppresses, Button!CombinedClick, Button!other, Button!Names
<1> QED
  BY <1>1, <1>2, <1>3, <1>4

LEMMA TicksClickOnce ==
    ASSUME Button!ConstantsOK, ButtonTypes, Supressed, Button!EachPressClicksOnce,
           NEW b \in Button!Names, NEW touched \in BOOLEAN, Button!systemTick(b, touched)
    PROVE  Button!EachPressClicksOnce'
<1> DEFINE s == Button!Follows(b, touched)
<1>1. Button!Stay(b, s) \/ Button!Press(b, s) \/ Button!Hold(b, s) \/ Button!Release(b, s)
  BY DEF Button!systemTick
<1> HIDE DEF s
<1> USE DEF Button!EachPressClicksOnce
<1>2. CASE Button!Stay(b, s) \/ Button!Hold(b, s)
  BY <1>2 DEF Button!Stay, Button!Hold
<1>3. CASE Button!Press(b, s)
  BY <1>3 DEF Button!Press, ButtonTypes, Button!TypeOK
<1>4. CASE Button!Release(b, s)
  <2> DEFINE click == IF Button!Older(b) >= LONG_CLICK_TIME THEN "long" ELSE "click"
             multi == IF subHeld[b] THEN "long" ELSE "click"
  <2>1. /\ ended'[b] = stage /\ began'[b] = began[b]
        /\ own'[b] = Button!MultiClick(b) \o Button!ButtonClick(b)
        /\ combined'[b] = (combined[b] \/ Button!CombinedClick(b))
        /\ \A n \in Button!Names : n # b =>
               /\ ended'[n] = ended[n] /\ began'[n] = began[n] /\ own'[n] = own[n]
               /\ down'[n] = down[n] /\ (~down[n] => combined'[n] = combined[n])
    BY <1>4 DEF Button!Release, ButtonTypes, Button!TypeOK, Button!CombinedClick, Button!other,
       Button!Names
  <2>2. combined[b] = supressed[b]
    BY <1>4 DEF Button!Release, Button!GoesUp, Supressed
  <2>3. stage = 0 => Len(own'[b]) = 1
    <3>1. stage = 0 => Button!MultiClick(b) = <<>> /\ Button!ButtonClick(b) = <<click>>
      BY DEF Button!MultiClick, Button!ButtonClick, Button!AllEvents, Button!AllEventsAB
    <3> QED
      BY <2>1, <3>1
  <2>4. stage = 3 => Len(own'[b]) = IF combined'[b] THEN 0 ELSE 1
    <3>1. stage = 3 => Button!ButtonClick(b) = <<>>
      BY DEF Button!ButtonClick, Button!AllEvents
    <3>2. CASE ~Button!CombinedClick(b) /\ ~supressed[b]
      <4>1. stage = 3 => Button!MultiClick(b) = <<multi>>
        BY <3>2 DEF Button!MultiClick, Button!AllEventsAB
      <4>2. ~combined'[b]
        BY <2>1, <2>2, <3>2
      <4> QED
        BY <2>1, <3>1, <4>1, <4>2
    <3>3. CASE ~(~Button!CombinedClick(b) /\ ~supressed[b])
      <4>1. Button!MultiClick(b) = <<>>
        BY <3>3 DEF Button!MultiClick
      <4>2. combined'[b]
        BY <2>1, <2>2, <3>3
      <4> QED
        BY <2>1, <3>1, <4>1, <4>2
    <3> QED
      BY <3>2, <3>3
  <2> SUFFICES ASSUME NEW n \in Button!Names, ~down'[n], began'[n] = ended'[n]
               PROVE  /\ began'[n] = 0 => Len(own'[n]) = 1
                      /\ began'[n] = 3 => Len(own'[n]) = (IF combined'[n] THEN 0 ELSE 1)
    OBVIOUS
  <2>5. CASE n = b
    BY <2>1, <2>3, <2>4, <2>5
  <2>6. CASE n # b
    BY <2>1, <2>6
  <2> QED
    BY <2>5, <2>6
<1> QED
  BY <1>1, <1>2, <1>3, <1>4

LEMMA ButtonStep ==
    ASSUME Button!ConstantsOK, ButtonInv, Button!Next
    PROVE  ButtonInv' /\ \A n \in Button!Names : down'[n] # down[n] => stable[n] >= Button!Debounce
<1>1. CASE Button!setEventConfiguration
  BY <1>1 DEF Button!setEventConfiguration, Button!multi, Button!history, ButtonInv, ButtonTypes,
     Button!TypeOK, Steady, Supressed, Button!EachPressClicksOnce
<1>2. ASSUME NEW b \in Button!Names, NEW touched \in BOOLEAN, Button!systemTick(b, touched)
      PROVE  ButtonInv' /\ \A n \in Button!Names : down'[n] # down[n] => stable[n] >= Button!Debounce
  BY <1>2, TicksTyped, CounterSteady, TicksSupress, TicksClickOnce DEF ButtonInv
<1> QED
  BY <1>1, <1>2 DEF Button!Next

LEMMA ButtonStutter == ButtonInv /\ UNCHANGED buttonVars => ButtonInv'
BY DEF buttonVars, ButtonInv, ButtonTypes, Button!TypeOK, Steady, Supressed,
   Button!EachPressClicksOnce

LEMMA ButtonInvariance == PartsSpec => []ButtonInv
<1>1. Button!ConstantsOK
  BY PartsAssumption
<1>2. PartsInit => ButtonInv
  BY <1>1, ButtonInit DEF PartsInit
<1> DEFINE v == <<part, vars, buttonVars, pwmVars, busVars, phoneVars, radioVars>>
<1>3. ButtonInv /\ [PartsNext]_v => ButtonInv'
  <2>1. UNCHANGED v => UNCHANGED buttonVars
    OBVIOUS
  <2>2. PartsNext => UNCHANGED buttonVars \/ Button!Next
    BY DEF PartsNext, Others
  <2> QED
    BY <1>1, <2>1, <2>2, ButtonStep, ButtonStutter
<1> QED
  BY <1>2, <1>3, PTL DEF PartsSpec

\* PressesClick, however often the pins bounce and whenever the events are handed over.
THEOREM PressesAreClicks == PartsSpec => PressesClick
<1>1. Button!ConstantsOK
  BY PartsAssumption
<1> DEFINE v == <<part, vars, buttonVars, pwmVars, busVars, phoneVars, radioVars>>
<1>2. ButtonInv /\ [PartsNext]_v =>
          [/\ Button!EachPressClicksOnce'
           /\ \A b \in Button!Names : down'[b] /= down[b] => stable[b] >= Button!Debounce]_(Button!vars)
  <2>1. UNCHANGED v => UNCHANGED Button!vars
    BY DEF buttonVars, Button!vars, Button!multi, Button!history
  <2>2. PartsNext => UNCHANGED Button!vars \/ Button!Next
    BY DEF PartsNext, Others, buttonVars, Button!vars, Button!multi, Button!history
  <2> QED
    BY <1>1, <2>1, <2>2, ButtonStep DEF ButtonInv
<1> QED
  BY <1>2, ButtonInvariance, PTL DEF PartsSpec, PressesClick, Button!PressesClick

-----------------------------------------------------------------------------
(* The channels of DynamicPwm: the types and ChannelsFollowPins are        *)
(* inductive together.                                                     *)

PwmInv == Pwm!TypeOK /\ Pwm!ChannelsFollowPins

\* What a pin that disconnects gives up: at most the channel that drives it.
LEMMA ReleasedFacts ==
    ASSUME Pwm!ConstantsOK, PwmInv, ~dangled, NEW p \in Pins
    PROVE  /\ Pwm!Released(p) \subseteq Pwm!Channels
           /\ \A i \in Pwm!Channels : pwms[i] = p => i \in Pwm!Released(p)
           /\ \A i \in Pwm!Released(p) : pwms[i] = p
<1>1. \A i \in Pwm!Channels : pwms[i] = p => status[p] = "analog" /\ pin[p] = i
  BY DEF PwmInv, Pwm!ChannelsFollowPins, Pwm!ConstantsOK
<1> QED
  BY <1>1 DEF Pwm!Released, Pwm!Focused

\* The channels that stay keep their pins, and these keep their pointers.
LEMMA OthersKeepChannels ==
    ASSUME Pwm!ConstantsOK, PwmInv, ~dangled, NEW p \in Pins, NEW i \in Pwm!Channels,
           Pwm!After(p)[i] /= None
    PROVE  /\ pwms[i] \in Pins /\ pwms[i] /= p /\ Pwm!After(p)[i] = pwms[i]
           /\ status[pwms[i]] = "analog" /\ Pwm!Pointers(p)[pwms[i]] = i
<1>1. i \notin Pwm!Released(p) /\ Pwm!After(p)[i] = pwms[i]
  BY DEF Pwm!After
<1>2. pwms[i] \in Pins /\ pwms[i] /= p
  BY <1>1, ReleasedFacts DEF PwmInv, Pwm!TypeOK
<1>3. status[pwms[i]] = "analog" /\ pin[pwms[i]] = i
  BY <1>1 DEF PwmInv, Pwm!ChannelsFollowPins
<1> QED
  BY <1>1, <1>2, <1>3 DEF Pwm!Pointers

LEMMA PwmTypes ==
    ASSUME Pwm!ConstantsOK, PwmInv, ~dangled, NEW p \in Pins
    PROVE  /\ Pwm!After(p) \in [Pwm!Channels -> Pins \cup {None}]
           /\ Pwm!Pointers(p) \in [Pins -> Pwm!Channels \cup {None, Freed}]
           /\ Pwm!Pointers(p)[p] = None
           /\ \A q \in Pins : pin[q] = None => Pwm!Pointers(p)[q] = None
<1>1. Pwm!Released(p) \subseteq Pwm!Channels
  BY ReleasedFacts
<1> QED
  BY <1>1 DEF PwmInv, Pwm!TypeOK, Pwm!After, Pwm!Pointers, Pwm!ConstantsOK

LEMMA PwmStep ==
    ASSUME Pwm!ConstantsOK, PwmInv, Pwm!Next
    PROVE  PwmInv'
<1>1. ASSUME NEW p \in Pins, Pwm!KeepChannel(p)
      PROVE  PwmInv'
  BY <1>1 DEF Pwm!KeepChannel, PwmInv, Pwm!TypeOK, Pwm!ChannelsFollowPins, Pwm!Focused
<1>2. ASSUME NEW p \in Pins, Pwm!obtainAnalogChannel(p)
      PROVE  PwmInv'
  <2>1. PICK i \in Pwm!Channels :
            pwms' = [Pwm!After(p) EXCEPT ![i] = p] /\ lastUsed' = i
            /\ pin' = [Pwm!Pointers(p) EXCEPT ![p] = i]
    BY <1>2 DEF Pwm!obtainAnalogChannel
  <2>2. /\ ~dangled /\ status' = [status EXCEPT ![p] = "analog"] /\ latest' = p
        /\ dangled' = dangled /\ status \in [Pins -> {"none", "analog", "other"}]
    BY <1>2 DEF Pwm!obtainAnalogChannel, PwmInv, Pwm!TypeOK
  <2>3. pwms'[i] = p /\ pin'[p] = i /\ \A q \in Pins : q /= p => pin'[q] = Pwm!Pointers(p)[q]
    BY <2>1, <2>2, PwmTypes
  <2>4. \A j \in Pwm!Channels : j /= i => pwms'[j] = Pwm!After(p)[j]
    BY <2>1, <2>2, PwmTypes
  <2>5. status'[p] = "analog" /\ \A q \in Pins : q /= p => status'[q] = status[q]
    BY <2>2
  <2>6. Pwm!TypeOK'
    BY <2>1, <2>2, <2>3, <2>5, PwmTypes DEF PwmInv, Pwm!TypeOK
  <2>7. Pwm!ChannelsFollowPins'
    BY <2>2, <2>3, <2>4, <2>5, OthersKeepChannels DEF Pwm!ChannelsFollowPins, Pwm!Focused
  <2> QED
    BY <2>6, <2>7 DEF PwmInv
<1>3. ASSUME NEW p \in Pins, Pwm!OtherMode(p)
      PROVE  PwmInv'
  <2>1. /\ ~dangled /\ pwms' = Pwm!After(p) /\ pin' = Pwm!Pointers(p)
        /\ status' = [status EXCEPT ![p] = "other"] /\ lastUsed' = lastUsed
        /\ latest' = (IF latest = p THEN None ELSE latest) /\ dangled' = dangled
        /\ status \in [Pins -> {"none", "analog", "other"}]
    BY <1>3 DEF Pwm!OtherMode, PwmInv, Pwm!TypeOK
  <2>2. status'[p] = "other" /\ \A q \in Pins : q /= p => status'[q] = status[q]
    BY <2>1
  <2>3. Pwm!TypeOK'
    BY <2>1, <2>2, PwmTypes DEF PwmInv, Pwm!TypeOK
  <2>4. \A i \in Pwm!Channels : pwms'[i] /= None =>
            status'[pwms'[i]] = "analog" /\ pin'[pwms'[i]] = i
    BY <2>1, <2>2, OthersKeepChannels
  <2>5. ASSUME latest' /= None
        PROVE  Pwm!Focused(latest)'
    <3>1. latest /= p /\ latest' = latest /\ latest \in Pins
      BY <2>1, <2>5 DEF PwmInv, Pwm!TypeOK
    <3>2. pin[latest] \in Pwm!Channels /\ pwms[pin[latest]] = latest
      BY <2>1, <2>5, <3>1 DEF PwmInv, Pwm!ChannelsFollowPins, Pwm!Focused
    <3>3. pin[latest] \notin Pwm!Released(p)
      BY <2>1, <3>1, <3>2, ReleasedFacts
    <3>4. pin'[latest] = pin[latest] /\ pwms'[pin[latest]] = latest
      BY <2>1, <3>1, <3>2, <3>3 DEF Pwm!After, Pwm!Pointers
    <3> QED
      BY <3>1, <3>2, <3>4 DEF Pwm!Focused
  <2> QED
    BY <2>3, <2>4, <2>5 DEF PwmInv, Pwm!ChannelsFollowPins
<1>4. ASSUME NEW p \in Pins, Pwm!ReadFreed(p)
      PROVE  PwmInv'
  BY <1>4 DEF Pwm!ReadFreed, PwmInv, Pwm!TypeOK, Pwm!ChannelsFollowPins
<1> QED
  BY <1>1, <1>2, <1>3, <1>4 DEF Pwm!Next

LEMMA PwmInvariance == PartsSpec => []PwmInv
<1>1. Pwm!ConstantsOK
  BY PartsAssumption
<1>2. PartsInit => PwmInv
  BY <1>1 DEF PartsInit, Pwm!Init, PwmInv, Pwm!TypeOK, Pwm!ChannelsFollowPins, Pwm!ConstantsOK
<1> DEFINE v == <<part, vars, buttonVars, pwmVars, busVars, phoneVars, radioVars>>
<1>3. PwmInv /\ [PartsNext]_v => PwmInv'
  <2>1. PwmInv /\ UNCHANGED pwmVars => PwmInv'
    BY DEF pwmVars, PwmInv, Pwm!TypeOK, Pwm!ChannelsFollowPins, Pwm!Focused
  <2>2. UNCHANGED v => UNCHANGED pwmVars
    OBVIOUS
  <2>3. PartsNext => UNCHANGED pwmVars \/ Pwm!Next
    BY DEF PartsNext, Others
  <2> QED
    BY <1>1, <2>1, <2>2, <2>3, PwmStep
<1> QED
  BY <1>2, <1>3, PTL DEF PartsSpec

\* A channel drives only the pin that knows it as its own, and the pin that was given
\* a value last has its channel, until a freed object is read for a live one (dangled).
THEOREM ChannelsSafe == PartsSpec => []ChannelsFollowPins
<1>1. PwmInv => ChannelsFollowPins
  BY DEF PwmInv, ChannelsFollowPins
<1> QED
  BY <1>1, PwmInvariance, PTL

-----------------------------------------------------------------------------
(* The phone.  What has been written, arrived or on its way, is no later   *)
(* than what the characteristic holds, and that is before the lines that   *)
(* forEach has not come to; so whoever writes next keeps the order.        *)

\* What may come before y, or be y once more after the callback has written it.
NoLater(x, y) == x < y \/ (x = y /\ x \in raced)

Written ==
    {received[i] : i \in 1 .. Len(received)} \cup ({air[j].line : j \in 1 .. Len(air)} \ {0})

\* The places of the queue whose lines are not in the characteristic yet.
Ahead == {k \in 1 .. Len(queue) : IF ui = "sending" THEN k >= position ELSE k > position}

PhoneTypes ==
    /\ Phone!TypeOK
    /\ made \in Nat /\ clients \in Nat /\ opening \in 0 .. clients
    /\ queue \in Seq(1 .. made) /\ received \in Seq(1 .. made)
    /\ air \in Seq([client : Nat, line : 0 .. made]) /\ services \in Seq(BOOLEAN)
    /\ position \in Nat
    /\ ui \in {"idle", "connecting"} => position = 0
    /\ ui = "sending" => position \in 1 .. Len(queue) + 1
    /\ ui = "writing" => position \in 1 .. Len(queue)

InOrder ==
    /\ \A i, j \in 1 .. Len(received) : i < j => NoLater(received[i], received[j])
    /\ \A i \in 1 .. Len(received), j \in 1 .. Len(air) :
           air[j].line # 0 => NoLater(received[i], air[j].line)
    /\ \A i, j \in 1 .. Len(air) :
           i < j /\ air[i].line # 0 /\ air[j].line # 0 => NoLater(air[i].line, air[j].line)

Behind ==
    /\ \A i, j \in 1 .. Len(queue) : i < j => queue[i] < queue[j]
    /\ \A w \in Written : value = 0 \/ w <= value
    /\ \A w \in Written \cup ({value} \ {0}) : \A k \in Ahead : w < queue[k]
    /\ ui = "writing" =>
          /\ value \in {0, queue[position]}
          /\ \A w \in Written : NoLater(w, queue[position])

PhoneInv == PhoneTypes /\ InOrder /\ Behind

LEMMA PhoneInit == Phone!Init => PhoneInv
<1> SUFFICES ASSUME Phone!Init PROVE PhoneInv
  OBVIOUS
<1> USE DEF Phone!Init
<1>1. /\ Len(air) = 0 /\ Len(received) = 0 /\ Len(queue) = 0
      /\ \A S : <<>> \in Seq(S)
  OBVIOUS
<1>2. PhoneTypes
  BY <1>1 DEF PhoneTypes, Phone!TypeOK
<1>3. Written = {} /\ Ahead = {}
  BY <1>1 DEF Written, Ahead
<1> QED
  BY <1>1, <1>2, <1>3 DEF PhoneInv, InOrder, Behind

\* The application begins again; what has arrived stays.
LEMMA PhoneDies ==
    ASSUME PhoneInv, Phone!Dies
    PROVE  PhoneInv'
<1>1. /\ Len(air') = 0 /\ Len(queue') = 0 /\ received' = received /\ made' = made /\ raced' = raced
      /\ \A S : <<>> \in Seq(S)
  BY DEF Phone!Dies, Phone!history
<1>2. PhoneTypes'
  BY <1>1 DEF PhoneInv, PhoneTypes, Phone!TypeOK, Phone!Dies
<1>3. InOrder'
  BY <1>1 DEF PhoneInv, InOrder, NoLater
<1>4. Ahead' = {}
  BY <1>1 DEF Ahead
<1>5. Behind'
  BY <1>1, <1>4 DEF Behind, Phone!Dies
<1> QED
  BY <1>2, <1>3, <1>5 DEF PhoneInv

\* What has been written are lines.
LEMMA WrittenLines ==
    ASSUME PhoneTypes
    PROVE  /\ Written \subseteq 1 .. made /\ value \in 0 .. made
           /\ Len(air) \in Nat /\ Len(received) \in Nat /\ Len(queue) \in Nat
           /\ \A k \in 1 .. Len(queue) : queue[k] \in 1 .. made
           /\ \A j \in 1 .. Len(air) : air[j].line \in 0 .. made /\ air[j].client \in Nat
           /\ \A i \in 1 .. Len(received) : received[i] \in 1 .. made
<1>1. /\ Len(air) \in Nat /\ Len(received) \in Nat /\ Len(queue) \in Nat
      /\ \A k \in 1 .. Len(queue) : queue[k] \in 1 .. made
      /\ \A j \in 1 .. Len(air) : air[j] \in [client : Nat, line : 0 .. made]
      /\ \A i \in 1 .. Len(received) : received[i] \in 1 .. made
      /\ value \in 0 .. made /\ made \in Nat
  <2>1. \A S : \A q \in Seq(S) : Len(q) \in Nat /\ \A i \in 1 .. Len(q) : q[i] \in S
    OBVIOUS
  <2>2. /\ queue \in Seq(1 .. made) /\ received \in Seq(1 .. made)
        /\ air \in Seq([client : Nat, line : 0 .. made])
        /\ value \in 0 .. made /\ made \in Nat
    BY DEF PhoneTypes, Phone!TypeOK
  <2> QED
    BY <2>1, <2>2
<1>2. \A j \in 1 .. Len(air) : air[j].line \in 0 .. made /\ air[j].client \in Nat
  BY <1>1
<1>3. \A w \in Written : w \in 1 .. made
  <2> SUFFICES ASSUME NEW w \in Written PROVE w \in 1 .. made
    OBVIOUS
  <2>1. CASE w \in {received[i] : i \in 1 .. Len(received)}
    BY <1>1, <2>1
  <2>2. CASE w \in {air[j].line : j \in 1 .. Len(air)} \ {0}
    BY <1>1, <1>2, <2>2
  <2> QED
    BY <2>1, <2>2 DEF Written
<1> QED
  BY <1>1, <1>2, <1>3

\* A write that is taken goes behind the others on their way.
LEMMA WriteKeepsOrder ==
    ASSUME PhoneTypes, InOrder, Phone!writeCharacteristic,
           UNCHANGED <<received, made, linked, clients, bluetoothGatt>>, raced \subseteq raced',
           \A w \in Written : value # 0 => w < value \/ (w = value /\ w \in raced')
    PROVE  /\ InOrder'
           /\ \A w \in Written' : w \in Written \/ (w = value /\ value # 0)
           /\ air' \in Seq([client : Nat, line : 0 .. made])
           /\ busy' \subseteq linked
           /\ \A g \in busy' : \E i \in 1 .. Len(air') : air'[i].client = g
<1>1. CASE UNCHANGED <<busy, air>>
  BY <1>1, SMTT(30) DEF InOrder, NoLater, Written, PhoneTypes, Phone!TypeOK
<1>2. CASE /\ ~Phone!Refused(bluetoothGatt)
           /\ busy' = busy \cup {bluetoothGatt}
           /\ air' = Append(air, [client |-> bluetoothGatt, line |-> value])
  <2> DEFINE w0 == [client |-> bluetoothGatt, line |-> value]
  <2>1. w0 \in [client : Nat, line : 0 .. made]
    BY DEF PhoneTypes, Phone!TypeOK
  <2>2. /\ Len(air) \in Nat /\ air' \in Seq([client : Nat, line : 0 .. made])
        /\ Len(air') = Len(air) + 1 /\ air'[Len(air) + 1] = w0
        /\ \A j \in 1 .. Len(air) : air'[j] = air[j]
    BY <1>2, <2>1 DEF PhoneTypes
  <2>3. w0.client = bluetoothGatt /\ w0.line = value
    OBVIOUS
  <2> HIDE DEF w0
  <2>4. \A j \in 1 .. Len(air') : j \in 1 .. Len(air) \/ (j = Len(air) + 1)
    BY <2>2
  <2>5. \A w \in Written' : w \in Written \/ (w = value /\ value # 0)
    BY <2>2, <2>3, <2>4 DEF Written
  <2>6. /\ \A i \in 1 .. Len(received) : received[i] \in Written
        /\ \A j \in 1 .. Len(air) : air[j].line # 0 => air[j].line \in Written
    BY DEF Written
  <2>7. InOrder'
    <3>1. \A i, j \in 1 .. Len(received') : i < j => NoLater(received[i], received[j])'
      BY DEF InOrder, NoLater
    <3>2. \A i \in 1 .. Len(received'), j \in 1 .. Len(air') :
              air'[j].line # 0 => NoLater(received[i], air[j].line)'
      BY <2>2, <2>3, <2>4, <2>6 DEF InOrder, NoLater
    <3>3. \A i, j \in 1 .. Len(air') :
              i < j /\ air'[i].line # 0 /\ air'[j].line # 0 => NoLater(air[i].line, air[j].line)'
      <4> SUFFICES ASSUME NEW i \in 1 .. Len(air'), NEW j \in 1 .. Len(air'), i < j,
                          air'[i].line # 0, air'[j].line # 0
                   PROVE  NoLater(air[i].line, air[j].line)'
        OBVIOUS
      <4>1. i \in 1 .. Len(air) /\ air'[i] = air[i]
        BY <2>2
      <4>2. CASE j \in 1 .. Len(air)
        BY <2>2, <4>1, <4>2, SMTT(30) DEF InOrder, NoLater
      <4>3. CASE j = Len(air) + 1
        <5>1. air'[j].line = value /\ value # 0 /\ air[i].line \in Written
          BY <2>2, <2>3, <2>6, <4>1, <4>3
        <5> QED
          BY <4>1, <5>1 DEF NoLater
      <4> QED
        BY <2>4, <4>2, <4>3
    <3> QED
      BY <3>1, <3>2, <3>3 DEF InOrder
  <2>8. bluetoothGatt \in linked
    BY <1>2 DEF Phone!Refused
  <2>9. \A g \in busy' : \E i \in 1 .. Len(air') : air'[i].client = g
    BY <1>2, <2>2, <2>3 DEF PhoneTypes, Phone!TypeOK
  <2> QED
    BY <1>2, <2>2, <2>5, <2>7, <2>8, <2>9 DEF PhoneTypes, Phone!TypeOK
<1> QED
  BY <1>1, <1>2 DEF Phone!writeCharacteristic

LEMMA AddLineOrder ==
    ASSUME PhoneInv, Phone!AddLine
    PROVE  PhoneInv'
<1> USE DEF PhoneInv
<1>1. /\ ui = "idle" /\ ui' = ui /\ position' = position /\ made' = made + 1
      /\ queue' = Append(queue, made + 1)
      /\ UNCHANGED <<received, air, value, raced>>
  BY DEF Phone!AddLine, Phone!stack
<1>2. made \in Nat /\ 1 .. made \subseteq 1 .. made + 1
  BY DEF PhoneTypes
<1>3. /\ queue' \in Seq(1 .. made') /\ Len(queue') = Len(queue) + 1
      /\ Len(queue) \in Nat /\ queue'[Len(queue) + 1] = made + 1
      /\ \A k \in 1 .. Len(queue) : queue'[k] = queue[k] /\ queue[k] \in 1 .. made
  <2>1. queue \in Seq(1 .. made + 1) /\ made + 1 \in 1 .. made + 1
    <3>1. \A S, T : S \subseteq T => Seq(S) \subseteq Seq(T)
      OBVIOUS
    <3> QED
      BY <1>2, <3>1 DEF PhoneTypes
  <2> QED
    BY <1>1, <2>1, WrittenLines
<1>4. PhoneTypes'
  <2>1. received' \in Seq(1 .. made') /\ air' \in Seq([client : Nat, line : 0 .. made'])
    <3>1. \A S, T : S \subseteq T => Seq(S) \subseteq Seq(T)
      OBVIOUS
    <3>2. [client : Nat, line : 0 .. made] \subseteq [client : Nat, line : 0 .. made + 1]
      BY <1>2
    <3>3. received \in Seq(1 .. made) /\ air \in Seq([client : Nat, line : 0 .. made])
      BY DEF PhoneTypes
    <3>4. /\ Seq(1 .. made) \subseteq Seq(1 .. made + 1)
          /\ Seq([client : Nat, line : 0 .. made]) \subseteq Seq([client : Nat, line : 0 .. made + 1])
      BY <1>2, <3>1, <3>2
    <3> QED
      BY <1>1, <3>3, <3>4
  <2> QED
    BY <1>1, <1>2, <1>3, <2>1 DEF PhoneTypes, Phone!TypeOK, Phone!AddLine, Phone!stack, Phone!callback
<1>5. InOrder'
  BY <1>1 DEF InOrder, NoLater
<1>6. Behind'
  <2>1. Written' = Written /\ value' = value
    BY <1>1 DEF Written
  <2>2. \A w \in Written \cup ({value} \ {0}) : w \in 1 .. made
    BY WrittenLines
  <2>3. \A k \in 1 .. Len(queue') : k \in 1 .. Len(queue) \/ k = Len(queue) + 1
    BY <1>3
  <2>4. \A k \in Ahead' : k \in Ahead \/ k = Len(queue) + 1
    BY <1>1, <1>3 DEF Ahead
  <2>5. \A i, j \in 1 .. Len(queue') : i < j => queue'[i] < queue'[j]
    BY <1>2, <1>3, <2>3 DEF Behind
  <2>6. Ahead \subseteq 1 .. Len(queue)
    BY DEF Ahead
  <2>7. \A w \in Written \cup ({value} \ {0}) : \A k \in Ahead' : w < queue'[k]
    <3> SUFFICES ASSUME NEW w \in Written \cup ({value} \ {0}), NEW k \in Ahead'
                 PROVE  w < queue'[k]
      OBVIOUS
    <3>1. CASE k \in Ahead
      BY <1>3, <2>6, <3>1 DEF Behind
    <3>2. CASE k = Len(queue) + 1
      BY <1>2, <1>3, <2>2, <3>2
    <3> QED
      BY <2>4, <3>1, <3>2
  <2> QED
    BY <1>1, <2>1, <2>5, <2>7 DEF Behind
<1> QED
  BY <1>4, <1>5, <1>6

LEMMA SendTappedOrder ==
    ASSUME PhoneInv, Phone!SendTapped
    PROVE  PhoneInv'
<1> USE DEF PhoneInv
<1>1. /\ ui = "idle" /\ ui' = "sending" /\ position = 0 /\ position' = 1 /\ queue # <<>>
      /\ UNCHANGED <<queue, value, received, raced, made, air, busy, linked, clients, opening,
                     bluetoothGatt, services, noted, btTXCharac>>
  BY DEF Phone!SendTapped, Phone!stack, Phone!history, Phone!callback, PhoneTypes
<1>2. Len(queue) \in Nat
  BY WrittenLines
<1>3. PhoneTypes'
  BY <1>1, <1>2 DEF PhoneTypes, Phone!TypeOK
<1>4. InOrder'
  BY <1>1 DEF InOrder, NoLater
<1>5. Written' = Written
  BY <1>1 DEF Written
<1>6. Ahead' = Ahead
  BY <1>1, <1>2 DEF Ahead
<1>7. Behind'
  BY <1>1, <1>5, <1>6 DEF Behind
<1> QED
  BY <1>3, <1>4, <1>7

LEMMA setValueOrder ==
    ASSUME PhoneInv, Phone!setValue
    PROVE  PhoneInv'
<1>1. CASE Phone!Dies
  BY <1>1, PhoneDies
<1>2. CASE ~Phone!Dies
  <2> USE DEF PhoneInv
  <2>1. /\ ui = "sending" /\ ui' = "writing" /\ position \in 1 .. Len(queue)
        /\ value' = queue[position]
        /\ UNCHANGED <<queue, position, received, air, raced, made>>
    <3>1. /\ ui = "sending" /\ ui' = "writing" /\ position <= Len(queue)
          /\ value' = queue[position]
          /\ UNCHANGED <<queue, position, received, air, raced, made>>
      BY <1>2 DEF Phone!setValue, Phone!stack, Phone!history, Phone!queued
    <3>2. position \in 1 .. Len(queue) + 1 /\ Len(queue) \in Nat
      BY <3>1, WrittenLines DEF PhoneTypes
    <3> QED
      BY <3>1, <3>2
  <2>2. PhoneTypes'
    <3>1. UNCHANGED <<busy, linked, clients, opening, bluetoothGatt, services, noted, btTXCharac>>
      BY <1>2 DEF Phone!setValue, Phone!stack, Phone!callback
    <3>2. value' \in 0 .. made
      BY <2>1, WrittenLines
    <3> QED
      BY <2>1, <3>1, <3>2 DEF PhoneTypes, Phone!TypeOK
  <2>3. InOrder'
    BY <2>1 DEF InOrder, NoLater
  <2>4. Written' = Written
    BY <2>1 DEF Written
  <2>5. position \in Ahead /\ \A k \in Ahead' : k \in Ahead /\ k \in 1 .. Len(queue) /\ k > position
    BY <2>1 DEF Ahead
  <2>6. \A w \in Written : w < queue[position]
    BY <2>5 DEF Behind
  <2>7. \A w \in Written : w \in 1 .. made
    BY WrittenLines
  <2>8. \A k \in Ahead' : queue[position] < queue[k]
    BY <2>1, <2>5 DEF Behind
  <2>9. queue[position] \in 1 .. made
    BY <2>1, WrittenLines
  <2> QED
    BY <2>1, <2>2, <2>3, <2>4, <2>5, <2>6, <2>7, <2>8, <2>9 DEF Behind, NoLater
<1> QED
  BY <1>1, <1>2

LEMMA SendLineOrder ==
    ASSUME PhoneInv, Phone!SendLine
    PROVE  PhoneInv'
<1>1. CASE Phone!Dies
  BY <1>1, PhoneDies
<1>2. CASE ~Phone!Dies
  <2> USE DEF PhoneInv
  <2>1. /\ ui = "writing" /\ ui' = "sending" /\ position' = position + 1
        /\ Phone!writeCharacteristic
        /\ UNCHANGED <<queue, value, received, raced, made, linked, clients, bluetoothGatt,
                       opening, services, noted, btTXCharac>>
    BY <1>2 DEF Phone!SendLine, Phone!history, Phone!callback
  <2>2. \A w \in Written : value # 0 => w < value \/ (w = value /\ w \in raced')
    BY <2>1 DEF Behind, NoLater
  <2>3. /\ InOrder'
        /\ \A w \in Written' : w \in Written \/ (w = value /\ value # 0)
        /\ air' \in Seq([client : Nat, line : 0 .. made])
        /\ busy' \subseteq linked
        /\ \A g \in busy' : \E i \in 1 .. Len(air') : air'[i].client = g
    BY <2>1, <2>2, WriteKeepsOrder
  <2>4. PhoneTypes'
    BY <2>1, <2>3, WrittenLines DEF PhoneTypes, Phone!TypeOK
  <2>5. Ahead' = Ahead /\ Ahead \subseteq 1 .. Len(queue)
    BY <2>1, WrittenLines DEF Ahead, PhoneTypes
  <2>6. \A w \in Written' : w \in Written \cup ({value} \ {0})
    BY <2>3
  <2>7. \A w \in Written' \cup ({value} \ {0}) : \A k \in Ahead' : w < queue[k]
    BY <2>5, <2>6 DEF Behind
  <2>8. \A w \in Written' : value = 0 \/ w <= value
    BY <2>3, WrittenLines DEF Behind
  <2> QED
    BY <2>1, <2>3, <2>4, <2>7, <2>8 DEF Behind
<1> QED
  BY <1>1, <1>2

LEMMA SendEndsOrder ==
    ASSUME PhoneInv, Phone!SendEnds
    PROVE  PhoneInv'
<1> USE DEF PhoneInv
<1>1. /\ ui' = "idle" /\ position' = 0 /\ Len(queue') = 0
      /\ UNCHANGED <<value, received, raced, made, air>> /\ \A S : queue' \in Seq(S)
  BY DEF Phone!SendEnds, Phone!Cleared, Phone!history, Phone!stack
<1>2. PhoneTypes' /\ InOrder'
  BY <1>1 DEF PhoneTypes, Phone!TypeOK, InOrder, NoLater, Phone!SendEnds, Phone!callback,
     Phone!history, Phone!stack
<1>3. Written' = Written /\ Ahead' = {}
  BY <1>1 DEF Written, Ahead
<1> QED
  BY <1>1, <1>2, <1>3 DEF Behind

\* The UI thread at rest and at work on a connection.
LEMMA ConnectOrder ==
    ASSUME PhoneInv, Phone!connectToDeviceSelected \/ Phone!Assign \/ Phone!startScanning
                     \/ Phone!stopScanning \/ Phone!onScanResult
                     \/ Phone!onConnectionStateChange \/ Phone!onServicesDiscovered
    PROVE  PhoneInv'
<1>1. CASE Phone!Dies
  BY <1>1, PhoneDies
<1>2. CASE ~Phone!Dies
  <2> USE DEF PhoneInv
  <2>1. /\ UNCHANGED <<queue, position, value, received, raced, made, air, busy>>
        /\ \/ UNCHANGED ui
           \/ {ui, ui'} \subseteq {"idle", "connecting"}
    BY <1>2 DEF Phone!connectToDeviceSelected, Phone!Assign, Phone!startScanning,
       Phone!stopScanning, Phone!onScanResult, Phone!onConnectionStateChange,
       Phone!onServicesDiscovered, Phone!activity, Phone!queued, Phone!history, Phone!stack
  <2>2. Written' = Written /\ Ahead' = Ahead
    BY <2>1 DEF Written, Ahead
  <2>3. InOrder' /\ Behind'
    BY <2>1, <2>2 DEF InOrder, NoLater, Behind
  <2>4. PhoneTypes'
    <3>1. CASE Phone!onServicesDiscovered
      <4>1. services' \in Seq(BOOLEAN)
        BY <3>1 DEF Phone!onServicesDiscovered
      <4> QED
        BY <3>1, <2>1, <4>1 DEF PhoneTypes, Phone!TypeOK, Phone!onServicesDiscovered, Phone!history
    <3>2. CASE Phone!onConnectionStateChange
      <4>1. /\ opening # 0 /\ opening' = 0 /\ linked' = linked \cup {opening}
            /\ UNCHANGED <<ui, bluetoothGatt, btTXCharac, services, noted, clients>>
        BY <3>2 DEF Phone!onConnectionStateChange, Phone!activity, Phone!callback
      <4>2. clients \in Nat /\ opening \in 0 .. clients /\ linked \subseteq 1 .. clients
            /\ busy \subseteq linked
        BY DEF PhoneTypes, Phone!TypeOK
      <4>3. opening' \in 0 .. clients /\ linked' \subseteq 1 .. clients /\ busy \subseteq linked'
        BY <4>1, <4>2
      <4> QED
        BY <2>1, <4>1, <4>3 DEF PhoneTypes, Phone!TypeOK
    <3>3. CASE Phone!connectToDeviceSelected
      <4>1. /\ clients' = clients + 1 /\ opening' = clients + 1 /\ ui' = "connecting"
            /\ ui = "idle"
            /\ UNCHANGED <<linked, bluetoothGatt, btTXCharac, services, noted>>
        BY <1>2, <3>3 DEF Phone!connectToDeviceSelected, Phone!callback
      <4>2. /\ clients \in Nat /\ linked \subseteq 1 .. clients /\ bluetoothGatt \in 0 .. clients
        BY DEF PhoneTypes, Phone!TypeOK
      <4>3. /\ clients' \in Nat /\ linked \subseteq 1 .. clients' /\ bluetoothGatt \in 0 .. clients'
            /\ opening' \in 0 .. clients'
        BY <4>1, <4>2
      <4> QED
        BY <2>1, <4>1, <4>3 DEF PhoneTypes, Phone!TypeOK
    <3>4. CASE Phone!Assign \/ Phone!startScanning \/ Phone!stopScanning \/ Phone!onScanResult
      <4>1. /\ UNCHANGED <<linked, clients, opening, services, noted, btTXCharac>>
            /\ bluetoothGatt' \in {bluetoothGatt, clients}
            /\ ui' = ui \/ (ui = "connecting" /\ ui' = "idle")
        BY <3>4 DEF Phone!Assign, Phone!startScanning, Phone!stopScanning, Phone!onScanResult,
           Phone!callback, Phone!stack
      <4>2. bluetoothGatt' \in 0 .. clients
        BY <4>1 DEF PhoneTypes, Phone!TypeOK
      <4> QED
        BY <2>1, <4>1, <4>2 DEF PhoneTypes, Phone!TypeOK
    <3> QED
      BY <3>1, <3>2, <3>3, <3>4
  <2> QED
    BY <2>3, <2>4
<1> QED
  BY <1>1, <1>2

\* What is on its way of the clients that stay, stays in its order.
LEMMA DroppedOrder ==
    ASSUME PhoneInv, NEW gone, Phone!Dropped(gone), UNCHANGED Phone!activity
    PROVE  PhoneInv'
<1> USE DEF PhoneInv
<1> DEFINE stay == {w \in Phone!ToSet(air) : w.client \notin gone}
<1>1. /\ UNCHANGED <<ui, queue, position, value, received, raced, made, bluetoothGatt, clients,
                     opening, services, noted, btTXCharac>>
      /\ linked' = linked \ gone /\ busy' = busy \ gone
      /\ air' = OnlyIn(air, stay)
  BY DEF Phone!Dropped, Phone!activity, Phone!queued, Phone!callback, Phone!history,
     Phone!OnlyIn, OnlyIn
<1>2. air \in Seq([client : Nat, line : 0 .. made]) /\ Len(air) \in Nat
  BY WrittenLines DEF PhoneTypes
<1>3. \A j \in 1 .. Len(air) : air[j].client \notin gone => air[j] \in stay
  BY <1>2 DEF Phone!ToSet
<1> HIDE DEF stay
<1>4. air' \in Seq([client : Nat, line : 0 .. made])
  BY <1>1, <1>2, OnlyInKeeps
<1>5. PICK pos : Keeps(air', air, stay, Len(air), pos)
  BY <1>1, <1>2, OnlyInKeeps
<1>6. /\ Len(air') \in Nat
      /\ \A k \in 1 .. Len(air') : pos[k] \in 1 .. Len(air) /\ air'[k] = air[pos[k]]
      /\ \A k, l \in 1 .. Len(air') : k < l => pos[k] < pos[l]
      /\ \A i \in 1 .. Len(air) : air[i] \in stay => \E k \in 1 .. Len(air') : pos[k] = i
  <2>1. Len(air') \in Nat
    BY <1>4
  <2>2. \A k \in 1 .. Len(air') : pos[k] \in 1 .. Len(air)
    BY <1>5, Zenon DEF Keeps
  <2>3. \A k \in 1 .. Len(air') : air'[k] = air[pos[k]]
    BY <1>5, Zenon DEF Keeps
  <2>4. /\ \A k, l \in 1 .. Len(air') : k < l => pos[k] < pos[l]
        /\ \A i \in 1 .. Len(air) : air[i] \in stay => \E k \in 1 .. Len(air') : pos[k] = i
    BY <1>5, Zenon DEF Keeps
  <2> QED
    BY <2>1, <2>2, <2>3, <2>4, Zenon
<1>7. PhoneTypes'
  <2>1. ASSUME NEW g \in busy' PROVE \E k \in 1 .. Len(air') : air'[k].client = g
    <3>1. PICK i \in 1 .. Len(air) : air[i].client = g
      BY <1>1 DEF PhoneTypes, Phone!TypeOK
    <3>2. air[i] \in stay
      BY <1>1, <1>3, <3>1
    <3> QED
      BY <1>6, <3>1, <3>2
  <2>2. busy' \subseteq linked' /\ linked' \subseteq 1 .. clients
    BY <1>1 DEF PhoneTypes, Phone!TypeOK
  <2> QED
    BY <1>1, <1>4, <2>1, <2>2 DEF PhoneTypes, Phone!TypeOK
<1>8. InOrder'
  <2>1. \A i, j \in 1 .. Len(received') : i < j => NoLater(received[i], received[j])'
    BY <1>1 DEF InOrder, NoLater
  <2>2. \A i \in 1 .. Len(received'), j \in 1 .. Len(air') :
            air'[j].line # 0 => NoLater(received[i], air[j].line)'
    BY <1>1, <1>6 DEF InOrder, NoLater
  <2>3. \A i, j \in 1 .. Len(air') :
            i < j /\ air'[i].line # 0 /\ air'[j].line # 0 => NoLater(air[i].line, air[j].line)'
    <3> SUFFICES ASSUME NEW i \in 1 .. Len(air'), NEW j \in 1 .. Len(air'), i < j,
                        air'[i].line # 0, air'[j].line # 0
                 PROVE  NoLater(air[i].line, air[j].line)'
      OBVIOUS
    <3>1. /\ pos[i] \in 1 .. Len(air) /\ pos[j] \in 1 .. Len(air) /\ pos[i] < pos[j]
          /\ air'[i] = air[pos[i]] /\ air'[j] = air[pos[j]]
      BY <1>6
    <3> QED
      BY <1>1, <3>1 DEF InOrder, NoLater
  <2> QED
    BY <2>1, <2>2, <2>3 DEF InOrder
<1>9. Written' \subseteq Written /\ Ahead' = Ahead
  BY <1>1, <1>6 DEF Written, Ahead
<1>10. Behind'
  BY <1>1, <1>9 DEF Behind, NoLater
<1> QED
  BY <1>7, <1>8, <1>10

LEMMA LinkOrder ==
    ASSUME PhoneInv, Phone!LinkLost \/ Phone!disconnectDeviceSelected
    PROVE  PhoneInv'
<1>1. CASE Phone!LinkLost
  BY <1>1, DroppedOrder DEF Phone!LinkLost
<1>2. CASE Phone!disconnectDeviceSelected
  BY <1>2, DroppedOrder, PhoneDies DEF Phone!disconnectDeviceSelected
<1> QED
  BY <1>1, <1>2

LEMMA WriteArrivesOrder ==
    ASSUME PhoneInv, Phone!WriteArrives
    PROVE  PhoneInv'
<1> USE DEF PhoneInv
<1>1. /\ UNCHANGED <<ui, queue, position, value, raced, made, bluetoothGatt, clients, opening,
                     linked, services, noted, btTXCharac>>
      /\ air # <<>> /\ air' = Tail(air) /\ busy' = busy \ {Head(air).client}
      /\ received' = IF Head(air).line = 0 THEN received ELSE Append(received, Head(air).line)
  BY DEF Phone!WriteArrives, Phone!activity, Phone!queued, Phone!callback
<1>2. /\ Len(air) \in Nat \ {0} /\ Head(air) = air[1] /\ Len(air') = Len(air) - 1
      /\ air' \in Seq([client : Nat, line : 0 .. made])
      /\ \A j \in 1 .. Len(air') : air'[j] = air[j + 1] /\ j + 1 \in 1 .. Len(air)
  <2>1. air \in Seq([client : Nat, line : 0 .. made])
    BY DEF PhoneTypes
  <2> QED
    BY <1>1, <2>1
<1>3. air[1].line \in 0 .. made /\ 1 \in 1 .. Len(air)
  BY <1>2, WrittenLines
<1>4. /\ received' \in Seq(1 .. made) /\ Len(received) \in Nat
      /\ \A i \in 1 .. Len(received') :
             \/ i \in 1 .. Len(received) /\ received'[i] = received[i]
             \/ i = Len(received) + 1 /\ air[1].line # 0 /\ received'[i] = air[1].line
  <2>1. received \in Seq(1 .. made)
    BY DEF PhoneTypes
  <2>2. CASE air[1].line = 0
    BY <1>1, <1>2, <2>1, <2>2
  <2>3. CASE air[1].line # 0
    <3>1. received' = Append(received, air[1].line) /\ air[1].line \in 1 .. made
      BY <1>1, <1>2, <1>3, <2>3
    <3> HIDE DEF PhoneInv
    <3> QED
      BY <2>1, <2>3, <3>1
  <2> QED
    BY <2>2, <2>3
<1>5. PhoneTypes'
  <2>1. ASSUME NEW g \in busy' PROVE \E k \in 1 .. Len(air') : air'[k].client = g
    <3>1. PICK i \in 1 .. Len(air) : air[i].client = g
      BY <1>1 DEF PhoneTypes, Phone!TypeOK
    <3>2. i # 1
      BY <1>1, <1>2, <3>1
    <3>3. i - 1 \in 1 .. Len(air') /\ (i - 1) + 1 = i
      BY <1>2, <3>2
    <3> QED
      BY <1>2, <3>1, <3>3
  <2>2. busy' \subseteq linked
    BY <1>1 DEF PhoneTypes, Phone!TypeOK
  <2> QED
    BY <1>1, <1>2, <1>4, <2>1, <2>2 DEF PhoneTypes, Phone!TypeOK
<1>6. InOrder'
  <2>1. \A i, j \in 1 .. Len(received') : i < j => NoLater(received[i], received[j])'
    <3> SUFFICES ASSUME NEW i \in 1 .. Len(received'), NEW j \in 1 .. Len(received'), i < j
                 PROVE  NoLater(received'[i], received'[j])
      BY <1>1 DEF NoLater
    <3>1. i \in 1 .. Len(received) /\ received'[i] = received[i]
      BY <1>4
    <3> QED
      BY <1>3, <1>4, <3>1 DEF InOrder
  <2>2. \A i \in 1 .. Len(received'), j \in 1 .. Len(air') :
            air'[j].line # 0 => NoLater(received[i], air[j].line)'
    <3> SUFFICES ASSUME NEW i \in 1 .. Len(received'), NEW j \in 1 .. Len(air'),
                        air'[j].line # 0
                 PROVE  NoLater(received'[i], air'[j].line)
      BY <1>1 DEF NoLater
    <3>1. j + 1 \in 1 .. Len(air) /\ air'[j] = air[j + 1] /\ 1 < j + 1
      BY <1>2
    <3>2. CASE i \in 1 .. Len(received) /\ received'[i] = received[i]
      BY <3>1, <3>2 DEF InOrder
    <3>3. CASE air[1].line # 0 /\ received'[i] = air[1].line
      BY <1>3, <3>1, <3>3 DEF InOrder
    <3> QED
      BY <1>4, <3>2, <3>3
  <2>3. \A i, j \in 1 .. Len(air') :
            i < j /\ air'[i].line # 0 /\ air'[j].line # 0 => NoLater(air[i].line, air[j].line)'
    BY <1>1, <1>2 DEF InOrder, NoLater
  <2> QED
    BY <2>1, <2>2, <2>3 DEF InOrder
<1>7. Written' \subseteq Written
  <2>1. ASSUME NEW w \in Written' PROVE w \in Written
    <3>1. CASE w \in {received'[i] : i \in 1 .. Len(received')}
      <4>1. PICK i \in 1 .. Len(received') : w = received'[i]
        BY <3>1
      <4>2. CASE i \in 1 .. Len(received) /\ received'[i] = received[i]
        BY <4>1, <4>2 DEF Written
      <4>3. CASE air[1].line # 0 /\ received'[i] = air[1].line
        BY <1>3, <4>1, <4>3 DEF Written
      <4> QED
        BY <1>4, <4>1, <4>2, <4>3
    <3>2. CASE w \in {air'[j].line : j \in 1 .. Len(air')} \ {0}
      <4>1. PICK j \in 1 .. Len(air') : w = air'[j].line /\ w # 0
        BY <3>2
      <4>2. j + 1 \in 1 .. Len(air) /\ w = air[j + 1].line
        BY <1>2, <4>1
      <4> QED
        BY <4>1, <4>2 DEF Written
    <3> QED
      BY <2>1, <3>1, <3>2 DEF Written
  <2> QED
    BY <2>1
<1>8. Ahead' = Ahead
  BY <1>1 DEF Ahead
<1>9. Behind'
  BY <1>1, <1>7, <1>8 DEF Behind, NoLater
<1> QED
  BY <1>5, <1>6, <1>9

LEMMA displayGattServicesOrder ==
    ASSUME PhoneInv, Phone!displayGattServices
    PROVE  PhoneInv'
<1> USE DEF PhoneInv
<1>1. /\ UNCHANGED <<ui, queue, position, received, air, raced, made, bluetoothGatt, clients,
                     opening, linked, busy>>
      /\ services # <<>> /\ ~noted /\ value' \in {value, 0}
      /\ services' = services \/ services' = <<>>
      /\ noted' => btTXCharac' /\ services' = services
  BY DEF Phone!displayGattServices, Phone!queued, Phone!stack, Phone!history
<1>2. PhoneTypes'
  <2>1. services' \in Seq(BOOLEAN)
    <3>1. services \in Seq(BOOLEAN) /\ <<>> \in Seq(BOOLEAN)
      BY DEF PhoneTypes
    <3> QED
      BY <1>1, <3>1
  <2>2. value' \in 0 .. made
    BY <1>1, WrittenLines DEF PhoneTypes
  <2> QED
    BY <1>1, <2>1, <2>2 DEF PhoneTypes, Phone!TypeOK
<1>3. InOrder'
  BY <1>1 DEF InOrder, NoLater
<1>4. Written' = Written /\ Ahead' = Ahead
  BY <1>1 DEF Written, Ahead
<1>5. Behind'
  BY <1>1, <1>4 DEF Behind, NoLater
<1> QED
  BY <1>2, <1>3, <1>5

LEMMA SendEmptyOrder ==
    ASSUME PhoneInv, Phone!SendEmpty
    PROVE  PhoneInv'
<1> USE DEF PhoneInv
<1>1. /\ noted /\ ~noted' /\ services # <<>>
      /\ UNCHANGED <<ui, queue, position, value, received, made, bluetoothGatt, clients,
                     opening, linked, btTXCharac>>
      /\ \/ services' = <<>> /\ UNCHANGED <<busy, air, raced>>
         \/ /\ services' = Tail(services) /\ Phone!writeCharacteristic
            /\ raced' = raced \cup ({value} \ {0})
  BY DEF Phone!SendEmpty, Phone!queued, PhoneTypes, Phone!TypeOK
<1>2. services' \in Seq(BOOLEAN)
  <2>1. /\ services \in Seq(BOOLEAN) /\ <<>> \in Seq(BOOLEAN)
        /\ \A s \in Seq(BOOLEAN) : s # <<>> => Tail(s) \in Seq(BOOLEAN)
    BY DEF PhoneTypes
  <2> QED
    BY <1>1, <2>1
<1>3. CASE UNCHANGED <<busy, air, raced>>
  <2>1. PhoneTypes'
    BY <1>1, <1>2, <1>3 DEF PhoneTypes, Phone!TypeOK
  <2>2. InOrder'
    BY <1>1, <1>3 DEF InOrder, NoLater
  <2>3. Written' = Written /\ Ahead' = Ahead
    BY <1>1, <1>3 DEF Written, Ahead
  <2> QED
    BY <1>1, <1>3, <2>1, <2>2, <2>3 DEF Behind, NoLater
<1>4. CASE Phone!writeCharacteristic /\ raced' = raced \cup ({value} \ {0})
  <2>1. \A w \in Written : value # 0 => w < value \/ (w = value /\ w \in raced')
    BY <1>4, WrittenLines DEF Behind
  <2>2. /\ InOrder'
        /\ \A w \in Written' : w \in Written \/ (w = value /\ value # 0)
        /\ air' \in Seq([client : Nat, line : 0 .. made])
        /\ busy' \subseteq linked
        /\ \A g \in busy' : \E i \in 1 .. Len(air') : air'[i].client = g
    BY <1>1, <1>4, <2>1, WriteKeepsOrder
  <2>3. PhoneTypes'
    BY <1>1, <1>2, <2>2 DEF PhoneTypes, Phone!TypeOK
  <2>4. Ahead' = Ahead /\ \A w \in Written' : w \in Written \cup ({value} \ {0})
    BY <1>1, <2>2 DEF Ahead
  <2>5. \A w \in Written' \cup ({value} \ {0}) : \A k \in Ahead' : w < queue[k]
    BY <1>1, <2>4 DEF Behind, Ahead
  <2>6. \A w \in Written' : value = 0 \/ w <= value
    BY <2>2, WrittenLines DEF Behind
  <2>7. ui = "writing" => value \in {0, queue[position]}
                         /\ \A w \in Written' : NoLater(w, queue[position])'
    BY <1>1, <1>4, <2>2 DEF Behind, NoLater
  <2> QED
    BY <1>1, <2>2, <2>3, <2>5, <2>6, <2>7 DEF Behind
<1> QED
  BY <1>1, <1>3, <1>4

LEMMA PhoneStep ==
    ASSUME PhoneInv, Phone!Next
    PROVE  PhoneInv'
BY AddLineOrder, SendTappedOrder, setValueOrder, SendLineOrder, SendEndsOrder, ConnectOrder,
   LinkOrder, WriteArrivesOrder, displayGattServicesOrder, SendEmptyOrder
   DEF Phone!Next, Phone!User, Phone!Stack

LEMMA PhoneStutter == PhoneInv /\ UNCHANGED phoneVars => PhoneInv'
BY DEF phoneVars, PhoneInv, PhoneTypes, Phone!TypeOK, InOrder, NoLater, Written, Ahead, Behind

LEMMA PhoneInvariance == PartsSpec => []PhoneInv
<1>1. PartsInit => PhoneInv
  BY PhoneInit DEF PartsInit
<1> DEFINE v == <<part, vars, buttonVars, pwmVars, busVars, phoneVars, radioVars>>
<1>2. PhoneInv /\ [PartsNext]_v => PhoneInv'
  <2>1. UNCHANGED v => UNCHANGED phoneVars
    OBVIOUS
  <2>2. PartsNext => UNCHANGED phoneVars \/ Phone!Next
    BY DEF PartsNext, Others
  <2> QED
    BY <2>1, <2>2, PhoneStep, PhoneStutter
<1> QED
  BY <1>1, <1>2, PTL DEF PartsSpec

\* The micro:bit gets the lines in the order in which the user made them, and none twice
\* but for those that the callback writes (raced), for any services, clients and lines.
THEOREM LinesArriveInOrder == PartsSpec => []LinesInOrder
<1>1. PhoneInv => LinesInOrder
  <2> SUFFICES ASSUME PhoneInv PROVE LinesInOrder
    OBVIOUS
  <2>1. \A i \in 1 .. Len(received) : received[i] \in 1 .. made
    BY WrittenLines DEF PhoneInv
  <2> QED
    BY <2>1 DEF PhoneInv, InOrder, NoLater, LinesInOrder, Phone!LinesInOrder
<1> QED
  BY <1>1, PhoneInvariance, PTL

-----------------------------------------------------------------------------
(* The bus and its listeners.  The queue: events stand in the order of     *)
(* their numbers, and a fiber inside queueEvent knows the place of its     *)
(* own: what has come since stands behind it.                              *)

Event == [n : Nat, kind : Kinds]

Entering ==
    /\ sending.n <= sent /\ (sending.n = 0 => prev = 0 /\ ~tested)
    /\ tested => Len(evt_queue) <= MAX_QUEUE_DEPTH
    /\ \A i \in 1 .. Len(evt_queue) : evt_queue[i].n \in 1 .. sent
    /\ sending.n > 0 => \A i \in 1 .. Len(evt_queue) :
           IF i <= prev THEN evt_queue[i].n < sending.n ELSE evt_queue[i].n > sending.n

\* What concerns the queue of the bus alone.
EventQueue ==
    /\ evt_queue \in Seq(Event) /\ sending \in Event /\ prev \in Nat /\ tested \in BOOLEAN
    /\ sent \in Nat /\ prev <= Len(evt_queue) /\ Len(evt_queue) <= MAX_QUEUE_DEPTH + 1
    /\ Entering /\ Bus!QueuedInOrder

LEMMA EventIsNumbered ==
    ASSUME NEW n \in Nat, NEW k \in Kinds
    PROVE  [n |-> n, kind |-> k] \in Event /\ [n |-> n, kind |-> k].n = n
BY DEF Event

LEMMA NoEventIsNone == Bus!NoEvent \in Event /\ Bus!NoEvent.n = 0
<1>1. (CHOOSE k \in Kinds : TRUE) \in Kinds
  BY DEF Kinds
<1> QED
  BY <1>1 DEF Bus!NoEvent, Event

\* What is in the queue has a number.
LEMMA QueueNumbers ==
    ASSUME EventQueue
    PROVE  /\ Len(evt_queue) \in Nat /\ sending.n \in Nat
           /\ \A i \in 1 .. Len(evt_queue) : evt_queue[i] \in Event /\ evt_queue[i].n \in Nat
<1>1. /\ Len(evt_queue) \in Nat /\ sending \in Event
      /\ \A i \in 1 .. Len(evt_queue) : evt_queue[i] \in Event
  BY DEF EventQueue
<1> QED
  BY <1>1 DEF Event

\* An event of an interrupt goes to the end, and has the highest number.
LEMMA InterruptQueues ==
    ASSUME Bus!ConstantsOK, EventQueue, NEW k \in Kinds, Bus!Interrupt(k)
    PROVE  EventQueue'
<1> DEFINE e == [n |-> sent + 1, kind |-> k]
<1>1. /\ sent \in Nat /\ sent' = sent + 1 /\ UNCHANGED <<sending, prev, tested>>
      /\ evt_queue' = IF Bus!HasRoom THEN Append(evt_queue, e) ELSE evt_queue
      /\ MAX_QUEUE_DEPTH \in Nat
  BY DEF Bus!Interrupt, Bus!entry, EventQueue, Bus!ConstantsOK
<1>2. e \in Event /\ e.n = sent + 1
  BY <1>1, EventIsNumbered
<1> HIDE DEF e
<1>3. CASE ~Bus!HasRoom
  <2>1. Entering'
    BY <1>1, <1>3, QueueNumbers DEF EventQueue, Entering
  <2> QED
    BY <1>1, <1>3, <2>1 DEF EventQueue, Bus!QueuedInOrder
<1>4. CASE Bus!HasRoom
  <2>1. /\ evt_queue' \in Seq(Event) /\ Len(evt_queue') = Len(evt_queue) + 1
        /\ \A i \in 1 .. Len(evt_queue) : evt_queue'[i] = evt_queue[i]
        /\ evt_queue'[Len(evt_queue) + 1] = e
        /\ Len(evt_queue) \in Nat /\ Len(evt_queue) < MAX_QUEUE_DEPTH
    BY <1>1, <1>2, <1>4 DEF EventQueue, Bus!HasRoom
  <2>2. \A i \in 1 .. Len(evt_queue') : i \in 1 .. Len(evt_queue) \/ i = Len(evt_queue) + 1
    BY <2>1
  <2>3. \A i \in 1 .. Len(evt_queue) : evt_queue[i].n \in 1 .. sent
    BY DEF EventQueue, Entering
  <2>4. \A i \in 1 .. Len(evt_queue') : evt_queue'[i].n \in 1 .. sent'
    BY <1>1, <1>2, <2>1, <2>2, <2>3
  <2>5. Bus!QueuedInOrder'
    BY <1>1, <1>2, <2>1, <2>2, <2>3 DEF EventQueue, Bus!QueuedInOrder
  <2>6. sending.n > 0 => \A i \in 1 .. Len(evt_queue') :
            IF i <= prev THEN evt_queue'[i].n < sending.n ELSE evt_queue'[i].n > sending.n
    BY <1>1, <1>2, <2>1, <2>2, QueueNumbers DEF EventQueue, Entering
  <2>7. Entering'
    BY <1>1, <2>1, <2>4, <2>6, QueueNumbers DEF EventQueue, Entering
  <2> QED
    BY <1>1, <2>1, <2>5, <2>7 DEF EventQueue
<1> QED
  BY <1>3, <1>4

LEMMA sendQueues ==
    ASSUME EventQueue, NEW k \in Kinds, Bus!send(k), sending.n = 0
    PROVE  EventQueue'
<1>1. /\ sent \in Nat /\ sent' = sent + 1 /\ sending' \in Event /\ sending'.n = sent + 1
      /\ prev' = Len(evt_queue) /\ UNCHANGED <<evt_queue, tested>>
  BY EventIsNumbered DEF Bus!send, EventQueue
<1>2. Len(evt_queue) \in Nat /\ ~tested /\ \A i \in 1 .. Len(evt_queue) : evt_queue[i].n \in 1 .. sent
  BY QueueNumbers DEF EventQueue, Entering
<1>3. Entering'
  BY <1>1, <1>2 DEF Entering
<1> QED
  BY <1>1, <1>2, <1>3 DEF EventQueue, Bus!QueuedInOrder

LEMMA queueLengthQueues ==
    ASSUME EventQueue, Bus!ConstantsOK, Bus!queueLength
    PROVE  EventQueue'
<1>1. UNCHANGED <<sent, evt_queue>> /\ Len(evt_queue) \in Nat /\ sending.n \in Nat
  BY QueueNumbers DEF Bus!queueLength
<1>2. CASE Bus!HasRoom /\ tested' = TRUE /\ UNCHANGED <<sending, prev>>
  <2>1. Len(evt_queue) <= MAX_QUEUE_DEPTH /\ sending.n > 0
    BY <1>1, <1>2 DEF Bus!HasRoom, Bus!ConstantsOK, Bus!queueLength
  <2>2. Entering'
    BY <1>1, <1>2, <2>1 DEF EventQueue, Entering
  <2> QED
    BY <1>1, <1>2, <2>2 DEF EventQueue, Bus!QueuedInOrder
<1>3. CASE sending' = Bus!NoEvent /\ prev' = 0 /\ UNCHANGED tested
  <2>1. ~tested
    BY DEF Bus!queueLength
  <2>2. Entering'
    BY <1>1, <1>3, <2>1, NoEventIsNone DEF EventQueue, Entering
  <2> QED
    BY <1>1, <1>3, <2>2, NoEventIsNone DEF EventQueue, Bus!QueuedInOrder
<1> QED
  BY <1>2, <1>3 DEF Bus!queueLength

\* What is put behind the p-th: the new element has the place, and the rest moves on.
LEMMA InsertedBehind ==
    ASSUME NEW q \in Seq(Event), NEW e \in Event, NEW p \in 0 .. Len(q)
    PROVE  \A r : r = SubSeq(q, 1, p) \o <<e>> \o SubSeq(q, p + 1, Len(q)) =>
               /\ r \in Seq(Event) /\ Len(r) = Len(q) + 1
               /\ \A i \in 1 .. p : r[i] = q[i]
               /\ r[p + 1] = e
               /\ \A i \in p + 1 .. Len(q) : r[i + 1] = q[i]
<1> DEFINE a == SubSeq(q, 1, p)
           b == SubSeq(q, p + 1, Len(q))
           ae == a \o <<e>>
<1>1. Len(q) \in Nat /\ p \in Nat /\ p <= Len(q) 
  OBVIOUS
<1>2. SubSeq(q, 1, p) \o <<e>> \o SubSeq(q, p + 1, Len(q)) = ae \o b
  BY Zenon
<1>3. a \in Seq(Event) /\ Len(a) = p /\ \A i \in 1 .. p : a[i] = q[i]
  BY <1>1
<1>4. /\ b \in Seq(Event) /\ Len(b) = Len(q) - p
      /\ \A i \in 1 .. Len(q) - p : b[i] = q[p + i]
  BY <1>1
<1> HIDE DEF a, b
<1>5. /\ ae \in Seq(Event) /\ Len(ae) = p + 1 /\ ae[p + 1] = e
      /\ \A i \in 1 .. p : ae[i] = q[i]
  BY <1>1, <1>3
<1> HIDE DEF ae
<1>6. /\ ae \o b \in Seq(Event) /\ Len(ae \o b) = Len(q) + 1
      /\ \A i \in 1 .. p + 1 : (ae \o b)[i] = ae[i]
  BY <1>1, <1>4, <1>5
<1>7. ASSUME NEW i \in p + 1 .. Len(q)
      PROVE  (ae \o b)[i + 1] = q[i]
  <2>1. PICK d \in 1 .. Len(q) - p : i = p + d
    <3>1. i - p \in 1 .. Len(q) - p /\ i = p + (i - p)
      BY <1>1
    <3> QED
      BY <3>1
  <2>2. /\ i + 1 \in 1 .. Len(ae) + Len(b) /\ ~(i + 1 <= Len(ae))
        /\ (i + 1) - Len(ae) = d /\ b[d] = q[p + d]
    BY <1>1, <1>4, <1>5, <2>1
  <2>3. (ae \o b)[i + 1] = b[(i + 1) - Len(ae)]
    BY <1>4, <1>5, <2>2, ConcatProperties
  <2> QED
    BY <2>1, <2>2, <2>3
<1>8. \A i \in 1 .. p : (ae \o b)[i] = q[i]
  BY <1>1, <1>5, <1>6, SMTT(30)
<1>9. (ae \o b)[p + 1] = e
  BY <1>1, <1>5, <1>6
<1> QED
  BY <1>2, <1>6, <1>7, <1>8, <1>9, Zenon

\* The event goes where the tail was.
LEMMA queueEventQueues ==
    ASSUME EventQueue, Bus!ConstantsOK, Bus!queueEvent
    PROVE  EventQueue'
<1>1. PICK q, e, p : /\ q \in Seq(Event) /\ e \in Event /\ p \in 0 .. Len(q)
                     /\ q = evt_queue /\ e = sending /\ p = prev
  BY DEF EventQueue
<1>2. sent \in Nat /\ sent' = sent /\ sending' = Bus!NoEvent /\ prev' = 0 /\ tested' = FALSE
  BY DEF Bus!queueEvent, EventQueue
<1>6. PICK r : /\ r = evt_queue'
               /\ r = SubSeq(q, 1, p) \o <<e>> \o SubSeq(q, p + 1, Len(q))
  BY <1>1 DEF Bus!queueEvent, Bus!Place
<1>14. r = evt_queue'
  BY <1>6
<1>3. /\ Len(q) \in Nat /\ Len(q) <= MAX_QUEUE_DEPTH /\ e.n \in 1 .. sent
      /\ \A i \in 1 .. Len(q) : q[i].n \in 1 .. sent
  <2>1. tested /\ sending.n \in Nat
    BY QueueNumbers DEF Bus!queueEvent
  <2>2. sending.n # 0 /\ sending.n <= sent
    BY <2>1 DEF EventQueue, Entering
  <2> QED
    BY <1>1, <1>2, <2>1, <2>2 DEF EventQueue, Entering
<1>4. \A i \in 1 .. Len(q) : IF i <= p THEN q[i].n < e.n ELSE q[i].n > e.n
  BY <1>1, <1>3 DEF EventQueue, Entering
<1>5. \A i, j \in 1 .. Len(q) : i < j => q[i].n < q[j].n
  BY <1>1 DEF EventQueue, Bus!QueuedInOrder
<1>7. /\ r \in Seq(Event) /\ Len(r) = Len(q) + 1
      /\ \A i \in 1 .. p : r[i] = q[i]
      /\ r[p + 1] = e
      /\ \A i \in p + 1 .. Len(q) : r[i + 1] = q[i]
  <2>1. r = SubSeq(q, 1, p) \o <<e>> \o SubSeq(q, p + 1, Len(q))
    BY <1>6
  <2>2. q \in Seq(Event) /\ e \in Event /\ p \in 0 .. Len(q)
    BY <1>1
  <2> QED
    <3>1. \A x : x = SubSeq(q, 1, p) \o <<e>> \o SubSeq(q, p + 1, Len(q)) =>
               /\ x \in Seq(Event) /\ Len(x) = Len(q) + 1
               /\ \A i \in 1 .. p : x[i] = q[i]
               /\ x[p + 1] = e
               /\ \A i \in p + 1 .. Len(q) : x[i + 1] = q[i]
      BY <2>2, InsertedBehind, Zenon
    <3> QED
      BY <2>1, <3>1, Zenon
<1>8. \A i \in 1 .. Len(r) : \/ i \in 1 .. p /\ i \in 1 .. Len(q)
                             \/ i = p + 1
                             \/ \E h \in p + 1 .. Len(q) : i = h + 1 /\ h \in 1 .. Len(q)
  <2> SUFFICES ASSUME NEW i \in 1 .. Len(r), i > p + 1
               PROVE  \E h \in p + 1 .. Len(q) : i = h + 1 /\ h \in 1 .. Len(q)
    BY <1>1, <1>3, <1>7
  <2>1. i - 1 \in p + 1 .. Len(q) /\ i = (i - 1) + 1 /\ i - 1 \in 1 .. Len(q)
    BY <1>1, <1>3, <1>7
  <2> QED
    BY <2>1
<1>9. \A i, j \in 1 .. Len(r) : i < j => r[i].n < r[j].n
  <2> SUFFICES ASSUME NEW i \in 1 .. Len(r), NEW j \in 1 .. Len(r), i < j
               PROVE  r[i].n < r[j].n
    OBVIOUS
  <2>1. CASE i \in 1 .. p /\ i \in 1 .. Len(q)
    <3>1. r[i] = q[i] /\ q[i].n < e.n
      BY <1>3, <1>4, <1>7, <2>1
    <3>2. CASE j \in 1 .. p /\ j \in 1 .. Len(q)
      BY <1>5, <1>7, <2>1, <3>1, <3>2
    <3>3. CASE j = p + 1
      BY <1>7, <3>1, <3>3
    <3>4. CASE \E h \in p + 1 .. Len(q) : j = h + 1 /\ h \in 1 .. Len(q)
      <4>1. PICK h \in p + 1 .. Len(q) : j = h + 1 /\ h \in 1 .. Len(q)
        BY <3>4
      <4>2. i < h
        BY <1>1, <2>1
      <4> QED
        BY <1>5, <1>7, <2>1, <3>1, <4>1, <4>2
    <3> QED
      BY <1>8, <3>2, <3>3, <3>4
  <2>2. CASE i = p + 1
    <3>1. PICK h \in p + 1 .. Len(q) : j = h + 1 /\ h \in 1 .. Len(q)
      BY <1>8, <2>2
    <3> QED
      BY <1>1, <1>3, <1>4, <1>7, <2>2, <3>1
  <2>3. CASE \E h \in p + 1 .. Len(q) : i = h + 1 /\ h \in 1 .. Len(q)
    <3>1. PICK h \in p + 1 .. Len(q) : i = h + 1 /\ h \in 1 .. Len(q)
      BY <2>3
    <3>2. PICK g \in p + 1 .. Len(q) : j = g + 1 /\ g \in 1 .. Len(q)
      BY <1>1, <1>8, <3>1
    <3> QED
      BY <1>5, <1>7, <3>1, <3>2
  <2> QED
    BY <1>8, <2>1, <2>2, <2>3
<1>10. \A i \in 1 .. Len(r) : r[i].n \in 1 .. sent
  BY <1>3, <1>7, <1>8
<1>11. Entering' /\ Bus!QueuedInOrder'
  <2>1. Entering'
    BY <1>2, <1>14, <1>10, NoEventIsNone DEF Entering
  <2>2. Bus!QueuedInOrder'
    BY <1>14, <1>9 DEF Bus!QueuedInOrder
  <2> QED
    BY <2>1, <2>2
<1>12. /\ evt_queue' \in Seq(Event) /\ prev' \in Nat /\ tested' \in BOOLEAN
       /\ sending' \in Event /\ sent' \in Nat
  BY <1>2, <1>14, <1>7, NoEventIsNone
<1>13. prev' <= Len(evt_queue') /\ Len(evt_queue') <= MAX_QUEUE_DEPTH + 1
  BY <1>2, <1>3, <1>14, <1>7 DEF Bus!ConstantsOK
<1> QED
  BY <1>11, <1>12, <1>13 DEF EventQueue

\* The first event is taken while no fiber is in queueEvent.
LEMMA DequeueQueues ==
    ASSUME EventQueue, Bus!ConstantsOK, sending.n = 0, Bus!Dequeue,
           UNCHANGED <<sending, prev, tested, sent>>
    PROVE  EventQueue' /\ now' \in Event
<1>1. /\ evt_queue' \in Seq(Event) /\ Head(evt_queue) \in Event
      /\ Len(evt_queue) \in Nat \ {0} /\ Len(evt_queue') = Len(evt_queue) - 1
      /\ \A i \in 1 .. Len(evt_queue') : evt_queue'[i] = evt_queue[i + 1] /\ i + 1 \in 1 .. Len(evt_queue)
  BY DEF EventQueue, Bus!Dequeue
<1>2. Entering'
  BY <1>1, QueueNumbers, SMTT(30) DEF EventQueue, Entering, Bus!ConstantsOK
<1>3. Bus!QueuedInOrder'
  BY <1>1, SMTT(30) DEF EventQueue, Bus!QueuedInOrder
<1>4. prev = 0
  BY DEF EventQueue, Entering
<1> QED
  BY <1>1, <1>2, <1>3, <1>4 DEF EventQueue, Bus!Dequeue, Bus!ConstantsOK

-----------------------------------------------------------------------------
(* The listeners.  The numbers of the events one has queued, and what it   *)
(* owes before them: the event that is in it while its fiber is between    *)
(* two calls.                                                              *)

Numbers(b) == [i \in 1 .. Len(b) |-> b[i].n]

LEMMA NumbersTyped ==
    ASSUME NEW b \in Seq(Event)
    PROVE  /\ Numbers(b) \in Seq(Nat) /\ Len(Numbers(b)) = Len(b) /\ Len(b) \in Nat
           /\ \A i \in 1 .. Len(b) : Numbers(b)[i] = b[i].n /\ b[i].n \in Nat
<1>1. Len(b) \in Nat /\ \A i \in 1 .. Len(b) : b[i] \in Event
  OBVIOUS
<1>2. \A i \in 1 .. Len(b) : b[i].n \in Nat
  BY <1>1 DEF Event
<1> QED
  BY <1>1, <1>2 DEF Numbers

LEMMA NoNumbers == Numbers(<<>>) = <<>>
<1>1. <<>> \in Seq(Event) /\ Len(<<>>) = 0
  OBVIOUS
<1>2. Numbers(<<>>) \in Seq(Nat) /\ Len(Numbers(<<>>)) = 0
  BY <1>1, NumbersTyped
<1> QED
  BY <1>2

LEMMA NumbersOfAppend ==
    ASSUME NEW b \in Seq(Event), NEW e \in Event
    PROVE  Numbers(Append(b, e)) = Append(Numbers(b), e.n)
<1> DEFINE x == Numbers(Append(b, e))
           y == Append(Numbers(b), e.n)
<1>1. e.n \in Nat
  BY DEF Event
<1>2. /\ Append(b, e) \in Seq(Event) /\ Len(Append(b, e)) = Len(b) + 1 /\ Len(b) \in Nat
      /\ \A i \in 1 .. Len(b) : Append(b, e)[i] = b[i]
      /\ Append(b, e)[Len(b) + 1] = e
  OBVIOUS
<1>3. /\ x \in Seq(Nat) /\ Len(x) = Len(b) + 1
      /\ \A i \in 1 .. Len(b) + 1 : x[i] = Append(b, e)[i].n
  BY <1>2, NumbersTyped
<1>4. /\ y \in Seq(Nat) /\ Len(y) = Len(b) + 1
      /\ \A i \in 1 .. Len(b) : y[i] = b[i].n
      /\ y[Len(b) + 1] = e.n
  BY <1>1, NumbersTyped
<1> HIDE DEF x, y
<1>5. \A i \in 1 .. Len(b) + 1 : x[i] = y[i]
  <2> SUFFICES ASSUME NEW i \in 1 .. Len(b) + 1 PROVE x[i] = y[i]
    OBVIOUS
  <2>1. i \in 1 .. Len(b) \/ i = Len(b) + 1
    BY <1>2
  <2> QED
    BY <1>2, <1>3, <1>4, <2>1
<1>6. x = y
  BY <1>3, <1>4, <1>5, SeqEqual
<1> QED
  BY <1>6 DEF x, y

LEMMA NumbersOfTail ==
    ASSUME NEW b \in Seq(Event), b # <<>>
    PROVE  /\ Head(b) \in Event /\ Tail(b) \in Seq(Event) /\ Head(b).n \in Nat
           /\ Numbers(b) = <<Head(b).n>> \o Numbers(Tail(b))
<1> DEFINE x == Numbers(b)
           t == Numbers(Tail(b))
           z == <<Head(b).n>>
           y == z \o t
<1>1. /\ Head(b) \in Event /\ Tail(b) \in Seq(Event) /\ Len(b) \in Nat \ {0}
      /\ Len(Tail(b)) = Len(b) - 1 /\ Head(b) = b[1]
      /\ \A i \in 1 .. Len(b) - 1 : Tail(b)[i] = b[i + 1]
  OBVIOUS
<1>2. Head(b).n \in Nat
  BY <1>1 DEF Event
<1>3. /\ x \in Seq(Nat) /\ Len(x) = Len(b)
      /\ \A i \in 1 .. Len(b) : x[i] = b[i].n
  BY NumbersTyped
<1>4. /\ t \in Seq(Nat) /\ Len(t) = Len(b) - 1
      /\ \A i \in 1 .. Len(b) - 1 : t[i] = b[i + 1].n
  <2>1. PICK c \in Seq(Event) : c = Tail(b)
    BY <1>1
  <2>2. /\ Numbers(c) \in Seq(Nat) /\ Len(Numbers(c)) = Len(c)
        /\ \A i \in 1 .. Len(c) : Numbers(c)[i] = c[i].n
    BY NumbersTyped
  <2>3. Len(c) = Len(b) - 1 /\ \A i \in 1 .. Len(c) : c[i] = b[i + 1]
    BY <1>1, <2>1
  <2>4. t = Numbers(c)
    BY <2>1
  <2> QED
    BY <2>2, <2>3, <2>4
<1> HIDE DEF x, t
<1>5. z \in Seq(Nat) /\ Len(z) = 1 /\ z[1] = Head(b).n
  BY <1>2
<1> HIDE DEF z
<1>9. /\ y \in Seq(Nat) /\ Len(y) = Len(z) + Len(t)
      /\ \A i \in 1 .. Len(z) + Len(t) : y[i] = IF i <= Len(z) THEN z[i] ELSE t[i - Len(z)]
  BY <1>4, <1>5, ConcatProperties
<1> HIDE DEF y
<1>6. /\ y \in Seq(Nat) /\ Len(y) = Len(b) /\ y[1] = Head(b).n
      /\ \A i \in 1 .. Len(b) : i > 1 => y[i] = t[i - 1]
  BY <1>1, <1>4, <1>5, <1>9
<1>7. \A i \in 1 .. Len(b) : x[i] = y[i]
  <2> SUFFICES ASSUME NEW i \in 1 .. Len(b) PROVE x[i] = y[i]
    OBVIOUS
  <2>1. i = 1 \/ (i > 1 /\ i - 1 \in 1 .. Len(b) - 1 /\ (i - 1) + 1 = i)
    BY <1>1
  <2> QED
    <3>1. CASE i = 1
      BY <1>1, <1>3, <1>6, <3>1
    <3>2. CASE i > 1 /\ i - 1 \in 1 .. Len(b) - 1 /\ (i - 1) + 1 = i
      <4>1. x[i] = b[(i - 1) + 1].n /\ y[i] = t[i - 1]
        BY <1>3, <1>6, <3>2
      <4> QED
        BY <1>4, <3>2, <4>1
    <3> QED
      BY <2>1, <3>1, <3>2
<1>8. x = y
  BY <1>3, <1>6, <1>7, SeqEqual
<1> QED
  BY <1>1, <1>2, <1>8 DEF x, y, z, t

LEMMA InAnyOrder ==
    ASSUME NEW x \in Seq(Nat), NEW y \in Seq(Nat), NEW z \in Seq(Nat)
    PROVE  (x \o y) \o z = x \o (y \o z)
BY ConcatAssociative, SMTT(30)

\* The next event is taken out of the backlog into the listener.
LEMMA NextIsTaken ==
    ASSUME NEW h \in Seq(Nat), NEW b \in Seq(Event), b # <<>>
    PROVE  (h \o <<>>) \o Numbers(b) = (h \o <<Head(b).n>>) \o Numbers(Tail(b))
<1> DEFINE x == <<Head(b).n>>
           t == Numbers(Tail(b))
<1>1. x \in Seq(Nat) /\ t \in Seq(Nat) /\ Numbers(b) = x \o t
  <2>1. Head(b).n \in Nat /\ Tail(b) \in Seq(Event) /\ Numbers(b) = <<Head(b).n>> \o Numbers(Tail(b))
    BY NumbersOfTail
  <2>2. x \in Seq(Nat)
    BY <2>1
  <2>3. t \in Seq(Nat)
    BY <2>1, NumbersTyped
  <2> QED
    BY <2>1, <2>2, <2>3
<1> HIDE DEF x, t
<1>2. h \o <<>> = h
  BY ConcatEmptySeq
<1>3. (h \o x) \o t = h \o (x \o t)
  BY <1>1, InAnyOrder
<1> QED
  BY <1>1, <1>2, <1>3 DEF x, t

\* The handler is called with the event in the listener.
LEMMA CalledWith ==
    ASSUME NEW h \in Seq(Nat), NEW n \in Nat
    PROVE  h \o <<n>> = Append(h, n) \o <<>> /\ Append(h, n) \in Seq(Nat)
BY ConcatEmptySeq, AppendIsConcat

\* An event goes to the end of the backlog.
LEMMA OneMoreOwed ==
    ASSUME NEW h \in Seq(Nat), NEW b \in Seq(Event), NEW e \in Event
    PROVE  Append((h \o <<>>) \o Numbers(b), e.n) = (h \o <<>>) \o Numbers(Append(b, e))
<1> DEFINE x == h \o <<>>
           t == Numbers(b)
           n == e.n
           u == <<n>>
<1>1. x \in Seq(Nat) /\ t \in Seq(Nat) /\ n \in Nat
  BY NumbersTyped, ConcatEmptySeq DEF Event
<1>2. Numbers(Append(b, e)) = Append(t, n)
  BY NumbersOfAppend
<1> HIDE DEF x, t, n
<1>3. x \o t \in Seq(Nat) /\ u \in Seq(Nat)
  BY <1>1
<1>4. Append(t, n) = t \o u /\ Append(x \o t, n) = (x \o t) \o u
  BY <1>1, <1>3, AppendIsConcat
<1> HIDE DEF u
<1>5. (x \o t) \o u = x \o (t \o u)
  BY <1>1, <1>3, InAnyOrder, SMTT(30)
<1> QED
  BY <1>2, <1>4, <1>5 DEF x, t, n

ListenerTypes ==
    /\ deleting \subseteq listed /\ entered \subseteq listed /\ listed \subseteq Bus!L
    /\ at \in 0 .. N /\ now \in Event /\ inside \in [Bus!L -> 0 .. MaxInside]
    /\ evt \in [Bus!L -> Event] /\ backlog \in [Bus!L -> Seq(Event)]
    /\ \A l \in Bus!L : Len(backlog[l]) <= MAX_QUEUE_DEPTH
    /\ spinning \subseteq Bus!L
    /\ owed \in [Bus!L -> Seq(Nat)] /\ handled \in [Bus!L -> Seq(Nat)]

\* What is true of each listener.  BUSY is set while a fiber is in the handler, unless
\* another that was called while one was in it has left; of a listener that queues
\* there is one fiber, in the handler or between two calls of it, and only while
\* there is one it has a backlog.
Entered(l) ==
    /\ l \in overlapped => Mode[l] = "reentrant"
    /\ l \in spinning => Mode[l] = "queue" /\ l \in entered /\ inside[l] = 0
    /\ l \notin overlapped => inside[l] = 0 \/ (inside[l] = 1 /\ l \in entered)
    /\ Mode[l] = "queue" /\ l \notin entered => backlog[l] = <<>>
    /\ Mode[l] = "queue" =>
          owed[l] = handled[l] \o (IF l \in spinning THEN <<evt[l].n>> ELSE <<>>)
                               \o Numbers(backlog[l])

\* The walk waits until no fiber is between two calls.
ListenersInv ==
    /\ ListenerTypes
    /\ at # 0 => spinning = {}
    /\ \A l \in Bus!L : Entered(l)
    /\ Bus!NobodyIsAbandoned

BusInv == EventQueue /\ ListenersInv

LEMMA BusInit ==
    ASSUME Bus!ConstantsOK, Bus!Init
    PROVE  BusInv
<1> USE NoEventIsNone DEF Bus!Init
<1>1. EventQueue
  <2>1. Len(evt_queue) = 0 /\ MAX_QUEUE_DEPTH \in Nat /\ evt_queue \in Seq(Event)
    BY DEF Bus!ConstantsOK
  <2>2. sending \in Event /\ sending.n = 0 /\ prev = 0 /\ tested = FALSE /\ sent = 0
    OBVIOUS
  <2>3. Entering /\ Bus!QueuedInOrder
    BY <2>1, <2>2 DEF Entering, Bus!QueuedInOrder
  <2>4. tested \in BOOLEAN
    BY <2>2, Zenon
  <2>5. /\ evt_queue \in Seq(Event) /\ prev \in Nat /\ sent \in Nat
        /\ prev <= Len(evt_queue) /\ Len(evt_queue) <= MAX_QUEUE_DEPTH + 1
    BY <2>1, <2>2
  <2> QED
    BY <2>2, <2>3, <2>4, <2>5 DEF EventQueue
<1>2. N \in Nat /\ MaxInside \in Nat /\ MAX_QUEUE_DEPTH \in Nat /\ Len(<<>>) = 0
  BY DEF Bus!ConstantsOK
<1>3. ListenerTypes
  BY <1>2 DEF ListenerTypes
<1>4. ASSUME NEW l \in Bus!L
      PROVE  Entered(l)
  <2>1. /\ l \notin overlapped /\ l \notin spinning /\ inside[l] = 0 /\ backlog[l] = <<>>
        /\ owed[l] = <<>> /\ handled[l] = <<>>
    OBVIOUS
  <2>2. (<<>> \o <<>>) \o Numbers(<<>>) = <<>>
    <3>1. <<>> \in Seq(Nat)
      OBVIOUS
    <3> QED
      BY <3>1, ConcatEmptySeq, NoNumbers
  <2> QED
    BY <2>1, <2>2 DEF Entered
<1> QED
  BY <1>1, <1>3, <1>4 DEF BusInv, ListenersInv, Bus!NobodyIsAbandoned

LEMMA QueueStays ==
    ASSUME EventQueue, UNCHANGED <<evt_queue, sending, prev, tested, sent>>
    PROVE  EventQueue'
BY DEF EventQueue, Entering, Bus!QueuedInOrder

LEMMA EnteredStays ==
    ASSUME NEW l \in Bus!L, Entered(l), evt'[l] = evt[l], backlog'[l] = backlog[l],
           inside'[l] = inside[l], owed'[l] = owed[l], handled'[l] = handled[l],
           l \in entered' <=> l \in entered, l \in spinning' <=> l \in spinning,
           l \in overlapped' <=> l \in overlapped
    PROVE  Entered(l)'
BY DEF Entered

LEMMA ListenersStay ==
    ASSUME ListenersInv,
           UNCHANGED <<listed, deleting, entered, evt, backlog, at, now, inside, spinning,
                       owed, handled, overlapped, abandoned>>
    PROVE  ListenersInv'
<1>1. ListenerTypes'
  BY DEF ListenersInv, ListenerTypes
<1>2. \A l \in Bus!L : Entered(l)'
  BY EnteredStays DEF ListenersInv
<1> QED
  BY <1>1, <1>2 DEF ListenersInv, Bus!NobodyIsAbandoned

LEMMA addServes ==
    ASSUME ListenersInv, NEW l \in Bus!L, Bus!add(l) \/ Bus!remove(l)
    PROVE  ListenersInv'
<1>1. /\ UNCHANGED <<entered, evt, backlog, at, now, inside, spinning, owed, handled,
                     overlapped, abandoned>>
      /\ \/ listed' = listed \cup {l} /\ deleting' = deleting \ {l}
         \/ l \in listed /\ UNCHANGED listed /\ deleting' = deleting \cup {l}
  BY DEF Bus!add, Bus!remove, Bus!fibers, Bus!walk, Bus!history
<1>2. /\ deleting' \subseteq listed' /\ entered' \subseteq listed' /\ listed' \subseteq Bus!L
  BY <1>1 DEF ListenersInv, ListenerTypes
<1>3. ListenerTypes'
  BY <1>1, <1>2 DEF ListenersInv, ListenerTypes
<1>4. \A m \in Bus!L : Entered(m)'
  BY <1>1, EnteredStays DEF ListenersInv
<1> QED
  BY <1>1, <1>3, <1>4 DEF ListenersInv, Bus!NobodyIsAbandoned

LEMMA WalkGoesOn ==
    ASSUME Bus!ConstantsOK, at \in 1 .. N, Bus!Step
    PROVE  at' \in 0 .. N /\ now' = now
BY DEF Bus!ConstantsOK, Bus!Step

LEMMA PassOverServes ==
    ASSUME Bus!ConstantsOK, ListenersInv, NEW l \in Bus!L, Bus!PassOver(l)
    PROVE  ListenersInv'
<1>1. /\ UNCHANGED <<listed, deleting, entered, evt, backlog, inside, spinning, owed, handled,
                     overlapped, abandoned>>
      /\ at = l /\ Bus!Step
  BY DEF Bus!PassOver, Bus!flags, Bus!fibers, Bus!history
<1>2. at \in 1 .. N /\ at # 0
  BY <1>1 DEF Bus!L, Bus!ConstantsOK
<1>3. at' \in 0 .. N /\ now' = now /\ spinning = {}
  BY <1>1, <1>2, WalkGoesOn DEF ListenersInv
<1>4. ListenerTypes'
  BY <1>1, <1>3 DEF ListenersInv, ListenerTypes
<1>5. \A m \in Bus!L : Entered(m)'
  BY <1>1, EnteredStays DEF ListenersInv
<1> QED
  BY <1>1, <1>3, <1>4, <1>5 DEF ListenersInv, Bus!NobodyIsAbandoned

\* A busy listener takes the event behind those it has queued, or drops it.
LEMMA BusyServes ==
    ASSUME Bus!ConstantsOK, ListenersInv, NEW l \in Bus!L, Bus!Busy(l)
    PROVE  ListenersInv'
<1>1. /\ UNCHANGED <<listed, deleting, entered, inside, spinning, handled, overlapped, abandoned>>
      /\ at = l /\ Bus!Step /\ l \in entered /\ evt' = [evt EXCEPT ![l] = now]
      /\ \/ /\ Mode[l] = "queue" /\ Len(backlog[l]) < MAX_QUEUE_DEPTH
            /\ backlog' = [backlog EXCEPT ![l] = Append(@, now)]
            /\ owed' = [owed EXCEPT ![l] = Append(@, now.n)]
         \/ UNCHANGED <<backlog, owed>>
  BY DEF Bus!Busy, Bus!Offered, Bus!flags, Bus!fibers
<1>2. at \in 1 .. N /\ at # 0
  BY <1>1 DEF Bus!L, Bus!ConstantsOK
<1>3. at' \in 0 .. N /\ now' = now /\ spinning = {}
  BY <1>1, <1>2, WalkGoesOn DEF ListenersInv
<1>4. /\ evt \in [Bus!L -> Event] /\ backlog \in [Bus!L -> Seq(Event)] /\ now \in Event
      /\ owed \in [Bus!L -> Seq(Nat)] /\ now.n \in Nat /\ MAX_QUEUE_DEPTH \in Nat
      /\ \A m \in Bus!L : Len(backlog[m]) <= MAX_QUEUE_DEPTH /\ Len(backlog[m]) \in Nat
      /\ handled[l] \in Seq(Nat)
  <2>1. \A m \in Bus!L : backlog[m] \in Seq(Event) => Len(backlog[m]) \in Nat
    OBVIOUS
  <2>2. now \in Event /\ (now \in Event => now.n \in Nat)
    BY DEF ListenersInv, ListenerTypes, Event
  <2> QED
    BY <2>1, <2>2 DEF ListenersInv, ListenerTypes, Bus!ConstantsOK
<1>5. evt' \in [Bus!L -> Event]
  BY <1>1, <1>4
<1>6. CASE UNCHANGED <<backlog, owed>>
  <2>1. ListenerTypes'
    BY <1>1, <1>3, <1>5, <1>6 DEF ListenersInv, ListenerTypes
  <2>2. \A m \in Bus!L : Entered(m)'
    BY <1>1, <1>3, <1>6 DEF ListenersInv, Entered
  <2> QED
    BY <1>1, <1>3, <2>1, <2>2 DEF ListenersInv, Bus!NobodyIsAbandoned
<1>7. CASE /\ Mode[l] = "queue" /\ Len(backlog[l]) < MAX_QUEUE_DEPTH
           /\ backlog' = [backlog EXCEPT ![l] = Append(@, now)]
           /\ owed' = [owed EXCEPT ![l] = Append(@, now.n)]
  <2>1. /\ backlog'[l] = Append(backlog[l], now) /\ owed'[l] = Append(owed[l], now.n)
        /\ backlog' \in [Bus!L -> Seq(Event)] /\ owed' \in [Bus!L -> Seq(Nat)]
        /\ Len(backlog'[l]) = Len(backlog[l]) + 1
        /\ \A m \in Bus!L : m # l => /\ backlog'[m] = backlog[m] /\ owed'[m] = owed[m]
                                     /\ evt'[m] = evt[m]
    BY <1>1, <1>4, <1>7
  <2>2. \A m \in Bus!L : Len(backlog'[m]) <= MAX_QUEUE_DEPTH
    BY <1>4, <1>7, <2>1
  <2>3. ListenerTypes'
    BY <1>1, <1>3, <1>5, <2>1, <2>2 DEF ListenersInv, ListenerTypes
  <2>4. Entered(l)'
    <3>1. Entered(l) /\ l \notin spinning
      BY <1>3 DEF ListenersInv
    <3>2. owed[l] = (handled[l] \o <<>>) \o Numbers(backlog[l])
      BY <1>7, <3>1 DEF Entered
    <3>3. owed'[l] = (handled[l] \o <<>>) \o Numbers(backlog'[l])
      <4>1. PICK h \in Seq(Nat), b \in Seq(Event) : h = handled[l] /\ b = backlog[l]
        BY <1>4
      <4>2. Append((h \o <<>>) \o Numbers(b), now.n) = (h \o <<>>) \o Numbers(Append(b, now))
        BY <1>4, OneMoreOwed
      <4>3. owed[l] = (h \o <<>>) \o Numbers(b)
        BY <3>2, <4>1
      <4> QED
        BY <2>1, <4>1, <4>2, <4>3
    <3> QED
      BY <1>1, <1>7, <3>1, <3>3 DEF Entered
  <2>5. \A m \in Bus!L : m # l => Entered(m)'
    BY <1>1, <2>1, EnteredStays DEF ListenersInv
  <2> QED
    BY <1>1, <1>3, <2>3, <2>4, <2>5 DEF ListenersInv, Bus!NobodyIsAbandoned
<1> QED
  BY <1>1, <1>6, <1>7

\* A listener that is not busy is called, and so is a reentrant one that is.
LEMMA CalledServes ==
    ASSUME Bus!ConstantsOK, ListenersInv, NEW l \in Bus!L, Bus!Called(l)
    PROVE  ListenersInv'
<1>1. /\ UNCHANGED <<listed, deleting, backlog, spinning, abandoned>>
      /\ at = l /\ Bus!Step /\ l \in listed /\ (l \notin entered \/ Mode[l] = "reentrant")
      /\ evt' = [evt EXCEPT ![l] = now]
      /\ owed' = [owed EXCEPT ![l] = Append(@, now.n)]
      /\ handled' = [handled EXCEPT ![l] = Append(@, now.n)]
      /\ overlapped' = IF l \in entered THEN overlapped \cup {l} ELSE overlapped
      /\ \/ /\ inside[l] < MaxInside /\ inside' = [inside EXCEPT ![l] = @ + 1]
            /\ entered' = entered \cup {l}
         \/ entered' = entered \ {l} /\ UNCHANGED inside
  BY DEF Bus!Called, Bus!Offered, Bus!Blocks
<1>2. at \in 1 .. N /\ at # 0
  BY <1>1 DEF Bus!L, Bus!ConstantsOK
<1>3. at' \in 0 .. N /\ now' = now /\ spinning = {} /\ spinning' = {}
  BY <1>1, <1>2, WalkGoesOn DEF ListenersInv
<1>4. /\ evt \in [Bus!L -> Event] /\ now \in Event /\ now.n \in Nat /\ MaxInside \in Nat
      /\ owed \in [Bus!L -> Seq(Nat)] /\ handled \in [Bus!L -> Seq(Nat)]
      /\ inside \in [Bus!L -> 0 .. MaxInside]
  BY DEF ListenersInv, ListenerTypes, Event, Bus!ConstantsOK
<1>5. /\ evt' \in [Bus!L -> Event] /\ owed' \in [Bus!L -> Seq(Nat)]
      /\ handled' \in [Bus!L -> Seq(Nat)]
      /\ owed'[l] = Append(owed[l], now.n) /\ handled'[l] = Append(handled[l], now.n)
      /\ \A m \in Bus!L : m # l => /\ handled'[m] = handled[m] /\ owed'[m] = owed[m]
                                   /\ evt'[m] = evt[m]
  BY <1>1, <1>4
<1>6. /\ inside' \in [Bus!L -> 0 .. MaxInside]
      /\ \A m \in Bus!L : m # l => inside'[m] = inside[m]
      /\ \/ inside'[l] = inside[l] + 1 /\ l \in entered'
         \/ inside'[l] = inside[l] /\ l \notin entered'
      /\ \A m \in Bus!L : m # l => (m \in entered' <=> m \in entered)
  BY <1>1, <1>4
<1>7. /\ entered' \subseteq listed'
      /\ \A m \in Bus!L : m # l => (m \in overlapped' <=> m \in overlapped)
      /\ overlapped \subseteq overlapped'
      /\ l \in overlapped' <=> l \in overlapped \/ l \in entered
  BY <1>1 DEF ListenersInv, ListenerTypes
<1>8. ListenerTypes'
  BY <1>1, <1>3, <1>5, <1>6, <1>7 DEF ListenersInv, ListenerTypes
<1>9. Entered(l)'
  <2>1. Entered(l) /\ l \notin spinning /\ l \notin spinning'
    BY <1>3 DEF ListenersInv
  <2>2. l \in overlapped' => Mode[l] = "reentrant"
    BY <1>1, <1>7, <2>1 DEF Entered
  <2>3. l \notin overlapped' => inside'[l] = 0 \/ (inside'[l] = 1 /\ l \in entered')
    BY <1>4, <1>6, <1>7, <2>1 DEF Entered
  <2>4. Mode[l] = "queue" => backlog[l] = <<>>
    BY <1>1, <2>1 DEF Entered
  <2>5. Mode[l] = "queue" => owed'[l] = (handled'[l] \o <<>>) \o Numbers(backlog[l])
    <3> SUFFICES ASSUME Mode[l] = "queue"
                 PROVE  owed'[l] = (handled'[l] \o <<>>) \o Numbers(backlog[l])
      OBVIOUS
    <3>1. owed[l] = (handled[l] \o <<>>) \o Numbers(backlog[l])
      BY <2>1 DEF Entered
    <3>2. \A h \in Seq(Nat) : (h \o <<>>) \o Numbers(<<>>) = h
      BY NoNumbers, ConcatEmptySeq
    <3>3. handled[l] \in Seq(Nat) /\ handled'[l] \in Seq(Nat)
      BY <1>4, <1>5
    <3> QED
      BY <1>5, <2>4, <3>1, <3>2, <3>3
  <2> QED
    BY <1>1, <2>1, <2>2, <2>3, <2>4, <2>5 DEF Entered
<1>10. \A m \in Bus!L : m # l => Entered(m)'
  BY <1>1, <1>5, <1>6, <1>7, EnteredStays DEF ListenersInv
<1> QED
  BY <1>1, <1>3, <1>7, <1>8, <1>9, <1>10 DEF ListenersInv, Bus!NobodyIsAbandoned

\* What the return of a handler leaves: the next event in the listener, and a fiber
\* between two calls, or nobody.
LEMMA HandlerLeaves ==
    ASSUME Bus!ConstantsOK, ListenersInv, NEW l \in Bus!L, Bus!Returns(l),
           Mode[l] = "queue" => l \in entered
    PROVE  /\ evt' \in [Bus!L -> Event] /\ backlog' \in [Bus!L -> Seq(Event)]
           /\ \A m \in Bus!L : Len(backlog'[m]) <= MAX_QUEUE_DEPTH
           /\ spinning' \subseteq Bus!L /\ entered' \subseteq listed
           /\ \A m \in Bus!L : m # l =>
                 /\ evt'[m] = evt[m] /\ backlog'[m] = backlog[m]
                 /\ m \in spinning' <=> m \in spinning
                 /\ m \in entered' <=> m \in entered
           /\ \/ /\ Mode[l] = "queue" /\ backlog[l] # <<>>
                 /\ evt'[l] = Head(backlog[l]) /\ backlog'[l] = Tail(backlog[l])
                 /\ l \in spinning' /\ l \in entered'
              \/ /\ Mode[l] = "queue" => backlog[l] = <<>>
                 /\ evt'[l] = evt[l] /\ backlog'[l] = backlog[l]
                 /\ l \notin spinning' /\ l \notin entered'
<1>1. /\ evt \in [Bus!L -> Event] /\ backlog \in [Bus!L -> Seq(Event)]
      /\ \A m \in Bus!L : Len(backlog[m]) <= MAX_QUEUE_DEPTH
      /\ spinning \subseteq Bus!L /\ entered \subseteq listed
  BY DEF ListenersInv, ListenerTypes
<1>2. CASE /\ Mode[l] = "queue" /\ backlog[l] # <<>>
           /\ evt' = [evt EXCEPT ![l] = Head(backlog[l])]
           /\ backlog' = [backlog EXCEPT ![l] = Tail(@)]
           /\ spinning' = spinning \cup {l} /\ entered' = entered
  <2>1. /\ Head(backlog[l]) \in Event /\ Tail(backlog[l]) \in Seq(Event)
        /\ Len(Tail(backlog[l])) <= Len(backlog[l]) /\ Len(backlog[l]) \in Nat
    BY <1>1, <1>2
  <2>2. /\ evt' \in [Bus!L -> Event] /\ backlog' \in [Bus!L -> Seq(Event)]
        /\ evt'[l] = Head(backlog[l]) /\ backlog'[l] = Tail(backlog[l])
        /\ \A m \in Bus!L : m # l => evt'[m] = evt[m] /\ backlog'[m] = backlog[m]
    BY <1>1, <1>2, <2>1
  <2>3. \A m \in Bus!L : Len(backlog'[m]) <= MAX_QUEUE_DEPTH
    <3>1. Len(Tail(backlog[l])) \in Nat /\ Len(backlog[l]) = Len(Tail(backlog[l])) + 1
      BY <1>1, <1>2
    <3>2. Len(backlog[l]) <= MAX_QUEUE_DEPTH => Len(Tail(backlog[l])) <= MAX_QUEUE_DEPTH
      BY <3>1 DEF Bus!ConstantsOK
    <3> QED
      BY <1>1, <2>2, <3>2
  <2> QED
    BY <1>1, <1>2, <2>2, <2>3
<1>3. CASE /\ ~(Mode[l] = "queue" /\ backlog[l] # <<>>)
           /\ entered' = entered \ {l} /\ spinning' = spinning \ {l}
           /\ UNCHANGED <<evt, backlog>>
  BY <1>1, <1>3
<1> QED
  BY <1>2, <1>3 DEF Bus!Returns

\* A blocked handler goes on and returns.
LEMMA HandlerReturnsServes ==
    ASSUME Bus!ConstantsOK, ListenersInv, NEW l \in Bus!L, Bus!HandlerReturns(l)
    PROVE  ListenersInv'
<1>1. /\ UNCHANGED <<listed, deleting, at, now, owed, handled, overlapped, abandoned>>
      /\ at = 0 /\ inside[l] > 0 /\ inside' = [inside EXCEPT ![l] = @ - 1]
      /\ Bus!Returns(l)
  BY DEF Bus!HandlerReturns, Bus!walk, Bus!history
<1>2. Entered(l) /\ inside \in [Bus!L -> 0 .. MaxInside] /\ MaxInside \in Nat
  BY DEF ListenersInv, ListenerTypes, Bus!ConstantsOK
<1>3. /\ l \notin spinning
      /\ l \notin overlapped => inside[l] = 1 /\ l \in entered
      /\ Mode[l] = "queue" => l \notin overlapped
  BY <1>1, <1>2 DEF Entered
<1>4. /\ evt' \in [Bus!L -> Event] /\ backlog' \in [Bus!L -> Seq(Event)]
      /\ \A m \in Bus!L : Len(backlog'[m]) <= MAX_QUEUE_DEPTH
      /\ spinning' \subseteq Bus!L /\ entered' \subseteq listed
      /\ \A m \in Bus!L : m # l =>
            /\ evt'[m] = evt[m] /\ backlog'[m] = backlog[m]
            /\ m \in spinning' <=> m \in spinning
            /\ m \in entered' <=> m \in entered
      /\ \/ /\ Mode[l] = "queue" /\ backlog[l] # <<>>
            /\ evt'[l] = Head(backlog[l]) /\ backlog'[l] = Tail(backlog[l])
            /\ l \in spinning' /\ l \in entered'
         \/ /\ Mode[l] = "queue" => backlog[l] = <<>>
            /\ evt'[l] = evt[l] /\ backlog'[l] = backlog[l]
            /\ l \notin spinning' /\ l \notin entered'
  BY <1>1, <1>3, HandlerLeaves
<1>5. /\ inside' \in [Bus!L -> 0 .. MaxInside] /\ inside'[l] = inside[l] - 1
      /\ \A m \in Bus!L : m # l => inside'[m] = inside[m]
  BY <1>1, <1>2
<1>6. ListenerTypes'
  BY <1>1, <1>4, <1>5 DEF ListenersInv, ListenerTypes
<1>7. \A m \in Bus!L : m # l => Entered(m)'
  BY <1>1, <1>4, <1>5, EnteredStays DEF ListenersInv
<1>8. l \notin overlapped' => inside'[l] = 0
  BY <1>1, <1>3, <1>5
<1>9. Entered(l)'
  <2>1. CASE /\ Mode[l] = "queue" /\ backlog[l] # <<>>
             /\ evt'[l] = Head(backlog[l]) /\ backlog'[l] = Tail(backlog[l])
             /\ l \in spinning' /\ l \in entered'
    <3>1. owed[l] = (handled[l] \o <<>>) \o Numbers(backlog[l])
      BY <1>2, <1>3, <2>1 DEF Entered
    <3>2. handled[l] \in Seq(Nat) /\ backlog[l] \in Seq(Event)
      BY DEF ListenersInv, ListenerTypes
    <3>3. owed[l] = (handled[l] \o <<evt'[l].n>>) \o Numbers(backlog'[l])
      BY <2>1, <3>1, <3>2, NextIsTaken
    <3> QED
      BY <1>1, <1>3, <1>8, <2>1, <3>3 DEF Entered
  <2>2. CASE /\ Mode[l] = "queue" => backlog[l] = <<>>
             /\ evt'[l] = evt[l] /\ backlog'[l] = backlog[l]
             /\ l \notin spinning' /\ l \notin entered'
    BY <1>1, <1>2, <1>3, <1>8, <2>2 DEF Entered
  <2> QED
    BY <1>4, <2>1, <2>2
<1> QED
  BY <1>1, <1>6, <1>7, <1>9 DEF ListenersInv, Bus!NobodyIsAbandoned

\* The fiber is back from schedule(), and calls the handler again.
LEMMA HandlerAgainServes ==
    ASSUME Bus!ConstantsOK, ListenersInv, NEW l \in Bus!L, Bus!HandlerAgain(l)
    PROVE  ListenersInv'
<1>1. /\ UNCHANGED <<listed, deleting, at, now, owed, overlapped, abandoned>>
      /\ at = 0 /\ l \in spinning
      /\ handled' = [handled EXCEPT ![l] = Append(@, evt[l].n)]
      /\ \/ /\ inside[l] < MaxInside /\ inside' = [inside EXCEPT ![l] = @ + 1]
            /\ spinning' = spinning \ {l} /\ UNCHANGED <<entered, evt, backlog>>
         \/ Bus!Returns(l) /\ UNCHANGED inside
  BY DEF Bus!HandlerAgain, Bus!Blocks, Bus!walk
<1>2. /\ Entered(l) /\ inside \in [Bus!L -> 0 .. MaxInside] /\ MaxInside \in Nat
      /\ handled \in [Bus!L -> Seq(Nat)] /\ evt[l] \in Event /\ backlog[l] \in Seq(Event)
  BY DEF ListenersInv, ListenerTypes, Bus!ConstantsOK
<1>3. /\ Mode[l] = "queue" /\ l \in entered /\ inside[l] = 0 /\ l \notin overlapped
      /\ owed[l] = (handled[l] \o <<evt[l].n>>) \o Numbers(backlog[l])
  BY <1>1, <1>2 DEF Entered
<1>4. evt[l].n \in Nat
  BY <1>2 DEF Event
<1>5. /\ handled' \in [Bus!L -> Seq(Nat)] /\ handled'[l] \in Seq(Nat)
      /\ \A m \in Bus!L : m # l => handled'[m] = handled[m]
      /\ owed[l] = (handled'[l] \o <<>>) \o Numbers(backlog[l])
  <2>1. handled'[l] = Append(handled[l], evt[l].n)
    BY <1>1, <1>2
  <2>2. handled[l] \in Seq(Nat)
    BY <1>2
  <2>3. owed[l] = (handled'[l] \o <<>>) \o Numbers(backlog[l])
    BY <1>3, <1>4, <2>1, <2>2, CalledWith
  <2> QED
    BY <1>1, <1>2, <1>4, <2>1, <2>2, <2>3
<1>6. CASE /\ inside[l] < MaxInside /\ inside' = [inside EXCEPT ![l] = @ + 1]
           /\ spinning' = spinning \ {l} /\ UNCHANGED <<entered, evt, backlog>>
  <2>1. /\ inside' \in [Bus!L -> 0 .. MaxInside] /\ inside'[l] = 1
        /\ \A m \in Bus!L : m # l => inside'[m] = inside[m]
    BY <1>2, <1>3, <1>6
  <2>2. ListenerTypes'
    BY <1>1, <1>5, <1>6, <2>1 DEF ListenersInv, ListenerTypes
  <2>3. \A m \in Bus!L : m # l => Entered(m)'
    BY <1>1, <1>5, <1>6, <2>1, EnteredStays DEF ListenersInv
  <2>4. Entered(l)'
    BY <1>1, <1>3, <1>5, <1>6, <2>1 DEF Entered
  <2> QED
    BY <1>1, <2>2, <2>3, <2>4 DEF ListenersInv, Bus!NobodyIsAbandoned
<1>7. CASE Bus!Returns(l) /\ UNCHANGED inside
  <2>1. /\ evt' \in [Bus!L -> Event] /\ backlog' \in [Bus!L -> Seq(Event)]
        /\ \A m \in Bus!L : Len(backlog'[m]) <= MAX_QUEUE_DEPTH
        /\ spinning' \subseteq Bus!L /\ entered' \subseteq listed
        /\ \A m \in Bus!L : m # l =>
              /\ evt'[m] = evt[m] /\ backlog'[m] = backlog[m]
              /\ m \in spinning' <=> m \in spinning
              /\ m \in entered' <=> m \in entered
        /\ \/ /\ Mode[l] = "queue" /\ backlog[l] # <<>>
              /\ evt'[l] = Head(backlog[l]) /\ backlog'[l] = Tail(backlog[l])
              /\ l \in spinning' /\ l \in entered'
           \/ /\ Mode[l] = "queue" => backlog[l] = <<>>
              /\ evt'[l] = evt[l] /\ backlog'[l] = backlog[l]
              /\ l \notin spinning' /\ l \notin entered'
    BY <1>3, <1>7, HandlerLeaves
  <2>2. ListenerTypes'
    BY <1>1, <1>5, <1>7, <2>1 DEF ListenersInv, ListenerTypes
  <2>3. \A m \in Bus!L : m # l => Entered(m)'
    BY <1>1, <1>5, <1>7, <2>1, EnteredStays DEF ListenersInv
  <2>4. Entered(l)'
    <3>1. CASE /\ Mode[l] = "queue" /\ backlog[l] # <<>>
               /\ evt'[l] = Head(backlog[l]) /\ backlog'[l] = Tail(backlog[l])
               /\ l \in spinning' /\ l \in entered'
      <4>1. owed[l] = (handled'[l] \o <<evt'[l].n>>) \o Numbers(backlog'[l])
        BY <1>2, <1>5, <3>1, NextIsTaken
      <4> QED
        BY <1>1, <1>3, <1>7, <3>1, <4>1 DEF Entered
    <3>2. CASE /\ Mode[l] = "queue" => backlog[l] = <<>>
               /\ evt'[l] = evt[l] /\ backlog'[l] = backlog[l]
               /\ l \notin spinning' /\ l \notin entered'
      BY <1>1, <1>3, <1>5, <1>7, <3>2 DEF Entered
    <3> QED
      BY <2>1, <3>1, <3>2
  <2> QED
    BY <1>1, <2>2, <2>3, <2>4 DEF ListenersInv, Bus!NobodyIsAbandoned
<1> QED
  BY <1>1, <1>6, <1>7

LEMMA NextEventServes ==
    ASSUME Bus!ConstantsOK, ListenersInv, Bus!NextEvent, now' \in Event
    PROVE  ListenersInv'
<1>1. /\ UNCHANGED <<listed, deleting, entered, evt, backlog, inside, spinning, owed, handled,
                     overlapped, abandoned>>
      /\ at' = 1 /\ spinning = {} /\ 1 \in 0 .. N
  BY DEF Bus!NextEvent, Bus!Dequeue, Bus!Idle, Bus!flags, Bus!fibers, Bus!history,
         Bus!ConstantsOK
<1>2. ListenerTypes'
  BY <1>1 DEF ListenersInv, ListenerTypes
<1>3. \A m \in Bus!L : Entered(m)'
  BY <1>1, EnteredStays DEF ListenersInv
<1> QED
  BY <1>1, <1>2, <1>3 DEF ListenersInv, Bus!NobodyIsAbandoned

\* The listeners that are marked and not busy are deleted: no fiber is in one, unless
\* the first of two to leave has cleared BUSY.
LEMMA idleTickServes ==
    ASSUME Bus!ConstantsOK, ListenersInv, Bus!idleTick, now' \in Event
    PROVE  ListenersInv'
<1> DEFINE D == Bus!Deletable
<1>1. /\ UNCHANGED <<evt, inside, spinning, overlapped>>
      /\ at' \in {0, 1} /\ spinning = {} /\ at = 0 /\ 1 \in 0 .. N
      /\ listed' = listed \ D /\ deleting' = deleting \ D /\ entered' = entered \ D
      /\ backlog' = [l \in Bus!L |-> IF l \in D THEN <<>> ELSE backlog[l]]
      /\ owed' = [l \in Bus!L |-> IF l \in D THEN <<>> ELSE owed[l]]
      /\ handled' = [l \in Bus!L |-> IF l \in D THEN <<>> ELSE handled[l]]
      /\ abandoned' = abandoned \cup {l \in D : inside[l] > 0 \/ l \in spinning}
  BY DEF Bus!idleTick, Bus!Dequeue, Bus!Idle, Bus!fibers, Bus!ConstantsOK
<1>2. D \subseteq Bus!L /\ D \cap entered = {}
  BY DEF Bus!Deletable, ListenersInv, ListenerTypes
<1> HIDE DEF D
<1>3. /\ MAX_QUEUE_DEPTH \in Nat /\ Len(<<>>) = 0
      /\ backlog \in [Bus!L -> Seq(Event)] /\ owed \in [Bus!L -> Seq(Nat)]
      /\ handled \in [Bus!L -> Seq(Nat)]
      /\ \A l \in Bus!L : Len(backlog[l]) <= MAX_QUEUE_DEPTH
  BY DEF Bus!ConstantsOK, ListenersInv, ListenerTypes
<1>4. \A l \in Bus!L : /\ backlog'[l] = IF l \in D THEN <<>> ELSE backlog[l]
                       /\ owed'[l] = IF l \in D THEN <<>> ELSE owed[l]
                       /\ handled'[l] = IF l \in D THEN <<>> ELSE handled[l]
  BY <1>1
<1>5. /\ backlog' \in [Bus!L -> Seq(Event)] /\ owed' \in [Bus!L -> Seq(Nat)]
      /\ handled' \in [Bus!L -> Seq(Nat)]
  BY <1>1, <1>3
<1>6. \A l \in Bus!L : Len(backlog'[l]) <= MAX_QUEUE_DEPTH
  BY <1>3, <1>4
<1>7. /\ deleting' \subseteq listed' /\ entered' \subseteq listed' /\ listed' \subseteq Bus!L
      /\ at' \in 0 .. N
  BY <1>1 DEF ListenersInv, ListenerTypes
<1>8. ListenerTypes'
  BY <1>1, <1>5, <1>6, <1>7 DEF ListenersInv, ListenerTypes
<1>9. ASSUME NEW l \in Bus!L
      PROVE  Entered(l)'
  <2>1. Entered(l)
    BY DEF ListenersInv
  <2>2. CASE l \in D
    <3>1. /\ backlog'[l] = <<>> /\ owed'[l] = <<>> /\ handled'[l] = <<>>
          /\ l \notin entered /\ l \notin entered' /\ l \notin spinning'
      BY <1>1, <1>2, <1>4, <2>2
    <3>2. (<<>> \o <<>>) \o Numbers(<<>>) = <<>>
      <4>1. <<>> \in Seq(Nat)
        OBVIOUS
      <4> QED
        BY <4>1, ConcatEmptySeq, NoNumbers
    <3> QED
      BY <1>1, <2>1, <3>1, <3>2 DEF Entered
  <2>3. CASE l \notin D
    BY <1>1, <1>4, <2>1, <2>3, EnteredStays
  <2> QED
    BY <2>2, <2>3
<1>10. abandoned' \subseteq overlapped'
  <2>1. ASSUME NEW l \in D, inside[l] > 0 \/ l \in spinning
        PROVE  l \in overlapped
    <3>1. Entered(l) /\ l \notin entered /\ l \notin spinning
      BY <1>1, <1>2 DEF ListenersInv
    <3> QED
      BY <2>1, <3>1 DEF Entered
  <2> QED
    BY <1>1, <2>1 DEF ListenersInv, Bus!NobodyIsAbandoned
<1> QED
  BY <1>1, <1>8, <1>9, <1>10 DEF ListenersInv, Bus!NobodyIsAbandoned

LEMMA BusStep ==
    ASSUME Bus!ConstantsOK, BusInv, Bus!Next
    PROVE  BusInv'
<1> USE DEF BusInv
<1>1. ASSUME NEW k \in Kinds, Bus!Interrupt(k)
      PROVE  BusInv'
  <2>1. EventQueue'
    BY <1>1, InterruptQueues
  <2>2. ListenersInv'
    BY <1>1, ListenersStay DEF Bus!Interrupt, Bus!flags, Bus!walk, Bus!fibers, Bus!history
  <2> QED
    BY <2>1, <2>2
<1>2. CASE Bus!queueLength
  <2>1. EventQueue'
    BY <1>2, queueLengthQueues
  <2>2. ListenersInv'
    BY <1>2, ListenersStay DEF Bus!queueLength, Bus!flags, Bus!walk, Bus!fibers, Bus!history
  <2> QED
    BY <2>1, <2>2
<1>3. CASE Bus!queueEvent
  <2>1. EventQueue'
    BY <1>3, queueEventQueues
  <2>2. ListenersInv'
    BY <1>3, ListenersStay DEF Bus!queueEvent, Bus!flags, Bus!walk, Bus!fibers, Bus!history
  <2> QED
    BY <2>1, <2>2
<1>4. ASSUME NEW k \in Kinds, Bus!send(k), sending.n = 0
      PROVE  BusInv'
  <2>1. EventQueue'
    BY <1>4, sendQueues
  <2>2. ListenersInv'
    BY <1>4, ListenersStay DEF Bus!send, Bus!flags, Bus!walk, Bus!fibers, Bus!history
  <2> QED
    BY <2>1, <2>2
<1>5. CASE Bus!NextEvent /\ sending.n = 0
  <2>1. EventQueue' /\ now' \in Event
    BY <1>5, DequeueQueues DEF Bus!NextEvent, Bus!entry
  <2> QED
    BY <1>5, <2>1, NextEventServes
<1>6. CASE Bus!idleTick /\ sending.n = 0
  <2>1. UNCHANGED <<sending, prev, tested, sent>>
        /\ (Bus!Dequeue \/ UNCHANGED <<now, evt_queue>>)
    BY <1>6 DEF Bus!idleTick, Bus!entry
  <2>2. EventQueue' /\ now' \in Event
    <3>1. now \in Event
      BY DEF ListenersInv, ListenerTypes
    <3> QED
      BY <1>6, <2>1, <3>1, DequeueQueues, QueueStays
  <2> QED
    BY <1>6, <2>2, idleTickServes
<1>7. ASSUME NEW l \in Bus!L,
             \/ Bus!add(l) \/ Bus!remove(l) \/ Bus!HandlerReturns(l) \/ Bus!HandlerAgain(l)
             \/ Bus!PassOver(l) \/ Bus!Busy(l) \/ Bus!Called(l)
      PROVE  BusInv'
  <2>1. UNCHANGED <<evt_queue, sending, prev, tested, sent>>
    BY <1>7 DEF Bus!add, Bus!remove, Bus!HandlerReturns, Bus!HandlerAgain, Bus!PassOver,
                Bus!Busy, Bus!Called, Bus!entry
  <2>2. EventQueue'
    BY <2>1, QueueStays
  <2>3. ListenersInv'
    BY <1>7, addServes, HandlerReturnsServes, HandlerAgainServes, PassOverServes, BusyServes,
       CalledServes
  <2> QED
    BY <2>2, <2>3
<1> QED
  BY <1>1, <1>2, <1>3, <1>4, <1>5, <1>6, <1>7 DEF Bus!Next, Bus!Fiber

LEMMA BusStutter == BusInv /\ UNCHANGED busVars => BusInv'
BY QueueStays, ListenersStay DEF BusInv, busVars

LEMMA BusServes == BusInv => ListenersServe
<1> SUFFICES ASSUME BusInv PROVE ListenersServe
  OBVIOUS
<1>1. ASSUME NEW l \in Bus!L, Mode[l] = "queue"
      PROVE  owed[l] = handled[l] \o (IF l \in spinning THEN <<evt[l].n>> ELSE <<>>)
                                  \o [i \in 1 .. Len(backlog[l]) |-> backlog[l][i].n]
  BY <1>1, Zenon DEF BusInv, ListenersInv, Entered, Numbers
<1>2. Bus!HandlesInOrder
  BY <1>1, Zenon DEF Bus!HandlesInOrder
<1> QED
  BY <1>2 DEF BusInv, EventQueue, ListenersInv, ListenersServe, Bus!ListenersServe

LEMMA BusInvariance == PartsSpec => []BusInv
<1>1. PartsInit => BusInv
  BY BusInit, PartsAssumption DEF PartsInit
<1> DEFINE v == <<part, vars, buttonVars, pwmVars, busVars, phoneVars, radioVars>>
<1>2. BusInv /\ [PartsNext]_v => BusInv'
  <2>1. UNCHANGED v => UNCHANGED busVars
    OBVIOUS
  <2>2. PartsNext => UNCHANGED busVars \/ Bus!Next
    BY DEF PartsNext, Others
  <2> QED
    BY <2>1, <2>2, BusStep, BusStutter, PartsAssumption
<1> QED
  BY <1>1, <1>2, PTL DEF PartsSpec

\* The handler of a listener that queues is called with each event it has taken, once and
\* in order; no listener is deleted under a fiber but a reentrant one that was called while a
\* fiber was in it (overlapped); and the bus queues the events in the order in which they were
\* sent: for any depths and numbers of events, and of fibers in a reentrant handler.
THEOREM ListenersAreServed == PartsSpec => []ListenersServe
<1>1. BusInv => ListenersServe
  BY BusServes
<1> QED
  BY <1>1, BusInvariance, PTL

-----------------------------------------------------------------------------
(* The radio.  Where each frame is, what the idle fiber has in its hand at *)
(* each place of its code, and what of a packet has been counted: all of   *)
(* it, as long as no interrupt has sent inside recv() or send().           *)

Packet == [n : Nat, protocol : Air!Protocols]

\* The places in which recv() has taken the idle fiber's frame out of the queue.
Taken == {"recvDepth", "datagram", "event", "fire", "delete", "drop"}

RadioTypes ==
    /\ rxBuf \in Frames \cup {None} /\ frame \in Frames \cup {None}
    /\ queueDepth \in Int /\ depth \in Int /\ unused \subseteq Frames
    /\ Len(datagrams) <= MAXIMUM_RX_BUFFERS + 1
    /\ content \in [Frames -> Packet] /\ packets \in Nat /\ current \in Nat
    /\ heard \in Seq(Nat) /\ passed \in Seq(Nat)
    /\ mode \in {"off", "rx", "tx"} /\ place \in Air!PCs /\ back \in Air!PCs

RadioFlags ==
    /\ initialised \in BOOLEAN /\ suppressForwarding \in BOOLEAN
    /\ started \in BOOLEAN /\ complete \in BOOLEAN /\ pending \in BOOLEAN /\ enabled \in BOOLEAN

\* A frame is in one place.
FramePlaces ==
    /\ rxQueue \in Queue(Frames) /\ datagrams \in Queue(Frames)
    /\ packetptr \in {rxBuf, None}
    /\ ToSet(rxQueue) \cap ToSet(datagrams) = {}
    /\ (ToSet(rxQueue) \cup ToSet(datagrams)) \cap unused = {}
    /\ rxBuf \notin ToSet(rxQueue) \cup ToSet(datagrams) \cup unused

\* The idle fiber's frame: at the head of the queue, then its own.  Once it is given
\* away or deleted it may be the receiver's again, but is never the head of the queue
\* while the fiber looks whether it still is: another frame is queued before it.
Hand ==
    /\ place \in {"switch", "recv", "recvNext"} =>
          rxQueue # <<>> /\ frame = Head(rxQueue) /\ content[frame].n = current
    /\ place \in Taken =>
          /\ frame \in Frames
          /\ frame \notin unused \cup {rxBuf} \cup ToSet(rxQueue) \cup ToSet(datagrams)
          /\ content[frame].n = current
    /\ place \in {"raised", "check"} =>
          IF rxQueue = <<>> THEN rxBuf # frame
          ELSE frame = Head(rxQueue) => content[frame].n = current
    /\ place \in Air!InRecv => back \in {"datagram", "event", "delete", "drop"}
    /\ place \in Air!InSend => back = "idle"
    /\ suppressForwarding <=> place = "fire"

\* The numbers of the packets in some frames.
PacketsIn(q, c) == [k \in 1 .. Len(q) |-> c[q[k]].n]

Order ==
    ~nested =>
        /\ place \in {"recvNext", "recvDepth"} => ~enabled
        /\ place = "recvNext" => (more <=> Len(rxQueue) > 1)
        /\ place = "recvDepth" => depth = queueDepth
        /\ queueDepth <= MAXIMUM_RX_BUFFERS
        /\ queueDepth = Len(rxQueue) + (IF place = "recvDepth" THEN 1 ELSE 0)
        /\ heard = (passed \o (IF place \in Taken THEN <<current>> ELSE <<>>))
                          \o PacketsIn(rxQueue, content)

\* What there is to send: a fiber that is in send() has its argument.
Outgoing ==
    /\ sends \in Nat /\ argument \in Nat /\ out \in Queue(Nat)
    /\ ToSet(out) \cup unsent \cup ({argument} \ {0}) = 1 .. sends
    /\ argument \notin ToSet(out)
    /\ argument # 0 <=> place \in Air!InSend

RadioInv == RadioTypes /\ RadioFlags /\ FramePlaces /\ Hand /\ Order /\ Outgoing

-----------------------------------------------------------------------------
\* What PacketsIn gives for queues that grow and shrink.
LEMMA PacketsTyped ==
    ASSUME NEW q \in Seq(Frames), NEW c \in [Frames -> Packet]
    PROVE  /\ PacketsIn(q, c) \in Seq(Nat) /\ Len(PacketsIn(q, c)) = Len(q) /\ Len(q) \in Nat
           /\ \A k \in 1 .. Len(q) : PacketsIn(q, c)[k] = c[q[k]].n /\ c[q[k]].n \in Nat
<1>1. Len(q) \in Nat /\ \A k \in 1 .. Len(q) : c[q[k]] \in Packet
  OBVIOUS
<1>2. \A k \in 1 .. Len(q) : c[q[k]].n \in Nat
  BY <1>1 DEF Packet
<1> QED
  BY <1>1, <1>2 DEF PacketsIn

LEMMA PacketsInNone ==
    ASSUME NEW c \in [Frames -> Packet]
    PROVE  PacketsIn(<<>>, c) = <<>>
<1>1. <<>> \in Seq(Frames) /\ Len(<<>>) = 0
  OBVIOUS
<1>2. PacketsIn(<<>>, c) \in Seq(Nat) /\ Len(PacketsIn(<<>>, c)) = 0
  BY <1>1, PacketsTyped
<1> QED
  BY <1>2

\* Only what is in the frames that are queued matters.
LEMMA PacketsStay ==
    ASSUME NEW q \in Seq(Frames), NEW c \in [Frames -> Packet], NEW d \in [Frames -> Packet],
           \A f \in ToSet(q) : d[f] = c[f]
    PROVE  PacketsIn(q, d) = PacketsIn(q, c)
<1>1. \A k \in 1 .. Len(q) : q[k] \in ToSet(q)
  BY InQueue
<1>2. \A k \in 1 .. Len(q) : d[q[k]].n = c[q[k]].n
  BY <1>1
<1> QED
  BY <1>2, Zenon DEF PacketsIn

LEMMA PacketsOfAppend ==
    ASSUME NEW q \in Seq(Frames), NEW c \in [Frames -> Packet], NEW f \in Frames
    PROVE  PacketsIn(Append(q, f), c) = Append(PacketsIn(q, c), c[f].n) /\ c[f].n \in Nat
<1> DEFINE x == PacketsIn(Append(q, f), c)
           y == Append(PacketsIn(q, c), c[f].n)
<1>1. c[f].n \in Nat
  BY DEF Packet
<1>2. /\ Append(q, f) \in Seq(Frames) /\ Len(Append(q, f)) = Len(q) + 1 /\ Len(q) \in Nat
      /\ \A i \in 1 .. Len(q) : Append(q, f)[i] = q[i]
      /\ Append(q, f)[Len(q) + 1] = f
  OBVIOUS
<1>3. /\ x \in Seq(Nat) /\ Len(x) = Len(q) + 1
      /\ \A i \in 1 .. Len(q) + 1 : x[i] = c[Append(q, f)[i]].n
  BY <1>2, PacketsTyped
<1>4. /\ y \in Seq(Nat) /\ Len(y) = Len(q) + 1
      /\ \A i \in 1 .. Len(q) : y[i] = c[q[i]].n
      /\ y[Len(q) + 1] = c[f].n
  BY <1>1, PacketsTyped
<1> HIDE DEF x, y
<1>5. \A i \in 1 .. Len(q) + 1 : x[i] = y[i]
  <2> SUFFICES ASSUME NEW i \in 1 .. Len(q) + 1 PROVE x[i] = y[i]
    OBVIOUS
  <2>1. i \in 1 .. Len(q) \/ i = Len(q) + 1
    BY <1>2
  <2> QED
    BY <1>2, <1>3, <1>4, <2>1
<1>6. x = y
  BY <1>3, <1>4, <1>5, SeqEqual
<1> QED
  BY <1>1, <1>6 DEF x, y

LEMMA PacketsOfTail ==
    ASSUME NEW q \in Seq(Frames), NEW c \in [Frames -> Packet], q # <<>>
    PROVE  /\ Head(q) \in Frames /\ Tail(q) \in Seq(Frames) /\ c[Head(q)].n \in Nat
           /\ PacketsIn(q, c) = <<c[Head(q)].n>> \o PacketsIn(Tail(q), c)
<1> DEFINE x == PacketsIn(q, c)
           t == PacketsIn(Tail(q), c)
           z == <<c[Head(q)].n>>
           y == z \o t
<1>1. /\ Head(q) \in Frames /\ Tail(q) \in Seq(Frames) /\ Len(q) \in Nat \ {0}
      /\ Len(Tail(q)) = Len(q) - 1 /\ Head(q) = q[1]
      /\ \A i \in 1 .. Len(q) - 1 : Tail(q)[i] = q[i + 1]
  OBVIOUS
<1>2. c[Head(q)].n \in Nat
  BY <1>1 DEF Packet
<1>3. /\ x \in Seq(Nat) /\ Len(x) = Len(q)
      /\ \A i \in 1 .. Len(q) : x[i] = c[q[i]].n
  BY PacketsTyped
<1>4. /\ t \in Seq(Nat) /\ Len(t) = Len(q) - 1
      /\ \A i \in 1 .. Len(q) - 1 : t[i] = c[q[i + 1]].n
  <2>1. /\ t \in Seq(Nat) /\ Len(t) = Len(Tail(q))
        /\ \A i \in 1 .. Len(Tail(q)) : t[i] = c[Tail(q)[i]].n
    BY <1>1, PacketsTyped
  <2> HIDE DEF t
  <2> QED
    BY <1>1, <2>1
<1> HIDE DEF x, t
<1>5. z \in Seq(Nat) /\ Len(z) = 1 /\ z[1] = c[Head(q)].n
  BY <1>2
<1> HIDE DEF z
<1>6. /\ y \in Seq(Nat) /\ Len(y) = Len(z) + Len(t)
      /\ \A i \in 1 .. Len(z) + Len(t) : y[i] = IF i <= Len(z) THEN z[i] ELSE t[i - Len(z)]
  BY <1>4, <1>5, ConcatProperties
<1> HIDE DEF y
<1>7. /\ y \in Seq(Nat) /\ Len(y) = Len(q) /\ y[1] = c[Head(q)].n
      /\ \A i \in 1 .. Len(q) : i > 1 => y[i] = t[i - 1]
  BY <1>1, <1>4, <1>5, <1>6
<1>8. \A i \in 1 .. Len(q) : x[i] = y[i]
  <2> SUFFICES ASSUME NEW i \in 1 .. Len(q) PROVE x[i] = y[i]
    OBVIOUS
  <2>1. i = 1 \/ (i > 1 /\ i - 1 \in 1 .. Len(q) - 1 /\ (i - 1) + 1 = i)
    BY <1>1
  <2>2. CASE i = 1
    BY <1>1, <1>3, <1>7, <2>2
  <2>3. CASE i > 1 /\ i - 1 \in 1 .. Len(q) - 1 /\ (i - 1) + 1 = i
    <3>1. x[i] = c[q[(i - 1) + 1]].n /\ y[i] = t[i - 1]
      BY <1>3, <1>7, <2>3
    <3> QED
      BY <1>4, <2>3, <3>1
  <2> QED
    BY <2>1, <2>2, <2>3
<1>9. x = y
  BY <1>3, <1>7, <1>8, SeqEqual
<1> QED
  BY <1>1, <1>2, <1>9 DEF x, y, z, t

\* The head of a queue, and what is left of it.
LEMMA QueueWithoutHead ==
    ASSUME NEW A, NEW q \in Queue(A), q # <<>>
    PROVE  /\ Tail(q) \in Queue(A) /\ Head(q) \in A
           /\ ToSet(Tail(q)) = ToSet(q) \ {Head(q)} /\ Head(q) \in ToSet(q)
           /\ Len(Tail(q)) = Len(q) - 1 /\ Len(q) \in Nat \ {0}
<1>1. /\ q \in Seq(A) /\ IsInjective(q) /\ Tail(q) \in Seq(A) /\ Head(q) \in A
      /\ Len(q) \in Nat \ {0} /\ Len(Tail(q)) = Len(q) - 1 /\ Head(q) = q[1]
      /\ \A i \in 1 .. Len(q) - 1 : Tail(q)[i] = q[i + 1]
      /\ DOMAIN q = 1 .. Len(q) /\ DOMAIN Tail(q) = 1 .. Len(q) - 1
  BY DEF Queue
<1>2. IsInjective(Tail(q))
  <2> SUFFICES ASSUME NEW i \in 1 .. Len(q) - 1, NEW j \in 1 .. Len(q) - 1,
                      Tail(q)[i] = Tail(q)[j]
               PROVE  i = j
    BY <1>1 DEF IsInjective
  <2>1. i + 1 \in 1 .. Len(q) /\ j + 1 \in 1 .. Len(q) /\ q[i + 1] = q[j + 1]
    BY <1>1
  <2>2. i + 1 = j + 1
    BY <1>1, <2>1 DEF IsInjective
  <2> QED
    BY <2>2
<1>3. ToSet(Tail(q)) = ToSet(q) \ {Head(q)}
  <2>1. ASSUME NEW g \in ToSet(Tail(q)) PROVE g \in ToSet(q) \ {Head(q)}
    <3>1. PICK i \in 1 .. Len(q) - 1 : g = Tail(q)[i]
      BY <1>1 DEF ToSet
    <3>2. i + 1 \in 1 .. Len(q) /\ 1 \in 1 .. Len(q) /\ g = q[i + 1] /\ i + 1 # 1
      BY <1>1, <3>1
    <3>3. g # q[1]
      BY <1>1, <3>2 DEF IsInjective
    <3> QED
      BY <1>1, <3>2, <3>3 DEF ToSet
  <2>2. ASSUME NEW g \in ToSet(q), g # Head(q) PROVE g \in ToSet(Tail(q))
    <3>1. PICK i \in 1 .. Len(q) : g = q[i]
      BY <1>1 DEF ToSet
    <3>2. i - 1 \in 1 .. Len(q) - 1 /\ (i - 1) + 1 = i
      BY <1>1, <2>2, <3>1
    <3>3. Tail(q)[i - 1] = g
      BY <1>1, <3>1, <3>2
    <3> QED
      BY <1>1, <3>2, <3>3 DEF ToSet
  <2> QED
    BY <2>1, <2>2
<1> QED
  BY <1>1, <1>2, <1>3, InQueue DEF Queue

LEMMA AppendToConcat ==
    ASSUME NEW x \in Seq(Nat), NEW y \in Seq(Nat), NEW n \in Nat
    PROVE  Append(x \o y, n) = x \o Append(y, n)
<1> DEFINE u == <<n>>
<1>1. x \o y \in Seq(Nat) /\ u \in Seq(Nat)
  OBVIOUS
<1>2. Append(y, n) = y \o u /\ Append(x \o y, n) = (x \o y) \o u
  BY <1>1, AppendIsConcat
<1> HIDE DEF u
<1>3. (x \o y) \o u = x \o (y \o u)
  BY <1>1, ConcatAssociative, SMTT(30)
<1> QED
  BY <1>2, <1>3

\* The first packet is taken into the hand, and from there it is passed on.
LEMMA FirstInHand ==
    ASSUME NEW h \in Seq(Nat), NEW q \in Seq(Frames), NEW c \in [Frames -> Packet], q # <<>>
    PROVE  (h \o <<>>) \o PacketsIn(q, c) = (h \o <<c[Head(q)].n>>) \o PacketsIn(Tail(q), c)
<1> DEFINE x == <<c[Head(q)].n>>
           t == PacketsIn(Tail(q), c)
<1>1. x \in Seq(Nat) /\ t \in Seq(Nat) /\ PacketsIn(q, c) = x \o t
  <2>1. /\ c[Head(q)].n \in Nat /\ Tail(q) \in Seq(Frames)
        /\ PacketsIn(q, c) = <<c[Head(q)].n>> \o PacketsIn(Tail(q), c)
    BY PacketsOfTail
  <2>2. x \in Seq(Nat)
    BY <2>1
  <2>3. t \in Seq(Nat)
    BY <2>1, PacketsTyped
  <2> QED
    BY <2>1, <2>2, <2>3
<1> HIDE DEF x, t
<1>2. h \o <<>> = h
  BY ConcatEmptySeq
<1>3. (h \o x) \o t = h \o (x \o t)
  BY <1>1, ConcatAssociative, SMTT(30)
<1> QED
  BY <1>1, <1>2, <1>3 DEF x, t

LEMMA PassedOn ==
    ASSUME NEW h \in Seq(Nat), NEW n \in Nat
    PROVE  h \o <<n>> = Append(h, n) \o <<>> /\ Append(h, n) \in Seq(Nat)
BY ConcatEmptySeq, AppendIsConcat

-----------------------------------------------------------------------------
\* What steps leave alone.
LEMMA OutgoingStays ==
    ASSUME Outgoing, UNCHANGED <<sends, argument, out, unsent>>,
           place' \in Air!InSend <=> place \in Air!InSend
    PROVE  Outgoing'
BY DEF Outgoing

LEMMA PlacesStay ==
    ASSUME FramePlaces, UNCHANGED <<rxQueue, datagrams, rxBuf, unused>>,
           packetptr' \in {rxBuf, None}
    PROVE  FramePlaces'
BY DEF FramePlaces

LEMMA OrderStays ==
    ASSUME Order, UNCHANGED <<nested, rxQueue, queueDepth, heard, passed>>,
           PacketsIn(rxQueue, content)' = PacketsIn(rxQueue, content),
           place \notin {"recvNext", "recvDepth"}, place' \notin {"recvNext", "recvDepth"},
           place' \in Taken <=> place \in Taken, place \in Taken => current' = current
    PROVE  Order'
BY DEF Order, Taken

LEMMA OthersContent ==
    ASSUME FramePlaces, RadioTypes, UNCHANGED rxQueue, content' \in [Frames -> Packet],
           \A f \in ToSet(rxQueue) : content'[f] = content[f]
    PROVE  PacketsIn(rxQueue, content)' = PacketsIn(rxQueue, content)
<1>1. rxQueue \in Seq(Frames) /\ content \in [Frames -> Packet]
  BY DEF FramePlaces, RadioTypes, Queue
<1>2. PacketsIn(rxQueue, content') = PacketsIn(rxQueue, content)
  BY <1>1, PacketsStay
<1> QED
  BY <1>2 DEF PacketsIn

\* A frame is deleted: it is free, and what it held is gone.
LEMMA DeleteFrees ==
    ASSUME RadioTypes, NEW f \in Frames, Air!Delete(f)
    PROVE  /\ unused' = unused \cup {f} /\ unused' \subseteq Frames
           /\ content' \in [Frames -> Packet]
           /\ \A g \in Frames : g # f => content'[g] = content[g]
<1>1. content \in [Frames -> Packet] /\ unused \subseteq Frames
  BY DEF RadioTypes
<1>2. Air!Blank \in Packet
  BY DEF Air!Blank, Packet, Air!Protocols
<1> QED
  BY <1>1, <1>2 DEF Air!Delete

LEMMA RadioInit ==
    ASSUME Air!ConstantsOK, Air!Init
    PROVE  RadioInv
<1> USE DEF Air!Init
<1>1. MAXIMUM_RX_BUFFERS \in Nat /\ Len(<<>>) = 0 /\ <<>> \in Seq(Nat) /\ None \notin Frames
  BY DEF Air!ConstantsOK
<1>2. Air!Blank \in Packet
  BY DEF Air!Blank, Packet, Air!Protocols
<1>3. RadioTypes
  BY <1>1, <1>2 DEF RadioTypes, Air!PCs
<1>4. RadioFlags
  BY Zenon DEF RadioFlags
<1>5. FramePlaces
  BY <1>1, ShortQueues DEF FramePlaces
<1>6. Hand
  BY DEF Hand, Taken, Air!InRecv, Air!InSend
<1>7. Order
  <2>1. (<<>> \o <<>>) \o PacketsIn(<<>>, content) = <<>>
    <3>1. content \in [Frames -> Packet]
      BY <1>2
    <3> QED
      BY <1>1, <3>1, PacketsInNone, ConcatEmptySeq
  <2> QED
    BY <1>1, <2>1 DEF Order, Taken
<1>8. Outgoing
  BY <1>1, ShortQueues DEF Outgoing, Air!InSend
<1> QED
  BY <1>3, <1>4, <1>5, <1>6, <1>7, <1>8 DEF RadioInv

-----------------------------------------------------------------------------
\* A packet fills the receiver's frame, which nobody else has.
LEMMA ArriveDelivers ==
    ASSUME Air!ConstantsOK, RadioInv, NEW protocol \in Air!Protocols, Air!Arrive(protocol)
    PROVE  RadioInv'
<1> USE DEF RadioInv
<1>1. /\ UNCHANGED <<initialised, rxBuf, rxQueue, queueDepth, datagrams, suppressForwarding,
                     unused, mode, packetptr, enabled, place, frame, back, more, depth, argument,
                     heard, passed, current, sends, out, unsent, nested>>
      /\ started' = FALSE /\ complete' = TRUE /\ pending' = TRUE /\ packets' = packets + 1
      /\ content' = IF packetptr = None THEN content
                    ELSE [content EXCEPT ![packetptr] = [n |-> packets + 1, protocol |-> protocol]]
  BY DEF Air!Arrive, Air!driver, Air!locals
<1>2. [n |-> packets + 1, protocol |-> protocol] \in Packet /\ packets + 1 \in Nat
  BY DEF RadioTypes, Packet
<1>3. /\ content' \in [Frames -> Packet]
      /\ \A f \in Frames : f # rxBuf => content'[f] = content[f]
  BY <1>1, <1>2 DEF RadioTypes, FramePlaces
<1>4. RadioTypes'
  BY <1>1, <1>2, <1>3 DEF RadioTypes
<1>5. RadioFlags'
  BY <1>1, Zenon DEF RadioFlags
<1>6. FramePlaces'
  BY <1>1, PlacesStay DEF FramePlaces
<1>7. /\ rxQueue # <<>> => Head(rxQueue) \in Frames /\ Head(rxQueue) # rxBuf
      /\ \A f \in ToSet(rxQueue) : content'[f] = content[f]
  <2>1. /\ rxBuf \notin ToSet(rxQueue) /\ ToSet(rxQueue) \subseteq Frames
        /\ rxQueue # <<>> => Head(rxQueue) \in ToSet(rxQueue)
    BY InQueue DEF FramePlaces, Queue
  <2> QED
    BY <1>3, <2>1
<1>8. Hand'
  BY <1>1, <1>3, <1>7 DEF Hand
<1>9. Order'
  <2>1. PacketsIn(rxQueue, content)' = PacketsIn(rxQueue, content)
    BY <1>1, <1>3, <1>7, OthersContent
  <2> QED
    BY <1>1, <2>1 DEF Order
<1>10. Outgoing'
  BY <1>1, OutgoingStays
<1> QED
  BY <1>4, <1>5, <1>6, <1>8, <1>9, <1>10

LEMMA TransmittedDelivers ==
    ASSUME RadioInv, Air!Transmitted
    PROVE  RadioInv'
<1> USE DEF RadioInv
<1>1. /\ UNCHANGED <<initialised, rxBuf, rxQueue, queueDepth, datagrams, suppressForwarding,
                     unused, content, mode, packetptr, enabled, place, frame, back, more, depth,
                     argument, packets, heard, passed, current, sends, out, unsent, nested>>
      /\ started' = FALSE /\ complete' = TRUE /\ pending' = TRUE
  BY DEF Air!Transmitted, Air!driver, Air!locals, Air!memory, Air!history
<1>2. RadioTypes'
  BY <1>1 DEF RadioTypes
<1>3. RadioFlags'
  BY <1>1, Zenon DEF RadioFlags
<1>4. FramePlaces' /\ Hand'
  BY <1>1 DEF FramePlaces, Hand
<1>5. Order' /\ Outgoing'
  BY <1>1 DEF Order, PacketsIn, Outgoing
<1> QED
  BY <1>2, <1>3, <1>4, <1>5

\* The receiver's frame goes to the end of the queue, and it gets one that was free.
LEMMA queueRxBufDelivers ==
    ASSUME Air!ConstantsOK, RadioTypes, FramePlaces, Hand, Order, Air!Room, Air!queueRxBuf,
           enabled,
           UNCHANGED <<datagrams, suppressForwarding, content, mode, place, enabled, frame, back,
                       more, depth, packets, passed, current, nested>>
    PROVE  RadioTypes' /\ FramePlaces' /\ Hand' /\ Order'
<1>1. PICK f \in Air!New :
          /\ rxQueue' = Append(rxQueue, rxBuf) /\ queueDepth' = queueDepth + 1
          /\ heard' = Append(heard, content[rxBuf].n)
          /\ rxBuf' = f /\ packetptr' = f /\ unused' = unused \ {f}
  BY DEF Air!queueRxBuf
<1>2. /\ rxBuf \in Frames /\ queueDepth < MAXIMUM_RX_BUFFERS /\ MAXIMUM_RX_BUFFERS \in Nat
      /\ f \in unused /\ f \in Frames /\ f # rxBuf /\ None \notin Frames
  BY DEF Air!Room, Air!New, Air!ConstantsOK, RadioTypes, FramePlaces
<1>3. /\ rxQueue \in Queue(Frames) /\ rxQueue \in Seq(Frames) /\ rxBuf \notin ToSet(rxQueue)
      /\ content \in [Frames -> Packet]
  BY DEF FramePlaces, RadioTypes, Queue
<1>4. /\ rxQueue' \in Queue(Frames) /\ ToSet(rxQueue') = ToSet(rxQueue) \cup {rxBuf}
  BY <1>1, <1>2, <1>3, AppendQueue
<1>5. /\ rxQueue' # <<>> /\ Len(rxQueue') = Len(rxQueue) + 1 /\ Len(rxQueue) \in Nat
      /\ Head(rxQueue') = IF rxQueue = <<>> THEN rxBuf ELSE Head(rxQueue)
  BY <1>1, <1>2, <1>3
<1>6. content[rxBuf].n \in Nat
  BY <1>2, <1>3, PacketsOfAppend
<1>7. RadioTypes'
  <2>1. heard' \in Seq(Nat) /\ queueDepth' \in Int
    BY <1>1, <1>6 DEF RadioTypes
  <2> QED
    BY <1>1, <1>2, <2>1 DEF RadioTypes
<1>8. FramePlaces'
  BY <1>1, <1>2, <1>4 DEF FramePlaces
<1>9. Hand'
  <2>1. f \notin ToSet(rxQueue) \cup ToSet(datagrams) \cup {rxBuf}
    BY <1>2 DEF FramePlaces
  <2> QED
    BY <1>1, <1>2, <1>4, <1>5, <2>1 DEF Hand
<1>10. Order'
  <2> SUFFICES ASSUME ~nested
               PROVE  /\ place \notin {"recvNext", "recvDepth"}
                      /\ queueDepth' <= MAXIMUM_RX_BUFFERS
                      /\ queueDepth' = Len(rxQueue')
                      /\ heard' = (passed \o (IF place \in Taken THEN <<current>> ELSE <<>>))
                                       \o PacketsIn(rxQueue', content)
    <3>1. PacketsIn(rxQueue, content)' = PacketsIn(rxQueue', content)
      BY DEF PacketsIn
    <3> QED
      BY <1>5, <3>1 DEF Order
  <2>1. place \notin {"recvNext", "recvDepth"}
    BY DEF Order
  <2>2. queueDepth' <= MAXIMUM_RX_BUFFERS /\ queueDepth' = Len(rxQueue')
    BY <1>1, <1>2, <1>5, <2>1 DEF Order, RadioTypes
  <2> DEFINE x == passed \o (IF place \in Taken THEN <<current>> ELSE <<>>)
             y == PacketsIn(rxQueue, content)
  <2>3. heard = x \o y
    BY DEF Order
  <2>4. x \in Seq(Nat) /\ y \in Seq(Nat)
    <3>1. passed \in Seq(Nat) /\ <<current>> \in Seq(Nat) /\ <<>> \in Seq(Nat)
      BY DEF RadioTypes
    <3>2. (IF place \in Taken THEN <<current>> ELSE <<>>) \in {<<current>>, <<>>}
      BY Zenon
    <3>3. (IF place \in Taken THEN <<current>> ELSE <<>>) \in Seq(Nat)
      BY <3>1, <3>2
    <3>4. \A z \in Seq(Nat) : passed \o z \in Seq(Nat)
      BY <3>1
    <3> QED
      BY <1>3, <3>3, <3>4, PacketsTyped
  <2>5. PacketsIn(rxQueue', content) = Append(y, content[rxBuf].n)
    BY <1>1, <1>2, <1>3, PacketsOfAppend
  <2> HIDE DEF x, y
  <2>6. Append(x \o y, content[rxBuf].n) = x \o Append(y, content[rxBuf].n)
    BY <1>6, <2>4, AppendToConcat
  <2>7. heard' = x \o PacketsIn(rxQueue', content)
    BY <1>1, <2>3, <2>5, <2>6
  <2> QED
    BY <2>1, <2>2, <2>7 DEF x
<1> QED
  BY <1>7, <1>8, <1>9, <1>10

LEMMA RADIO_IRQHandlerDelivers ==
    ASSUME Air!ConstantsOK, RadioInv, Air!RADIO_IRQHandler
    PROVE  RadioInv'
<1> USE DEF RadioInv
<1>1. /\ UNCHANGED <<initialised, datagrams, suppressForwarding, content, mode, enabled, place,
                     frame, back, more, depth, argument, packets, passed, current, sends, out,
                     unsent, nested>>
      /\ pending' = FALSE /\ enabled
      /\ \/ complete' = FALSE /\ started' = TRUE
         \/ UNCHANGED <<complete, started>>
      /\ \/ Air!Room /\ Air!queueRxBuf
         \/ UNCHANGED <<rxQueue, queueDepth, heard, rxBuf, packetptr, unused>>
  BY DEF Air!RADIO_IRQHandler, Air!locals
<1>2. RadioFlags'
  BY <1>1, Zenon DEF RadioFlags
<1>3. Outgoing'
  BY <1>1, OutgoingStays
<1>4. CASE Air!Room /\ Air!queueRxBuf
  BY <1>1, <1>2, <1>3, <1>4, queueRxBufDelivers
<1>5. CASE UNCHANGED <<rxQueue, queueDepth, heard, rxBuf, packetptr, unused>>
  <2>1. RadioTypes'
    BY <1>1, <1>5 DEF RadioTypes
  <2>2. FramePlaces' /\ Hand'
    BY <1>1, <1>5 DEF FramePlaces, Hand
  <2>3. Order'
    BY <1>1, <1>5 DEF Order, PacketsIn
  <2> QED
    BY <1>2, <1>3, <2>1, <2>2, <2>3
<1> QED
  BY <1>1, <1>4, <1>5

\* The event of the timer's interrupt goes out inside it, or is held back.
LEMMA InterruptDelivers ==
    ASSUME Air!ConstantsOK, RadioInv, Air!Interrupt
    PROVE  RadioInv'
<1> USE DEF RadioInv
<1>1. /\ UNCHANGED <<initialised, rxBuf, rxQueue, queueDepth, datagrams, suppressForwarding,
                     unused, content, place, frame, back, more, depth, argument, packets, heard,
                     passed, current>>
      /\ sends' = sends + 1
      /\ \/ /\ unsent' = unsent \cup {sends + 1}
            /\ UNCHANGED <<mode, started, packetptr, complete, pending, enabled, out, nested>>
         \/ /\ mode' = "rx" /\ started' = TRUE /\ packetptr' = rxBuf
            /\ complete' = FALSE /\ pending' = FALSE /\ enabled' = TRUE
            /\ out' = Append(out, sends + 1) /\ unsent' = unsent
            /\ nested' = (nested \/ place \in Air!InRecv \cup Air!InSend)
  BY DEF Air!Interrupt, Air!Listen, Air!driver, Air!memory, Air!locals, Air!hardware
<1>2. /\ sends \in Nat /\ argument \in Nat /\ out \in Queue(Nat) /\ argument \notin ToSet(out)
      /\ ToSet(out) \cup unsent \cup ({argument} \ {0}) = 1 .. sends
      /\ argument # 0 <=> place \in Air!InSend
  BY DEF Outgoing
<1>3. 1 .. sends + 1 = (1 .. sends) \cup {sends + 1} /\ sends + 1 \notin 1 .. sends
      /\ argument # sends + 1 /\ sends + 1 \notin ToSet(out)
  BY <1>2
<1>4. CASE /\ unsent' = unsent \cup {sends + 1}
           /\ UNCHANGED <<mode, started, packetptr, complete, pending, enabled, out, nested>>
  <2>1. RadioTypes'
    BY <1>1, <1>4 DEF RadioTypes
  <2>2. RadioFlags'
    BY <1>1, <1>4, Zenon DEF RadioFlags
  <2>3. FramePlaces' /\ Hand'
    BY <1>1, <1>4 DEF FramePlaces, Hand
  <2>4. Order'
    BY <1>1, <1>4 DEF Order, PacketsIn
  <2>5. Outgoing'
    BY <1>1, <1>2, <1>3, <1>4 DEF Outgoing
  <2> QED
    BY <2>1, <2>2, <2>3, <2>4, <2>5
<1>5. CASE /\ mode' = "rx" /\ started' = TRUE /\ packetptr' = rxBuf
           /\ complete' = FALSE /\ pending' = FALSE /\ enabled' = TRUE
           /\ out' = Append(out, sends + 1) /\ unsent' = unsent
           /\ nested' = (nested \/ place \in Air!InRecv \cup Air!InSend)
  <2>1. RadioTypes'
    BY <1>1, <1>5 DEF RadioTypes
  <2>2. RadioFlags'
    BY <1>1, <1>5, Zenon DEF RadioFlags
  <2>3. FramePlaces' /\ Hand'
    BY <1>1, <1>5 DEF FramePlaces, Hand
  <2>4. Order'
    BY <1>1, <1>5 DEF Order, PacketsIn, Air!InRecv
  <2>5. out' \in Queue(Nat) /\ ToSet(out') = ToSet(out) \cup {sends + 1}
    BY <1>2, <1>3, <1>5, AppendQueue
  <2>6. Outgoing'
    BY <1>1, <1>2, <1>3, <1>5, <2>5 DEF Outgoing
  <2> QED
    BY <2>1, <2>2, <2>3, <2>4, <2>6
<1> QED
  BY <1>1, <1>4, <1>5

-----------------------------------------------------------------------------
\* recv() in its three steps: the head of the queue goes into the hand.
LEMMA recvDelivers ==
    ASSUME RadioInv, Air!recv
    PROVE  RadioInv'
<1> USE DEF RadioInv
<1>1. /\ UNCHANGED <<initialised, rxBuf, rxQueue, queueDepth, datagrams, suppressForwarding,
                     unused, content, mode, started, packetptr, complete, pending, frame, back,
                     depth, argument, packets, heard, passed, current, sends, out, unsent, nested>>
      /\ place = "recv" /\ place' = "recvNext" /\ enabled' = FALSE
      /\ more' = (Len(rxQueue) > 1)
  BY DEF Air!recv, Air!At, Air!driver, Air!memory, Air!history
<1>2. RadioTypes'
  BY <1>1 DEF RadioTypes, Air!PCs, Air!InRecv
<1>3. RadioFlags'
  BY <1>1, Zenon DEF RadioFlags
<1>4. FramePlaces'
  BY <1>1 DEF FramePlaces
<1>5. Hand'
  BY <1>1 DEF Hand, Taken, Air!InRecv, Air!InSend
<1>6. Order'
  BY <1>1 DEF Order, Taken, PacketsIn
<1>7. Outgoing'
  BY <1>1, OutgoingStays DEF Air!InSend
<1> QED
  BY <1>2, <1>3, <1>4, <1>5, <1>6, <1>7

LEMMA recvNextDelivers ==
    ASSUME RadioInv, Air!recvNext
    PROVE  RadioInv'
<1> USE DEF RadioInv
<1>1. /\ UNCHANGED <<initialised, rxBuf, queueDepth, datagrams, suppressForwarding, unused,
                     content, mode, started, packetptr, complete, pending, enabled, frame, back,
                     argument, packets, heard, passed, current, sends, out, unsent, nested>>
      /\ place = "recvNext" /\ place' = "recvDepth" /\ depth' = queueDepth
      /\ rxQueue' = IF more THEN Tail(rxQueue) ELSE <<>>
  BY DEF Air!recvNext, Air!At, Air!hardware, Air!memory, Air!history
<1>2. /\ rxQueue \in Queue(Frames) /\ rxQueue \in Seq(Frames) /\ rxQueue # <<>>
      /\ frame = Head(rxQueue) /\ content[frame].n = current
      /\ content \in [Frames -> Packet]
  BY <1>1 DEF FramePlaces, Hand, RadioTypes, Queue
<1>3. /\ Tail(rxQueue) \in Queue(Frames) /\ frame \in Frames
      /\ ToSet(Tail(rxQueue)) = ToSet(rxQueue) \ {frame} /\ frame \in ToSet(rxQueue)
      /\ Len(Tail(rxQueue)) = Len(rxQueue) - 1 /\ Len(rxQueue) \in Nat \ {0}
  BY <1>2, QueueWithoutHead
<1>4. /\ rxQueue' \in Queue(Frames) /\ ToSet(rxQueue') \subseteq ToSet(rxQueue) \ {frame}
  BY <1>1, <1>3, ShortQueues
<1>5. RadioTypes'
  BY <1>1 DEF RadioTypes, Air!PCs, Air!InRecv
<1>6. RadioFlags'
  BY <1>1, Zenon DEF RadioFlags
<1>7. FramePlaces'
  BY <1>1, <1>4 DEF FramePlaces
<1>8. Hand'
  <2>1. frame \notin unused \cup {rxBuf} \cup ToSet(rxQueue') \cup ToSet(datagrams)
    BY <1>3, <1>4 DEF FramePlaces
  <2> QED
    BY <1>1, <1>2, <1>3, <2>1 DEF Hand, Taken, Air!InRecv, Air!InSend
<1>9. Order'
  <2>1. ASSUME ~nested PROVE rxQueue' = Tail(rxQueue)
    <3>1. more <=> Len(rxQueue) > 1
      BY <1>1, <2>1 DEF Order
    <3>2. CASE Len(rxQueue) > 1
      BY <1>1, <3>1, <3>2
    <3>3. CASE ~(Len(rxQueue) > 1)
      <4>1. Len(Tail(rxQueue)) = 0 /\ Tail(rxQueue) \in Seq(Frames)
        BY <1>3, <3>3 DEF Queue
      <4>2. Tail(rxQueue) = <<>>
        <5>1. \A s \in Seq(Frames) : Len(s) = 0 => s = <<>>
          OBVIOUS
        <5> QED
          BY <4>1, <5>1
      <4> QED
        BY <1>1, <3>1, <3>3, <4>2
    <3> QED
      BY <3>2, <3>3
  <2>2. ASSUME ~nested
        PROVE  heard = (passed \o <<current>>) \o PacketsIn(Tail(rxQueue), content)
    <3>1. heard = (passed \o <<>>) \o PacketsIn(rxQueue, content)
      BY <1>1, <2>2 DEF Order, Taken
    <3>2. passed \in Seq(Nat)
      BY DEF RadioTypes
    <3> QED
      BY <1>2, <3>1, <3>2, FirstInHand
  <2>3. ASSUME ~nested
        PROVE  queueDepth = Len(Tail(rxQueue)) + 1 /\ ~enabled /\ queueDepth <= MAXIMUM_RX_BUFFERS
    BY <1>1, <1>3, <2>3 DEF Order
  <2> QED
    BY <1>1, <2>1, <2>2, <2>3 DEF Order, Taken, PacketsIn
<1>10. Outgoing'
  BY <1>1, OutgoingStays DEF Air!InSend
<1> QED
  BY <1>5, <1>6, <1>7, <1>8, <1>9, <1>10

LEMMA recvDepthDelivers ==
    ASSUME Air!ConstantsOK, RadioInv, Air!recvDepth
    PROVE  RadioInv'
<1> USE DEF RadioInv
<1>1. /\ UNCHANGED <<initialised, rxBuf, rxQueue, datagrams, suppressForwarding, unused, content,
                     mode, started, packetptr, complete, pending, frame, back, argument, packets,
                     heard, passed, current, sends, out, unsent, nested>>
      /\ place = "recvDepth" /\ place' = back /\ queueDepth' = depth - 1 /\ enabled' = TRUE
      /\ depth' = 0 /\ more' = FALSE
  BY DEF Air!recvDepth, Air!At, Air!memory, Air!history
<1>2. back \in {"datagram", "event", "delete", "drop"}
  BY <1>1 DEF Hand, Air!InRecv
<1>3. RadioTypes'
  BY <1>1 DEF RadioTypes
<1>4. RadioFlags'
  BY <1>1, Zenon DEF RadioFlags
<1>5. FramePlaces'
  BY <1>1 DEF FramePlaces
<1>6. Hand'
  BY <1>1, <1>2 DEF Hand, Taken, Air!InRecv, Air!InSend
<1>7. Order'
  <2>1. Len(rxQueue) \in Nat /\ depth \in Int /\ MAXIMUM_RX_BUFFERS \in Nat
    BY DEF FramePlaces, RadioTypes, Queue, Air!ConstantsOK
  <2>2. /\ place' \in Taken /\ place \in Taken
        /\ place' \notin {"recvNext", "recvDepth"}
    BY <1>1, <1>2 DEF Taken
  <2>3. PacketsIn(rxQueue, content)' = PacketsIn(rxQueue, content)
    BY <1>1 DEF PacketsIn
  <2> QED
    BY <1>1, <2>1, <2>2, <2>3 DEF Order
<1>8. Outgoing'
  BY <1>1, <1>2, OutgoingStays DEF Air!InSend
<1> QED
  BY <1>3, <1>4, <1>5, <1>6, <1>7, <1>8

-----------------------------------------------------------------------------
\* send(): the argument goes out once.
LEMMA sendDelivers ==
    ASSUME RadioInv, Air!send \/ Air!sendStart \/ Air!sendClear
    PROVE  RadioInv'
<1> USE DEF RadioInv
<1>1. /\ UNCHANGED <<initialised, rxBuf, rxQueue, queueDepth, datagrams, suppressForwarding,
                     unused, content, pending, frame, back, more, depth, argument, packets, heard,
                     passed, current, sends, out, unsent, nested>>
      /\ packetptr' \in {packetptr, None} /\ mode' \in {"off", "tx", mode}
      /\ place \in {"send", "sendStart", "sendClear"}
      /\ place' \in {"sendStart", "sendClear", "sendWait"}
  BY DEF Air!send, Air!sendStart, Air!sendClear, Air!At, Air!driver, Air!memory, Air!locals,
         Air!history
<1>2. RadioTypes'
  BY <1>1 DEF RadioTypes, Air!PCs, Air!InSend
<1>3. RadioFlags'
  BY Zenon DEF RadioFlags, Air!send, Air!sendStart, Air!sendClear, Air!driver
<1>4. FramePlaces'
  BY <1>1 DEF FramePlaces
<1>5. Hand'
  BY <1>1 DEF Hand, Taken, Air!InRecv, Air!InSend
<1>6. Order'
  BY <1>1 DEF Order, Taken, PacketsIn
<1>7. Outgoing'
  BY <1>1, OutgoingStays DEF Air!InSend
<1> QED
  BY <1>2, <1>3, <1>4, <1>5, <1>6, <1>7

LEMMA sendWaitDelivers ==
    ASSUME RadioInv, Air!sendWait
    PROVE  RadioInv'
<1> USE DEF RadioInv
<1>1. /\ UNCHANGED <<initialised, rxBuf, rxQueue, queueDepth, datagrams, suppressForwarding,
                     unused, content, frame, back, more, depth, packets, heard, passed, current,
                     sends, unsent, nested>>
      /\ mode' = "rx" /\ started' = TRUE /\ packetptr' = rxBuf
      /\ complete' = FALSE /\ pending' = FALSE /\ enabled' = TRUE
      /\ out' = Append(out, argument) /\ argument' = 0
      /\ place = "sendWait" /\ place' = back
  BY DEF Air!sendWait, Air!Listen, Air!At, Air!driver, Air!memory
<1>2. back = "idle" /\ place \in Air!InSend
  BY <1>1 DEF Hand, Air!InSend
<1>3. RadioTypes'
  BY <1>1 DEF RadioTypes
<1>4. RadioFlags'
  BY <1>1, Zenon DEF RadioFlags
<1>5. FramePlaces'
  BY <1>1 DEF FramePlaces
<1>6. Hand'
  BY <1>1, <1>2 DEF Hand, Taken, Air!InRecv, Air!InSend
<1>7. Order'
  BY <1>1, <1>2 DEF Order, Taken, PacketsIn
<1>8. Outgoing'
  <2>1. out' \in Queue(Nat) /\ ToSet(out') = ToSet(out) \cup {argument}
    BY <1>1, AppendQueue DEF Outgoing
  <2>2. argument # 0 /\ 0 \notin 1 .. sends /\ sends \in Nat
    BY <1>2 DEF Outgoing
  <2>3. 0 \notin ToSet(out')
    BY <2>1, <2>2 DEF Outgoing
  <2>4. place' \notin Air!InSend
    BY <1>1, <1>2 DEF Air!InSend
  <2> QED
    BY <1>1, <2>1, <2>2, <2>3, <2>4 DEF Outgoing
<1> QED
  BY <1>3, <1>4, <1>5, <1>6, <1>7, <1>8

-----------------------------------------------------------------------------
\* idleTick() where it only goes from place to place, with the same frame.
LEMMA PlaceDelivers ==
    ASSUME RadioInv,
           UNCHANGED <<initialised, rxBuf, rxQueue, queueDepth, datagrams, unused, content, mode,
                       started, packetptr, complete, pending, enabled, frame, more, depth,
                       argument, packets, heard, passed, current, sends, out, unsent, nested>>,
           suppressForwarding' \in BOOLEAN,
           place' \in Air!PCs, back' \in Air!PCs, Hand',
           place' \in Air!InSend <=> place \in Air!InSend,
           place' \in Taken <=> place \in Taken,
           {place, place'} \cap {"recvNext", "recvDepth"} = {}
    PROVE  RadioInv'
<1> USE DEF RadioInv
<1>1. RadioTypes'
  BY DEF RadioTypes
<1>2. RadioFlags'
  BY Zenon DEF RadioFlags
<1>3. FramePlaces' /\ Outgoing'
  BY DEF FramePlaces, Outgoing
<1>4. Order'
  <2>1. PacketsIn(rxQueue, content)' = PacketsIn(rxQueue, content)
    BY DEF PacketsIn
  <2> QED
    BY <2>1, OrderStays
<1> QED
  BY <1>1, <1>2, <1>3, <1>4

LEMMA WalkDelivers ==
    ASSUME RadioInv,
           Air!idleTick \/ Air!Switch \/ Air!Raised \/ Air!Event \/ Air!Fire \/ Air!Check
    PROVE  RadioInv'
<1> USE DEF RadioInv
<1>1. /\ UNCHANGED <<initialised, rxBuf, rxQueue, queueDepth, datagrams, unused, content, mode,
                     started, packetptr, complete, pending, enabled, frame, more, depth, packets,
                     heard, passed, current, sends, out, unsent, nested>>
      /\ \/ /\ place = "idle" /\ place' = "loop" /\ UNCHANGED <<back, suppressForwarding>>
         \/ /\ place = "switch" /\ UNCHANGED suppressForwarding
            /\ \/ place' = "recv" /\ back' \in {"datagram", "event", "delete"}
               \/ place' = "check" /\ UNCHANGED back
         \/ place = "raised" /\ place' = "check" /\ UNCHANGED <<back, suppressForwarding>>
         \/ /\ place = "event" /\ place' = "fire" /\ suppressForwarding' = TRUE
            /\ UNCHANGED back
         \/ /\ place = "check" /\ UNCHANGED suppressForwarding
            /\ \/ /\ rxQueue # <<>> /\ Head(rxQueue) = frame
                  /\ place' = "recv" /\ back' = "drop"
               \/ place' = "loop" /\ UNCHANGED back
         \/ /\ place = "fire" /\ suppressForwarding' = FALSE
            /\ \/ place' = "delete" /\ UNCHANGED back
               \/ ~suppressForwarding
      /\ place # "fire" => UNCHANGED argument
      /\ place = "fire" /\ suppressForwarding => UNCHANGED argument
  <2>1. CASE Air!idleTick
    BY <2>1 DEF Air!idleTick, Air!At, Air!driver, Air!memory, Air!Rest, Air!hardware, Air!locals
  <2>2. CASE Air!Switch
    BY <2>2 DEF Air!Switch, Air!At, Air!driver, Air!memory, Air!hardware, Air!history
  <2>3. CASE Air!Raised
    BY <2>3 DEF Air!Raised, Air!At, Air!driver, Air!memory, Air!Rest, Air!hardware, Air!locals
  <2>4. CASE Air!Event
    BY <2>4 DEF Air!Event, Air!At, Air!memory, Air!Rest, Air!hardware, Air!locals
  <2>5. CASE Air!Fire
    BY <2>5 DEF Air!Fire, Air!At, Air!memory, Air!hardware, Air!history
  <2>6. CASE Air!Check
    BY <2>6 DEF Air!Check, Air!At, Air!driver, Air!memory, Air!hardware, Air!history
  <2> QED
    BY <2>1, <2>2, <2>3, <2>4, <2>5, <2>6
<1>2. place = "fire" => suppressForwarding
  BY DEF Hand
<1>3. UNCHANGED argument
  BY <1>1, <1>2
<1>4. suppressForwarding' \in BOOLEAN
  BY <1>1, Zenon DEF RadioFlags
<1>5. Hand'
  BY <1>1, <1>2 DEF Hand, Taken, Air!InRecv, Air!InSend
<1>6. place' \in Air!PCs /\ back' \in Air!PCs
  BY <1>1, <1>2 DEF RadioTypes, Air!PCs, Air!InRecv, Air!InSend
<1>7. /\ place' \in Air!InSend <=> place \in Air!InSend
      /\ place' \in Taken <=> place \in Taken
      /\ {place, place'} \cap {"recvNext", "recvDepth"} = {}
  BY <1>1, <1>2 DEF Taken, Air!InSend
<1> QED
  BY <1>1, <1>3, <1>4, <1>5, <1>6, <1>7, PlaceDelivers

\* idleTick looks at the head of the queue.
LEMMA LoopDelivers ==
    ASSUME RadioInv, Air!Loop
    PROVE  RadioInv'
<1> USE DEF RadioInv
<1>1. /\ UNCHANGED <<initialised, rxBuf, rxQueue, queueDepth, datagrams, suppressForwarding,
                     unused, content, mode, started, packetptr, complete, pending, enabled, back,
                     more, depth, argument, packets, heard, passed, sends, out, unsent, nested>>
      /\ place = "loop"
      /\ \/ place' = "idle" /\ frame' = None /\ current' = 0
         \/ /\ rxQueue # <<>> /\ place' = "switch" /\ frame' = Head(rxQueue)
            /\ current' = content[Head(rxQueue)].n
  BY DEF Air!Loop, Air!At, Air!driver, Air!memory, Air!hardware
<1>2. /\ rxQueue # <<>> => Head(rxQueue) \in Frames /\ content[Head(rxQueue)].n \in Nat
      /\ place' \in {"idle", "switch"}
  <2>1. rxQueue \in Seq(Frames) /\ content \in [Frames -> Packet]
    BY DEF FramePlaces, RadioTypes, Queue
  <2> QED
    BY <1>1, <2>1, PacketsOfTail
<1>3. RadioTypes'
  BY <1>1, <1>2 DEF RadioTypes, Air!PCs
<1>4. RadioFlags'
  BY <1>1, Zenon DEF RadioFlags
<1>5. FramePlaces'
  BY <1>1 DEF FramePlaces
<1>6. Hand'
  BY <1>1, <1>2 DEF Hand, Taken, Air!InRecv, Air!InSend
<1>7. Order'
  <2>1. PacketsIn(rxQueue, content)' = PacketsIn(rxQueue, content)
    BY <1>1 DEF PacketsIn
  <2> QED
    BY <1>1, <1>2, <2>1, OrderStays DEF Taken
<1>8. Outgoing'
  BY <1>1, <1>2, OutgoingStays DEF Air!InSend
<1> QED
  BY <1>3, <1>4, <1>5, <1>6, <1>7, <1>8

\* What the idle fiber has in its hand is handled.
LEMMA HandPasses ==
    ASSUME RadioTypes, FramePlaces, Hand, Order, place \in Taken \ {"recvDepth"},
           place' \notin Taken \cup {"recvNext", "recvDepth"}, Air!Handled,
           UNCHANGED <<nested, rxQueue, queueDepth, heard>>,
           content' \in [Frames -> Packet], \A f \in Frames : f # frame => content'[f] = content[f]
    PROVE  Order' /\ passed' \in Seq(Nat)
<1>1. /\ current \in Nat /\ passed \in Seq(Nat) /\ passed' = Append(passed, current)
      /\ frame \notin ToSet(rxQueue) /\ rxQueue \in Seq(Frames)
  BY DEF Hand, RadioTypes, Air!Handled, FramePlaces, Queue
<1>2. PacketsIn(rxQueue, content)' = PacketsIn(rxQueue, content)
  <2>1. \A f \in ToSet(rxQueue) : content'[f] = content[f]
    BY <1>1, InQueue
  <2> QED
    BY <2>1, OthersContent
<1>3. passed \o <<current>> = passed' \o <<>> /\ passed' \in Seq(Nat)
  BY <1>1, PassedOn
<1>4. place \in Taken /\ place # "recvDepth" /\ place # "recvNext" /\ place' \notin Taken
      /\ place' # "recvNext" /\ place' # "recvDepth"
  BY DEF Taken
<1>5. Order'
  BY <1>2, <1>3, <1>4 DEF Order
<1> QED
  BY <1>3, <1>5

\* A datagram is given to the user's queue, or deleted.
LEMMA DatagramDelivers ==
    ASSUME Air!ConstantsOK, RadioInv, Air!Datagram
    PROVE  RadioInv'
<1> USE DEF RadioInv
<1>1. /\ UNCHANGED <<initialised, rxBuf, rxQueue, queueDepth, suppressForwarding, mode, started,
                     packetptr, complete, pending, enabled, frame, back, more, depth, argument,
                     packets, heard, current, sends, out, unsent, nested>>
      /\ place = "datagram" /\ Air!Handled
      /\ \/ Air!Delete(frame) /\ place' = "check" /\ UNCHANGED datagrams
         \/ /\ ~Air!Full /\ datagrams' = Append(datagrams, frame) /\ place' = "raised"
            /\ UNCHANGED <<unused, content>>
  BY DEF Air!Datagram, Air!At, Air!hardware, Air!memory, Air!locals
<1>2. /\ frame \in Frames /\ content[frame].n = current
      /\ frame \notin unused \cup {rxBuf} \cup ToSet(rxQueue) \cup ToSet(datagrams)
  BY <1>1 DEF Hand, Taken
<1>3. /\ datagrams' \in Queue(Frames) /\ ToSet(datagrams') \subseteq ToSet(datagrams) \cup {frame}
      /\ Len(datagrams') <= MAXIMUM_RX_BUFFERS + 1
      /\ unused' \subseteq unused \cup {frame} /\ unused' \cap ToSet(datagrams') = {}
      /\ unused' \subseteq Frames
      /\ content' \in [Frames -> Packet]
      /\ \A f \in Frames : f # frame => content'[f] = content[f]
  <2>0. /\ datagrams \in Queue(Frames) /\ Len(datagrams) \in Nat /\ datagrams \in Seq(Frames)
        /\ Len(datagrams) <= MAXIMUM_RX_BUFFERS + 1
        /\ MAXIMUM_RX_BUFFERS \in Nat /\ ToSet(datagrams) \cap unused = {}
    BY DEF FramePlaces, RadioTypes, Air!ConstantsOK, Queue
  <2>1. CASE Air!Delete(frame) /\ UNCHANGED datagrams
    BY <1>2, <2>0, <2>1, DeleteFrees
  <2>2. CASE /\ ~Air!Full /\ datagrams' = Append(datagrams, frame)
             /\ UNCHANGED <<unused, content>>
    <3>1. /\ datagrams' \in Queue(Frames) /\ ToSet(datagrams') = ToSet(datagrams) \cup {frame}
      BY <1>2, <2>0, <2>2, AppendQueue
    <3>2. Len(datagrams') = Len(datagrams) + 1
      BY <1>2, <2>0, <2>2
    <3>3. Len(datagrams) <= MAXIMUM_RX_BUFFERS
      BY <2>0, <2>2 DEF Air!Full
    <3>4. content \in [Frames -> Packet] /\ unused \subseteq Frames
      BY DEF RadioTypes
    <3> QED
      BY <1>2, <2>0, <2>2, <3>1, <3>2, <3>3, <3>4
  <2> QED
    BY <1>1, <2>1, <2>2
<1>4. /\ place' \in {"check", "raised"}
      /\ place' \notin Taken \cup {"recvNext", "recvDepth"} \cup Air!InSend
      /\ place \in Taken \ {"recvDepth"} /\ place \notin Air!InSend
  BY <1>1 DEF Taken, Air!InSend
<1>5. Order' /\ passed' \in Seq(Nat)
  BY <1>1, <1>3, <1>4, HandPasses
<1>6. RadioTypes'
  BY <1>1, <1>3, <1>4, <1>5 DEF RadioTypes, Air!PCs
<1>7. RadioFlags'
  BY <1>1, Zenon DEF RadioFlags
<1>8. FramePlaces'
  BY <1>1, <1>2, <1>3 DEF FramePlaces
<1>9. Hand'
  <2>1. rxQueue # <<>> => Head(rxQueue) # frame
    BY <1>2, InQueue DEF FramePlaces, Queue
  <2> QED
    BY <1>1, <1>2, <2>1 DEF Hand, Taken, Air!InRecv, Air!InSend
<1>10. Outgoing'
  BY <1>1, <1>4, OutgoingStays
<1> QED
  BY <1>5, <1>6, <1>7, <1>8, <1>9, <1>10

\* A user, or the listener of the event that a datagram raises, takes the oldest.
LEMMA TakeDatagramDelivers ==
    ASSUME Air!ConstantsOK, RadioInv, NEW from, NEW to, Air!TakeDatagram(from, to),
           \/ from = "raised" /\ to = "check"
           \/ from = "idle" /\ to = "idle"
    PROVE  RadioInv'
<1> USE DEF RadioInv
<1> DEFINE d == Head(datagrams)
<1>1. /\ UNCHANGED <<initialised, rxBuf, rxQueue, queueDepth, suppressForwarding, mode, started,
                     packetptr, complete, pending, enabled, frame, back, more, depth, argument,
                     packets, heard, passed, current, sends, out, unsent, nested>>
      /\ datagrams # <<>> /\ datagrams' = Tail(datagrams) /\ Air!Delete(d)
      /\ \/ place = "raised" /\ place' = "check"
         \/ place = "idle" /\ place' = "idle"
  BY DEF Air!TakeDatagram, Air!At, Air!Rest, Air!hardware, Air!locals
<1>2. /\ datagrams' \in Queue(Frames) /\ d \in Frames /\ d \in ToSet(datagrams)
      /\ ToSet(datagrams') = ToSet(datagrams) \ {d}
      /\ Len(datagrams') = Len(datagrams) - 1 /\ Len(datagrams) \in Nat
  BY <1>1, QueueWithoutHead DEF FramePlaces
<1>3. /\ d \notin ToSet(rxQueue) \cup {rxBuf}
  BY <1>2 DEF FramePlaces
<1> HIDE DEF d
<1>4. /\ unused' = unused \cup {d} /\ unused' \subseteq Frames
      /\ content' \in [Frames -> Packet]
      /\ \A g \in Frames : g # d => content'[g] = content[g]
  BY <1>1, <1>2, DeleteFrees
<1>5. RadioTypes'
  <2>1. Len(datagrams') <= MAXIMUM_RX_BUFFERS + 1 /\ place' \in Air!PCs
    BY <1>1, <1>2 DEF RadioTypes, Air!PCs, Air!ConstantsOK
  <2> QED
    BY <1>1, <1>4, <2>1 DEF RadioTypes
<1>6. RadioFlags'
  BY <1>1, Zenon DEF RadioFlags
<1>7. FramePlaces'
  BY <1>1, <1>2, <1>3, <1>4 DEF FramePlaces
<1>8. rxQueue # <<>> => Head(rxQueue) \in Frames /\ content'[Head(rxQueue)] = content[Head(rxQueue)]
  <2>1. rxQueue # <<>> => Head(rxQueue) \in ToSet(rxQueue) /\ ToSet(rxQueue) \subseteq Frames
    BY InQueue DEF FramePlaces, Queue
  <2> QED
    BY <1>3, <1>4, <2>1
<1>9. Hand'
  BY <1>1, <1>8 DEF Hand, Taken, Air!InRecv, Air!InSend
<1>10. Order'
  <2>1. \A f \in ToSet(rxQueue) : content'[f] = content[f]
    BY <1>3, <1>4, InQueue DEF FramePlaces, Queue
  <2>2. PacketsIn(rxQueue, content)' = PacketsIn(rxQueue, content)
    BY <1>1, <1>4, <2>1, OthersContent
  <2> QED
    BY <1>1, <2>2, OrderStays DEF Taken
<1>11. Outgoing'
  BY <1>1, OutgoingStays DEF Air!InSend
<1> QED
  BY <1>5, <1>6, <1>7, <1>9, <1>10, <1>11

\* A packet that the event protocol has fired, or that nobody wanted.
LEMMA DeleteDelivers ==
    ASSUME RadioInv, Air!DeletePacket \/ Air!Drop
    PROVE  RadioInv'
<1> USE DEF RadioInv
<1>1. /\ UNCHANGED <<initialised, rxBuf, rxQueue, queueDepth, datagrams, suppressForwarding, mode,
                     started, packetptr, complete, pending, enabled, frame, back, more, depth,
                     argument, packets, heard, current, sends, out, unsent, nested>>
      /\ Air!Delete(frame)
      /\ place \in {"delete", "drop"} /\ place' \in {"check", "loop"}
      /\ Air!Handled \/ content[frame].n # current
  BY DEF Air!DeletePacket, Air!Drop, Air!At, Air!driver, Air!hardware, Air!locals
<1>2. /\ frame \in Frames /\ content[frame].n = current
      /\ frame \notin unused \cup {rxBuf} \cup ToSet(rxQueue) \cup ToSet(datagrams)
  BY <1>1 DEF Hand, Taken
<1>3. /\ unused' = unused \cup {frame} /\ unused' \subseteq Frames
      /\ content' \in [Frames -> Packet]
      /\ \A f \in Frames : f # frame => content'[f] = content[f]
  BY <1>1, <1>2, DeleteFrees
<1>4. /\ place' \notin Taken \cup {"recvNext", "recvDepth"} \cup Air!InSend
      /\ place \in Taken \ {"recvDepth"} /\ place \notin Air!InSend
  BY <1>1 DEF Taken, Air!InSend
<1>5. Order' /\ passed' \in Seq(Nat)
  BY <1>1, <1>2, <1>3, <1>4, HandPasses
<1>6. RadioTypes'
  BY <1>1, <1>3, <1>5 DEF RadioTypes, Air!PCs
<1>7. RadioFlags'
  BY <1>1, Zenon DEF RadioFlags
<1>8. FramePlaces'
  BY <1>1, <1>2, <1>3 DEF FramePlaces
<1>9. Hand'
  <2>1. rxQueue # <<>> => Head(rxQueue) # frame
    BY <1>2, InQueue DEF FramePlaces, Queue
  <2> QED
    BY <1>1, <1>2, <2>1 DEF Hand, Taken, Air!InRecv, Air!InSend
<1>10. Outgoing'
  BY <1>1, <1>4, OutgoingStays
<1> QED
  BY <1>5, <1>6, <1>7, <1>8, <1>9, <1>10

-----------------------------------------------------------------------------
\* What a fiber calls.
LEMMA SendDelivers ==
    ASSUME RadioInv, Air!Send
    PROVE  RadioInv'
<1> USE DEF RadioInv
<1>1. /\ UNCHANGED <<initialised, rxBuf, rxQueue, queueDepth, datagrams, suppressForwarding,
                     unused, content, mode, started, packetptr, complete, pending, enabled, frame,
                     more, depth, packets, heard, passed, current, out, unsent, nested>>
      /\ sends' = sends + 1 /\ argument' = sends + 1
      /\ place = "idle" /\ place' = "send" /\ back' = "idle"
  BY DEF Air!Send, Air!At, Air!driver, Air!memory, Air!hardware
<1>2. RadioTypes'
  BY <1>1 DEF RadioTypes, Air!PCs, Air!InSend
<1>3. RadioFlags'
  BY <1>1, Zenon DEF RadioFlags
<1>4. FramePlaces'
  BY <1>1 DEF FramePlaces
<1>5. Hand'
  BY <1>1 DEF Hand, Taken, Air!InRecv, Air!InSend
<1>6. Order'
  BY <1>1 DEF Order, Taken, PacketsIn
<1>7. Outgoing'
  <2>1. /\ sends \in Nat /\ argument = 0 /\ out \in Queue(Nat)
        /\ ToSet(out) \cup unsent \cup ({argument} \ {0}) = 1 .. sends
    BY <1>1 DEF Outgoing, Air!InSend
  <2>2. 1 .. sends + 1 = (1 .. sends) \cup {sends + 1} /\ sends + 1 \notin 1 .. sends
        /\ sends + 1 \in Nat /\ sends + 1 # 0
    BY <2>1
  <2>3. place' \in Air!InSend
    BY <1>1 DEF Air!InSend
  <2> QED
    BY <1>1, <2>1, <2>2, <2>3 DEF Outgoing
<1> QED
  BY <1>2, <1>3, <1>4, <1>5, <1>6, <1>7

LEMMA enableDelivers ==
    ASSUME RadioInv, Air!enable \/ Air!disable
    PROVE  RadioInv'
<1> USE DEF RadioInv
<1>1. /\ UNCHANGED <<rxQueue, queueDepth, datagrams, suppressForwarding, content, place, frame,
                     back, more, depth, argument, packets, heard, passed, current, sends, out,
                     unsent, nested>>
      /\ place = "idle" /\ mode' \in {"rx", "off"}
      /\ \/ /\ rxBuf' \in unused /\ packetptr' = rxBuf' /\ unused' = unused \ {rxBuf'}
         \/ UNCHANGED <<rxBuf, unused>> /\ packetptr' \in {rxBuf, packetptr}
  <2>1. CASE Air!enable
    BY <2>1 DEF Air!enable, Air!At, Air!New, Air!locals, Air!history
  <2>2. CASE Air!disable
    BY <2>2 DEF Air!disable, Air!At, Air!memory, Air!locals, Air!history
  <2> QED
    BY <2>1, <2>2
<1>2. RadioTypes'
  BY <1>1 DEF RadioTypes
<1>3. RadioFlags'
  BY Zenon DEF RadioFlags, Air!enable, Air!disable
<1>4. FramePlaces'
  BY <1>1 DEF FramePlaces
<1>5. Hand'
  BY <1>1 DEF Hand, Taken, Air!InRecv, Air!InSend
<1>6. Order'
  BY <1>1 DEF Order, Taken, PacketsIn
<1>7. Outgoing'
  BY <1>1, OutgoingStays
<1> QED
  BY <1>2, <1>3, <1>4, <1>5, <1>6, <1>7

LEMMA RadioStep ==
    ASSUME Air!ConstantsOK, RadioInv, Air!Next
    PROVE  RadioInv'
<1>1. ASSUME NEW protocol \in Air!Protocols, Air!Arrive(protocol) PROVE RadioInv'
  BY <1>1, ArriveDelivers
<1>2. CASE Air!Transmitted \/ Air!RADIO_IRQHandler \/ Air!Interrupt
  BY <1>2, TransmittedDelivers, RADIO_IRQHandlerDelivers, InterruptDelivers
<1>3. CASE Air!Recv \/ Air!Sending
  BY <1>3, recvDelivers, recvNextDelivers, recvDepthDelivers, sendDelivers, sendWaitDelivers
     DEF Air!Recv, Air!Sending
<1>4. CASE Air!TakeDatagram("raised", "check") \/ Air!TakeDatagram("idle", "idle")
  BY <1>4, TakeDatagramDelivers
<1>5. CASE Air!Tick
  BY <1>4, <1>5, WalkDelivers, LoopDelivers, DatagramDelivers, DeleteDelivers DEF Air!Tick
<1>6. CASE Air!User
  BY <1>4, <1>6, SendDelivers, enableDelivers DEF Air!User
<1> QED
  BY <1>1, <1>2, <1>3, <1>5, <1>6 DEF Air!Next

LEMMA RadioStutter == RadioInv /\ UNCHANGED radioVars => RadioInv'
<1> SUFFICES ASSUME RadioInv, UNCHANGED radioVars PROVE RadioInv'
  OBVIOUS
<1>1. RadioTypes' /\ FramePlaces' /\ Hand'
  BY DEF radioVars, RadioInv, RadioTypes, FramePlaces, Hand
<1>2. RadioFlags'
  BY Zenon DEF radioVars, RadioInv, RadioFlags
<1>3. Order' /\ Outgoing'
  BY DEF radioVars, RadioInv, Order, Outgoing, PacketsIn
<1> QED
  BY <1>1, <1>2, <1>3 DEF RadioInv

\* The elements of a queue are as many as it is long.
LEMMA InSeqOfQueue ==
    ASSUME NEW A, NEW q \in Queue(A)
    PROVE  Air!InSeq(q) = ToSet(q) /\ Cardinality(Air!InSeq(q)) = Len(q)
<1>1. /\ q \in Seq(A) /\ IsInjective(q) /\ Len(q) \in Nat /\ DOMAIN q = 1 .. Len(q)
      /\ \A i \in 1 .. Len(q) : q[i] \in ToSet(q)
  BY InQueue DEF Queue
<1>2. Air!InSeq(q) = ToSet(q)
  BY <1>1 DEF Air!InSeq, ToSet
<1>3. q \in Bijection(1 .. Len(q), ToSet(q))
  <2>1. q \in [1 .. Len(q) -> ToSet(q)]
    BY <1>1
  <2>2. \A g \in ToSet(q) : \E i \in 1 .. Len(q) : q[i] = g
    BY <1>1 DEF ToSet
  <2>3. \A i, j \in 1 .. Len(q) : q[i] = q[j] => i = j
    BY <1>1 DEF IsInjective
  <2> QED
    BY <2>1, <2>2, <2>3 DEF Bijection, Injection, Surjection, IsInjective
<1>4. IsFiniteSet(1 .. Len(q)) /\ Cardinality(1 .. Len(q)) = Len(q)
  BY <1>1, FS_Interval
<1>5. Cardinality(ToSet(q)) = Len(q)
  BY <1>3, <1>4, FS_Bijection DEF ExistsBijection
<1> QED
  BY <1>2, <1>5

LEMMA CardinalityOfAir == \A S : Air!Cardinality(S) = Cardinality(S)
  BY Zenon DEF Air!Cardinality, Cardinality

LEMMA RadioDoes ==
    ASSUME Air!ConstantsOK, RadioInv
    PROVE  RadioDelivers /\ Air!TypeOK
<1> USE DEF RadioInv
<1>1. /\ rxQueue \in Queue(Frames) /\ datagrams \in Queue(Frames) /\ out \in Queue(Nat)
      /\ rxQueue \in Seq(Frames) /\ datagrams \in Seq(Frames)
  BY DEF FramePlaces, Outgoing, Queue
<1>2. /\ Air!InSeq(rxQueue) = ToSet(rxQueue) /\ Cardinality(Air!InSeq(rxQueue)) = Len(rxQueue)
      /\ Air!InSeq(datagrams) = ToSet(datagrams)
      /\ Cardinality(Air!InSeq(datagrams)) = Len(datagrams)
      /\ Air!InSeq(out) = ToSet(out) /\ Cardinality(Air!InSeq(out)) = Len(out)
  BY <1>1, InSeqOfQueue
<1>3. /\ rxQueue # <<>> => Head(rxQueue) \in ToSet(rxQueue)
      /\ ToSet(rxQueue) \subseteq Frames /\ ToSet(datagrams) \subseteq Frames
      /\ Len(rxQueue) \in Nat
  BY <1>1, InQueue
<1>4. Air!OnePlace
  <2>1. place \in {"switch", "datagram", "event", "fire", "delete", "drop"} =>
            frame \notin unused \cup {rxBuf}
    BY <1>3 DEF Hand, Taken, FramePlaces
  <2>2. /\ Air!InSeq(rxQueue) \cap Air!InSeq(datagrams) = {}
        /\ ({rxBuf} \cup Air!InSeq(rxQueue) \cup Air!InSeq(datagrams)) \cap unused = {}
        /\ rxBuf \notin Air!InSeq(rxQueue) \cup Air!InSeq(datagrams)
        /\ packetptr \in {rxBuf, None}
    BY <1>2 DEF FramePlaces
  <2>3. /\ Air!Cardinality(Air!InSeq(rxQueue)) = Len(rxQueue)
        /\ Air!Cardinality(Air!InSeq(datagrams)) = Len(datagrams)
    BY <1>2, CardinalityOfAir, Zenon
  <2> QED
    BY <2>1, <2>2, <2>3, Zenon DEF Air!OnePlace
<1>5. Air!EachHandledOnce
  <2>1. Air!InHand = IF place \in Taken THEN <<current>> ELSE <<>>
    BY DEF Air!InHand, Taken
  <2>2. ~nested => heard = (passed \o Air!InHand) \o PacketsIn(rxQueue, content)
    BY <2>1 DEF Order
  <2> QED
    BY <2>2, Zenon DEF Air!EachHandledOnce, PacketsIn
<1>6. Air!DepthAgrees
  BY DEF Order, Air!DepthAgrees
<1>7. Air!SentOnce
  <2>1. 0 \notin ToSet(out)
    BY DEF Outgoing
  <2>2. Air!InSeq(out) \cup unsent \cup ({argument} \ {0}) = 1 .. sends
    BY <1>2 DEF Outgoing
  <2>3. Air!Cardinality(Air!InSeq(out)) = Len(out) /\ 0 \notin Air!InSeq(out)
    BY <1>2, <2>1, CardinalityOfAir, Zenon
  <2> QED
    BY <2>2, <2>3, Zenon DEF Air!SentOnce
<1>8. Air!TypeOK
  <2>1. ~nested => queueDepth \in 0 .. MAXIMUM_RX_BUFFERS /\ Len(rxQueue) <= MAXIMUM_RX_BUFFERS
    BY <1>3 DEF Order, Air!ConstantsOK
  <2>2. packetptr \in Frames \cup {None}
    BY DEF FramePlaces, RadioTypes
  <2> QED
    BY <1>2, <1>3, <2>1, <2>2, Zenon DEF RadioTypes, RadioFlags, Air!TypeOK
<1> QED
  BY <1>4, <1>5, <1>6, <1>7, <1>8 DEF RadioDelivers, Air!RadioDelivers

LEMMA RadioInvariance == PartsSpec => []RadioInv
<1>1. PartsInit => RadioInv
  BY RadioInit, PartsAssumption DEF PartsInit
<1> DEFINE v == <<part, vars, buttonVars, pwmVars, busVars, phoneVars, radioVars>>
<1>2. RadioInv /\ [PartsNext]_v => RadioInv'
  <2>1. UNCHANGED v => UNCHANGED radioVars
    OBVIOUS
  <2>2. PartsNext => UNCHANGED radioVars \/ Air!Next
    BY DEF PartsNext, Others
  <2> QED
    BY <2>1, <2>2, RadioStep, RadioStutter, PartsAssumption
<1> QED
  BY <1>1, <1>2, PTL DEF PartsSpec

\* Each frame has one owner, and what there is to send is in hand or goes out once, but for
\* the events that eventReceived swallowed (unsent).  Until an interrupt sends while a fiber is
\* in send() or recv() (nested), each packet that was queued is handled once and in order and
\* the depth that stops the receiver is the queue's.  For any frames and depth of the queue,
\* and any number of packets and sends.
THEOREM RadioHandsOver == PartsSpec => []RadioDelivers
<1>1. RadioInv => RadioDelivers
  BY RadioDoes, PartsAssumption
<1> QED
  BY <1>1, RadioInvariance, PTL

-----------------------------------------------------------------------------
(* The types of all parts, from their invariants and the heap's.           *)

LEMMA HeapInvariance == PartsSpec => []IInv
<1>1. PartsInit => IInv
  BY HeapInit DEF PartsInit
<1> DEFINE v == <<part, vars, buttonVars, pwmVars, busVars, phoneVars, radioVars>>
<1>2. IInv /\ [PartsNext]_v => IInv'
  <2>1. UNCHANGED v => UNCHANGED vars
    OBVIOUS
  <2>2. PartsNext => UNCHANGED vars \/ Next
    BY DEF PartsNext, Others
  <2> QED
    BY <2>1, <2>2, HeapStep
<1> QED
  BY <1>1, <1>2, PTL DEF PartsSpec

\* Every variable of every part keeps its type: what PartsTypeOK bounds stays within its
\* bounds, the depth of the radio's queue and the queue's length among them until an
\* interrupt sends while a fiber is in send() or recv() (nested).
THEOREM PartsTyped == PartsSpec => []PartsTypeOK
<1>1. IInv => TypeOK
  BY DEF IInv
<1>2. ButtonInv => Button!TypeOK
  BY DEF ButtonInv, ButtonTypes
<1>3. PwmInv => Pwm!TypeOK
  BY DEF PwmInv
<1>4. BusInv => Bus!TypeOK
  <2> SUFFICES ASSUME BusInv PROVE Bus!TypeOK
    OBVIOUS
  <2>1. sending.n \in Nat
    BY DEF BusInv, EventQueue, Event
  <2>2. prev <= Len(evt_queue) /\ Len(evt_queue) <= MAX_QUEUE_DEPTH + 1 /\ (tested => sending.n > 0)
    BY <2>1 DEF BusInv, EventQueue, Entering
  <2> QED
    BY <2>2 DEF BusInv, ListenersInv, ListenerTypes, Bus!TypeOK
<1>5. PhoneInv => Phone!TypeOK
  BY DEF PhoneInv, PhoneTypes
<1>6. RadioInv => Air!TypeOK
  BY RadioDoes, PartsAssumption
<1>7. IInv /\ ButtonInv /\ PwmInv /\ BusInv /\ PhoneInv /\ RadioInv => PartsTypeOK
  BY <1>1, <1>2, <1>3, <1>4, <1>5, <1>6 DEF PartsTypeOK
<1> QED
  BY <1>7, HeapInvariance, ButtonInvariance, PwmInvariance, BusInvariance, PhoneInvariance,
     RadioInvariance, PTL
=============================================================================
