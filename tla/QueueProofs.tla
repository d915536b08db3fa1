---------------------------- MODULE QueueProofs ----------------------------
(***************************************************************************)
(* What the operations on queues do, for all queues: who is in the queue   *)
(* that they leave, that nobody is in it twice, and in which order.        *)
(* OnlyIn is a recursive function; the facts about it rest on an induction *)
(* over sets of numbers (NatSetInduction).                                 *)
(***************************************************************************)
EXTENDS Queues, WellFoundedInduction, TLAPS

(* Induction, and the function that OnlyIn computes.                       *)

\* A set with 0 that has the successor of each of its numbers has them all.
LEMMA NatSetInduction ==
  ASSUME NEW S, 0 \in S, \A n \in Nat : n \in S => n + 1 \in S
  PROVE  Nat \subseteq S
<1> DEFINE T == Nat \ S
<1>1. SUFFICES ASSUME T # {} PROVE FALSE
  OBVIOUS
<1>2. IsWellFoundedOn(OpToRel(<, Nat), Nat)
  BY NatLessThanWellFounded
<1>3. PICK x \in T : \A y \in T : ~(<<y, x>> \in OpToRel(<, Nat))
  <2> HIDE DEF T
  <2> QED BY <1>1, <1>2, WFMin, T \subseteq Nat DEF T
<1>4. \A y \in T : ~(y < x)
  BY <1>3 DEF OpToRel
<1>5. x # 0 /\ x - 1 \in Nat /\ x - 1 < x
  OBVIOUS
<1>6. x - 1 \in S
  BY <1>4, <1>5
<1>7. (x - 1) + 1 \in S
  BY <1>5, <1>6
<1> QED
  BY <1>7

\* part is the function that OnlyIn chooses.
Parts(part, queue, S) ==
    part = [i \in 0 .. Len(queue) |->
               IF i = 0 THEN <<>>
               ELSE IF queue[i] \in S THEN Append(part[i - 1], queue[i]) ELSE part[i - 1]]

\* Up to n.
PartsTo(part, queue, S, n) ==
    part = [i \in 0 .. n |->
               IF i = 0 THEN <<>>
               ELSE IF queue[i] \in S THEN Append(part[i - 1], queue[i]) ELSE part[i - 1]]

\* There is such a function, built from 0 up to the length of the queue ...
LEMMA PartsExist ==
  ASSUME NEW queue, NEW S, Len(queue) \in Nat
  PROVE  \E part : Parts(part, queue, S)
<1> DEFINE I == {n \in Nat : \E part : PartsTo(part, queue, S, n)}
<1>1. 0 \in I
  <2>1. PartsTo([i \in 0 .. 0 |-> <<>>], queue, S, 0)
    BY DEF PartsTo
  <2> QED
    BY <2>1
<1>2. ASSUME NEW n \in Nat, n \in I PROVE n + 1 \in I
  <2>1. PICK part : PartsTo(part, queue, S, n)
    BY <1>2
  <2> DEFINE last == IF queue[n + 1] \in S THEN Append(part[n], queue[n + 1]) ELSE part[n]
             more == [i \in 0 .. n + 1 |-> IF i = n + 1 THEN last ELSE part[i]]
  <2>2. \A i \in 0 .. n : part[i] =
            IF i = 0 THEN <<>>
            ELSE IF queue[i] \in S THEN Append(part[i - 1], queue[i]) ELSE part[i - 1]
    BY <2>1 DEF PartsTo
  <2>3. ASSUME NEW i \in 0 .. n + 1
        PROVE  more[i] = IF i = 0 THEN <<>>
                         ELSE IF queue[i] \in S THEN Append(more[i - 1], queue[i])
                              ELSE more[i - 1]
    <3>1. CASE i = n + 1
      BY <3>1
    <3>2. CASE i # n + 1
      <4>1. i \in 0 .. n /\ (i # 0 => i - 1 \in 0 .. n)
        BY <3>2
      <4>2. more[i] = part[i] /\ (i # 0 => more[i - 1] = part[i - 1])
        BY <4>1
      <4> QED
        BY <2>2, <4>1, <4>2
    <3> QED
      BY <3>1, <3>2
  <2>4. PartsTo(more, queue, S, n + 1)
    BY <2>3 DEF PartsTo
  <2> QED
    BY <2>4
<1>3. Len(queue) \in I
  <2> HIDE DEF I
  <2> QED BY <1>1, <1>2, NatSetInduction
<1> QED
  BY <1>3 DEF Parts, PartsTo

\* ... and OnlyIn is its last value.
LEMMA OnlyInParts ==
  ASSUME NEW queue, NEW S, Len(queue) \in Nat
  PROVE  \E part : Parts(part, queue, S) /\ OnlyIn(queue, S) = part[Len(queue)]
<1>1. \E part : Parts(part, queue, S)
  BY PartsExist
<1> DEFINE p == CHOOSE part : Parts(part, queue, S)
<1>2. Parts(p, queue, S)
  BY <1>1
<1>3. OnlyIn(queue, S) = p[Len(queue)]
  BY DEF OnlyIn, Parts
<1> QED
  BY <1>2, <1>3

\* kept is what is in S of the first n places of queue: pos is where its elements come from.
Keeps(kept, queue, S, n, pos) ==
    /\ pos \in [1 .. Len(kept) -> 1 .. n]
    /\ \A k \in 1 .. Len(kept) : kept[k] = queue[pos[k]] /\ kept[k] \in S
    /\ \A k, l \in 1 .. Len(kept) : k < l => pos[k] < pos[l]
    /\ \A i \in 1 .. n : queue[i] \in S => \E k \in 1 .. Len(kept) : pos[k] = i

\* OnlyIn keeps exactly what is in S, and each element after those it came after.
LEMMA OnlyInKeeps ==
  ASSUME NEW A, NEW queue \in Seq(A), NEW S
  PROVE  /\ OnlyIn(queue, S) \in Seq(A)
         /\ \E pos : Keeps(OnlyIn(queue, S), queue, S, Len(queue), pos)
<1>0. Len(queue) \in Nat /\ \A i \in 1 .. Len(queue) : queue[i] \in A
  OBVIOUS
<1>1. PICK part : Parts(part, queue, S) /\ OnlyIn(queue, S) = part[Len(queue)]
  BY <1>0, OnlyInParts
<1>2. \A i \in 0 .. Len(queue) : part[i] =
          IF i = 0 THEN <<>>
          ELSE IF queue[i] \in S THEN Append(part[i - 1], queue[i]) ELSE part[i - 1]
  BY <1>1 DEF Parts
<1> DEFINE OK(n) == part[n] \in Seq(A) /\ \E pos : Keeps(part[n], queue, S, n, pos)
           I == {n \in Nat : n <= Len(queue) => OK(n)}
<1>3. 0 \in I
  <2>1. part[0] = <<>>
    BY <1>0, <1>2
  <2>2. Keeps(<<>>, queue, S, 0, [k \in 1 .. 0 |-> 0])
    BY DEF Keeps
  <2>3. part[0] \in Seq(A) /\ \E pos : Keeps(part[0], queue, S, 0, pos)
    BY <2>1, <2>2
  <2> QED
    BY <2>3
<1>4. ASSUME NEW n \in Nat, n \in I, n + 1 <= Len(queue)
      PROVE  OK(n + 1)
  <2>1. part[n] \in Seq(A) /\ \E pos : Keeps(part[n], queue, S, n, pos)
    BY <1>0, <1>4
  <2>2. PICK pos : Keeps(part[n], queue, S, n, pos)
    BY <2>1
  <2>3. part[n + 1] = IF queue[n + 1] \in S THEN Append(part[n], queue[n + 1]) ELSE part[n]
    <3>1. n + 1 \in 0 .. Len(queue) /\ n + 1 # 0 /\ (n + 1) - 1 = n
      BY <1>0, <1>4
    <3> QED
      BY <1>2, <3>1
  <2>4. CASE queue[n + 1] \notin S
    <3>1. Keeps(part[n], queue, S, n + 1, pos)
      BY <2>1, <2>2, <2>4 DEF Keeps
    <3> QED
      BY <2>1, <2>3, <2>4, <3>1
  <2>5. CASE queue[n + 1] \in S
    <3> DEFINE kept == Append(part[n], queue[n + 1])
               m == Len(part[n])
               more == [k \in 1 .. m + 1 |-> IF k = m + 1 THEN n + 1 ELSE pos[k]]
    <3>1. /\ kept \in Seq(A) /\ Len(kept) = m + 1 /\ m \in Nat
          /\ kept[m + 1] = queue[n + 1]
          /\ \A k \in 1 .. m : kept[k] = part[n][k]
      BY <1>0, <1>4, <2>1
    <3>2. pos \in [1 .. m -> 1 .. n]
      BY <2>2 DEF Keeps
    <3>3. more \in [1 .. m + 1 -> 1 .. n + 1]
      BY <3>1, <3>2
    <3>4. \A k \in 1 .. m + 1 : kept[k] = queue[more[k]] /\ kept[k] \in S
      BY <2>2, <2>5, <3>1, <3>2 DEF Keeps
    <3>5. \A k, l \in 1 .. m + 1 : k < l => more[k] < more[l]
      <4> TAKE k, l \in 1 .. m + 1
      <4> HAVE k < l
      <4>1. k \in 1 .. m /\ more[k] = pos[k] /\ pos[k] \in 1 .. n
        BY <3>1, <3>2
      <4>2. CASE l = m + 1
        BY <4>1, <4>2
      <4>3. CASE l # m + 1
        <5>1. l \in 1 .. m /\ more[l] = pos[l]
          BY <3>1, <4>3
        <5> QED
          BY <2>2, <4>1, <5>1 DEF Keeps
      <4> QED
        BY <4>2, <4>3
    <3>6. \A i \in 1 .. n + 1 : queue[i] \in S => \E k \in 1 .. m + 1 : more[k] = i
      <4> TAKE i \in 1 .. n + 1
      <4> HAVE queue[i] \in S
      <4>0. /\ m + 1 \in 1 .. m + 1 /\ more[m + 1] = n + 1
            /\ \A k \in 1 .. m : k \in 1 .. m + 1 /\ more[k] = pos[k]
        BY <3>1
      <4> HIDE DEF more
      <4>1. CASE i = n + 1
        BY <4>0, <4>1
      <4>2. CASE i # n + 1
        <5>1. \E k \in 1 .. m : pos[k] = i
          BY <2>2, <4>2 DEF Keeps
        <5> QED
          BY <4>0, <5>1
      <4> QED
        BY <4>1, <4>2
    <3>7. Keeps(kept, queue, S, n + 1, more)
      <4> HIDE DEF kept, more, m
      <4> QED BY <3>1, <3>3, <3>4, <3>5, <3>6 DEF Keeps
    <3> QED
      BY <2>3, <2>5, <3>1, <3>7
  <2> QED
    BY <2>4, <2>5
<1>5. Len(queue) \in I
  <2> HIDE DEF OK
  <2>1. \A n \in Nat : n \in I => n + 1 \in I
    BY <1>0, <1>4
  <2> HIDE DEF I
  <2> QED
    BY <1>0, <1>3, <2>1, NatSetInduction
<1> QED
  BY <1>0, <1>1, <1>5

-----------------------------------------------------------------------------
(* Queues: sequences in which nobody is twice.                             *)

\* g is in front of h.
Before(q, g, h) == \E i, j \in DOMAIN q : i < j /\ q[i] = g /\ q[j] = h

\* The places of a sequence and its elements.
LEMMA InQueue ==
  ASSUME NEW A, NEW q \in Seq(A)
  PROVE  /\ Len(q) \in Nat /\ DOMAIN q = 1 .. Len(q)
         /\ ToSet(q) \subseteq A
         /\ \A i \in 1 .. Len(q) : q[i] \in ToSet(q)
         /\ \A g \in ToSet(q) : \E i \in 1 .. Len(q) : q[i] = g
         /\ q # <<>> => Head(q) \in ToSet(q) /\ Head(q) = q[1] /\ 1 \in 1 .. Len(q)
         /\ q = <<>> <=> ToSet(q) = {}
<1>1. Len(q) \in Nat /\ DOMAIN q = 1 .. Len(q) /\ \A i \in 1 .. Len(q) : q[i] \in A
  OBVIOUS
<1>2. /\ \A i \in 1 .. Len(q) : q[i] \in ToSet(q)
      /\ \A g \in ToSet(q) : \E i \in 1 .. Len(q) : q[i] = g
  BY <1>1 DEF ToSet
<1>3. q # <<>> => Head(q) = q[1] /\ 1 \in 1 .. Len(q)
  BY <1>1
<1>4. q = <<>> => 1 .. Len(q) = {}
  BY <1>1
<1>5. q = <<>> <=> ToSet(q) = {}
  BY <1>2, <1>3, <1>4
<1> QED
  BY <1>1, <1>2, <1>3, <1>5

\* queue_fiber() of somebody who is not in the queue.
LEMMA AppendQueue ==
  ASSUME NEW A, NEW q \in Queue(A), NEW g \in A, g \notin ToSet(q)
  PROVE  Append(q, g) \in Queue(A) /\ ToSet(Append(q, g)) = ToSet(q) \cup {g}
<1>1. /\ q \in Seq(A) /\ Len(q) \in Nat /\ Append(q, g) \in Seq(A)
      /\ Len(Append(q, g)) = Len(q) + 1 /\ Append(q, g)[Len(q) + 1] = g
      /\ \A i \in 1 .. Len(q) : Append(q, g)[i] = q[i]
  BY DEF Queue
<1> DEFINE a == Append(q, g)
<1>2. DOMAIN a = 1 .. Len(q) + 1 /\ DOMAIN q = 1 .. Len(q)
  BY <1>1
<1> HIDE DEF a
<1>3. ToSet(a) = ToSet(q) \cup {g}
  <2>1. ASSUME NEW x \in ToSet(a) PROVE x \in ToSet(q) \cup {g}
    BY <1>1, <1>2 DEF ToSet, a
  <2>2. ASSUME NEW x \in ToSet(q) \cup {g} PROVE x \in ToSet(a)
    <3>1. CASE x = g
      BY <1>1, <1>2, <3>1 DEF ToSet, a
    <3>2. CASE x \in ToSet(q)
      <4>1. PICK i \in 1 .. Len(q) : q[i] = x
        BY <1>2, <3>2 DEF ToSet
      <4>2. i \in DOMAIN a /\ a[i] = x
        BY <1>1, <1>2, <4>1 DEF a
      <4> QED
        BY <4>2 DEF ToSet
    <3> QED
      BY <2>2, <3>1, <3>2
  <2> QED
    BY <2>1, <2>2
<1>4. IsInjective(a)
  <2> SUFFICES ASSUME NEW i \in DOMAIN a, NEW j \in DOMAIN a, a[i] = a[j]
               PROVE  i = j
    BY DEF IsInjective
  <2>1. \A k \in 1 .. Len(q) : q[k] # g
    BY <1>2 DEF ToSet
  <2>2. CASE i \in 1 .. Len(q) /\ j \in 1 .. Len(q)
    BY <1>1, <1>2, <2>2 DEF Queue, IsInjective, a
  <2>3. CASE i = Len(q) + 1 \/ j = Len(q) + 1
    BY <1>1, <1>2, <2>1, <2>3 DEF a
  <2> QED
    BY <1>1, <1>2, <2>2, <2>3
<1> QED
  BY <1>1, <1>3, <1>4 DEF Queue, a

\* The same of several, who are in a queue of their own.
LEMMA ConcatQueue ==
  ASSUME NEW A, NEW q \in Queue(A), NEW r \in Queue(A), ToSet(q) \cap ToSet(r) = {}
  PROVE  q \o r \in Queue(A) /\ ToSet(q \o r) = ToSet(q) \cup ToSet(r)
<1> DEFINE a == q \o r
<1>1. /\ q \in Seq(A) /\ r \in Seq(A) /\ a \in Seq(A)
      /\ Len(q) \in Nat /\ Len(r) \in Nat /\ Len(a) = Len(q) + Len(r)
      /\ \A i \in 1 .. Len(a) : a[i] = IF i <= Len(q) THEN q[i] ELSE r[i - Len(q)]
  BY DEF Queue
<1>2. /\ DOMAIN a = 1 .. Len(q) + Len(r)
      /\ DOMAIN q = 1 .. Len(q) /\ DOMAIN r = 1 .. Len(r)
  BY <1>1
<1> HIDE DEF a
<1>3. /\ \A i \in 1 .. Len(q) : i \in DOMAIN a /\ a[i] = q[i]
      /\ \A j \in 1 .. Len(r) : Len(q) + j \in DOMAIN a /\ a[Len(q) + j] = r[j]
  <2>1. \A i \in 1 .. Len(q) : i \in DOMAIN a /\ a[i] = q[i]
    BY <1>1, <1>2
  <2>2. ASSUME NEW j \in 1 .. Len(r)
        PROVE  Len(q) + j \in DOMAIN a /\ a[Len(q) + j] = r[j]
    <3>1. /\ Len(q) + j \in 1 .. Len(a) /\ ~(Len(q) + j <= Len(q))
          /\ (Len(q) + j) - Len(q) = j
      BY <1>1
    <3> QED
      BY <1>1, <1>2, <3>1
  <2> QED
    BY <2>1, <2>2
<1>4. ASSUME NEW i \in DOMAIN a
      PROVE  i \in 1 .. Len(q) \/ \E j \in 1 .. Len(r) : i = Len(q) + j
  <2>1. CASE i <= Len(q)
    BY <1>1, <1>2, <2>1
  <2>2. CASE i > Len(q)
    <3>1. i - Len(q) \in 1 .. Len(r) /\ i = Len(q) + (i - Len(q))
      BY <1>1, <1>2, <2>2
    <3> QED
      BY <3>1
  <2> QED
    BY <1>1, <1>2, <2>1, <2>2
<1>5. ToSet(a) = ToSet(q) \cup ToSet(r)
  <2>1. ASSUME NEW x \in ToSet(a) PROVE x \in ToSet(q) \cup ToSet(r)
    <3>1. PICK i \in DOMAIN a : a[i] = x
      BY DEF ToSet
    <3> QED
      BY <1>2, <1>3, <1>4, <3>1 DEF ToSet
  <2>2. ASSUME NEW x \in ToSet(q) \cup ToSet(r) PROVE x \in ToSet(a)
    <3>1. \/ \E i \in 1 .. Len(q) : q[i] = x
          \/ \E i \in 1 .. Len(r) : r[i] = x
      BY <1>2 DEF ToSet
    <3>2. \E i \in DOMAIN a : a[i] = x
      BY <1>3, <3>1
    <3> QED
      BY <3>2 DEF ToSet
  <2> QED
    BY <2>1, <2>2
<1>6. IsInjective(a)
  <2> SUFFICES ASSUME NEW i \in DOMAIN a, NEW j \in DOMAIN a, a[i] = a[j]
               PROVE  i = j
    BY DEF IsInjective
  <2>1. \A k \in 1 .. Len(q), l \in 1 .. Len(r) : q[k] # r[l]
    BY <1>2 DEF ToSet
  <2>2. CASE i \in 1 .. Len(q) /\ j \in 1 .. Len(q)
    BY <1>2, <1>3, <2>2 DEF Queue, IsInjective
  <2>3. ASSUME NEW k \in 1 .. Len(r), NEW l \in 1 .. Len(r), i = Len(q) + k, j = Len(q) + l
        PROVE  i = j
    BY <1>2, <1>3, <2>3 DEF Queue, IsInjective
  <2>4. CASE i \in 1 .. Len(q) /\ j \notin 1 .. Len(q)
    BY <1>3, <1>4, <2>1, <2>4
  <2>5. CASE i \notin 1 .. Len(q) /\ j \in 1 .. Len(q)
    BY <1>3, <1>4, <2>1, <2>5
  <2>6. CASE i \notin 1 .. Len(q) /\ j \notin 1 .. Len(q)
    BY <1>4, <2>3, <2>6
  <2> QED
    BY <2>2, <2>4, <2>5, <2>6
<1> QED
  BY <1>1, <1>5, <1>6 DEF Queue, a

\* Those of a queue who are in S form a queue, in the same order.
LEMMA OnlyInQueue ==
  ASSUME NEW A, NEW q \in Queue(A), NEW S
  PROVE  /\ OnlyIn(q, S) \in Queue(A)
         /\ ToSet(OnlyIn(q, S)) = ToSet(q) \cap S
         /\ \A g, h \in S : Before(OnlyIn(q, S), g, h) <=> Before(q, g, h)
<1> DEFINE r == OnlyIn(q, S)
<1>1. q \in Seq(A) /\ r \in Seq(A)
  BY OnlyInKeeps DEF Queue
<1>2. PICK pos : Keeps(r, q, S, Len(q), pos)
  BY <1>1, OnlyInKeeps
<1>3. /\ Len(q) \in Nat /\ DOMAIN q = 1 .. Len(q)
      /\ Len(r) \in Nat /\ DOMAIN r = 1 .. Len(r)
  BY <1>1
<1> HIDE DEF r
<1>4. /\ \A k \in 1 .. Len(r) : /\ pos[k] \in 1 .. Len(q)
                                /\ r[k] = q[pos[k]] /\ r[k] \in S
      /\ \A k, l \in 1 .. Len(r) : k < l => pos[k] < pos[l]
      /\ \A i \in 1 .. Len(q) : q[i] \in S => \E k \in 1 .. Len(r) : pos[k] = i
  BY <1>2 DEF Keeps
<1>5. ToSet(r) = ToSet(q) \cap S
  <2>1. ASSUME NEW x \in ToSet(r) PROVE x \in ToSet(q) \cap S
    BY <1>3, <1>4 DEF ToSet
  <2>2. ASSUME NEW x \in ToSet(q) \cap S PROVE x \in ToSet(r)
    <3>1. PICK i \in 1 .. Len(q) : q[i] = x
      BY <1>3 DEF ToSet
    <3>2. PICK k \in 1 .. Len(r) : pos[k] = i
      BY <1>4, <3>1
    <3> QED
      BY <1>3, <1>4, <3>1, <3>2 DEF ToSet
  <2> QED
    BY <2>1, <2>2
<1>6. \A i, j \in 1 .. Len(q) : q[i] = q[j] => i = j
  BY <1>3 DEF Queue, IsInjective
<1>7. \A k, l \in 1 .. Len(r) : pos[k] < pos[l] => k < l
  <2> TAKE k, l \in 1 .. Len(r)
  <2>1. k < l \/ k = l \/ l < k
    BY <1>3
  <2> QED
    BY <1>3, <1>4, <2>1
<1>8. IsInjective(r)
  <2> SUFFICES ASSUME NEW k \in 1 .. Len(r), NEW l \in 1 .. Len(r), r[k] = r[l]
               PROVE  k = l
    BY <1>3 DEF IsInjective
  <2>1. pos[k] = pos[l]
    BY <1>4, <1>6
  <2>2. k < l \/ k = l \/ l < k
    BY <1>3
  <2> QED
    BY <1>3, <1>4, <2>1, <2>2
<1>9. ASSUME NEW g \in S, NEW h \in S
      PROVE  Before(r, g, h) <=> Before(q, g, h)
  <2>1. ASSUME Before(r, g, h) PROVE Before(q, g, h)
    BY <1>3, <1>4, <2>1 DEF Before
  <2>2. ASSUME Before(q, g, h) PROVE Before(r, g, h)
    <3>1. PICK i \in 1 .. Len(q), j \in 1 .. Len(q) : i < j /\ q[i] = g /\ q[j] = h
      BY <1>3, <2>2 DEF Before
    <3>2. PICK k \in 1 .. Len(r), l \in 1 .. Len(r) : pos[k] = i /\ pos[l] = j
      BY <1>4, <3>1
    <3>3. k < l /\ r[k] = g /\ r[l] = h
      BY <1>4, <1>7, <3>1, <3>2
    <3> QED
      BY <1>3, <3>3 DEF Before
  <2> QED
    BY <2>1, <2>2
<1> QED
  BY <1>1, <1>5, <1>8, <1>9 DEF Queue, r

\* dequeue_fiber(): the others stay, in their order.
LEMMA WithoutQueue ==
  ASSUME NEW A, NEW q \in Queue(A), NEW g
  PROVE  /\ Without(q, g) \in Queue(A)
         /\ ToSet(Without(q, g)) = ToSet(q) \ {g}
         /\ \A h, k \in ToSet(q) \ {g} : Before(Without(q, g), h, k) <=> Before(q, h, k)
<1>1. /\ Without(q, g) \in Queue(A)
      /\ ToSet(Without(q, g)) = ToSet(q) \cap (ToSet(q) \ {g})
      /\ \A h, k \in ToSet(q) \ {g} : Before(Without(q, g), h, k) <=> Before(q, h, k)
  BY OnlyInQueue DEF Without
<1> QED
  BY <1>1

\* Queues of nobody and of one.
LEMMA ShortQueues ==
  ASSUME NEW A
  PROVE  /\ <<>> \in Queue(A) /\ ToSet(<<>>) = {}
         /\ \A g \in A : <<g>> \in Queue(A) /\ ToSet(<<g>>) = {g}
<1>1. <<>> \in Queue(A) /\ ToSet(<<>>) = {}
  BY DEF Queue, IsInjective, ToSet
<1>2. ASSUME NEW g \in A PROVE <<g>> \in Queue(A) /\ ToSet(<<g>>) = {g}
  <2>1. <<g>> \in Seq(A) /\ DOMAIN <<g>> = {1} /\ <<g>>[1] = g
    OBVIOUS
  <2> QED
    BY <2>1 DEF Queue, IsInjective, ToSet
<1> QED
  BY <1>1, <1>2

\* The first of a queue is in front of all others.
LEMMA HeadIsFirst ==
  ASSUME NEW A, NEW q \in Queue(A), q # <<>>
  PROVE  /\ Head(q) \in ToSet(q)
         /\ \A g \in ToSet(q) : g = Head(q) \/ Before(q, Head(q), g)
<1>1. /\ Len(q) \in Nat /\ DOMAIN q = 1 .. Len(q)
      /\ Head(q) \in ToSet(q) /\ Head(q) = q[1] /\ 1 \in 1 .. Len(q)
  BY InQueue DEF Queue
<1>2. ASSUME NEW g \in ToSet(q) PROVE g = Head(q) \/ Before(q, Head(q), g)
  <2>1. PICK i \in 1 .. Len(q) : q[i] = g
    BY InQueue DEF Queue
  <2>2. CASE i = 1
    BY <1>1, <2>1, <2>2
  <2>3. CASE i # 1
    <3>1. 1 < i
      BY <1>1, <2>3
    <3> QED
      BY <1>1, <2>1, <3>1 DEF Before
  <2> QED
    BY <2>2, <2>3
<1> QED
  BY <1>1, <1>2

\* Who comes after the one at place i is the next or comes after that.
LEMMA NextInQueue ==
  ASSUME NEW A, NEW q \in Queue(A), NEW i \in 1 .. Len(q), NEW g, Before(q, q[i], g)
  PROVE  /\ i < Len(q) /\ i + 1 \in 1 .. Len(q) /\ q[i + 1] # q[i]
         /\ g = q[i + 1] \/ Before(q, q[i + 1], g)
<1>1. Len(q) \in Nat /\ DOMAIN q = 1 .. Len(q)
  BY InQueue DEF Queue
<1>2. \A k, l \in 1 .. Len(q) : q[k] = q[l] => k = l
  BY <1>1 DEF Queue, IsInjective
<1>3. PICK k \in 1 .. Len(q), l \in 1 .. Len(q) : k < l /\ q[k] = q[i] /\ q[l] = g
  BY <1>1 DEF Before
<1>4. k = i
  BY <1>2, <1>3
<1>5. i < Len(q) /\ i + 1 \in 1 .. Len(q)
  BY <1>1, <1>3, <1>4
<1>6. q[i + 1] # q[i]
  BY <1>1, <1>2, <1>5
<1>7. l = i + 1 \/ i + 1 < l
  BY <1>1, <1>3, <1>4
<1>8. g = q[i + 1] \/ Before(q, q[i + 1], g)
  BY <1>1, <1>3, <1>5, <1>7 DEF Before
<1> QED
  BY <1>5, <1>6, <1>8
=============================================================================
