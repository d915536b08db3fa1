------------------------- MODULE FlashStorageProofs -------------------------
(***************************************************************************)
(* The store of FlashStorage, for every size of the page, all keys and     *)
(* values and any number of calls and resets: no word is programmed twice, *)
(* a key never shows another key's value, and the store is the map of      *)
(* KeyValueStore until a reset tears it.                                   *)
(***************************************************************************)
EXTENDS FlashStorage, TLAPS, FiniteSetTheorems, FunctionTheorems

Places == 1 .. Capacity

\* Nothing is written at place s.
Empty(page, s) == KeyAt(page, s) = Erased /\ ValAt(page, s) = Erased

\* Each word is erased or what belongs there.
PageOK(page) ==
    /\ page \in Pages
    /\ page[0] \in {Magic, Erased} /\ page[1] \in {Erased} \cup 0 .. Capacity
    /\ \A s \in Places : /\ KeyAt(page, s) \in Keys \cup {Erased}
                         /\ ValAt(page, s) \in Values \cup {Erased}

\* No key is there twice.
Unique(page) ==
    \A r, s \in Places : KeyAt(page, r) \in Keys /\ KeyAt(page, s) = KeyAt(page, r) => s = r

\* Every pair was put, and only a torn store has half a pair.
Known(page) ==
    \A s \in Places : KeyAt(page, s) \in Keys /\ ValAt(page, s) # Erased =>
        <<KeyAt(page, s), ValAt(page, s)>> \in history
Whole(page) ==
    \A s \in Places : KeyAt(page, s) \in Keys /\ ValAt(page, s) = Erased => torn

\* A place without a key among those that the size counts.
Keyed(page) == ~torn => \A s \in Places : s <= SizeOf(page) => KeyAt(page, s) \in Keys

\* The store page, unless it is being copied.
StoreOK ==
    /\ PageOK(store) /\ Unique(store) /\ Known(store) /\ Whole(store) /\ Keyed(store)
    /\ store[0] = Magic /\ store[1] = Erased => torn
    /\ \A s \in Places : s > SizeOf(store) => Empty(store, s)

CallOK ==
    /\ pc \in {"boot", "idle", "formatStore"} => op = None
    /\ pc \in {"look", "scan", "eraseStore"} => op \in Ops
    /\ pc \in {"idle", "look", "scan", "eraseStore"} => store[0] = Magic
    /\ pc \in {"look", "scan"} /\ op.kind = "put" => <<op.key, op.val>> \in history

\* The first place of the scratch page that is not yet used.
Top == IF op.kind = "remove" /\ found THEN i - 1 ELSE i

\* put() and remove() have copied the pairs before i, but for op's.
ScanPlace ==
    /\ n = SizeOf(store) /\ (i <= n + 1 \/ i = 1)
    /\ op.kind = "remove" => to = Top
ScanHeader ==
    IF found
    THEN /\ scratch[0] = Magic
         /\ scratch[1] = IF op.kind = "put" THEN n ELSE n - 1
         /\ \E r \in Places : r < i /\ KeyAt(store, r) = op.key
    ELSE /\ scratch[0] = Erased /\ scratch[1] = Erased
         /\ \A r \in Places : r < i => KeyAt(store, r) # op.key
ScanPairs ==
    /\ \A s \in Places : s >= Top => Empty(scratch, s)
    /\ \A s \in Places : s < Top => \E r \in Places : r < i /\ KeyAt(scratch, s) = KeyAt(store, r)
    /\ \A r \in Places : r < i /\ KeyAt(store, r) # op.key =>
          \E s \in Places : /\ s < Top /\ KeyAt(scratch, s) = KeyAt(store, r)
                            /\ ValAt(scratch, s) = ValAt(store, r)
    /\ op.kind = "put" /\ found =>
          \E s \in Places : s < Top /\ KeyAt(scratch, s) = op.key /\ ValAt(scratch, s) = op.val
    /\ op.kind = "remove" => \A s \in Places : s < Top => KeyAt(scratch, s) # op.key
ScanOK ==
    /\ ScanPlace /\ ScanHeader /\ ScanPairs
    /\ Unique(scratch) /\ Known(scratch) /\ Whole(scratch)

\* The scratch page is ready to be copied: what will be copied holds m pairs.
ReadyAt(m) ==
    /\ limit = 2 + 2 * m /\ scratch[1] <= m
    /\ \A s \in Places : s > scratch[1] /\ s <= m => Empty(scratch, s)
ReadyOK ==
    /\ Unique(scratch) /\ Known(scratch) /\ Whole(scratch) /\ Keyed(scratch)
    /\ scratch[0] = Magic /\ scratch[1] \in 0 .. Capacity
    /\ \E m \in 0 .. Capacity : ReadyAt(m)
    /\ op = None => scratch[1] = 0 /\ \A s \in Places : Empty(scratch, s)

FormatOK == store[0] # Magic /\ scratch[0] = Magic /\ scratch[1] = 0 /\ \A s \in Places : Empty(scratch, s)

\* The copy will have the effect of the call.
EffectOK ==
    ~torn => \A k \in Keys :
        get(scratch, k) = IF k # op.key THEN get(store, k)
                          ELSE IF op.kind = "put" THEN op.val ELSE None

CopyOK ==
    /\ j <= limit
    /\ \A w \in 0 .. Last : store[w] = IF w < j THEN scratch[w] ELSE Erased

IInv ==
    /\ TypeOK /\ CallOK /\ PageOK(scratch)
    /\ pc # "copy" => StoreOK
    /\ pc = "scan" => ScanOK
    /\ pc = "formatStore" => FormatOK
    /\ pc = "eraseStore" => ReadyOK /\ EffectOK
    /\ pc = "copy" => ReadyOK /\ CopyOK

-----------------------------------------------------------------------------
(* Words and pages.                                                        *)

LEMMA WordFacts ==
    /\ Erased # Magic /\ Erased # Corrupt /\ Magic # Corrupt
    /\ Erased \notin Keys /\ Erased \notin Values /\ Erased \notin Int
    /\ Corrupt \notin Keys /\ Corrupt \notin Values /\ Corrupt \notin Int
    /\ Magic \notin Keys /\ Magic \notin Values /\ Magic \notin Int
    /\ None \notin Keys /\ None \notin Values /\ None \notin Int /\ None # Erased
BY WordsAssumption

LEMMA PlaceFacts ==
    ASSUME NEW s \in Places
    PROVE  /\ s \in Nat /\ s >= 1 /\ s <= Capacity
           /\ 2 * s \in 0 .. Last /\ 2 * s + 1 \in 0 .. Last
<1>1. Capacity \in Nat
  BY CapacityAssumption
<1> QED
  BY <1>1 DEF Places, Last

\* Every word is one of the header or of a pair.
LEMMA WordIsSomewhere ==
    ASSUME NEW w \in 0 .. Last
    PROVE  w = 0 \/ w = 1 \/ \E s \in Places : w = 2 * s \/ w = 2 * s + 1
<1>1. Capacity \in Nat
  BY CapacityAssumption
<1>2. CASE w >= 2
  <2>1. PICK s \in Int : w = 2 * s \/ w = 2 * s + 1
    <3>1. w = 2 * (w \div 2) \/ w = 2 * (w \div 2) + 1
      OBVIOUS
    <3> QED
      BY <3>1
  <2>2. s \in Places
    BY <1>1, <1>2, <2>1 DEF Places, Last
  <2> QED
    BY <2>1, <2>2
<1> QED
  BY <1>2

LEMMA WrittenFacts ==
    ASSUME NEW page \in Pages, NEW w \in 0 .. Last, NEW v \in WordsOf, page[w] = Erased
    PROVE  /\ Written(page, w, v) \in Pages
           /\ Written(page, w, v)[w] = v
           /\ \A x \in 0 .. Last : x # w => Written(page, w, v)[x] = page[x]
<1>1. CASE v = Erased
  <2>1. Written(page, w, v) = page
    BY <1>1 DEF Written
  <2> QED
    BY <1>1, <2>1
<1>2. CASE v # Erased
  <2>1. Written(page, w, v) = [page EXCEPT ![w] = v]
    BY <1>2 DEF Written
  <2>2. page \in [0 .. Last -> WordsOf]
    BY DEF Pages
  <2>3. [page EXCEPT ![w] = v] \in [0 .. Last -> WordsOf]
    BY <2>2
  <2>4. /\ [page EXCEPT ![w] = v][w] = v
        /\ \A x \in 0 .. Last : x # w => [page EXCEPT ![w] = v][x] = page[x]
    BY <2>2
  <2> QED
    BY <2>1, <2>3, <2>4 DEF Pages
<1> QED
  BY <1>1, <1>2

LEMMA PairFacts ==
    ASSUME NEW page \in Pages, NEW slot \in Places, Empty(page, slot),
           NEW key \in WordsOf, NEW val \in WordsOf, NEW q, q = WithPair(page, slot, key, val)
    PROVE  /\ q \in Pages /\ q[0] = page[0] /\ q[1] = page[1]
           /\ KeyAt(q, slot) = key /\ ValAt(q, slot) = val
           /\ \A s \in Places : s # slot =>
                 KeyAt(q, s) = KeyAt(page, s) /\ ValAt(q, s) = ValAt(page, s)
<1> DEFINE one == Written(page, 2 * slot, key)
<1>1. 2 * slot \in 0 .. Last /\ 2 * slot + 1 \in 0 .. Last /\ slot \in Nat /\ slot >= 1
  BY PlaceFacts
<1>2. page[2 * slot] = Erased /\ page[2 * slot + 1] = Erased
  BY DEF Empty, KeyAt, ValAt
<1>3. /\ one \in Pages /\ one[2 * slot] = key
      /\ \A x \in 0 .. Last : x # 2 * slot => one[x] = page[x]
  <2>1. one = Written(page, 2 * slot, key)
    OBVIOUS
  <2> HIDE DEF one
  <2> QED
    BY <1>1, <1>2, <2>1, WrittenFacts
<1> HIDE DEF one
<1>4. one[2 * slot + 1] = Erased
  BY <1>1, <1>2, <1>3
<1>5. /\ q \in Pages /\ q[2 * slot + 1] = val
      /\ \A x \in 0 .. Last : x # 2 * slot + 1 => q[x] = one[x]
  <2> HIDE DEF one
  <2>1. q = Written(one, 2 * slot + 1, val)
    BY DEF WithPair, one
  <2> QED
    BY <1>1, <1>3, <1>4, <2>1, WrittenFacts
<1> HIDE DEF one
<1>6. 0 \in 0 .. Last /\ 1 \in 0 .. Last
  BY <1>1, CapacityAssumption DEF Last
<1>7. q[0] = page[0] /\ q[1] = page[1]
  BY <1>1, <1>3, <1>5, <1>6
<1>8. q[2 * slot] = key
  BY <1>1, <1>3, <1>5
<1>9. ASSUME NEW s \in Places, s # slot
      PROVE  q[2 * s] = page[2 * s] /\ q[2 * s + 1] = page[2 * s + 1]
  <2>1. 2 * s \in 0 .. Last /\ 2 * s + 1 \in 0 .. Last /\ s \in Nat
    BY PlaceFacts
  <2>2. 2 * s # 2 * slot /\ 2 * s # 2 * slot + 1 /\ 2 * s + 1 # 2 * slot /\ 2 * s + 1 # 2 * slot + 1
    BY <1>1, <1>9, <2>1
  <2> QED
    BY <1>3, <1>5, <2>1, <2>2
<1> QED
  BY <1>5, <1>7, <1>8, <1>9 DEF KeyAt, ValAt

LEMMA HeaderFacts ==
    ASSUME NEW page \in Pages, page[0] = Erased, page[1] = Erased, NEW size \in -1 .. Capacity,
           NEW q, q = WithHeader(page, size)
    PROVE  /\ q \in Pages /\ q[0] = Magic
           /\ q[1] = IF size < 0 THEN Erased ELSE size
           /\ \A s \in Places : KeyAt(q, s) = KeyAt(page, s) /\ ValAt(q, s) = ValAt(page, s)
<1> DEFINE one == Written(page, 0, Magic)
           v == IF size < 0 THEN Erased ELSE size
<1>1. Capacity \in Nat /\ 0 \in 0 .. Last /\ 1 \in 0 .. Last
  BY CapacityAssumption DEF Last
<1>2. /\ one \in Pages /\ one[0] = Magic
      /\ \A x \in 0 .. Last : x # 0 => one[x] = page[x]
  BY <1>1, WrittenFacts DEF WordsOf
<1>3. v \in WordsOf
  BY <1>1 DEF WordsOf
<1>4. one[1] = Erased
  BY <1>1, <1>2
<1>5. /\ q \in Pages /\ q[1] = v
      /\ \A x \in 0 .. Last : x # 1 => q[x] = one[x]
  <2>1. q = Written(one, 1, v)
    BY DEF WithHeader
  <2> HIDE DEF one, v
  <2> QED
    BY <1>1, <1>2, <1>3, <1>4, <2>1, WrittenFacts
<1> HIDE DEF one
<1>6. q[0] = Magic
  BY <1>1, <1>2, <1>5
<1>7. ASSUME NEW s \in Places
      PROVE  q[2 * s] = page[2 * s] /\ q[2 * s + 1] = page[2 * s + 1]
  <2>1. 2 * s \in 0 .. Last /\ 2 * s + 1 \in 0 .. Last /\ s \in Nat /\ s >= 1
    BY PlaceFacts
  <2>2. 2 * s # 0 /\ 2 * s # 1 /\ 2 * s + 1 # 0 /\ 2 * s + 1 # 1
    BY <2>1
  <2> QED
    BY <1>2, <1>5, <2>1, <2>2
<1> QED
  BY <1>5, <1>6, <1>7 DEF KeyAt, ValAt

LEMMA BlankFacts ==
    /\ Blank \in Pages /\ Blank[0] = Erased /\ Blank[1] = Erased
    /\ \A s \in Places : Empty(Blank, s)
    /\ SizeOf(Blank) = -1
<1>1. Capacity \in Nat /\ 0 \in 0 .. Last /\ 1 \in 0 .. Last
  BY CapacityAssumption DEF Last
<1>2. \A w \in 0 .. Last : Blank[w] = Erased
  BY DEF Blank
<1>3. Blank \in Pages
  BY DEF Blank, Pages, WordsOf
<1>4. \A s \in Places : Empty(Blank, s)
  <2> TAKE s \in Places
  <2>1. 2 * s \in 0 .. Last /\ 2 * s + 1 \in 0 .. Last
    BY PlaceFacts
  <2> QED
    BY <1>2, <2>1 DEF Empty, KeyAt, ValAt
<1> QED
  BY <1>1, <1>2, <1>3, <1>4 DEF SizeOf

\* A page of such words has no corrupt one.
LEMMA NoCorruptWord ==
    ASSUME NEW page, PageOK(page), NEW w \in 0 .. Last
    PROVE  page[w] # Corrupt
<1>1. PICK s \in Places : w = 0 \/ w = 1 \/ w = 2 * s \/ w = 2 * s + 1
  <2>1. Capacity \in Nat \ {0}
    BY CapacityAssumption
  <2>2. 1 \in Places
    BY <2>1 DEF Places
  <2> QED
    BY <2>2, WordIsSomewhere
<1> QED
  BY <1>1, WordFacts DEF PageOK, KeyAt, ValAt

LEMMA SizeFacts ==
    ASSUME NEW page, PageOK(page)
    PROVE  /\ SizeOf(page) \in -1 .. Capacity
           /\ page[1] = Erased => SizeOf(page) = -1
           /\ page[1] # Erased => SizeOf(page) = page[1] /\ page[1] \in 0 .. Capacity
<1>1. Capacity \in Nat
  BY CapacityAssumption
<1>2. page[1] \in {Erased} \cup 0 .. Capacity
  BY DEF PageOK
<1> QED
  BY <1>1, <1>2 DEF SizeOf

\* What get() finds in a page that has no key twice.
LEMMA GetFacts ==
    ASSUME NEW page, PageOK(page), Unique(page), NEW k \in Keys
    PROVE  /\ SizeOf(page) < 0 => get(page, k) = Zero
           /\ SizeOf(page) >= 0 /\ (\A s \in Places : s <= SizeOf(page) => KeyAt(page, s) # k)
                => get(page, k) = None
           /\ \A s \in Places : s <= SizeOf(page) /\ KeyAt(page, s) = k
                => get(page, k) = ValAt(page, s)
<1>1. SizeOf(page) \in Int /\ SizeOf(page) <= Capacity /\ Capacity \in Nat
  BY SizeFacts, CapacityAssumption
<1>2. Slots(page, k) = {s \in Places : s <= SizeOf(page) /\ KeyAt(page, s) = k}
  BY <1>1 DEF Slots, Places
<1>3. SizeOf(page) < 0 => get(page, k) = Zero
  BY DEF get
<1>4. ASSUME SizeOf(page) >= 0, \A s \in Places : s <= SizeOf(page) => KeyAt(page, s) # k
      PROVE  get(page, k) = None
  <2>1. Slots(page, k) = {}
    BY <1>2, <1>4
  <2>2. ~(SizeOf(page) < 0)
    BY <1>1, <1>4
  <2> QED
    BY <2>1, <2>2 DEF get
<1>5. ASSUME NEW s \in Places, s <= SizeOf(page), KeyAt(page, s) = k
      PROVE  get(page, k) = ValAt(page, s)
  <2>1. Slots(page, k) = {s}
    BY <1>2, <1>5 DEF Unique
  <2>2. ~(SizeOf(page) < 0)
    BY <1>1, <1>5, PlaceFacts
  <2>3. \A t \in Slots(page, k) : s <= t
    BY <2>1, PlaceFacts
  <2>4. (CHOOSE r \in Slots(page, k) : \A t \in Slots(page, k) : r <= t) = s
    BY <2>1, <2>3
  <2> QED
    BY <2>1, <2>2, <2>4 DEF get
<1> QED
  BY <1>3, <1>4, <1>5

\* A pair written behind the others, that is known and not there yet.
LEMMA AddedPair ==
    ASSUME NEW page, PageOK(page), Unique(page), Known(page), Whole(page),
           NEW slot \in Places, \A s \in Places : s >= slot => Empty(page, s),
           NEW key \in Keys \cup {Erased}, NEW val \in Values \cup {Erased},
           key \in Keys => \A s \in Places : s < slot => KeyAt(page, s) # key,
           key \in Keys /\ val # Erased => <<key, val>> \in history,
           key \in Keys /\ val = Erased => torn,
           NEW q, q = WithPair(page, slot, key, val)
    PROVE  /\ PageOK(q) /\ Unique(q) /\ Known(q) /\ Whole(q)
           /\ q[0] = page[0] /\ q[1] = page[1]
           /\ KeyAt(q, slot) = key /\ ValAt(q, slot) = val
           /\ \A s \in Places : s < slot =>
                 KeyAt(q, s) = KeyAt(page, s) /\ ValAt(q, s) = ValAt(page, s)
           /\ \A s \in Places : s > slot => Empty(q, s)
<1>1. page \in Pages /\ key \in WordsOf /\ val \in WordsOf /\ Empty(page, slot)
  BY PlaceFacts DEF PageOK, WordsOf
<1>2. /\ q \in Pages /\ q[0] = page[0] /\ q[1] = page[1]
      /\ KeyAt(q, slot) = key /\ ValAt(q, slot) = val
  BY <1>1, PairFacts
<1>3. \A s \in Places : s # slot =>
        KeyAt(q, s) = KeyAt(page, s) /\ ValAt(q, s) = ValAt(page, s)
  BY <1>1, PairFacts
<1>4. \A s \in Places : s < slot \/ s = slot \/ (s > slot /\ s >= slot /\ s # slot)
  BY PlaceFacts
<1>5. \A s \in Places : s < slot => s # slot
  BY PlaceFacts
<1>6. \A s \in Places : s > slot => s # slot /\ s >= slot
  BY PlaceFacts
<1>7. \A s \in Places : s > slot => Empty(q, s)
  BY <1>3, <1>6 DEF Empty
<1>8. PageOK(q)
  BY <1>2, <1>3 DEF PageOK
<1>9. Unique(q)
  <2>1. \A s \in Places : key \in Keys /\ s # slot => KeyAt(q, s) # key
    BY <1>3, <1>4, <1>7, WordFacts DEF Empty
  <2> QED
    BY <1>2, <1>3, <2>1 DEF Unique
<1>10. Known(q) /\ Whole(q)
  BY <1>2, <1>3 DEF Known, Whole
<1> QED
  BY <1>2, <1>3, <1>5, <1>7, <1>8, <1>9, <1>10

\* The header written before or between the pairs.
LEMMA AddedHeader ==
    ASSUME NEW page, PageOK(page), Unique(page), Known(page), Whole(page),
           page[0] = Erased, page[1] = Erased, NEW size \in -1 .. Capacity,
           NEW q, q = WithHeader(page, size)
    PROVE  /\ PageOK(q) /\ Unique(q) /\ Known(q) /\ Whole(q)
           /\ q[0] = Magic /\ q[1] = IF size < 0 THEN Erased ELSE size
           /\ \A s \in Places : KeyAt(q, s) = KeyAt(page, s) /\ ValAt(q, s) = ValAt(page, s)
<1>1. /\ q \in Pages /\ q[0] = Magic
      /\ q[1] = IF size < 0 THEN Erased ELSE size
      /\ \A s \in Places : KeyAt(q, s) = KeyAt(page, s) /\ ValAt(q, s) = ValAt(page, s)
  BY HeaderFacts DEF PageOK
<1>2. q[1] \in {Erased} \cup 0 .. Capacity
  BY <1>1, CapacityAssumption
<1>3. PageOK(q)
  BY <1>1, <1>2 DEF PageOK
<1>4. Unique(q) /\ Known(q) /\ Whole(q)
  BY <1>1 DEF Unique, Known, Whole
<1> QED
  BY <1>1, <1>3, <1>4

-----------------------------------------------------------------------------
(* Steps that leave the store page alone.                                  *)

LEMMA StoreKept ==
    ASSUME StoreOK, UNCHANGED <<store, torn>>, history \subseteq history'
    PROVE  StoreOK'
BY DEF StoreOK, PageOK, Unique, Known, Whole, Keyed, KeyAt, ValAt, SizeOf, Empty

\* Types of what a step leaves alone.
LEMMA NumberFacts ==
    /\ Capacity \in Nat /\ Capacity >= 1
    /\ Last = 2 * Capacity + 1 /\ 0 \in 0 .. Last /\ 1 \in 0 .. Last
    /\ MaxCalls \in Nat /\ MaxResets \in Nat
BY CapacityAssumption, BoundsAssumption DEF Last

LEMMA InitOK == Init => IInv
<1> SUFFICES ASSUME Init PROVE IInv
  OBVIOUS
<1>1. PageOK(Blank) /\ Unique(Blank) /\ Known(Blank) /\ Whole(Blank) /\ Keyed(Blank)
  BY BlankFacts, WordFacts, NumberFacts, PlaceFacts
     DEF PageOK, Unique, Known, Whole, Keyed, Empty, Places
<1>2. TypeOK
  <2>1. /\ 0 \in -1 .. Capacity /\ 1 \in 1 .. Capacity + 1 /\ 0 \in 0 .. Last + 1
        /\ 0 \in 0 .. MaxCalls /\ 0 \in 0 .. MaxResets
    BY NumberFacts
  <2> QED
    BY <2>1, BlankFacts DEF Init, TypeOK, PCs
<1>3. StoreOK
  BY <1>1, BlankFacts, WordFacts DEF Init, StoreOK
<1>4. CallOK
  BY DEF Init, CallOK
<1> QED
  BY <1>1, <1>2, <1>3, <1>4 DEF Init, IInv

LEMMA BootKnownOK ==
    ASSUME IInv, BootKnown
    PROVE  IInv'
<1>1. StoreOK'
  BY StoreKept DEF IInv, BootKnown, flash, bounds
<1>2. TypeOK'
  BY DEF IInv, TypeOK, BootKnown, PCs, flash, locals, bounds
<1>3. CallOK'
  BY DEF IInv, CallOK, BootKnown, flash, locals, bounds
<1>4. PageOK(scratch)'
  BY DEF IInv, BootKnown, PageOK, KeyAt, ValAt, flash
<1> QED
  BY <1>1, <1>2, <1>3, <1>4 DEF IInv, BootKnown

LEMMA BootFormatOK ==
    ASSUME IInv, BootFormat
    PROVE  IInv'
<1>1. StoreOK'
  BY StoreKept DEF IInv, BootFormat, bounds
<1>2. /\ scratch' \in Pages /\ scratch'[0] = Magic /\ scratch'[1] = 0
      /\ \A s \in Places : KeyAt(scratch', s) = Erased /\ ValAt(scratch', s) = Erased
  <2>1. 0 \in -1 .. Capacity
    BY NumberFacts
  <2> QED
    BY <2>1, BlankFacts, HeaderFacts DEF BootFormat, Empty
<1>3. TypeOK'
  BY <1>2 DEF IInv, TypeOK, BootFormat, PCs, locals, bounds
<1>4. CallOK'
  BY DEF IInv, CallOK, BootFormat, locals, bounds
<1>5. PageOK(scratch)'
  BY <1>2, NumberFacts DEF PageOK, KeyAt, ValAt
<1>6. FormatOK'
  BY <1>2 DEF FormatOK, Empty, KeyAt, ValAt, BootFormat
<1> QED
  BY <1>1, <1>3, <1>4, <1>5, <1>6 DEF IInv, BootFormat

LEMMA PutOK ==
    ASSUME IInv, NEW k \in Keys, NEW v \in Values, put(k, v)
    PROVE  IInv'
<1>1. op' \in Ops /\ op'.key = k /\ op'.val = v
  BY DEF put, Ops
<1>2. TypeOK'
  <2>1. calls' \in 0 .. MaxCalls
    BY NumberFacts DEF IInv, TypeOK, put
  <2>2. history' \subseteq Keys \X Values
    BY DEF IInv, TypeOK, put
  <2> QED
    BY <1>1, <2>1, <2>2 DEF IInv, TypeOK, PCs, put, flash
<1>3. CallOK'
  <2>1. <<op'.key, op'.val>> \in history'
    BY <1>1 DEF put
  <2> QED
    BY <1>1, <2>1 DEF IInv, CallOK, put, flash
<1>4. StoreOK'
  <2>1. history \subseteq history'
    BY DEF put
  <2> QED
    BY <2>1, StoreKept DEF IInv, put, flash
<1>5. PageOK(scratch)'
  BY DEF IInv, put, PageOK, KeyAt, ValAt, flash
<1> QED
  BY <1>2, <1>3, <1>4, <1>5 DEF IInv, put

LEMMA RemoveOK ==
    ASSUME IInv, NEW k \in Keys, remove(k)
    PROVE  IInv'
<1>1. op' \in Ops /\ op'.kind = "remove"
  BY WordsAssumption DEF remove, Ops
<1>2. TypeOK'
  <2>1. calls' \in 0 .. MaxCalls
    BY NumberFacts DEF IInv, TypeOK, remove
  <2> QED
    BY <1>1, <2>1 DEF IInv, TypeOK, PCs, remove, flash
<1>3. CallOK'
  BY <1>1 DEF IInv, CallOK, remove, flash
<1>4. StoreOK'
  BY StoreKept DEF IInv, remove, flash
<1>5. PageOK(scratch)'
  BY DEF IInv, remove, PageOK, KeyAt, ValAt, flash
<1> QED
  BY <1>2, <1>3, <1>4, <1>5 DEF IInv, remove

LEMMA NothingToDoOK ==
    ASSUME IInv, NothingToDo
    PROVE  IInv'
<1>1. TypeOK'
  BY DEF IInv, TypeOK, PCs, NothingToDo, Return, flash, bounds
<1>2. CallOK'
  BY DEF IInv, CallOK, NothingToDo, Return, flash
<1>3. StoreOK'
  BY StoreKept DEF IInv, NothingToDo, Return, flash
<1>4. PageOK(scratch)'
  BY DEF IInv, NothingToDo, PageOK, KeyAt, ValAt, flash
<1> QED
  BY <1>1, <1>2, <1>3, <1>4 DEF IInv, NothingToDo, Return

-----------------------------------------------------------------------------
(* The loop that builds the scratch page.                                  *)

LEMMA EraseScratchOK ==
    ASSUME IInv, EraseScratch
    PROVE  IInv'
<1>1. /\ scratch' = Blank /\ n' = SizeOf(store) /\ i' = 1 /\ to' = 1 /\ found' = FALSE
      /\ pc' = "scan" /\ UNCHANGED <<store, op, history, torn>>
  BY DEF EraseScratch, FreshScratch, bounds
<1>2. StoreOK /\ op \in Ops /\ store[0] = Magic
  BY DEF IInv, EraseScratch, CallOK
<1>3. TypeOK'
  <2>1. n' \in -1 .. Capacity
    BY <1>1, <1>2, SizeFacts DEF StoreOK
  <2>2. i' \in 1 .. Capacity + 1 /\ to' \in 1 .. Capacity + 1
    BY <1>1, NumberFacts
  <2> QED
    BY <1>1, <1>2, <2>1, <2>2, BlankFacts DEF IInv, TypeOK, PCs, EraseScratch, bounds
<1>4. CallOK'
  BY <1>1, <1>2 DEF IInv, CallOK, EraseScratch
<1>5. StoreOK'
  BY <1>1, <1>2, StoreKept
<1>6. PageOK(scratch)' /\ ScanOK'
  <2>1. PageOK(Blank)
    BY BlankFacts DEF PageOK, Empty
  <2>2. Unique(Blank) /\ Known(scratch)' /\ Whole(scratch)'
    BY <1>1, BlankFacts, WordFacts DEF Unique, Known, Whole, Empty, KeyAt, ValAt
  <2>3. \A s \in Places : ~(s < 1)
    BY PlaceFacts
  <2>4. Top' = 1
    BY <1>1 DEF Top
  <2>5. ScanPlace'
    BY <1>1, <2>4 DEF ScanPlace, SizeOf
  <2>6. ScanHeader'
    BY <1>1, <2>3, BlankFacts DEF ScanHeader, KeyAt
  <2>7. ScanPairs'
    BY <1>1, <2>3, <2>4, BlankFacts DEF ScanPairs, KeyAt, ValAt, Empty
  <2>8. PageOK(scratch)' /\ Unique(scratch)'
    BY <1>1, <2>1, <2>2 DEF PageOK, Unique, KeyAt, ValAt
  <2> QED
    BY <2>2, <2>5, <2>6, <2>7, <2>8 DEF ScanOK
<1> QED
  BY <1>1, <1>3, <1>4, <1>5, <1>6 DEF IInv

\* What put() and remove() know of the pair they look at.
LEMMA ScanFacts ==
    ASSUME IInv, pc = "scan", i <= n
    PROVE  /\ StoreOK /\ ScanOK /\ PageOK(scratch) /\ op \in Ops /\ n \in 1 .. Capacity
           /\ n = SizeOf(store) /\ i \in Places /\ i \in Nat /\ Top \in Places /\ Top <= i
           /\ Top \in Nat /\ Top >= i - 1
           /\ KeyAt(store, i) \in Keys \cup {Erased} /\ ValAt(store, i) \in Values \cup {Erased}
           /\ (KeyAt(store, i) = op.key => ~found)
           /\ (op.kind = "put" \/ ~found) => Top = i
           /\ (op.kind = "remove" /\ found) => Top = i - 1
<1>1. StoreOK /\ ScanOK /\ PageOK(scratch) /\ op \in Ops
  BY DEF IInv, CallOK
<1>2. n \in Int /\ n <= Capacity /\ i \in Nat /\ i >= 1
  BY NumberFacts DEF IInv, TypeOK
<1>3. n \in 1 .. Capacity /\ i \in Places
  BY <1>2, NumberFacts DEF Places
<1>4. ASSUME found
      PROVE  i - 1 \in Places /\ KeyAt(store, i) # op.key
  <2>1. PICK r \in Places : r < i /\ KeyAt(store, r) = op.key
    BY <1>1, <1>4 DEF ScanOK, ScanHeader
  <2>2. i - 1 \in Places /\ r # i
    <3>1. r \in Nat /\ r >= 1 /\ r < i
      BY <2>1, PlaceFacts
    <3>2. Capacity \in Nat /\ i <= Capacity
      BY <1>3, PlaceFacts, NumberFacts
    <3> QED
      BY <1>2, <3>1, <3>2 DEF Places
  <2>3. KeyAt(store, i) # op.key
    <3>1. op.key \in Keys
      BY <1>1 DEF Ops
    <3> QED
      BY <1>1, <1>3, <2>1, <2>2, <3>1 DEF StoreOK, Unique
  <2> QED
    BY <2>2, <2>3
<1>5. op.kind \in {"put", "remove"} /\ op.key \in Keys
  BY <1>1 DEF Ops
<1>6. /\ (op.kind = "put" \/ ~found) => Top = i
      /\ (op.kind = "remove" /\ found) => Top = i - 1
  BY DEF Top
<1>7. Top \in Places /\ Top <= i /\ Top \in Nat /\ Top >= i - 1
  <2>1. CASE Top = i
    BY <1>2, <1>3, <2>1
  <2>2. CASE found /\ Top = i - 1
    BY <1>2, <1>4, <2>2 DEF Places
  <2> QED
    BY <1>5, <1>6, <2>1, <2>2
<1>8. KeyAt(store, i) \in Keys \cup {Erased} /\ ValAt(store, i) \in Values \cup {Erased}
  BY <1>1, <1>3 DEF StoreOK, PageOK
<1>9. n = SizeOf(store)
  BY <1>1 DEF ScanOK, ScanPlace
<1> QED
  BY <1>1, <1>2, <1>3, <1>4, <1>6, <1>7, <1>8, <1>9

LEMMA NextPlace ==
    ASSUME NEW m \in Nat, NEW a \in Nat, a >= 1, a <= m, NEW b, b = a \/ b = a + 1
    PROVE  b \in 1 .. m + 1
OBVIOUS

\* What the loop's steps have in common.
LEMMA ScanStep ==
    ASSUME IInv, pc = "scan", i <= n,
           UNCHANGED <<store, pc, op, n, j, limit, bounds, history, torn>>,
           i' = i + 1, to' = to \/ (op.kind = "remove" /\ to' = to + 1), found' \in BOOLEAN,
           PageOK(scratch'), ScanHeader', ScanPairs', op.kind = "remove" => to' = Top',
           Unique(scratch'), Known(scratch'), Whole(scratch')
    PROVE  IInv'
<1>1. /\ StoreOK /\ ScanOK /\ op \in Ops /\ n \in 1 .. Capacity /\ i \in Nat /\ i >= 1
      /\ n = SizeOf(store) /\ Top \in Nat /\ Top <= i
  BY ScanFacts, PlaceFacts
<1>2. TypeOK'
  <2>1. i' \in 1 .. Capacity + 1
    BY <1>1, NumberFacts
  <2>2. to' \in 1 .. Capacity + 1
    <3>1. to \in Nat /\ to >= 1 /\ to <= Capacity + 1
      BY NumberFacts DEF IInv, TypeOK
    <3>2. CASE op.kind = "remove"
      <4>1. to <= n /\ n <= Capacity
        <5>1. to = Top
          BY <1>1, <3>2 DEF ScanOK, ScanPlace
        <5> QED
          BY <1>1, <3>1, <5>1, NumberFacts
      <4>2. to' = to \/ to' = to + 1
        OBVIOUS
      <4>3. Capacity \in Nat /\ to <= Capacity
        BY <1>1, <3>1, <4>1, NumberFacts
      <4> QED
        BY <3>1, <4>2, <4>3, NextPlace
    <3>3. CASE op.kind # "remove"
      BY <3>1, <3>3, NumberFacts
    <3> QED
      BY <3>2, <3>3
  <2>3. scratch' \in Pages
    BY DEF PageOK
  <2> QED
    BY <2>1, <2>2, <2>3 DEF IInv, TypeOK, bounds
<1>3. CallOK'
  BY DEF IInv, CallOK
<1>4. StoreOK'
  BY <1>1, StoreKept
<1>5. ScanPlace'
  <2>1. i' <= n' + 1
    BY <1>1
  <2> QED
    BY <1>1, <2>1 DEF ScanPlace, SizeOf
<1>6. PageOK(scratch)' /\ Unique(scratch)' /\ Known(scratch)' /\ Whole(scratch)'
  BY DEF PageOK, Unique, Known, Whole, KeyAt, ValAt
<1> QED
  BY <1>2, <1>3, <1>4, <1>5, <1>6 DEF IInv, ScanOK

LEMMA ScanPutFound ==
    ASSUME IInv, ScanPut, Matches, found',
           scratch' = WithPair(WithHeader(scratch, n), i, op.key, op.val)
    PROVE  IInv'
<1>1. /\ StoreOK /\ ScanOK /\ PageOK(scratch) /\ op \in Ops /\ n \in 1 .. Capacity
      /\ i \in Places /\ i \in Nat /\ ~found /\ Top = i
  BY ScanFacts DEF ScanPut, Matches
<1>2. op.key \in Keys /\ op.val \in Values /\ op.kind = "put" /\ <<op.key, op.val>> \in history
  BY <1>1 DEF IInv, CallOK, ScanPut, Ops
<1> DEFINE h == WithHeader(scratch, n)
<1>3. /\ PageOK(h) /\ Unique(h) /\ Known(h) /\ Whole(h) /\ h[0] = Magic /\ h[1] = n
      /\ \A s \in Places : KeyAt(h, s) = KeyAt(scratch, s) /\ ValAt(h, s) = ValAt(scratch, s)
  <2>1. scratch[0] = Erased /\ scratch[1] = Erased /\ Unique(scratch) /\ Known(scratch) /\ Whole(scratch)
    BY <1>1 DEF ScanOK, ScanHeader
  <2>2. n \in -1 .. Capacity /\ ~(n < 0)
    BY <1>1, NumberFacts
  <2>3. h = WithHeader(scratch, n)
    OBVIOUS
  <2> HIDE DEF h
  <2> QED
    BY <1>1, <2>1, <2>2, <2>3, AddedHeader
<1>4. scratch' = WithPair(h, i, op.key, op.val)
  OBVIOUS
<1> HIDE DEF h
<1>5. \A s \in Places : s < i => KeyAt(scratch, s) # op.key
  BY <1>1 DEF ScanOK, ScanHeader, ScanPairs
<1>6. \A s \in Places : s >= i => Empty(h, s)
  BY <1>1, <1>3 DEF ScanOK, ScanPairs, Empty
<1>7. /\ PageOK(scratch') /\ Unique(scratch') /\ Known(scratch') /\ Whole(scratch')
      /\ scratch'[0] = Magic /\ scratch'[1] = n
      /\ KeyAt(scratch', i) = op.key /\ ValAt(scratch', i) = op.val
      /\ \A s \in Places : s < i =>
            KeyAt(scratch', s) = KeyAt(scratch, s) /\ ValAt(scratch', s) = ValAt(scratch, s)
      /\ \A s \in Places : s > i => Empty(scratch', s)
  <2>1. op.key \in Keys \cup {Erased} /\ op.val \in Values \cup {Erased} /\ op.val # Erased
    BY <1>2, WordFacts
  <2>2. op.key \in Keys => \A s \in Places : s < i => KeyAt(h, s) # op.key
    BY <1>3, <1>5
  <2> QED
    BY <1>1, <1>2, <1>3, <1>4, <1>6, <2>1, <2>2, AddedPair
<1>8. i' = i + 1 /\ op' = op /\ n' = n /\ store' = store /\ Top' = i + 1 /\ KeyAt(store, i) = op.key
  BY <1>2 DEF ScanPut, Top, Matches
<1>9. \A s \in Places : (s < i + 1 <=> s < i \/ s = i) /\ (s >= i + 1 <=> s > i)
  BY <1>1, PlaceFacts
<1>10. ScanHeader'
  <2>1. \E r \in Places : r < i' /\ KeyAt(store, r) = op.key
    BY <1>1, <1>8, <1>9
  <2> QED
    BY <1>2, <1>7, <1>8, <2>1 DEF ScanHeader, KeyAt
<1>11. ScanPairs'
  <2>1. \A s \in Places : s >= i + 1 => Empty(scratch', s)
    BY <1>7, <1>9
  <2>2. \A s \in Places : s < i + 1 =>
          \E r \in Places : r < i + 1 /\ KeyAt(scratch', s) = KeyAt(store, r)
    BY <1>1, <1>7, <1>8, <1>9 DEF ScanOK, ScanPairs
  <2>3. \A r \in Places : r < i + 1 /\ KeyAt(store, r) # op.key =>
          \E s \in Places : /\ s < i + 1 /\ KeyAt(scratch', s) = KeyAt(store, r)
                            /\ ValAt(scratch', s) = ValAt(store, r)
    BY <1>1, <1>7, <1>8, <1>9 DEF ScanOK, ScanPairs
  <2>4. \E s \in Places : s < i + 1 /\ KeyAt(scratch', s) = op.key /\ ValAt(scratch', s) = op.val
    BY <1>1, <1>7, <1>9
  <2>5. op'.kind # "remove"
    BY <1>2, <1>8
  <2> QED
    BY <1>8, <2>1, <2>2, <2>3, <2>4, <2>5 DEF ScanPairs, KeyAt, ValAt, Empty
<1> QED
  <2>1. UNCHANGED <<store, pc, op, n, to, j, limit, bounds, history, torn>> /\ pc = "scan" /\ i <= n
    BY DEF ScanPut
  <2> QED
    BY <1>2, <1>7, <1>8, <1>10, <1>11, <2>1, ScanStep

LEMMA ScanMoved ==
    ASSUME IInv, pc = "scan", i <= n, ~Matches, found' = found,
           UNCHANGED <<store, pc, op, n, j, limit, bounds, history, torn>>,
           i' = i + 1, op.kind = "remove" => to' = to + 1, op.kind = "put" => to' = to,
           scratch' = Moved(Top)
    PROVE  IInv'
<1>1. /\ StoreOK /\ ScanOK /\ PageOK(scratch) /\ op \in Ops /\ n \in 1 .. Capacity
      /\ i \in Places /\ i \in Nat /\ Top \in Places /\ Top \in Nat
      /\ KeyAt(store, i) \in Keys \cup {Erased} /\ ValAt(store, i) \in Values \cup {Erased}
  BY ScanFacts
<1>2. op.key \in Keys /\ op.val \in Values /\ op.kind \in {"put", "remove"}
  BY <1>1 DEF Ops
<1>3. scratch' = WithPair(scratch, Top, KeyAt(store, i), ValAt(store, i)) /\ KeyAt(store, i) # op.key
  BY DEF Moved, Matches
<1>4. /\ Unique(store) /\ Known(store) /\ Whole(store)
      /\ Unique(scratch) /\ Known(scratch) /\ Whole(scratch) /\ ScanPairs /\ ScanHeader /\ ScanPlace
  BY <1>1 DEF StoreOK, ScanOK
<1>5. \A s \in Places : (s < i + 1 <=> s < i \/ s = i) /\ (s < i => s # i)
  BY <1>1, PlaceFacts
<1>6. \A s \in Places : (s < Top + 1 <=> s < Top \/ s = Top) /\ (s >= Top + 1 <=> s > Top)
  BY <1>1, PlaceFacts
<1>7. /\ PageOK(scratch') /\ Unique(scratch') /\ Known(scratch') /\ Whole(scratch')
      /\ scratch'[0] = scratch[0] /\ scratch'[1] = scratch[1]
      /\ KeyAt(scratch', Top) = KeyAt(store, i) /\ ValAt(scratch', Top) = ValAt(store, i)
      /\ \A s \in Places : s < Top =>
            KeyAt(scratch', s) = KeyAt(scratch, s) /\ ValAt(scratch', s) = ValAt(scratch, s)
      /\ \A s \in Places : s > Top => Empty(scratch', s)
  <2>1. \A s \in Places : s >= Top => Empty(scratch, s)
    BY <1>4 DEF ScanPairs
  <2>2. KeyAt(store, i) \in Keys => \A s \in Places : s < Top => KeyAt(scratch, s) # KeyAt(store, i)
    BY <1>1, <1>4, <1>5 DEF ScanPairs, Unique
  <2>3. /\ KeyAt(store, i) \in Keys /\ ValAt(store, i) # Erased => <<KeyAt(store, i), ValAt(store, i)>> \in history
        /\ KeyAt(store, i) \in Keys /\ ValAt(store, i) = Erased => torn
    BY <1>1, <1>4 DEF Known, Whole
  <2> QED
    BY <1>1, <1>3, <1>4, <2>1, <2>2, <2>3, AddedPair
<1>8. Top' = Top + 1
  <2>1. (op.kind = "put" \/ ~found) => Top = i
    BY <1>2 DEF Top
  <2>2. (op.kind = "remove" /\ found) => Top = i - 1
    BY DEF Top
  <2>3. (op.kind = "remove" /\ found) => Top' = i' - 1
    BY DEF Top
  <2>4. ~(op.kind = "remove" /\ found) => Top' = i'
    BY DEF Top
  <2>5. CASE op.kind = "remove" /\ found
    <3>1. Top = i - 1 /\ Top' = i' - 1 /\ i' = i + 1
      BY <2>2, <2>3, <2>5
    <3> QED
      BY <1>1, <3>1
  <2>6. CASE ~(op.kind = "remove" /\ found)
    BY <1>2, <2>1, <2>4, <2>6
  <2> QED
    BY <2>5, <2>6
<1>9. ScanHeader'
  <2>1. CASE found
    <3>1. \E r \in Places : r < i' /\ KeyAt(store, r) = op.key
      BY <1>4, <1>5, <2>1 DEF ScanHeader
    <3>2. scratch[0] = Magic /\ scratch[1] = IF op.kind = "put" THEN n ELSE n - 1
      BY <1>4, <2>1 DEF ScanHeader
    <3> QED
      BY <1>7, <2>1, <3>1, <3>2 DEF ScanHeader, KeyAt
  <2>2. CASE ~found
    <3>1. \A r \in Places : r < i + 1 => KeyAt(store, r) # op.key
      BY <1>3, <1>4, <1>5, <2>2 DEF ScanHeader
    <3>2. scratch[0] = Erased /\ scratch[1] = Erased
      BY <1>4, <2>2 DEF ScanHeader
    <3> QED
      BY <1>7, <2>2, <3>1, <3>2 DEF ScanHeader, KeyAt
  <2> QED
    BY <2>1, <2>2
<1>10. ScanPairs'
  <2>1. \A s \in Places : s >= Top + 1 => Empty(scratch', s)
    BY <1>6, <1>7
  <2>2. \A s \in Places : s < Top + 1 =>
          \E r \in Places : r < i + 1 /\ KeyAt(scratch', s) = KeyAt(store, r)
    BY <1>1, <1>4, <1>5, <1>6, <1>7 DEF ScanPairs
  <2>3. \A r \in Places : r < i + 1 /\ KeyAt(store, r) # op.key =>
          \E s \in Places : /\ s < Top + 1 /\ KeyAt(scratch', s) = KeyAt(store, r)
                            /\ ValAt(scratch', s) = ValAt(store, r)
    <3> TAKE r \in Places
    <3> HAVE r < i + 1 /\ KeyAt(store, r) # op.key
    <3>1. CASE r = i
      BY <1>1, <1>6, <1>7, <3>1
    <3>2. CASE r < i
      <4>1. PICK s \in Places : /\ s < Top /\ KeyAt(scratch, s) = KeyAt(store, r)
                                /\ ValAt(scratch, s) = ValAt(store, r)
        BY <1>4, <3>2 DEF ScanPairs
      <4> QED
        BY <1>6, <1>7, <4>1
    <3> QED
      BY <1>5, <3>1, <3>2
  <2>4. op.kind = "put" /\ found =>
          \E s \in Places : s < Top + 1 /\ KeyAt(scratch', s) = op.key /\ ValAt(scratch', s) = op.val
    BY <1>4, <1>6, <1>7 DEF ScanPairs
  <2>5. op.kind = "remove" => \A s \in Places : s < Top + 1 => KeyAt(scratch', s) # op.key
    BY <1>3, <1>4, <1>6, <1>7 DEF ScanPairs
  <2> QED
    BY <1>8, <2>1, <2>2, <2>3, <2>4, <2>5 DEF ScanPairs, KeyAt, ValAt, Empty
<1>11. op.kind = "remove" => to' = Top'
  BY <1>4, <1>8 DEF ScanPlace
<1>12. found' \in BOOLEAN /\ (to' = to \/ (op.kind = "remove" /\ to' = to + 1))
  BY <1>2 DEF IInv, TypeOK
<1> QED
  BY <1>7, <1>9, <1>10, <1>11, <1>12, ScanStep

LEMMA ScanPutOK ==
    ASSUME IInv, ScanPut
    PROVE  IInv'
<1>1. CASE Matches /\ found' = TRUE /\ scratch' = WithPair(WithHeader(scratch, n), i, op.key, op.val)
  BY <1>1, ScanPutFound
<1>2. CASE ~Matches /\ scratch' = Moved(i) /\ found' = found
  <2>1. Top = i /\ op.kind = "put" /\ op.kind # "remove"
    BY DEF Top, ScanPut
  <2> QED
    BY <1>2, <2>1, ScanMoved DEF ScanPut
<1> QED
  BY <1>1, <1>2 DEF ScanPut

LEMMA ScanRemoveFound ==
    ASSUME IInv, ScanRemove, Matches, found', scratch' = WithHeader(scratch, n - 1), to' = to
    PROVE  IInv'
<1>1. /\ StoreOK /\ ScanOK /\ PageOK(scratch) /\ op \in Ops /\ n \in 1 .. Capacity
      /\ i \in Places /\ i \in Nat /\ ~found /\ Top = i /\ op.kind = "remove"
  BY ScanFacts DEF ScanRemove, Matches
<1>2. /\ PageOK(scratch') /\ Unique(scratch') /\ Known(scratch') /\ Whole(scratch')
      /\ scratch'[0] = Magic /\ scratch'[1] = n - 1
      /\ \A s \in Places : KeyAt(scratch', s) = KeyAt(scratch, s) /\ ValAt(scratch', s) = ValAt(scratch, s)
  <2>1. scratch[0] = Erased /\ scratch[1] = Erased /\ Unique(scratch) /\ Known(scratch) /\ Whole(scratch)
    BY <1>1 DEF ScanOK, ScanHeader
  <2>2. n - 1 \in -1 .. Capacity /\ ~(n - 1 < 0)
    BY <1>1, NumberFacts
  <2> QED
    BY <1>1, <2>1, <2>2, AddedHeader
<1>3. i' = i + 1 /\ op' = op /\ n' = n /\ store' = store /\ KeyAt(store, i) = op.key
  BY DEF ScanRemove, Matches
<1>4. Top' = i
  <2>1. i + 1 - 1 = i
    BY <1>1
  <2> QED
    BY <1>1, <1>3, <2>1 DEF Top
<1>5. \A s \in Places : s < i + 1 <=> s < i \/ s = i
  BY <1>1, PlaceFacts
<1>6. ScanHeader'
  <2>1. \E r \in Places : r < i' /\ KeyAt(store, r) = op.key
    BY <1>1, <1>3, <1>5
  <2>2. op'.kind # "put"
    BY <1>1, <1>3
  <2> QED
    BY <1>2, <1>3, <2>1, <2>2 DEF ScanHeader, KeyAt
<1>7. ScanPairs'
  <2>1. ScanPairs
    BY <1>1 DEF ScanOK
  <2>2. \A s \in Places : s >= i => Empty(scratch', s)
    BY <1>1, <1>2, <2>1 DEF ScanPairs, Empty
  <2>3. \A s \in Places : s < i =>
          \E r \in Places : r < i + 1 /\ KeyAt(scratch', s) = KeyAt(store, r)
    BY <1>1, <1>2, <1>5, <2>1 DEF ScanPairs
  <2>4. \A r \in Places : r < i + 1 /\ KeyAt(store, r) # op.key =>
          \E s \in Places : /\ s < i /\ KeyAt(scratch', s) = KeyAt(store, r)
                            /\ ValAt(scratch', s) = ValAt(store, r)
    BY <1>1, <1>2, <1>3, <1>5, <2>1 DEF ScanPairs
  <2>5. \A s \in Places : s < i => KeyAt(scratch', s) # op.key
    BY <1>1, <1>2, <2>1 DEF ScanPairs
  <2>6. op'.kind # "put"
    BY <1>1, <1>3
  <2> QED
    BY <1>3, <1>4, <2>2, <2>3, <2>4, <2>5, <2>6 DEF ScanPairs, KeyAt, ValAt, Empty
<1>8. to' = Top'
  BY <1>1, <1>4 DEF ScanOK, ScanPlace
<1> QED
  <2>1. UNCHANGED <<store, pc, op, n, j, limit, bounds, history, torn>> /\ pc = "scan" /\ i <= n
    BY DEF ScanRemove
  <2>2. found' \in BOOLEAN
    BY DEF ScanRemove, IInv, TypeOK
  <2> QED
    BY <1>2, <1>3, <1>6, <1>7, <1>8, <2>1, <2>2, ScanStep

LEMMA ScanRemoveOK ==
    ASSUME IInv, ScanRemove
    PROVE  IInv'
<1>1. CASE Matches /\ found' = TRUE /\ scratch' = WithHeader(scratch, n - 1) /\ to' = to
  BY <1>1, ScanRemoveFound
<1>2. CASE ~Matches /\ scratch' = Moved(to) /\ to' = to + 1 /\ found' = found
  <2>1. to = Top /\ op.kind = "remove" /\ op.kind # "put"
    BY DEF IInv, ScanOK, ScanPlace, ScanRemove
  <2> QED
    BY <1>2, <2>1, ScanMoved DEF ScanRemove
<1> QED
  BY <1>1, <1>2 DEF ScanRemove

-----------------------------------------------------------------------------
(* The end of the loop.                                                    *)

\* A size that was never written is a sign of a torn store.
LEMMA NoSize ==
    ASSUME StoreOK, store[0] = Magic, ~torn
    PROVE  SizeOf(store) \in 0 .. Capacity
<1>1. store[1] # Erased /\ PageOK(store)
  BY DEF StoreOK
<1> QED
  BY <1>1, SizeFacts

LEMMA ScanEndFacts ==
    ASSUME IInv, pc = "scan", i > n
    PROVE  /\ StoreOK /\ ScanOK /\ PageOK(scratch) /\ op \in Ops /\ store[0] = Magic
           /\ n \in Int /\ n >= -1 /\ n <= Capacity /\ i \in Nat /\ i >= 1 /\ n = SizeOf(store)
           /\ op.key \in Keys /\ op.val \in Values /\ op.kind \in {"put", "remove"}
           /\ i = n + 1 \/ (i = 1 /\ n = -1 /\ torn)
           /\ found => n >= 1 /\ i = n + 1
<1>1. StoreOK /\ ScanOK /\ PageOK(scratch) /\ op \in Ops /\ store[0] = Magic
  BY DEF IInv, CallOK
<1>2. op.key \in Keys /\ op.val \in Values /\ op.kind \in {"put", "remove"}
  BY <1>1 DEF Ops
<1>3. n = SizeOf(store) /\ (i <= n + 1 \/ i = 1)
  BY <1>1 DEF ScanOK, ScanPlace
<1>4. n \in Int /\ n >= -1 /\ n <= Capacity /\ i \in Nat /\ i >= 1
  BY NumberFacts DEF IInv, TypeOK
<1>5. i = n + 1 \/ (i = 1 /\ n = -1)
  BY <1>3, <1>4
<1>6. n = -1 => torn
  <2>1. ASSUME ~torn
        PROVE  n >= 0
    BY <1>1, <1>3, <2>1, NoSize, NumberFacts
  <2> QED
    BY <2>1
<1>7. ASSUME found
      PROVE  n >= 1 /\ i = n + 1
  <2>1. PICK r \in Places : r < i
    BY <1>1, <1>7 DEF ScanOK, ScanHeader
  <2>2. r \in Nat /\ r >= 1
    BY PlaceFacts
  <2> QED
    BY <1>4, <1>5, <2>1, <2>2
<1> QED
  BY <1>1, <1>2, <1>3, <1>4, <1>5, <1>6, <1>7

\* A page that holds the pairs of the store, but for op's, and op's new one.
LEMMA NewContents ==
    ASSUME StoreOK, store[0] = Magic, ~torn, op \in Ops,
           NEW q, PageOK(q), Unique(q), SizeOf(q) >= 0,
           \A s \in Places : s <= SizeOf(q) => \/ KeyAt(q, s) = op.key
               \/ \E r \in Places : r <= SizeOf(store) /\ KeyAt(q, s) = KeyAt(store, r),
           \A r \in Places : r <= SizeOf(store) /\ KeyAt(store, r) # op.key =>
               \E s \in Places : /\ s <= SizeOf(q) /\ KeyAt(q, s) = KeyAt(store, r)
                                 /\ ValAt(q, s) = ValAt(store, r),
           op.kind = "put" => \E s \in Places :
               s <= SizeOf(q) /\ KeyAt(q, s) = op.key /\ ValAt(q, s) = op.val,
           op.kind = "remove" => \A s \in Places : s <= SizeOf(q) => KeyAt(q, s) # op.key
    PROVE  /\ Keyed(q)
           /\ \A k \in Keys : get(q, k) = IF k # op.key THEN get(store, k)
                                          ELSE IF op.kind = "put" THEN op.val ELSE None
<1>1. PageOK(store) /\ Unique(store) /\ Keyed(store) /\ SizeOf(store) >= 0
  BY NoSize, NumberFacts DEF StoreOK
<1>2. op.key \in Keys /\ op.val \in Values /\ op.kind \in {"put", "remove"}
  BY DEF Ops
<1>3. Keyed(q)
  BY <1>1, <1>2 DEF Keyed
<1>4. ASSUME NEW k \in Keys, k # op.key
      PROVE  get(q, k) = get(store, k)
  <2>1. CASE \E r \in Places : r <= SizeOf(store) /\ KeyAt(store, r) = k
    <3>1. PICK r \in Places : r <= SizeOf(store) /\ KeyAt(store, r) = k
      BY <2>1
    <3>2. PICK s \in Places : /\ s <= SizeOf(q) /\ KeyAt(q, s) = k
                              /\ ValAt(q, s) = ValAt(store, r)
      BY <1>4, <3>1
    <3> QED
      BY <1>1, <3>1, <3>2, GetFacts
  <2>2. CASE \A r \in Places : r <= SizeOf(store) => KeyAt(store, r) # k
    <3>1. \A s \in Places : s <= SizeOf(q) => KeyAt(q, s) # k
      BY <1>4, <2>2
    <3>2. get(q, k) = None
      BY <3>1, GetFacts
    <3>3. get(store, k) = None
      BY <1>1, <2>2, GetFacts
    <3> QED
      BY <3>2, <3>3
  <2> QED
    BY <2>1, <2>2
<1>5. op.kind = "put" => get(q, op.key) = op.val
  BY <1>2, GetFacts
<1>6. op.kind = "remove" => get(q, op.key) = None
  BY <1>2, GetFacts
<1> QED
  BY <1>2, <1>3, <1>4, <1>5, <1>6

\* The two ends that will copy the scratch page.
LEMMA ScanFoundOK ==
    ASSUME IInv, ScanFound
    PROVE  IInv'
<1>1. pc = "scan" /\ i > n /\ found
  BY DEF ScanFound
<1>2. /\ StoreOK /\ ScanOK /\ PageOK(scratch) /\ op \in Ops /\ store[0] = Magic
      /\ n \in Int /\ n <= Capacity /\ i \in Nat /\ n = SizeOf(store)
      /\ op.key \in Keys /\ op.val \in Values /\ op.kind \in {"put", "remove"}
      /\ n >= 1 /\ i = n + 1
  BY <1>1, ScanEndFacts
<1>3. /\ ScanPairs /\ Unique(scratch) /\ Known(scratch) /\ Whole(scratch) /\ scratch[0] = Magic
      /\ scratch[1] = IF op.kind = "put" THEN n ELSE n - 1
  BY <1>1, <1>2 DEF ScanOK, ScanHeader
<1>4. Top = scratch[1] + 1 /\ scratch[1] \in 0 .. Capacity /\ scratch[1] <= n /\ n <= scratch[1] + 1
  <2>1. CASE op.kind = "put"
    <3>1. scratch[1] = n /\ Top = i
      BY <1>3, <2>1 DEF Top
    <3> QED
      BY <1>2, <3>1, NumberFacts
  <2>2. CASE op.kind = "remove"
    <3>1. scratch[1] = n - 1 /\ Top = i - 1
      BY <1>1, <1>3, <2>2 DEF Top
    <3> QED
      BY <1>2, <3>1, NumberFacts
  <2> QED
    BY <1>2, <2>1, <2>2
<1>5. SizeOf(scratch) = scratch[1] /\ SizeOf(scratch) >= 0
  BY <1>2, <1>4, WordFacts, SizeFacts DEF SizeOf
<1>6. \A s \in Places : (s < Top <=> s <= SizeOf(scratch)) /\ (s < i <=> s <= n)
  BY <1>2, <1>4, <1>5, PlaceFacts
<1>7. ~torn => Keyed(scratch) /\ EffectOK
  <2>1. \A s \in Places : s <= SizeOf(scratch) =>
          \E r \in Places : r <= SizeOf(store) /\ KeyAt(scratch, s) = KeyAt(store, r)
    BY <1>2, <1>3, <1>6 DEF ScanPairs
  <2>2. \A r \in Places : r <= SizeOf(store) /\ KeyAt(store, r) # op.key =>
          \E s \in Places : /\ s <= SizeOf(scratch) /\ KeyAt(scratch, s) = KeyAt(store, r)
                            /\ ValAt(scratch, s) = ValAt(store, r)
    BY <1>2, <1>3, <1>6 DEF ScanPairs
  <2>3. op.kind = "put" => \E s \in Places :
          s <= SizeOf(scratch) /\ KeyAt(scratch, s) = op.key /\ ValAt(scratch, s) = op.val
    BY <1>1, <1>3, <1>6 DEF ScanPairs
  <2>4. op.kind = "remove" => \A s \in Places : s <= SizeOf(scratch) => KeyAt(scratch, s) # op.key
    BY <1>3, <1>6 DEF ScanPairs
  <2> QED
    BY <1>2, <1>3, <1>5, <2>1, <2>2, <2>3, <2>4, NewContents DEF EffectOK
<1>8. /\ UNCHANGED <<store, scratch, op, history, torn>> /\ pc' = "eraseStore"
      /\ limit' = 2 + 2 * n
  BY DEF ScanFound, flash, WordsOfPairs
<1>9. ReadyOK'
  <2>1. \A s \in Places : s > scratch[1] /\ s <= n => Empty(scratch, s)
    <3>1. \A s \in Places : s > scratch[1] => s >= Top
      BY <1>4, PlaceFacts, NumberFacts
    <3> QED
      BY <1>3, <3>1 DEF ScanPairs
  <2>2. n \in 0 .. Capacity
    BY <1>2, NumberFacts
  <2>3. Keyed(scratch)
    BY <1>7 DEF Keyed
  <2>4. op # None
    BY <1>2, NoneAssumption
  <2>5. \E m \in 0 .. Capacity : ReadyAt(m)'
    BY <1>4, <1>8, <2>1, <2>2 DEF ReadyAt, Empty, KeyAt, ValAt
  <2>6. Unique(scratch)' /\ Known(scratch)' /\ Whole(scratch)' /\ Keyed(scratch)'
    BY <1>3, <1>8, <2>3 DEF Unique, Known, Whole, Keyed, KeyAt, ValAt, SizeOf
  <2> QED
    BY <1>3, <1>4, <1>8, <2>4, <2>5, <2>6 DEF ReadyOK
<1>10. EffectOK'
  <2>1. \A k \in Keys : get(scratch, k)' = get(scratch, k) /\ get(store, k)' = get(store, k)
    BY <1>8 DEF get, SizeOf, Slots, KeyAt, ValAt
  <2>2. op' = op /\ torn' = torn
    BY <1>8
  <2> QED
    BY <1>7, <2>1, <2>2 DEF EffectOK
<1>11. TypeOK'
  <2>1. limit' \in 0 .. Last + 1
    BY <1>2, <1>8, NumberFacts
  <2> QED
    BY <2>1 DEF IInv, TypeOK, ScanFound, PCs, flash, bounds
<1>12. CallOK' /\ StoreOK' /\ PageOK(scratch)'
  <2>1. StoreOK'
    BY <1>2, <1>8, StoreKept
  <2>2. CallOK'
    BY <1>2, <1>8 DEF CallOK
  <2>3. PageOK(scratch)'
    BY <1>2, <1>8 DEF PageOK, KeyAt, ValAt
  <2> QED
    BY <2>1, <2>2, <2>3
<1> QED
  BY <1>8, <1>9, <1>10, <1>11, <1>12 DEF IInv

LEMMA AddPairOK ==
    ASSUME IInv, AddPair
    PROVE  IInv'
<1>1. pc = "scan" /\ i > n /\ ~found /\ op.kind = "put" /\ n # Capacity
  BY DEF AddPair
<1>2. /\ StoreOK /\ ScanOK /\ PageOK(scratch) /\ op \in Ops /\ store[0] = Magic
      /\ n \in Int /\ n >= -1 /\ n <= Capacity /\ i \in Nat /\ i >= 1 /\ n = SizeOf(store)
      /\ op.key \in Keys /\ op.val \in Values
      /\ i = n + 1 \/ (i = 1 /\ n = -1 /\ torn)
  BY <1>1, ScanEndFacts
<1>3. /\ ScanPairs /\ Unique(scratch) /\ Known(scratch) /\ Whole(scratch)
      /\ scratch[0] = Erased /\ scratch[1] = Erased
      /\ \A r \in Places : r < i => KeyAt(store, r) # op.key
  BY <1>1, <1>2 DEF ScanOK, ScanHeader
<1>4. n + 1 \in 0 .. Capacity /\ i \in Places /\ Top = i
  <2>1. n + 1 \in 0 .. Capacity
    BY <1>1, <1>2, NumberFacts
  <2>2. i = n + 1 \/ i = 1
    BY <1>2
  <2>3. i \in Places
    BY <1>2, <2>1, <2>2, NumberFacts DEF Places
  <2>4. Top = i
    BY <1>1 DEF Top
  <2> QED
    BY <2>1, <2>3, <2>4
<1> DEFINE h == WithHeader(scratch, n + 1)
<1>5. /\ PageOK(h) /\ Unique(h) /\ Known(h) /\ Whole(h) /\ h[0] = Magic /\ h[1] = n + 1
      /\ \A s \in Places : KeyAt(h, s) = KeyAt(scratch, s) /\ ValAt(h, s) = ValAt(scratch, s)
  <2>1. n + 1 \in -1 .. Capacity /\ ~(n + 1 < 0)
    BY <1>2, <1>4, NumberFacts
  <2>2. h = WithHeader(scratch, n + 1)
    OBVIOUS
  <2> HIDE DEF h
  <2> QED
    BY <1>2, <1>3, <2>1, <2>2, AddedHeader
<1>6. /\ scratch' = WithPair(h, i, op.key, op.val) /\ n' = n + 1 /\ limit' = 2 + 2 * (n + 1)
      /\ pc' = "eraseStore" /\ UNCHANGED <<store, op, i, to, found, j, bounds, history, torn>>
  BY DEF AddPair, WordsOfPairs
<1> HIDE DEF h
<1>7. /\ PageOK(scratch') /\ Unique(scratch') /\ Known(scratch') /\ Whole(scratch')
      /\ scratch'[0] = Magic /\ scratch'[1] = n + 1
      /\ KeyAt(scratch', i) = op.key /\ ValAt(scratch', i) = op.val
      /\ \A s \in Places : s < i =>
            KeyAt(scratch', s) = KeyAt(scratch, s) /\ ValAt(scratch', s) = ValAt(scratch, s)
  <2>1. op.key \in Keys \cup {Erased} /\ op.val \in Values \cup {Erased} /\ op.val # Erased
    BY <1>2, WordFacts
  <2>2. \A s \in Places : s < i => KeyAt(h, s) # op.key
    BY <1>3, <1>4, <1>5 DEF ScanPairs
  <2>3. \A s \in Places : s >= i => Empty(h, s)
    BY <1>3, <1>4, <1>5 DEF ScanPairs, Empty
  <2>4. <<op.key, op.val>> \in history
    BY <1>1 DEF IInv, CallOK
  <2> QED
    BY <1>2, <1>4, <1>5, <1>6, <2>1, <2>2, <2>3, <2>4, AddedPair
<1>8. SizeOf(scratch') = n + 1 /\ n + 1 >= 0
  <2>1. n + 1 # Erased
    BY <1>4, WordFacts
  <2> QED
    BY <1>4, <1>7, <2>1, NumberFacts DEF SizeOf
<1>9. ASSUME ~torn
      PROVE  /\ Keyed(scratch')
             /\ \A k \in Keys : get(scratch', k) = IF k # op.key THEN get(store, k)
                                          ELSE IF op.kind = "put" THEN op.val ELSE None
  <2>1. i = n + 1
    BY <1>2, <1>9
  <2>2. \A s \in Places : (s <= n + 1 <=> s < i \/ s = i) /\ (s <= n <=> s < i)
    BY <1>2, <2>1, PlaceFacts
  <2>3. \A s \in Places : s <= SizeOf(scratch') => \/ KeyAt(scratch', s) = op.key
          \/ \E r \in Places : r <= SizeOf(store) /\ KeyAt(scratch', s) = KeyAt(store, r)
    BY <1>2, <1>3, <1>4, <1>7, <1>8, <2>2 DEF ScanPairs
  <2>4. \A r \in Places : r <= SizeOf(store) /\ KeyAt(store, r) # op.key =>
          \E s \in Places : /\ s <= SizeOf(scratch') /\ KeyAt(scratch', s) = KeyAt(store, r)
                            /\ ValAt(scratch', s) = ValAt(store, r)
    <3> TAKE r \in Places
    <3> HAVE r <= SizeOf(store) /\ KeyAt(store, r) # op.key
    <3>1. PICK s \in Places : /\ s < i /\ KeyAt(scratch, s) = KeyAt(store, r)
                              /\ ValAt(scratch, s) = ValAt(store, r)
      BY <1>2, <1>3, <1>4, <2>2 DEF ScanPairs
    <3> QED
      BY <1>7, <1>8, <2>2, <3>1
  <2>5. \E s \in Places : s <= SizeOf(scratch') /\ KeyAt(scratch', s) = op.key /\ ValAt(scratch', s) = op.val
    BY <1>4, <1>7, <1>8, <2>2
  <2>6. op.kind # "remove"
    BY <1>1
  <2> QED
    BY <1>2, <1>7, <1>8, <1>9, <2>3, <2>4, <2>5, <2>6, NewContents
<1>10. ReadyOK'
  <2>1. \A s \in Places : ~(s > n + 1 /\ s <= n + 1)
    BY <1>2, PlaceFacts
  <2>2. n + 1 <= n + 1
    BY <1>2
  <2>3. \E m \in 0 .. Capacity : ReadyAt(m)'
    BY <1>4, <1>6, <1>7, <2>1, <2>2 DEF ReadyAt
  <2>4. Keyed(scratch')
    BY <1>9 DEF Keyed
  <2>5. Unique(scratch)' /\ Known(scratch)' /\ Whole(scratch)' /\ Keyed(scratch)'
    <3>1. history' = history /\ torn' = torn
      BY <1>6
    <3>2. Unique(scratch)' /\ Known(scratch)'
      BY <1>7, <3>1 DEF Unique, Known, KeyAt, ValAt
    <3>3. Whole(scratch)'
      BY <1>7, <3>1 DEF Whole, KeyAt, ValAt
    <3>4. Keyed(scratch)'
      BY <2>4, <3>1 DEF Keyed, KeyAt, SizeOf
    <3> QED
      BY <3>2, <3>3, <3>4
  <2>6. op' # None
    BY <1>2, <1>6, NoneAssumption
  <2> QED
    BY <1>4, <1>7, <2>3, <2>5, <2>6 DEF ReadyOK
<1>11. EffectOK'
  <2>1. \A k \in Keys : get(scratch, k)' = get(scratch', k)
    BY DEF get, SizeOf, Slots, KeyAt, ValAt
  <2>2. \A k \in Keys : get(store, k)' = get(store, k)
    BY <1>6 DEF get, SizeOf, Slots, KeyAt, ValAt
  <2>3. op' = op /\ torn' = torn
    BY <1>6
  <2> QED
    BY <1>9, <2>1, <2>2, <2>3 DEF EffectOK
<1>12. TypeOK'
  <2>1. limit' \in 0 .. Last + 1 /\ n' \in -1 .. Capacity
    BY <1>2, <1>4, <1>6, NumberFacts
  <2>2. scratch' \in Pages
    BY <1>7 DEF PageOK
  <2> QED
    BY <1>6, <2>1, <2>2 DEF IInv, TypeOK, PCs, bounds
<1>13. CallOK' /\ StoreOK' /\ PageOK(scratch)'
  <2>1. StoreOK'
    BY <1>2, <1>6, StoreKept
  <2>2. CallOK'
    BY <1>2, <1>6 DEF CallOK
  <2>3. PageOK(scratch)'
    BY <1>7 DEF PageOK, KeyAt, ValAt
  <2> QED
    BY <2>1, <2>2, <2>3
<1> QED
  BY <1>6, <1>10, <1>11, <1>12, <1>13 DEF IInv

LEMMA NoResourcesOK ==
    ASSUME IInv, NoResources
    PROVE  IInv'
<1>1. TypeOK'
  BY DEF IInv, TypeOK, PCs, NoResources, Return, flash, bounds
<1>2. CallOK'
  BY DEF IInv, CallOK, NoResources, Return, flash
<1>3. StoreOK'
  BY StoreKept DEF IInv, NoResources, Return, flash
<1>4. PageOK(scratch)'
  BY DEF IInv, NoResources, PageOK, KeyAt, ValAt, flash
<1> QED
  BY <1>1, <1>2, <1>3, <1>4 DEF IInv, NoResources, Return

LEMMA NoDataOK ==
    ASSUME IInv, NoData
    PROVE  IInv'
<1>1. PageOK(scratch) /\ scratch[0] = Erased /\ scratch[1] = Erased
      /\ Unique(scratch) /\ Known(scratch) /\ Whole(scratch)
  BY DEF IInv, ScanOK, ScanHeader, NoData
<1>2. PageOK(scratch') /\ scratch' \in Pages
  <2>1. n \in -1 .. Capacity /\ scratch' = WithHeader(scratch, n)
    BY DEF IInv, TypeOK, NoData
  <2> QED
    BY <1>1, <2>1, AddedHeader DEF PageOK
<1>3. TypeOK'
  BY <1>2 DEF IInv, TypeOK, PCs, NoData, Return, bounds
<1>4. CallOK'
  BY DEF IInv, CallOK, NoData, Return
<1>5. StoreOK'
  BY StoreKept DEF IInv, NoData, Return
<1>6. PageOK(scratch)'
  BY <1>2 DEF PageOK, KeyAt, ValAt
<1> QED
  BY <1>3, <1>4, <1>5, <1>6 DEF IInv, NoData, Return

-----------------------------------------------------------------------------
(* The copy of the scratch page.                                           *)

\* An erased store page is the beginning of the copy.
LEMMA CopyBegins ==
    ASSUME store' = Blank, j' = 0, limit' \in 0 .. Last + 1
    PROVE  CopyOK'
<1>1. limit' >= 0 /\ \A w \in 0 .. Last : ~(w < 0)
  BY NumberFacts
<1> QED
  BY <1>1, BlankFacts DEF CopyOK, Blank

LEMMA EraseStoreOK ==
    ASSUME IInv, EraseStore
    PROVE  IInv'
<1>1. /\ ReadyOK /\ PageOK(scratch) /\ store' = Blank /\ j' = 0 /\ pc' = "copy"
      /\ UNCHANGED <<scratch, op, n, i, to, found, limit, bounds, history, torn>>
  BY DEF IInv, EraseStore
<1>2. TypeOK'
  <2>1. 0 \in 0 .. Last + 1
    BY NumberFacts
  <2> QED
    BY <1>1, <2>1, BlankFacts DEF IInv, TypeOK, PCs, bounds
<1>3. CopyOK'
  BY <1>1, <1>2, CopyBegins DEF TypeOK
<1>4. ReadyOK' /\ PageOK(scratch)'
  BY <1>1 DEF ReadyOK, ReadyAt, Unique, Known, Whole, Keyed, PageOK, Empty, KeyAt, ValAt, SizeOf
<1>5. CallOK'
  BY <1>1 DEF CallOK
<1> QED
  BY <1>1, <1>2, <1>3, <1>4, <1>5 DEF IInv

LEMMA FormatStoreOK ==
    ASSUME IInv, FormatStore
    PROVE  IInv'
<1>1. /\ FormatOK /\ PageOK(scratch) /\ op = None /\ store' = Blank /\ j' = 0 /\ pc' = "copy"
      /\ limit' = Last + 1
      /\ UNCHANGED <<scratch, op, n, i, to, found, bounds, history, torn>>
  BY DEF IInv, CallOK, FormatStore
<1>2. TypeOK'
  <2>1. 0 \in 0 .. Last + 1 /\ limit' \in 0 .. Last + 1
    BY <1>1, NumberFacts
  <2> QED
    BY <1>1, <2>1, BlankFacts DEF IInv, TypeOK, PCs, bounds
<1>3. CopyOK'
  BY <1>1, <1>2, CopyBegins DEF TypeOK
<1>4. PageOK(scratch)' /\ CallOK'
  BY <1>1 DEF PageOK, KeyAt, ValAt, CallOK
<1>5. ReadyOK'
  <2>1. Capacity \in 0 .. Capacity /\ limit' = 2 + 2 * Capacity /\ 0 <= Capacity /\ 0 \in 0 .. Capacity
    BY <1>1, NumberFacts
  <2>2. \E m \in 0 .. Capacity : ReadyAt(m)'
    BY <1>1, <2>1 DEF ReadyAt, FormatOK, Empty, KeyAt, ValAt
  <2>3. Unique(scratch)' /\ Known(scratch)' /\ Whole(scratch)'
    BY <1>1, WordFacts DEF FormatOK, Unique, Known, Whole, Empty, KeyAt, ValAt
  <2>4. SizeOf(scratch) = 0
    BY <1>1, <2>1, WordFacts DEF FormatOK, SizeOf
  <2>5. \A s \in Places : ~(s <= 0)
    BY PlaceFacts
  <2>6. Keyed(scratch)'
    BY <1>1, <2>4, <2>5 DEF Keyed, SizeOf
  <2> QED
    BY <1>1, <2>1, <2>2, <2>3, <2>6 DEF ReadyOK, FormatOK, Empty, KeyAt, ValAt
<1> QED
  BY <1>1, <1>2, <1>3, <1>4, <1>5 DEF IInv

LEMMA CopyWordOK ==
    ASSUME IInv, Copy
    PROVE  IInv'
<1>1. /\ ReadyOK /\ CopyOK /\ PageOK(scratch) /\ pc = "copy" /\ j < limit
      /\ store' = Written(store, j, scratch[j]) /\ j' = j + 1
      /\ UNCHANGED <<scratch, pc, op, n, i, to, found, limit, bounds, history, torn>>
  BY DEF IInv, Copy
<1>2. /\ j \in 0 .. Last /\ j \in Nat /\ limit \in Nat /\ j + 1 <= limit
      /\ limit <= Last + 1 /\ j + 1 \in 0 .. Last + 1
  BY <1>1, NumberFacts DEF IInv, TypeOK
<1>3. /\ store' \in Pages /\ store'[j] = scratch[j]
      /\ \A w \in 0 .. Last : w # j => store'[w] = store[w]
  <2>1. store \in Pages /\ scratch \in Pages
    BY DEF IInv, TypeOK
  <2>2. scratch[j] \in WordsOf
    BY <1>2, <2>1 DEF Pages
  <2>3. store[j] = Erased
    BY <1>1, <1>2 DEF CopyOK
  <2> QED
    BY <1>1, <1>2, <2>1, <2>2, <2>3, WrittenFacts
<1>4. CopyOK'
  <2>1. \A w \in 0 .. Last : (w < j + 1 <=> w < j \/ w = j) /\ ~(j < j)
    BY <1>2
  <2>2. \A w \in 0 .. Last : store'[w] = IF w < j + 1 THEN scratch[w] ELSE Erased
    BY <1>1, <1>3, <2>1 DEF CopyOK
  <2> QED
    BY <1>1, <1>2, <2>2 DEF CopyOK
<1>5. TypeOK'
  BY <1>1, <1>2, <1>3 DEF IInv, TypeOK, bounds
<1>6. ReadyOK' /\ PageOK(scratch)'
  BY <1>1 DEF ReadyOK, ReadyAt, Unique, Known, Whole, Keyed, PageOK, Empty, KeyAt, ValAt, SizeOf
<1>7. CallOK'
  BY <1>1 DEF CallOK
<1> QED
  BY <1>1, <1>4, <1>5, <1>6, <1>7 DEF IInv

\* The store page while it is copied.
LEMMA CopiedWords ==
    ASSUME CopyOK, PageOK(scratch), j \in Nat
    PROVE  /\ store[0] = (IF 0 < j THEN scratch[0] ELSE Erased)
           /\ store[1] = (IF 1 < j THEN scratch[1] ELSE Erased)
           /\ \A s \in Places :
                 /\ KeyAt(store, s) = (IF 2 * s < j THEN KeyAt(scratch, s) ELSE Erased)
                 /\ ValAt(store, s) = (IF 2 * s + 1 < j THEN ValAt(scratch, s) ELSE Erased)
<1>1. \A s \in Places : 2 * s \in 0 .. Last /\ 2 * s + 1 \in 0 .. Last
  BY PlaceFacts
<1> QED
  BY <1>1, NumberFacts DEF CopyOK, KeyAt, ValAt

\* What a copy leaves in the store page, whenever it ends.
LEMMA CopyLeaves ==
    ASSUME IInv, pc = "copy", InWindow \/ torn => torn',
           UNCHANGED <<store, history>>
    PROVE  StoreOK'
<1>1. ReadyOK /\ CopyOK /\ PageOK(scratch) /\ store \in Pages
  BY DEF IInv, TypeOK
<1>2. j \in Nat /\ limit \in Nat /\ j <= limit
  BY <1>1, NumberFacts DEF IInv, TypeOK, CopyOK
<1>3. PICK m \in 0 .. Capacity : ReadyAt(m)
  BY <1>1 DEF ReadyOK
<1>4. m \in Nat /\ limit = 2 + 2 * m /\ scratch[1] \in Nat /\ scratch[1] <= m /\ m <= Capacity
  BY <1>1, <1>3, NumberFacts DEF ReadyOK, ReadyAt
<1>5. /\ store[0] = (IF 0 < j THEN scratch[0] ELSE Erased)
      /\ store[1] = (IF 1 < j THEN scratch[1] ELSE Erased)
      /\ \A s \in Places :
            /\ KeyAt(store, s) = (IF 2 * s < j THEN KeyAt(scratch, s) ELSE Erased)
            /\ ValAt(store, s) = (IF 2 * s + 1 < j THEN ValAt(scratch, s) ELSE Erased)
  BY <1>1, <1>2, CopiedWords
<1>6. /\ Unique(scratch) /\ Known(scratch) /\ Whole(scratch) /\ Keyed(scratch)
      /\ scratch[0] = Magic /\ scratch[1] \in 0 .. Capacity /\ scratch[1] # Erased
      /\ op = None => scratch[1] = 0 /\ \A s \in Places : Empty(scratch, s)
  BY <1>1, WordFacts DEF ReadyOK
<1>7. PageOK(store)
  BY <1>1, <1>5 DEF PageOK
<1>8. Unique(store) /\ Known(store)
  BY <1>5, <1>6, WordFacts DEF Unique, Known
<1>9. ASSUME ~torn'
      PROVE  ~torn /\ (op # None => j = limit) /\ j # 1
  <2>1. ~torn /\ ~InWindow
    BY <1>9
  <2>2. j # limit => j < limit
    BY <1>2
  <2>3. 1 # limit
    BY <1>4
  <2> QED
    BY <1>1, <2>1, <2>2, <2>3 DEF InWindow
<1>10. \A s \in Places : KeyAt(store, s) \in Keys /\ ValAt(store, s) = Erased => torn'
  <2> SUFFICES ASSUME NEW s \in Places, KeyAt(store, s) \in Keys, ValAt(store, s) = Erased, ~torn'
               PROVE  FALSE
    OBVIOUS
  <2>1. 2 * s < j /\ KeyAt(scratch, s) \in Keys
    BY <1>5, WordFacts
  <2>2. op # None
    BY <1>6, <2>1, WordFacts DEF Empty
  <2>3. j = 2 + 2 * m
    BY <1>4, <1>9, <2>2
  <2>4. 2 * s + 1 < j
    BY <1>4, <2>1, <2>3, PlaceFacts
  <2>5. ValAt(scratch, s) = Erased
    BY <1>5, <2>4
  <2> QED
    BY <1>6, <1>9, <2>1, <2>5 DEF Whole
<1>11. ASSUME NEW s \in Places, 1 < j, s <= scratch[1], ~torn'
       PROVE  KeyAt(store, s) \in Keys
  <2>1. s \in Nat /\ s >= 1
    BY PlaceFacts
  <2>2. op # None
    BY <1>6, <1>11, <2>1
  <2>3. 2 * s < j
    BY <1>4, <1>9, <1>11, <2>1, <2>2
  <2>4. SizeOf(scratch) = scratch[1]
    BY <1>1, <1>6, SizeFacts
  <2> QED
    BY <1>5, <1>6, <1>9, <1>11, <2>3, <2>4 DEF Keyed
<1>12. SizeOf(store) = IF 1 < j THEN scratch[1] ELSE -1
  BY <1>5, <1>6, <1>7, SizeFacts
<1>13. \A s \in Places : ~torn' => (s <= SizeOf(store) => KeyAt(store, s) \in Keys)
  <2>1. \A s \in Places : ~(s <= -1)
    BY PlaceFacts
  <2> QED
    BY <1>11, <1>12, <2>1
<1>14. store[0] = Magic /\ store[1] = Erased => torn'
  <2>1. 0 < j /\ ~(1 < j) => j = 1
    BY <1>2
  <2> QED
    BY <1>5, <1>6, <1>9, <2>1, WordFacts
<1>15. ASSUME NEW s \in Places, s > SizeOf(store)
       PROVE  Empty(store, s)
  <2>1. s \in Nat /\ s >= 1
    BY PlaceFacts
  <2>2. CASE 2 * s < j
    <3>1. 1 < j /\ s <= m
      BY <1>2, <1>4, <2>1, <2>2
    <3>2. s > scratch[1]
      BY <1>12, <1>15, <3>1
    <3>3. Empty(scratch, s)
      BY <1>3, <3>1, <3>2 DEF ReadyAt
    <3> QED
      BY <1>5, <3>3 DEF Empty
  <2>3. CASE ~(2 * s < j)
    <3>1. ~(2 * s + 1 < j)
      BY <1>2, <2>1, <2>3
    <3> QED
      BY <1>5, <2>3, <3>1 DEF Empty
  <2> QED
    BY <2>2, <2>3
<1>16. PageOK(store)' /\ Unique(store)' /\ Known(store)'
  BY <1>7, <1>8 DEF PageOK, Unique, Known, KeyAt, ValAt
<1>17. Whole(store)' /\ Keyed(store)'
  BY <1>10, <1>13 DEF Whole, Keyed, KeyAt, ValAt, SizeOf
<1> QED
  BY <1>14, <1>15, <1>16, <1>17 DEF StoreOK, Empty, KeyAt, ValAt, SizeOf

LEMMA CopyEndOK ==
    ASSUME IInv, CopyEnd
    PROVE  IInv'
<1>1. /\ pc = "copy" /\ j = limit /\ op' = None /\ pc' = "idle"
      /\ UNCHANGED <<store, scratch, n, i, to, found, j, limit, bounds, history, torn>>
  BY DEF CopyEnd, Return, flash
<1>2. ~(j < limit)
  BY <1>1, NumberFacts DEF IInv, TypeOK
<1>3. StoreOK'
  BY <1>1, <1>2, CopyLeaves DEF InWindow
<1>4. TypeOK'
  BY <1>1 DEF IInv, TypeOK, PCs, bounds
<1>5. store[0] = Magic
  <2>1. ReadyOK /\ CopyOK /\ PageOK(scratch) /\ j \in Nat
    BY <1>1, NumberFacts DEF IInv, TypeOK
  <2>2. 0 < j
    BY <1>1, <2>1, NumberFacts DEF ReadyOK, ReadyAt
  <2> QED
    BY <2>1, <2>2, CopiedWords DEF ReadyOK
<1>6. CallOK' /\ PageOK(scratch)'
  BY <1>1, <1>5 DEF IInv, CallOK, PageOK, KeyAt, ValAt
<1> QED
  BY <1>1, <1>3, <1>4, <1>6 DEF IInv

LEMMA ResetOK ==
    ASSUME IInv, Reset
    PROVE  IInv'
<1>1. /\ pc' = "boot" /\ op' = None /\ torn' = (torn \/ InWindow) /\ resets < MaxResets
      /\ resets' = resets + 1 /\ UNCHANGED <<store, scratch, n, i, to, found, j, limit, calls, history>>
  BY DEF Reset, flash
<1>2. TypeOK'
  <2>1. resets' \in 0 .. MaxResets
    BY <1>1, NumberFacts DEF IInv, TypeOK
  <2>2. torn' \in BOOLEAN
    BY <1>1 DEF IInv, TypeOK, InWindow
  <2> QED
    BY <1>1, <2>1, <2>2 DEF IInv, TypeOK, PCs
<1>3. StoreOK'
  <2>1. CASE pc = "copy"
    BY <1>1, <2>1, CopyLeaves
  <2>2. CASE pc # "copy"
    <3>1. StoreOK /\ torn' = torn
      BY <1>1, <1>2, <2>2 DEF IInv, TypeOK, InWindow
    <3> QED
      BY <1>1, <3>1, StoreKept
  <2> QED
    BY <2>1, <2>2
<1>4. CallOK' /\ PageOK(scratch)'
  BY <1>1 DEF IInv, CallOK, PageOK, KeyAt, ValAt
<1> QED
  BY <1>1, <1>2, <1>3, <1>4 DEF IInv

LEMMA StutterOK ==
    ASSUME IInv, UNCHANGED vars
    PROVE  IInv'
<1>1. UNCHANGED <<store, scratch, pc, op, n, i, to, found, j, limit, calls, resets, history, torn>>
  BY DEF vars, flash, locals, bounds
<1>2. TypeOK' /\ CallOK'
  BY <1>1 DEF IInv, TypeOK, CallOK
<1>3. PageOK(scratch)'
  BY <1>1 DEF IInv, PageOK, KeyAt, ValAt
<1>4. pc # "copy" => StoreOK'
  BY <1>1, StoreKept DEF IInv
<1>5. pc = "scan" => ScanOK'
  BY <1>1 DEF IInv, ScanOK, ScanPlace, ScanHeader, ScanPairs, Top,
              Unique, Known, Whole, Empty, KeyAt, ValAt, SizeOf
<1>6. pc = "formatStore" => FormatOK'
  BY <1>1 DEF IInv, FormatOK, Empty, KeyAt, ValAt
<1>7. ReadyOK => ReadyOK'
  BY <1>1 DEF ReadyOK, ReadyAt, Unique, Known, Whole, Keyed, Empty, KeyAt, ValAt, SizeOf
<1>8. EffectOK => EffectOK'
  <2>1. \A k \in Keys : get(scratch, k)' = get(scratch, k) /\ get(store, k)' = get(store, k)
    BY <1>1 DEF get, Slots, SizeOf, KeyAt, ValAt
  <2> QED
    BY <1>1, <2>1 DEF EffectOK
<1>9. CopyOK => CopyOK'
  BY <1>1 DEF CopyOK
<1> QED
  BY <1>1, <1>2, <1>3, <1>4, <1>5, <1>6, <1>7, <1>8, <1>9 DEF IInv

-----------------------------------------------------------------------------
(* The theorems.                                                           *)

LEMMA StepOK == IInv /\ [Next]_vars => IInv'
<1> SUFFICES ASSUME IInv, [Next]_vars PROVE IInv'
  OBVIOUS
<1>1. ASSUME NEW k \in Keys, remove(k)
      PROVE  IInv'
  BY <1>1, RemoveOK
<1>2. ASSUME NEW k \in Keys, NEW v \in Values, put(k, v)
      PROVE  IInv'
  BY <1>2, PutOK
<1>3. CASE BootKnown
  BY <1>3, BootKnownOK
<1>4. CASE BootFormat
  BY <1>4, BootFormatOK
<1>5. CASE FormatStore
  BY <1>5, FormatStoreOK
<1>6. CASE NothingToDo
  BY <1>6, NothingToDoOK
<1>7. CASE EraseScratch
  BY <1>7, EraseScratchOK
<1>8. CASE ScanPut
  BY <1>8, ScanPutOK
<1>9. CASE ScanRemove
  BY <1>9, ScanRemoveOK
<1>10. CASE ScanFound
  BY <1>10, ScanFoundOK
<1>11. CASE AddPair
  BY <1>11, AddPairOK
<1>12. CASE NoResources
  BY <1>12, NoResourcesOK
<1>13. CASE NoData
  BY <1>13, NoDataOK
<1>14. CASE EraseStore
  BY <1>14, EraseStoreOK
<1>15. CASE Copy
  BY <1>15, CopyWordOK
<1>16. CASE CopyEnd
  BY <1>16, CopyEndOK
<1>17. CASE Reset
  BY <1>17, ResetOK
<1>18. CASE UNCHANGED vars
  BY <1>18, StutterOK
<1> QED
  BY <1>1, <1>2, <1>3, <1>4, <1>5, <1>6, <1>7, <1>8, <1>9, <1>10, <1>11, <1>12, <1>13, <1>14, <1>15, <1>16, <1>17, <1>18
     DEF Next

LEMMA Always == Spec => []IInv
BY InitOK, StepOK, PTL DEF Spec

\* Every variable keeps its type: no call writes beyond the page, and no size
\* beyond what the page holds (put, remove, flashCopy).
THEOREM Types == Spec => []TypeOK
<1>1. IInv => TypeOK
  BY DEF IInv
<1> QED
  BY <1>1, Always, PTL

\* No word of flash is programmed twice between two erasures of its page,
\* wherever the resets come (put, remove, size, flashCopy).
THEOREM FlashWrittenOnce == Spec => []NoOverwrite
<1>1. IInv => NoOverwrite
  <2> SUFFICES ASSUME IInv, NEW w \in 0 .. Last PROVE store[w] # Corrupt /\ scratch[w] # Corrupt
    BY DEF NoOverwrite
  <2>1. PageOK(scratch)
    BY DEF IInv
  <2>2. scratch[w] # Corrupt
    BY <2>1, NoCorruptWord
  <2>3. store[w] # Corrupt
    <3>1. CASE pc # "copy"
      BY <3>1, NoCorruptWord DEF IInv, StoreOK
    <3>2. CASE pc = "copy"
      <4>1. store[w] = scratch[w] \/ store[w] = Erased
        BY <3>2 DEF IInv, CopyOK
      <4> QED
        BY <2>2, <4>1, WordFacts
    <3> QED
      BY <3>1, <3>2
  <2> QED
    BY <2>2, <2>3
<1> QED
  BY <1>1, Always, PTL

\* What get() finds under a key was put there under that key; only a store
\* that a reset tore can hold a key without its value or have no size.
THEOREM KeysKeepTheirValues == Spec => []ValuesKeepTheirKeys
<1>1. IInv => ValuesKeepTheirKeys
  <2> SUFFICES ASSUME IInv, pc = "idle", NEW k \in Keys
               PROVE  \/ get(store, k) = None
                      \/ <<k, get(store, k)>> \in history
                      \/ torn /\ (get(store, k) = Erased \/ SizeOf(store) < 0)
    BY DEF ValuesKeepTheirKeys
  <2>1. StoreOK /\ PageOK(store) /\ Unique(store) /\ Known(store) /\ Whole(store) /\ store[0] = Magic
    BY DEF IInv, StoreOK, CallOK
  <2>2. SizeOf(store) \in Int
    BY <2>1, SizeFacts, NumberFacts
  <2>3. CASE SizeOf(store) < 0
    BY <2>1, <2>3, NoSize, NumberFacts
  <2>4. CASE SizeOf(store) >= 0 /\ \A s \in Places : s <= SizeOf(store) => KeyAt(store, s) # k
    BY <2>1, <2>4, GetFacts
  <2>5. ASSUME NEW s \in Places, s <= SizeOf(store), KeyAt(store, s) = k
        PROVE  \/ <<k, get(store, k)>> \in history
               \/ torn /\ get(store, k) = Erased
    <3>1. get(store, k) = ValAt(store, s)
      BY <2>1, <2>5, GetFacts
    <3> QED
      BY <2>1, <2>5, <3>1 DEF Known, Whole
  <2>6. SizeOf(store) < 0 \/ SizeOf(store) >= 0
    BY <2>2
  <2> QED
    BY <2>3, <2>4, <2>5, <2>6
<1> QED
  BY <1>1, Always, PTL

-----------------------------------------------------------------------------
(* What the map holds.                                                     *)

LEMMA StoreMap ==
    ASSUME pc # "copy", store[0] = Magic
    PROVE  Contents = [k \in Keys |-> get(store, k)]
BY DEF Contents

LEMMA EmptyMap ==
    ASSUME NEW page, PageOK(page), page[1] = 0, \A s \in Places : Empty(page, s), NEW k \in Keys
    PROVE  get(page, k) = None
<1>1. Unique(page)
  BY WordFacts DEF Unique, Empty
<1>2. SizeOf(page) = 0
  <2>1. 0 # Erased
    BY WordFacts
  <2> QED
    BY <2>1, SizeFacts
<1>3. \A s \in Places : s <= SizeOf(page) => KeyAt(page, s) # k
  BY <1>2, PlaceFacts
<1> QED
  BY <1>1, <1>2, <1>3, GetFacts

\* A store of which every place is taken is full.
LEMMA TakenIsFull ==
    ASSUME StoreOK, store[0] = Magic, ~torn, SizeOf(store) = Capacity
    PROVE  Cardinality({k \in Keys : get(store, k) # None}) = Capacity
<1> DEFINE T == {k \in Keys : get(store, k) # None}
           f == [s \in 1 .. Capacity |-> KeyAt(store, s)]
<1>1. /\ PageOK(store) /\ Unique(store) /\ Whole(store) /\ Keyed(store)
      /\ SizeOf(store) >= 0
  BY NumberFacts DEF StoreOK
<1>2. \A s \in Places : s <= SizeOf(store) /\ KeyAt(store, s) \in Keys
  BY <1>1, PlaceFacts DEF Keyed
<1>3. \A s \in Places : get(store, KeyAt(store, s)) # None
  <2> TAKE s \in Places
  <2>1. get(store, KeyAt(store, s)) = ValAt(store, s)
    BY <1>1, <1>2, GetFacts
  <2>2. ValAt(store, s) \in Values
    BY <1>1, <1>2 DEF PageOK, Whole
  <2> QED
    BY <2>1, <2>2, WordFacts
<1>4. f \in [1 .. Capacity -> T]
  BY <1>2, <1>3 DEF Places
<1>5. \A r, s \in 1 .. Capacity : f[r] = f[s] => r = s
  BY <1>1, <1>2 DEF Places, Unique
<1>6. \A k \in T : \E s \in 1 .. Capacity : f[s] = k
  <2> SUFFICES ASSUME NEW k \in Keys, \A s \in Places : KeyAt(store, s) # k
               PROVE  get(store, k) = None
    BY DEF Places
  <2> QED
    BY <1>1, GetFacts
<1>7. f \in Bijection(1 .. Capacity, T)
  BY <1>4, <1>5, <1>6, Fun_IsBij
<1>8. ExistsBijection(1 .. Capacity, T)
  BY <1>7 DEF ExistsBijection
<1> QED
  BY <1>8, NumberFacts, FS_CountingElements

-----------------------------------------------------------------------------
(* The steps that are none of the map's.                                   *)

LEMMA QuietStep ==
    ASSUME pc # "copy", pc' # "copy", UNCHANGED <<store, op, torn>>
    PROVE  UNCHANGED Map!kvVars
<1>1. Contents' = Contents
  <2>1. \A k \in Keys : get(store, k)' = get(store, k)
    BY DEF get, Slots, SizeOf, KeyAt, ValAt
  <2> QED
    BY <2>1 DEF Contents
<1> QED
  BY <1>1 DEF Map!kvVars

-----------------------------------------------------------------------------
(* The steps of the map.                                                   *)

LEMMA Invokes ==
    ASSUME IInv, ~torn, (\E k \in Keys : remove(k)) \/ (\E k \in Keys, v \in Values : put(k, v))
    PROVE  Map!KVNext
<1>1. op = None /\ pc = "idle" /\ pc' = "look" /\ UNCHANGED <<store, torn>> /\ op' \in Ops
  BY WordsAssumption DEF IInv, CallOK, put, remove, flash, Ops
<1>2. Contents' = Contents
  <2>1. \A k \in Keys : get(store, k)' = get(store, k)
    BY <1>1 DEF get, Slots, SizeOf, KeyAt, ValAt
  <2> QED
    BY <1>1, <2>1 DEF Contents
<1>3. Map!Invoke(op')
  BY <1>1, <1>2 DEF Map!Invoke
<1>4. op' \in Map!Calls
  BY <1>1 DEF Ops, Map!Calls
<1> QED
  BY <1>3, <1>4 DEF Map!KVNext

\* A call that returns without a change of flash that matters.
LEMMA Returns ==
    ASSUME IInv, ~torn, pc \in {"look", "scan"}, pc' = "idle", op' = None, UNCHANGED <<store, torn>>,
           \/ op.kind = "put" /\ get(store, op.key) = op.val
           \/ op.kind = "remove" /\ get(store, op.key) = None
           \/ op.kind = "put" /\ get(store, op.key) = None /\ SizeOf(store) = Capacity
    PROVE  Map!KVNext
<1>1. StoreOK /\ op \in Ops /\ op # None /\ op.key \in Keys /\ store[0] = Magic
  BY NoneAssumption DEF IInv, CallOK, Ops
<1>2. Contents = [k \in Keys |-> get(store, k)]
  BY <1>1, StoreMap
<1>3. Contents' = Contents
  <2>1. \A k \in Keys : get(store, k)' = get(store, k)
    BY DEF get, Slots, SizeOf, KeyAt, ValAt
  <2> QED
    BY <2>1 DEF Contents
<1>4. \/ Contents = Map!Applied(Contents, op)
      \/ op.kind = "put" /\ Contents[op.key] = None /\ Map!Full
  <2>1. CASE op.kind = "put" /\ get(store, op.key) = op.val
    BY <1>1, <1>2, <2>1 DEF Map!Applied
  <2>2. CASE op.kind = "remove" /\ get(store, op.key) = None
    BY <1>1, <1>2, <2>2 DEF Map!Applied
  <2>3. CASE op.kind = "put" /\ get(store, op.key) = None /\ SizeOf(store) = Capacity
    <3>1. {k \in Keys : Contents[k] # None} = {k \in Keys : get(store, k) # None}
      BY <1>2
    <3>2. Cardinality({k \in Keys : Contents[k] # None}) = Capacity
      BY <1>1, <2>3, <3>1, TakenIsFull
    <3>3. \A S : Map!Cardinality(S) = Cardinality(S)
      BY DEF Map!Cardinality, Cardinality
    <3>4. Map!Full
      BY <3>2, <3>3 DEF Map!Full
    <3> QED
      BY <1>1, <1>2, <2>3, <3>4
  <2> QED
    BY <2>1, <2>2, <2>3
<1>5. Map!Return
  BY <1>1, <1>3, <1>4 DEF Map!Return
<1> QED
  BY <1>5 DEF Map!KVNext

LEMMA NothingToDoReturns ==
    ASSUME IInv, ~torn, NothingToDo
    PROVE  Map!KVNext
<1>1. /\ pc = "look" /\ pc' = "idle" /\ op' = None /\ UNCHANGED <<store, torn>>
      /\ StoreOK /\ op \in Ops
  BY DEF IInv, CallOK, NothingToDo, Return, flash
<1>2. CASE op.kind = "put"
  BY <1>1, <1>2, Returns DEF NothingToDo
<1>3. CASE op.kind = "remove"
  <2>1. SizeOf(store) = 0
    BY <1>3 DEF NothingToDo
  <2>2. \A s \in Places : ~(s <= 0)
    BY PlaceFacts
  <2>3. get(store, op.key) = None
    BY <1>1, <2>1, <2>2, GetFacts DEF StoreOK, Ops
  <2> QED
    BY <1>1, <1>3, <2>3, Returns
<1> QED
  BY <1>1, <1>2, <1>3 DEF Ops

\* The loop has seen every pair and found none with the key.
LEMMA NotThere ==
    ASSUME IInv, ~torn, pc = "scan", i > n, ~found
    PROVE  get(store, op.key) = None /\ SizeOf(store) = n
<1>1. /\ StoreOK /\ ScanOK /\ i = n + 1 /\ n \in Int /\ n = SizeOf(store) /\ n >= -1
      /\ op.key \in Keys /\ store[0] = Magic
  BY ScanEndFacts
<1>2. n >= 0
  BY <1>1, NoSize, NumberFacts
<1>3. \A s \in Places : s <= n => s < i
  BY <1>1, PlaceFacts
<1>4. \A s \in Places : s <= SizeOf(store) => KeyAt(store, s) # op.key
  BY <1>1, <1>3 DEF ScanOK, ScanHeader
<1> QED
  BY <1>1, <1>2, <1>4, GetFacts DEF StoreOK

LEMMA NoResourcesReturns ==
    ASSUME IInv, ~torn, NoResources
    PROVE  Map!KVNext
<1>1. get(store, op.key) = None /\ SizeOf(store) = Capacity
  BY NotThere DEF NoResources
<1> QED
  BY <1>1, Returns DEF NoResources, Return, flash

LEMMA NoDataReturns ==
    ASSUME IInv, ~torn, NoData
    PROVE  Map!KVNext
<1>1. get(store, op.key) = None
  BY NotThere DEF NoData
<1> QED
  BY <1>1, Returns DEF NoData, Return

LEMMA EraseStoreEffects ==
    ASSUME IInv, ~torn, EraseStore
    PROVE  Map!KVNext
<1>1. /\ pc = "eraseStore" /\ pc' = "copy" /\ UNCHANGED <<scratch, op, torn>>
      /\ EffectOK /\ op \in Ops /\ op # None /\ store[0] = Magic
      /\ op.key \in Keys /\ op.kind \in {"put", "remove"}
  BY NoneAssumption DEF IInv, CallOK, EraseStore, Ops
<1>2. Contents = [k \in Keys |-> get(store, k)]
  BY <1>1, StoreMap
<1>3. Contents' = [k \in Keys |-> get(scratch, k)]
  <2>1. \A k \in Keys : get(scratch, k)' = get(scratch, k)
    BY <1>1 DEF get, Slots, SizeOf, KeyAt, ValAt
  <2> QED
    BY <1>1, <2>1 DEF Contents
<1>4. Contents' = Map!Applied(Contents, op)
  BY <1>1, <1>2, <1>3 DEF Map!Applied, EffectOK
<1>5. Map!Effect
  BY <1>1, <1>4 DEF Map!Effect
<1> QED
  BY <1>5 DEF Map!KVNext

-----------------------------------------------------------------------------
(* The copy.                                                               *)

LEMMA CopyMap ==
    ASSUME pc = "copy"
    PROVE  Contents = [k \in Keys |-> get(scratch, k)]
BY DEF Contents

\* While the first, empty store is written the map is empty.
LEMMA FormatMap ==
    ASSUME IInv, pc = "copy", op = None
    PROVE  Contents = [k \in Keys |-> None]
<1>1. PageOK(scratch) /\ scratch[1] = 0 /\ \A s \in Places : Empty(scratch, s)
  BY DEF IInv, ReadyOK
<1>2. \A k \in Keys : get(scratch, k) = None
  BY <1>1, EmptyMap
<1> QED
  BY <1>2, CopyMap

\* A copy that is complete, or never had a pair to copy, holds the map.
LEMMA CopiedMap ==
    ASSUME IInv, pc = "copy", j = limit \/ (op = None /\ j > 1)
    PROVE  /\ store[0] = Magic
           /\ \A k \in Keys : get(store, k) = get(scratch, k)
<1>1. ReadyOK /\ CopyOK /\ PageOK(scratch) /\ store \in Pages
  BY DEF IInv, TypeOK
<1>2. j \in Nat /\ limit \in Nat /\ j <= limit
  BY <1>1, NumberFacts DEF IInv, TypeOK, CopyOK
<1>3. PICK m \in 0 .. Capacity : ReadyAt(m)
  BY <1>1 DEF ReadyOK
<1>4. m \in Nat /\ limit = 2 + 2 * m /\ scratch[1] \in Nat /\ scratch[1] <= m
  BY <1>1, <1>3, NumberFacts DEF ReadyOK, ReadyAt
<1>5. 0 < j /\ 1 < j
  BY <1>2, <1>4
<1>6. /\ store[0] = scratch[0] /\ store[1] = scratch[1] /\ scratch[0] = Magic
      /\ \A s \in Places :
            /\ KeyAt(store, s) = (IF 2 * s < j THEN KeyAt(scratch, s) ELSE Erased)
            /\ ValAt(store, s) = (IF 2 * s + 1 < j THEN ValAt(scratch, s) ELSE Erased)
  BY <1>1, <1>2, <1>5, CopiedWords DEF ReadyOK
<1>7. SizeOf(scratch) = scratch[1] /\ SizeOf(store) = SizeOf(scratch)
  <2>1. scratch[1] # Erased
    BY <1>4, WordFacts
  <2> QED
    BY <1>1, <1>6, <2>1, SizeFacts DEF SizeOf
<1>8. \A s \in Places : s <= SizeOf(scratch) =>
        KeyAt(store, s) = KeyAt(scratch, s) /\ ValAt(store, s) = ValAt(scratch, s)
  <2> SUFFICES ASSUME NEW s \in Places, s <= SizeOf(scratch)
               PROVE  KeyAt(store, s) = KeyAt(scratch, s) /\ ValAt(store, s) = ValAt(scratch, s)
    OBVIOUS
  <2>1. s \in Nat /\ s >= 1
    BY PlaceFacts
  <2>2. op # None
    BY <1>1, <1>7, <2>1 DEF ReadyOK
  <2>3. j = limit
    BY <2>2
  <2>4. 2 * s < j /\ 2 * s + 1 < j
    BY <1>4, <1>7, <2>1, <2>3
  <2> QED
    BY <1>6, <2>4
<1>9. PageOK(store) /\ Unique(store)
  <2>1. PageOK(store)
    BY <1>1, <1>6 DEF PageOK
  <2>2. Unique(store)
    BY <1>1, <1>6, WordFacts DEF ReadyOK, Unique
  <2> QED
    BY <2>1, <2>2
<1>10. ASSUME NEW k \in Keys
       PROVE  get(store, k) = get(scratch, k)
  <2>1. PageOK(scratch) /\ Unique(scratch) /\ SizeOf(scratch) >= 0
    BY <1>1, <1>4, <1>7 DEF ReadyOK
  <2>2. CASE \E s \in Places : s <= SizeOf(scratch) /\ KeyAt(scratch, s) = k
    BY <1>7, <1>8, <1>9, <2>1, <2>2, GetFacts
  <2>3. CASE \A s \in Places : s <= SizeOf(scratch) => KeyAt(scratch, s) # k
    BY <1>7, <1>8, <1>9, <2>1, <2>3, GetFacts
  <2> QED
    BY <2>2, <2>3
<1> QED
  BY <1>6, <1>10

LEMMA FormatStoreQuiet ==
    ASSUME IInv, IInv', FormatStore
    PROVE  UNCHANGED Map!kvVars
<1>1. /\ pc # "copy" /\ pc' = "copy" /\ store[0] # Magic /\ op = None
      /\ UNCHANGED <<scratch, op, torn>>
      /\ PageOK(scratch) /\ scratch[1] = 0 /\ \A s \in Places : Empty(scratch, s)
  BY DEF IInv, FormatOK, CallOK, FormatStore
<1>2. Contents = [k \in Keys |-> None]
  BY <1>1 DEF Contents
<1>3. Contents' = [k \in Keys |-> None]
  <2>1. \A k \in Keys : get(scratch, k)' = get(scratch, k) /\ get(scratch, k) = None
    <3>1. \A k \in Keys : get(scratch, k)' = get(scratch, k)
      BY <1>1 DEF get, Slots, SizeOf, KeyAt, ValAt
    <3> QED
      BY <1>1, <3>1, EmptyMap
  <2> QED
    BY <1>1, <2>1 DEF Contents
<1> QED
  BY <1>1, <1>2, <1>3 DEF Map!kvVars

LEMMA CopyWordQuiet ==
    ASSUME IInv, Copy
    PROVE  UNCHANGED Map!kvVars
<1>1. pc = "copy" /\ pc' = "copy" /\ UNCHANGED <<scratch, op, torn>>
  BY DEF Copy
<1>2. \A k \in Keys : get(scratch, k)' = get(scratch, k)
  BY <1>1 DEF get, Slots, SizeOf, KeyAt, ValAt
<1>3. Contents' = Contents
  BY <1>1, <1>2 DEF Contents
<1> QED
  BY <1>1, <1>3 DEF Map!kvVars

LEMMA CopyEndReturns ==
    ASSUME IInv, ~torn, CopyEnd
    PROVE  Map!KVNext \/ UNCHANGED Map!kvVars
<1>1. /\ pc = "copy" /\ pc' = "idle" /\ j = limit /\ op' = None
      /\ UNCHANGED <<store, torn>>
  BY DEF CopyEnd, Return, flash
<1>2. /\ store[0] = Magic
      /\ \A k \in Keys : get(store, k) = get(scratch, k)
  BY <1>1, CopiedMap
<1>3. Contents' = Contents
  <2>1. \A k \in Keys : get(store, k)' = get(store, k)
    BY <1>1 DEF get, Slots, SizeOf, KeyAt, ValAt
  <2> QED
    BY <1>1, <1>2, <2>1 DEF Contents
<1>4. CASE op = None
  BY <1>1, <1>3, <1>4 DEF Map!kvVars
<1>5. CASE op # None
  <2>1. Map!Return
    BY <1>1, <1>3, <1>5 DEF Map!Return
  <2> QED
    BY <2>1 DEF Map!KVNext
<1> QED
  BY <1>4, <1>5

LEMMA ResetEnds ==
    ASSUME IInv, ~torn, Reset
    PROVE  Map!KVNext
<1>1. /\ pc' = "boot" /\ op' = None /\ torn' = (torn \/ InWindow) /\ UNCHANGED store
  BY DEF Reset, flash
<1>2. \A k \in Keys : get(store, k)' = get(store, k)
  BY <1>1 DEF get, Slots, SizeOf, KeyAt, ValAt
<1>3. CASE InWindow
  <2>1. torn'
    BY <1>1, <1>3
  <2>2. pc = "copy" /\ (op # None \/ Contents = [k \in Keys |-> None])
    BY <1>3, FormatMap DEF InWindow
  <2>3. Map!Break
    BY <1>1, <2>1, <2>2 DEF Map!Break, IInv, TypeOK
  <2> QED
    BY <2>3 DEF Map!KVNext
<1>4. CASE ~InWindow
  <2>1. torn' = torn
    BY <1>1, <1>4 DEF IInv, TypeOK
  <2>2. Contents' = Contents
    <3>1. CASE pc # "copy"
      BY <1>1, <1>2, <3>1 DEF Contents
    <3>2. CASE pc = "copy"
      <4>1. j \in Nat /\ limit \in Nat /\ j <= limit
        BY <3>2, NumberFacts DEF IInv, TypeOK, CopyOK
      <4>2. (j = limit \/ (op = None /\ j > 1)) \/ (op = None /\ j = 0)
        BY <1>4, <3>2, <4>1 DEF InWindow
      <4>3. CASE j = limit \/ (op = None /\ j > 1)
        BY <1>1, <1>2, <3>2, <4>3, CopiedMap DEF Contents
      <4>4. CASE op = None /\ j = 0
        <5>1. store[0] # Magic
          BY <3>2, <4>1, <4>4, CopiedWords, WordFacts DEF IInv
        <5>2. Contents' = [k \in Keys |-> None]
          BY <1>1, <5>1 DEF Contents
        <5> QED
          BY <3>2, <4>4, <5>2, FormatMap
      <4> QED
        BY <4>2, <4>3, <4>4
    <3> QED
      BY <3>1, <3>2
  <2>3. Map!Reset
    BY <1>1, <2>1, <2>2 DEF Map!Reset
  <2> QED
    BY <2>3 DEF Map!KVNext
<1> QED
  BY <1>3, <1>4

-----------------------------------------------------------------------------
(* The refinement.                                                         *)

LEMMA MapInit == Init => Map!KVInit
<1> SUFFICES ASSUME Init PROVE Map!KVInit
  OBVIOUS
<1>1. store[0] # Magic /\ pc # "copy"
  BY BlankFacts, WordFacts DEF Init
<1>2. Contents = [k \in Keys |-> None]
  BY <1>1 DEF Contents
<1> QED
  BY <1>1, <1>2 DEF Init, Map!KVInit

\* Nothing mends a torn store.
LEMMA TornStays ==
    ASSUME [Next]_vars, torn
    PROVE  torn'
<1>1. CASE Next
  <2>1. CASE Reset
    BY <2>1 DEF Reset
  <2>2. CASE Next /\ ~Reset
    BY <2>2 DEF Next, BootKnown, BootFormat, FormatStore, remove, put, NothingToDo, EraseScratch,
                ScanPut, ScanRemove, ScanFound, AddPair, NoResources, NoData, EraseStore, Copy, CopyEnd
  <2> QED
    BY <1>1, <2>1, <2>2
<1> QED
  BY <1>1 DEF vars

LEMMA MapStep ==
    ASSUME IInv, IInv', [Next]_vars
    PROVE  [Map!KVNext]_Map!kvVars
<1>1. CASE torn
  BY <1>1, TornStays DEF Map!KVNext
<1>2. CASE ~torn
  <2>1. CASE BootKnown
    BY <2>1, QuietStep DEF BootKnown, flash, locals
  <2>2. CASE BootFormat
    BY <2>2, QuietStep DEF BootFormat, locals
  <2>3. CASE FormatStore
    BY <2>3, FormatStoreQuiet
  <2>4. ASSUME NEW k \in Keys, remove(k)
        PROVE  Map!KVNext
    BY <1>2, <2>4, Invokes
  <2>5. ASSUME NEW k \in Keys, NEW v \in Values, put(k, v)
        PROVE  Map!KVNext
    BY <1>2, <2>5, Invokes
  <2>6. CASE NothingToDo
    BY <1>2, <2>6, NothingToDoReturns
  <2>7. CASE EraseScratch
    BY <2>7, QuietStep DEF EraseScratch
  <2>8. CASE ScanPut
    BY <2>8, QuietStep DEF ScanPut
  <2>9. CASE ScanRemove
    BY <2>9, QuietStep DEF ScanRemove
  <2>10. CASE ScanFound
    BY <2>10, QuietStep DEF ScanFound, flash
  <2>11. CASE AddPair
    BY <2>11, QuietStep DEF AddPair
  <2>12. CASE NoResources
    BY <1>2, <2>12, NoResourcesReturns
  <2>13. CASE NoData
    BY <1>2, <2>13, NoDataReturns
  <2>14. CASE EraseStore
    BY <1>2, <2>14, EraseStoreEffects
  <2>15. CASE Copy
    BY <2>15, CopyWordQuiet
  <2>16. CASE CopyEnd
    BY <1>2, <2>16, CopyEndReturns
  <2>17. CASE Reset
    BY <1>2, <2>17, ResetEnds
  <2>18. CASE UNCHANGED vars
    <3>1. UNCHANGED <<store, scratch, pc, op, torn>>
      BY <2>18 DEF vars, flash, locals
    <3>2. \A k \in Keys : get(scratch, k)' = get(scratch, k) /\ get(store, k)' = get(store, k)
      BY <3>1 DEF get, Slots, SizeOf, KeyAt, ValAt
    <3>3. Contents' = Contents
      BY <3>1, <3>2 DEF Contents
    <3> QED
      BY <3>1, <3>3 DEF Map!kvVars
  <2> QED
    BY <2>1, <2>2, <2>3, <2>4, <2>5, <2>6, <2>7, <2>8, <2>9, <2>10, <2>11, <2>12,
       <2>13, <2>14, <2>15, <2>16, <2>17, <2>18 DEF Next
<1> QED
  BY <1>1, <1>2

\* The words in flash are a map that only put() and remove() change, each at
\* one moment, whatever resets come between two writes, until one tears the
\* store page (MicroBitStorage.cpp).
THEOREM StoreIsAMap == Spec => ImplementsKeyValueStore
<1>1. Spec => Map!KVInit /\ [][Map!KVNext]_Map!kvVars
  BY MapInit, MapStep, Always, PTL DEF Spec
<1> QED
  BY <1>1 DEF ImplementsKeyValueStore, Map!KVSpec

=============================================================================
