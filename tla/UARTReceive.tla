---------------------------- MODULE UARTReceive ----------------------------
(***************************************************************************)
(* The receiving half of MicroBitUARTService: the circular buffer that the *)
(* radio's interrupt fills and one fiber reads, by character, by number of *)
(* characters or up to a delimiter, polling (ASYNC) or asleep until an     *)
(* event (SYNC_SLEEP).                                                     *)
(*                                                                         *)
(* The interrupt may run between any two steps of the fiber.  An event     *)
(* raised while no fiber is registered for it is lost.                     *)
(***************************************************************************)
EXTENDS Integers, Sequences

CONSTANTS
    Bytes,         \* the values of a byte
    Nul,           \* the zero byte
    Delimeters,    \* the delimiters readUntil() and eventOn() are called with
    N,             \* rxBufferSize, one more than the buffer can hold
    MaxLen,        \* bound: the largest length read() is called with
    MaxBytes       \* bound: how many bytes the central writes

ASSUME SizeAssumption == N \in Nat /\ N > 1
ASSUME BytesAssumption == Delimeters \subseteq Bytes /\ Nul \in Bytes
ASSUME LimitsAssumption == MaxLen \in Nat \ {0} /\ MaxBytes \in Nat

VARIABLES
    \* the service
    rxBuffer, rxBufferHead, rxBufferTail,
    rxBuffHeadMatch,   \* raise HEAD_MATCH when the head gets here
    delimeters,        \* raise DELIM_MATCH on one of these
    \* the fiber that reads
    pc,                \* where it is
    op,                \* the call it is making
    need,              \* the argument of eventAfter()
    caller,            \* who called eventAfter()
    wrapped,           \* what rxBufferedSize() found when it compared the indices
    place,             \* the place eventAfter() has computed for HEAD_MATCH
    localTail, foundIndex,
    buf,               \* what the call returns
    \* history and bound
    removed,           \* the bytes the call has taken out of the buffer
    passed,            \* a sleeping readUntil() has let a delimiter pass
    written            \* how many bytes the central has written

ring == <<rxBuffer, rxBufferHead, rxBufferTail>>
match == <<rxBuffHeadMatch, delimeters>>
waiting == <<need, caller, wrapped, place>>
search == <<localTail, foundIndex>>
reader == <<op, waiting, search>>
vars == <<ring, match, pc, reader, buf, removed, passed, written>>

Index == 0 .. N - 1
Ops == [kind : {"getc", "read", "readUntil", "eventAfter", "eventOn"},
        mode : {"ASYNC", "SLEEP"}, len : 0 .. MaxLen]

Waits == {"headWait", "delimWait"}
PCs == Waits \cup
    {"idle", "getc", "take", "readAsync", "readCheck", "readSize", "needCheck",
     "needSize", "loop", "arm", "setMatch", "headRegister", "scan", "listen",
     "delimRegister", "matched", "finish"}

\* The index after i.
Succ_NoWrap(i) == i + 1
Succ(i) == (i + 1) % N

isReadable == rxBufferTail # rxBufferHead

rxBufferedSize ==
    IF rxBufferTail > rxBufferHead
    THEN (N - rxBufferTail) + rxBufferHead
    ELSE rxBufferHead - rxBufferTail

\* rxBufferedSize() reads the head once to compare and once more to compute.
Compared == rxBufferTail > rxBufferHead
sizeRead ==
    IF wrapped
    THEN (N - rxBufferTail) + rxBufferHead
    ELSE rxBufferHead - rxBufferTail

\* The remainder of C has the sign of its dividend.
Remainder(a) == IF a >= 0 THEN a % N ELSE -((-a) % N)

\* rxBuffHeadMatch is not initialised by the constructor; a value that is no
\* index behaves like -1.
Init ==
    /\ rxBuffer \in [Index -> {Nul}]
    /\ rxBufferHead = 0
    /\ rxBufferTail = 0
    /\ rxBuffHeadMatch \in Index \cup {-1}
    /\ delimeters = {}
    /\ pc = "idle"
    /\ op = [kind |-> "getc", mode |-> "ASYNC", len |-> 0]
    /\ need = 0
    /\ caller = "getc"
    /\ wrapped = FALSE
    /\ place = 0
    /\ localTail = 0
    /\ foundIndex = -1
    /\ buf = <<>>
    /\ removed = <<>>
    /\ passed = FALSE
    /\ written = 0

-----------------------------------------------------------------------------
(* The interrupt.                                                          *)

HasRoom_LastSlot == TRUE
HasRoom == Succ(rxBufferHead) # rxBufferTail
HeadMatches == Succ(rxBufferHead) = rxBuffHeadMatch

\* The fiber after the two events that storing b may raise.  It takes the
\* single character at once when getc() slept, and goes back to its loop when
\* read() did.
Woken(b) ==
    IF pc = "delimWait" /\ b \in delimeters
    THEN IF op.kind = "eventOn" THEN "idle" ELSE "matched"
    ELSE IF pc = "headWait" /\ HeadMatches
         THEN CASE caller = "getc" -> "take"
                [] caller = "read" -> "loop"
                [] OTHER -> "idle"
         ELSE pc

\* A delimiter comes before the reader waits for one, or another byte comes
\* behind the one that woke it.
Passes(b) ==
    /\ op.kind = "readUntil"
    /\ \/ pc \in {"listen", "delimRegister"} /\ b \in Delimeters
       \/ pc = "matched"

Store(b) ==
    /\ HasRoom
    /\ rxBuffer' = [rxBuffer EXCEPT ![rxBufferHead] = b]
    /\ rxBufferHead' = Succ(rxBufferHead)
    /\ rxBuffHeadMatch' = IF HeadMatches THEN -1 ELSE rxBuffHeadMatch
    /\ pc' = Woken(b)
    /\ passed' = (passed \/ Passes(b))

\* One byte of a write of the central; a full buffer drops it.
onDataWritten(b) ==
    /\ written < MaxBytes
    /\ written' = written + 1
    /\ \/ Store(b)
       \/ ~HasRoom /\ UNCHANGED <<rxBuffer, rxBufferHead, rxBuffHeadMatch, pc, passed>>
    /\ UNCHANGED <<rxBufferTail, delimeters, reader, buf, removed>>

-----------------------------------------------------------------------------
(* The calls.                                                              *)

Start(kind, mode, len, first) ==
    /\ pc = "idle"
    /\ op' = [kind |-> kind, mode |-> mode, len |-> len]
    /\ buf' = <<>>
    /\ removed' = <<>>
    /\ passed' = FALSE
    /\ wrapped' = FALSE
    /\ place' = 0
    /\ pc' = first
    /\ UNCHANGED <<ring, match, written>>

getc(mode) ==
    /\ Start("getc", mode, 1, "getc")
    /\ UNCHANGED <<need, caller, search>>

read(len, mode) ==
    /\ Start("read", mode, len, IF mode = "ASYNC" THEN "readAsync" ELSE "readCheck")
    /\ UNCHANGED <<need, caller, search>>

readUntil(mode) ==
    /\ Start("readUntil", mode, 0, "scan")
    /\ localTail' = rxBufferTail
    /\ foundIndex' = -1
    /\ UNCHANGED <<need, caller>>

eventAfter(len, mode) ==
    /\ Start("eventAfter", mode, len, "arm")
    /\ need' = len
    /\ caller' = "client"
    /\ UNCHANGED search

eventOn(mode) ==
    /\ Start("eventOn", mode, 0, "listen")
    /\ UNCHANGED <<need, caller, search>>

Call ==
    \E mode \in {"ASYNC", "SLEEP"} :
        \/ getc(mode) \/ readUntil(mode) \/ eventOn(mode)
        \/ \E len \in 1 .. MaxLen : read(len, mode) \/ eventAfter(len, mode)

Goto(label) ==
    /\ pc' = label
    /\ UNCHANGED <<ring, match, reader, buf, removed, passed, written>>

-----------------------------------------------------------------------------
(* getc() and read().                                                      *)

\* The byte at the tail leaves the buffer; kept says that it is returned.
TakeOne(kept) ==
    /\ removed' = Append(removed, rxBuffer[rxBufferTail])
    /\ buf' = IF kept THEN Append(buf, rxBuffer[rxBufferTail]) ELSE buf
    /\ rxBufferTail' = Succ(rxBufferTail)
    /\ UNCHANGED <<rxBuffer, rxBufferHead, match, reader, passed, written>>

GetcReadable ==
    /\ pc = "getc"
    /\ isReadable
    /\ Goto("take")

GetcNoData ==
    /\ pc = "getc"
    /\ op.mode = "ASYNC"
    /\ ~isReadable
    /\ Goto("idle")

GetcSleep_NoCheck ==
    /\ pc = "getc"
    /\ op.mode = "SLEEP"
    /\ ~isReadable
    /\ pc' = "take"
    /\ UNCHANGED <<ring, match, reader, buf, removed, passed, written>>

GetcSleep ==
    /\ pc = "getc"
    /\ op.mode = "SLEEP"
    /\ ~isReadable
    /\ need' = 1
    /\ caller' = "getc"
    /\ pc' = "arm"
    /\ UNCHANGED <<ring, match, op, wrapped, place, search, buf, removed, passed, written>>

GetcTake ==
    /\ pc = "take"
    /\ TakeOne(TRUE)
    /\ pc' = IF op.kind = "read" THEN "loop" ELSE "idle"

\* while((c = getc(mode)) > 0 && i < len): the character is taken before the
\* limit is looked at, and one taken beyond the limit is dropped.
ReadAsyncTake ==
    /\ pc = "readAsync"
    /\ isReadable
    /\ LET c == rxBuffer[rxBufferTail]
           kept == c # Nul /\ Len(buf) < op.len
       IN /\ TakeOne(kept)
          /\ pc' = IF kept THEN "readAsync" ELSE "idle"

ReadAsyncEnd ==
    /\ pc = "readAsync"
    /\ ~isReadable
    /\ Goto("idle")

\* rxBufferedSize() is called to see whether enough is there and, when it is
\* not, again to compute what is missing.  The head may go round between its
\* comparison and its computation, and move between its two calls.
CompareIndices ==
    /\ pc \in {"readCheck", "needCheck"}
    /\ wrapped' = Compared
    /\ pc' = IF pc = "readCheck" THEN "readSize" ELSE "needSize"
    /\ UNCHANGED <<ring, match, op, need, caller, place, search, buf, removed, passed, written>>

ReadEnough ==
    /\ pc = "readSize"
    /\ op.len <= sizeRead
    /\ Goto("loop")

ReadTooFew ==
    /\ pc = "readSize"
    /\ op.len > sizeRead
    /\ Goto("needCheck")

ReadMissing ==
    /\ pc = "needSize"
    /\ need' = op.len - sizeRead
    /\ caller' = "read"
    /\ pc' = "arm"
    /\ UNCHANGED <<ring, match, op, wrapped, place, search, buf, removed, passed, written>>

ReadLoop ==
    /\ pc = "loop"
    /\ Goto(IF Len(buf) < op.len THEN "getc" ELSE "idle")

\* eventAfter(need, mode)
Arm ==
    /\ pc = "arm"
    /\ place' = Remainder(rxBufferHead + need)
    /\ pc' = "setMatch"
    /\ UNCHANGED <<ring, match, op, need, caller, wrapped, search, buf, removed, passed, written>>

SetMatch ==
    /\ pc = "setMatch"
    /\ rxBuffHeadMatch' = place
    /\ pc' = IF op.mode = "SLEEP" THEN "headRegister" ELSE "idle"
    /\ UNCHANGED <<ring, delimeters, reader, buf, removed, passed, written>>

HeadRegister ==
    /\ pc = "headRegister"
    /\ Goto("headWait")

-----------------------------------------------------------------------------
(* readUntil().                                                            *)

Scan ==
    /\ pc = "scan"
    /\ localTail # rxBufferHead
    /\ foundIndex = -1
    /\ foundIndex' = IF rxBuffer[localTail] \in Delimeters THEN localTail ELSE -1
    /\ localTail' = Succ(localTail)
    /\ UNCHANGED <<ring, match, pc, op, waiting, buf, removed, passed, written>>

ScanEnd_Restarts ==
    /\ pc = "scan"
    /\ localTail = rxBufferHead \/ foundIndex # -1
    /\ Goto(IF op.mode = "SLEEP" /\ foundIndex = -1 THEN "scan" ELSE "finish")

ScanEnd ==
    /\ pc = "scan"
    /\ localTail = rxBufferHead \/ foundIndex # -1
    /\ Goto(IF op.mode = "SLEEP" /\ foundIndex = -1 THEN "listen" ELSE "finish")

\* eventOn(Delimeters, mode)
Listen ==
    /\ pc = "listen"
    /\ delimeters' = Delimeters
    /\ pc' = IF op.mode = "SLEEP" THEN "delimRegister" ELSE "idle"
    /\ UNCHANGED <<ring, rxBuffHeadMatch, reader, buf, removed, passed, written>>

DelimRegister ==
    /\ pc = "delimRegister"
    /\ Goto("delimWait")

Matched_AtHead ==
    /\ pc = "matched"
    /\ foundIndex' = rxBufferHead
    /\ delimeters' = {}
    /\ pc' = "finish"
    /\ UNCHANGED <<ring, rxBuffHeadMatch, op, waiting, localTail, buf, removed, passed, written>>

\* The delimiter is taken to be the byte before the head, wherever the head
\* is by now.
Matched ==
    /\ pc = "matched"
    /\ foundIndex' = rxBufferHead - 1
    /\ delimeters' = {}
    /\ pc' = "finish"
    /\ UNCHANGED <<ring, rxBuffHeadMatch, op, waiting, localTail, buf, removed, passed, written>>

localBuffSize ==
    IF rxBufferTail > foundIndex
    THEN (N - rxBufferTail) + foundIndex
    ELSE foundIndex - rxBufferTail

\* circularCopy(): n bytes from the tail on.
FromTail(n) == [i \in 1 .. n |-> rxBuffer[(rxBufferTail + i - 1) % N]]

FinishFound ==
    /\ pc = "finish"
    /\ foundIndex >= 0
    /\ buf' = FromTail(localBuffSize)
    /\ removed' = FromTail(localBuffSize + 1)
    /\ rxBufferTail' = (rxBufferTail + localBuffSize + 1) % N
    /\ pc' = "idle"
    /\ UNCHANGED <<rxBuffer, rxBufferHead, match, reader, passed, written>>

FinishNothing ==
    /\ pc = "finish"
    /\ foundIndex < 0
    /\ Goto("idle")

-----------------------------------------------------------------------------
Reader ==
    \/ GetcReadable \/ GetcNoData \/ GetcSleep \/ GetcTake
    \/ ReadAsyncTake \/ ReadAsyncEnd
    \/ CompareIndices \/ ReadEnough \/ ReadTooFew \/ ReadMissing \/ ReadLoop
    \/ Arm \/ SetMatch \/ HeadRegister
    \/ Scan \/ ScanEnd \/ Listen \/ DelimRegister \/ Matched
    \/ FinishFound \/ FinishNothing

Next ==
    \/ Call
    \/ Reader
    \/ \E b \in Bytes : onDataWritten(b)

Spec == Init /\ [][Next]_vars

\* A call that is not asleep goes on.
FairSpec == Spec /\ WF_vars(Reader)

-----------------------------------------------------------------------------
(* Properties.                                                             *)

RingOK ==
    /\ rxBuffer \in [Index -> Bytes]
    /\ rxBufferHead \in Index
    /\ rxBufferTail \in Index

CallOK ==
    /\ rxBuffHeadMatch \in 1 - N .. N - 1
    /\ delimeters \in {{}, Delimeters}
    /\ pc \in PCs
    /\ op \in Ops
    /\ need \in 1 - N .. MaxLen + N - 1
    /\ caller \in {"getc", "read", "client"}
    /\ wrapped \in BOOLEAN
    /\ place \in 1 - N .. N - 1
    /\ localTail \in Index
    /\ foundIndex \in Index \cup {-1}
    /\ written \in 0 .. MaxBytes

HistoryOK ==
    /\ buf \in Seq(Bytes)
    /\ removed \in Seq(Bytes)
    /\ passed \in BOOLEAN

\* Every variable has its type: the indices stay inside the buffer, while what
\* read() asks the interrupt to wait for may be nothing or less than nothing.
TypeOK == RingOK /\ CallOK /\ HistoryOK

\* The bytes between the tail and the head, oldest first.
Contents == FromTail(rxBufferedSize)

\* The circular buffer is a first-in first-out queue of N - 1 bytes, whatever
\* the interleaving of the interrupt with the reader (onDataWritten, getc,
\* readUntil): no byte is overwritten, skipped, read twice or read from a slot
\* that was not written, and every byte that is written is kept unless the
\* buffer is full.
Fifo == INSTANCE ByteFifo WITH
            Capacity <- N - 1, q <- Contents, got <- removed, offered <- written
ImplementsByteFifo == Fifo!FifoSpec

\* getc() takes a byte, and readUntil() the byte before the head, only when
\* there is one: a reader that was woken has something to read.
WokenHasData == pc \in {"take", "matched"} => isReadable

\* What a call returns is what it took out of the buffer, in order, less one
\* byte at most: the delimiter, or the byte read(ASYNC) takes beyond its
\* limit.  getc() and read(SYNC_SLEEP) swallow nothing, and readUntil() returns
\* the text before the first delimiter and takes that delimiter with it, unless
\* a delimiter had come before it waited for one, or another byte before it
\* looked at the head after it was woken.
ReturnsWhatItTakes ==
    pc = "idle" =>
        /\ buf = SubSeq(removed, 1, Len(buf))
        /\ Len(removed) - Len(buf) <=
             IF op.kind = "readUntil" \/ (op.kind = "read" /\ op.mode = "ASYNC")
             THEN 1 ELSE 0
        /\ op.kind = "read" /\ op.mode = "SLEEP" => Len(buf) = op.len
        /\ op.kind = "readUntil" /\ ~passed /\ removed # <<>> =>
             /\ \A i \in 1 .. Len(buf) : buf[i] \notin Delimeters
             /\ removed[Len(removed)] \in Delimeters

\* A sleeping read() that an event sent back to its loop has all it asked for.
ReadWakesWithEnough ==
    [][ pc = "headWait" /\ caller = "read" /\ pc' = "loop" /\ op.len < N
        => rxBufferedSize' >= op.len ]_vars

\* A call that is awake either returns or goes to sleep: the interrupt cannot
\* keep the reader in a loop once the central has stopped writing, and a read()
\* that slept returns with what it asked for.
CallsSettle == (pc # "idle" ~> pc \in Waits \cup {"idle"}) /\ ReadWakesWithEnough

\* "if a match is not found, it will block on an event, fired when a character
\* is matched" (MicroBitUARTService.cpp:425), and "it will set an event and sleep
\* until the number of characters are avaialable" (342): a readUntil or a read
\* that sleeps does not go on sleeping over what it asked for.
Served ==
    \/ /\ pc = "delimWait" /\ op.kind = "readUntil"
       /\ \E i \in 1 .. Len(Contents) : Contents[i] \in Delimeters
    \/ pc = "headWait" /\ caller = "read" /\ rxBufferedSize >= op.len
SleepEnds == [](Served => <>(pc \notin Waits))
=============================================================================
