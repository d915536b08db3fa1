# Verification of MicrobitAlarm

MicrobitAlarm is a Bluetooth alarm clock on a BBC micro:bit: a phone connects,
writes lines over the UART service, and the micro:bit echoes every byte,
records a script of servo moves and pauses between the lines `a<delta>` and
`e`, and performs the script when the delta has passed.  The program is one
file, `src/MicrobitAlarm/source/MicrobitAlarm.cpp`, on top of the micro:bit
runtime (`src/MicrobitAlarm/microbit/microbit-dal`, the DAL), whose UART
service, message bus, fiber scheduler and display do the part that is hard to
test.  The modules here model both, TLC checks them on small instances
(`MC*` modules and `.cfg` files), and TLAPS proves the main results for every
value of the constants (`*Proofs` modules).

## 1. The system

| Part | State | Operations | Talks to |
|---|---|---|---|
| Alarm application (`MicrobitAlarm.cpp`) | `connected`, `alarmmil`, `recscr`, `servovalue`; in `main`: `line`, `recordmode`, `gotc` | the loop of `main`, `processline`, `alarm`, `onConnected`, `onDisconnected` | reads and echoes through the UART service; sleeps through the scheduler; both handlers come from the message bus and scroll on the display |
| UART service (`MicroBitUARTService.cpp`) | two ring buffers, the delimiters and the head position somebody waits for | `onDataWritten` (interrupt), `getc`, `read`, `readUntil`, `eventAfter`, `eventOn`; `send`, `putc`, `on_confirmation` (interrupt) | raises events that wake fibers; the central reads indications |
| Message bus and listeners | event queue, one queue per listener, `BUSY` flags | `queueEvent` (any context), `idleTick`, `process`, `async_callback` | handlers run in fibers; `scheduler_event` is an immediate listener |
| Fiber scheduler (`MicroBitFiber.cpp`) | run, sleep and wait queues, current fiber, fork-on-block flags | `schedule`, `fiber_sleep`, `fiber_wait_for_event`, `fiber_wake_on_event`, `invoke`, `scheduler_tick`, `scheduler_event` | the timer's interrupt and the bus move fibers to the run queue |
| Display | the animation that runs and where it stands | `print`, `scroll`, `animate`, blocking or not, `stopAnimation`, `setEnable`; `animationUpdate` (interrupt) | raises `ANIMATION_COMPLETE` and `FREE` |
| BLE manager (`MicroBitBLEManager.cpp`) | pairing flags and passkey; system attributes in flash | connection callbacks; `pairingMode` with `pairingRequested`, `pairingComplete`, `idleTick` | raises the connection events; pairing mode takes the place of the program when A and B are held at the start |
| System timer | milliseconds since start, tick components | `system_timer_current_time`, `update_time`, `system_timer_tick` | drives the scheduler and the display |
| Heap | blocks that begin with their length | `microbit_create_heap`, `malloc`, `free` | every `new` of the program, in fibers and interrupts |
| Buttons | counter, state and configuration of A, B and A+B | `systemTick`, `onButtonEvent`, the hand-over in `MicroBit.cpp` | the timer ticks them; A+B listens to A and B |
| Servo and pins | three PWM channels, each pin's status and object | `setServoValue`, `setDigitalValue`, ..., `allocate`, `release` | the application turns a servo |
| Serial port (`MicroBitSerial.cpp`) | two circular buffers, the lock, whether the interrupt is attached | `send`, `sendChar`, `setTxBufferSize`, `clearTxBuffer`; `dataWritten` (interrupt) | sleeps and wakes through the scheduler |
| Radio (`MicroBitRadio*.cpp`) | the queue of frames and its depth, the datagrams, `suppressForwarding` | `queueRxBuf` and the handler (interrupt), `recv`, `send`, `enable`, `disable`, `idleTick`, `packetReceived`, `eventReceived` | the idle fiber hands frames to datagrams, events and listeners; events of the bus are forwarded |
| Flash store (`MicroBitStorage.cpp`) | a page of pairs and a scratch page | `size`, `get`, `put`, `remove` | the BLE manager and the sensors keep their data in it |
| Phone application (`MainActivity.java`) | the list of devices, the queue of lines | scan, connect, discover, send | writes lines to the UART service |

What is hard here: three contexts share the state (the radio's interrupt, the
timer's interrupt and cooperative fibers); the link comes and goes between any
two steps; the only fiber that reads also sleeps for confirmations; several
waits look at a condition first and register for the change afterwards.  The
list under "hazards" in `PROJECT.json` has each one at its line.

What makes each part correct:

- application: the script is what was said between `a` and `e`; an alarm rings
  once, not before its time, and in the end; a script that has started is
  played to its end unaltered; every byte is read and echoed;
- UART service: the receive buffer is a FIFO that refuses a byte only when it is full; a
  call returns what it took out, `readUntil` the text before the first delimiter; a sleeping
  call wakes when it is served; the central gets what was sent, whole and in order;
- bus, listeners and display: events are delivered in the order in which they
  were raised, a busy listener loses none that it queued, no listener is deleted
  under a fiber that comes back to it; handlers change `connected` in the order
  of the events; nobody waits for a display that is free; every animation ends;
- scheduler and clock: every fiber is in one place; sleepers sleep their time, less
  what the clock's milliseconds cut off;
  waiters stay registered; runnable fibers run;
- flash store: a map whose changes are atomic, also across a reset;
- heap: blocks tile it, each has one owner, and malloc refuses only when full;
- buttons: a press is one click, of the button or of A+B, and a bounce is none;
- servo: a channel drives the pin that was given it, until another takes it;
- serial port: characters go out in the order of the calls, whole strings
  unmixed; every call ends;
- radio: a frame has one owner, a packet is handed out once and in order, what
  there is to send goes out once;
- BLE manager: a passkey is shown for the request for which the button was pressed,
  while somebody waits for it; pairing mode ends;
- phone: the lines arrive in the order they were queued, none twice.

## 2. The modules

| Module | Models | State and actions |
|---|---|---|
| `AlarmClock` | the promise to the user, no code | heard lines, the ring, the performance |
| `MicrobitAlarm` | `MicrobitAlarm.cpp` with the half of `send()` that it uses | one variable per variable of the program; `pc` is the place of the main fiber, one action between two places at which an interrupt or another fiber can make a difference; `events`, `Handle`: the handlers, in any order; `Connect` ... `on_confirmation`, `Tick`: the radio and the timer |
| `MCMicrobitAlarm` | | the sets of lines the central writes |
| `ByteFifo` | the promise of a receive buffer, no code | store, refuse when full, take |
| `UARTReceive` | the receiving half of `MicroBitUARTService.cpp` | the ring, the delimiters, `rxBuffHeadMatch`; `onDataWritten` is the interrupt; each reading call is cut at each access of what the interrupt changes: `read` looks at the head once to see whether there is enough and once to compute the place to wait for, and `eventAfter` reads the head and stores that place in two steps; `readUntil` looks at the head again after it was woken |
| `LinkHandlers` | `queueEvent`, `idleTick`, `process`, `async_callback`, `scroll`, `waitForFreeDisplay`, `animationUpdate` and the scheduler as far as they meet in the two handlers | both event queues, the run queue, the queue for the display, the place of each fiber; who blocks is on its way into `schedule()` (`leaving`), which `Schedule` ends, and may have been woken in between |
| `Display` | the animations of `MicroBitDisplay.cpp` for any callers | the mode with the position that ends it, the queue for the display, the place of each fiber in its call; the update comes between any two steps |
| `MCDisplay` | | `LinkHandlers` and `Display` side by side, with their fairness |
| `FiberScheduler` | `MicroBitFiber.cpp` and `update_time()` | the four queues, the current fiber, fork-on-block mode; fibers and handlers call whatever they like; `Tick` and `Raise` come between any two steps; the timer counts `PerMs` to a millisecond, the clock is read in whole milliseconds, and a wake-up time keeps what is below `Wrap` of it |
| `UARTTransmit` | the sending half of `MicroBitUARTService.cpp` | the buffer as a sequence, the indication and as much of the buffer as it carries (`carried`), the place of each fiber in `send()`; the confirmation comes between any two steps and empties the buffer, whatever was carried |
| `Listeners` | `MicroBitMessageBus.cpp` for any listeners, `MicroBitListener::queue` | the flags, the event in each listener and its queue, the bus's queue, the walk of `process`, fibers inside handlers; `Interrupt` sends while a fiber is in `queueEvent` |
| `HeapAllocator` | `MicroBitHeapAllocator.cpp` | memory word by word, the walk of `malloc` block by block, `free` in two steps; `Write` is an owner |
| `Buttons` | `MicroBitButton.cpp`, `MicroBitMultiButton.cpp`, the hand-over of `MicroBit.cpp` | counters and flags of A and B, one action per tick of one button and its event |
| `DynamicPwm` | `DynamicPwm.cpp` and what `MicroBitPin.cpp` does with it | the channels, and each pin's status and pointer |
| `AndroidApp` | `MainActivity.java` | the UI thread and the callbacks' thread, the queue of lines, the shared characteristic; clients, links and writes of Android's stack |
| `SerialPort` | the sending half of `MicroBitSerial.cpp` | the ring with its indices and size, the lock, each fiber's queue and place; the interrupt comes between any two steps |
| `Radio` | `MicroBitRadio.cpp`, `MicroBitRadioDatagram.cpp`, `MicroBitRadioEvent.cpp` | frames by their addresses, which are freed and allocated again; the registers and the interrupt of the radio; `pc` is the fiber inside the driver; `Interrupt` is an event that the timer's interrupt raises |
| `Pairing` | the pairing mode of `MicroBitBLEManager.cpp` | the flags, the passkey, the time; `pc` is the place of the main fiber; the stack's callbacks, `idleTick` and the loss of the link come between any two steps, also inside the change of the flags |
| `MCParts` | | `HeapAllocator`, `Buttons`, `DynamicPwm`, `Listeners`, `AndroidApp` and `Radio` side by side: a behaviour picks one part |
| `Queues` | the queues of `MicroBitFiber.cpp` | `OnlyIn` takes fibers out of the middle of a queue and keeps the order of the others, as a recursive function and no recursive operator, so that it can be proved about; `FiberScheduler`, `LinkHandlers`, `Display` and `AndroidApp` use it |
| `MCDrivers` | | `UARTTransmit`, `SerialPort`, `Radio` and `Pairing` side by side, with their fairness |
| `KeyValueStore` | the promise of the flash store, no code | a map, the call under way, the moment it takes effect |
| `FlashStorage` | `MicroBitStorage.cpp` | two pages word by word, `size`, `get`, `put`, `remove`; `Reset` comes between any two writes |
| `MicrobitAlarmProofs`, `UARTReceiveProofs`, `FlashStorageProofs`, `FiberSchedulerProofs` | | the theorems about the module each is named for |
| `DisplayProofs`, `DriversProofs`, `PartsProofs` | | the theorems about the parts of `MCDisplay` (with `LinkHandlers`), `MCDrivers` and `MCParts` |
| `QueueProofs` | | lemmas on queues that four of these cite |

`PROJECT.json` maps each definition to its lines.  `MicrobitAlarm` and
`LinkHandlers` meet at the handlers: the first lets them end in any order, the
second shows which orders occur.  `MicrobitAlarm` reads a buffer that behaves
like `ByteFifo`, which `UARTReceive` implements; a fiber that blocks in
`UARTReceive` or `MicrobitAlarm` becomes runnable in one step, which
`FiberScheduler` shows in its own steps.  `LinkHandlers` is `Listeners` and `Display` with two
listeners, their handlers and the scheduler written out; `AndroidApp` writes the
lines that `MicrobitAlarm` gets, and `MicrobitAlarm` allows more than it does:
any sequence of tokens, lines cut anywhere.

Abstractions: the text of a line up to its newline is one token, the command
letter and the number (`atoi`, `substring` and the digits are left out, and so
is the pause of `p`, which is a `sleep` like that after every line); bytes are
model values; a key or a value in flash is one word, and a reset in the middle
of a longer one is like one between words, for neither a half key nor a half
value equals a whole one; an erasure is done or not.  `FiberScheduler` keeps
the order of the links of a queue and nothing of stacks and registers:
`swap_context` is who runs next.  A fiber forked when memory is used up would
panic the device and is not forked.  No code ever sets `DO_NOT_PAGE`, and no
handler in fork-on-block mode calls `schedule()` itself.  `HeapAllocator` keeps the
highest bit of a word, the mark of a free block, in a set of its own.  `Buttons`
counts time in ticks, and a tick of `Display` is one at which `animationDelay` has passed.  `Listeners` leaves urgent listeners out of the bus: they
are called inside `queueEvent`, as the multi button is in `Buttons`.  In `SerialPort`
a character is known by its call and its place in it, in `Radio` a packet by its
number and protocol.  What follows
when freed memory is used, a PWM object or a listener, is not modelled: a history
variable (`dangled`, `abandoned`) says that it has happened.

Definitions called `X_Something` right before `X` are variants that a plausible
slip in the code would give; nothing uses them.  Each is there to show that a
property notices.

## 3. The runs

`tlc -workers 2 -config <cfg> <module>`; each ends within about a minute and a half.

| Run | Question | Answer |
|---|---|---|
| `alarm` | does the script stay what was said, playable, with one echo in flight, does nothing ring early, is it the abstract alarm clock, and does it ring, read and go on, for every interleaving of the central, the handlers and the clock? | yes, except that everything stops with an echo whose confirmation is lost |
| `alarm_documented` | is the number in `a<Delta Second>` seconds, and the alarm set as a transaction? | no: milliseconds, and an alarm can ring with the recorder on and half its script |
| `alarm_echo` | does `send(SYNC_SLEEP)` return? | no, when the central goes or unsubscribes between the check and the confirmation |
| `receive` | is the receive buffer a FIFO, does each reading call return what it takes, is a reader that was woken served, and does a call settle? | yes, except that a `readUntil` that sleeps takes the byte before the head for its delimiter (`passed`) |
| `receive_sleeps` | does a sleeping `read` or `readUntil` wake when what it waits for is there? | no: the interrupt can come before the registration |
| `drivers` | does every string of the UART service arrive whole and in order, and `SYNC_SLEEP` return only with what was confirmed, whatever an indication carries? do the serial port's characters go out in the order of the calls, whoever resizes and clears? is a passkey shown only for the request that was authorised, and while it is pending? does every `send` end, every waiter wake, the radio's queue drain, pairing mode end? | yes, with the exceptions below: a UART buffer filled while an indication is out (`mixed`), characters that an indication did not carry (`cut`), a fiber that registers for what is over, an event forwarded inside a `send` of the radio, a passkey replaced while its digits are shown, an answer that is written over or never comes |
| `link_order` | do handlers in fibers of their own leave `connected` true? does whoever waits for the display wait for something, and does every animation and every call of it end? | yes, if no queue overflows and no end of an animation is missed, and but for callers that the display has forgotten (`stranded`) |
| `link_last` | and without the second condition? | no |
| `scheduler` | are all fibers in one place, do sleepers sleep, do waiters hear, do the runnable run? | yes, sleepers to less than a millisecond, with three exceptions: a tick in the middle of `update_time` counts time twice (`skewed`), a wake-up time beyond 32 bits (`folded`), and an event that moves the fiber another event's walk goes on from (`overtaken`) |
| `scheduler_walk` | has `scheduler_event` woken every fiber that waited when it unregisters? | no, after such a move; it can also walk for ever |
| `flash` | is the store a map with atomic changes across resets? | yes, unless the reset comes while the store page is written; then pairs are lost, but no key shows another key's value |
| `parts` | are blocks their owners', is a press one click, does a channel follow its pin, does a listener get its events in order and stay while it is used, do the phone's lines arrive in order, does the radio hand out each packet once? | yes, with three exceptions: a reentrant listener can be deleted under a fiber, a line can be written twice by the callback's empty string, and a forwarded event inside the radio's `recv` breaks its section |

Seven runs hold under a condition and keep it in the property, as a history
variable (`missed`, `lost`, `skewed`, `overtaken`, `torn`, `mixed`, `overlapped`,
`dangled`, `raced`, `forgotten`, `nested`, `unsent`, `unanswered`, `stranded`, `passed`, `cut`,
`folded`) or as `EchoLost`; in
the bounds given each property fails when its condition is left out, so the
conditions are not there to hide more than they name.

### Bounds

- `alarm`: four tokens are an alarm that rings with the recorder on and one line
  recorded (`a1 \n s45 \n`), one that is ended (`a1 \n e \n`), or one that is set
  again (`a1 \n a1 \n`); a line and an `e` in one script take
  six, for which there are the proofs; two sessions, so that a line, a recording and an echo can
  be cut by a disconnection and go on; a buffer of two, so that bytes are lost; a
  clock of three values, so that a delta passes before, during and after the
  recording.  `W` = 8 keeps the sums below `NEVER`: the wrap of a deadline after 49 days
  is out of this run, as `NoWrap` puts it out of the proofs.
- `receive`: a ring of three slots with five bytes wraps, fills and overflows;
  `MaxLen` = 2 gives every relation of a length to what is there.  `receive_sleeps`
  has a slot more and a byte less.
- `drivers`: for the UART service two fibers, a buffer of two and strings of one
  and three, so that one fits beside another and one needs two indications, two
  calls at a time or in turn, two connections, and indications that carry one character
  or all the buffer holds (on the device 20, and the buffer holds 32).  For the serial port two fibers,
  buffers of one and two, characters and strings of two, three calls: a string that needs
  the buffer twice, another call while it sleeps, a size that grows and one that
  shrinks; the interrupt comes at most once between the new size and its being
  detached, which takes less time than a character.  For the radio's
  liveness one buffer, three frames, two packets and two sends.  For pairing a passkey
  of two digits, so that a request comes between them, three pairings, so that one
  replaces another that has replaced one, and a timeout of two rounds.
- `link_order`, `link_last`: eight connection events with queues of depth three
  (ten on the device): a busy listener gets up to four events, queues overflow.  For
  the display two callers, who can both be in its queue behind an animation nobody
  waits for, and an effect of each kind on a display two wide: an empty text, images
  that are scrolled to either side, moved as they should be, moved the wrong way, so
  that the position wraps, or not at all.
- `scheduler`: three fibers beside the idle one (two waiters and one that raises
  an event), sleeps of a millisecond of two counts while the clock goes to two counts,
  and a context that holds one bit: a sleep that begins at the second count ends
  a count early, and one that begins with the second millisecond does not fit; three blocking
  calls besides creation and yields, one event from an interrupt: the least at
  which the exceptions above occur.  The bound on the calls cuts off a fiber that blocks and
  comes back for ever; that round robin reaches everybody all the same is shown only by `Yield`,
  which is not counted.  `scheduler_walk` needs no clock.
- `flash`: three keys on a page for two, two values of which one is the zero
  that a damaged header yields, four calls and two resets: a full page, a gap
  closed by `remove`, and a reset in the repair of what a reset left.
- `parts`: heaps of four and two words that touch, so that the word behind the
  end of the first is the header of the second, with requests of one and two
  words behind a header, two contexts, and payload words of which any may look like a free
  header; a counter up to 4 with thresholds 2 and 1 in place of 12, 8 and 2 keeps
  their order, and a press can be short, long or held; four pins on three
  channels, so that the last is stolen; a listener of each mode, two kinds of events,
  three events for queues of two, of which an interrupt may raise any; two lines, two clients
  and two services, of which either may be the UART's; two buffers of the radio
  with four packets and five frames, so that the queue and the datagrams fill up
  and an address comes back, and one send.  The proofs are for all of these but
  the three listeners.

Deadlock is not checked: every one of these systems may stop.  The main fiber
or a reader may sleep for ever, all fibers may wait, the flash calls end, and the
environment ends when a bound is reached.

### Fairness

- `MicrobitAlarm`: WF of the main fiber (a runnable fiber is scheduled, see
  `RunnableRuns`, and its sleeps are timed), of the timer, and of the
  confirmation while the link lasts, which the attribute protocol demands of the
  central.  The handlers have none: `AlarmRings` and `InputIsRead` speak of
  behaviours in which `connected` stays on.
- `UARTReceive`: WF of the reader; nothing of the central.
- `UARTTransmit`: WF of the fibers together, since a fiber keeps the processor
  until it sleeps, and of the confirmation while there is an indication.
- `LinkHandlers`: WF of the running code and of the animation's timer; SF of
  `Deliver`, for `idle_task` calls `idle()` before each `schedule()` and the idle
  fiber's choice between the two is the model's, not the code's.
- `Display`: WF of the timer and of the fiber that has the processor; SF of a woken
  fiber's turn, which round robin gives it (`RunnableRuns`) however many calls the
  others make.  The display may be off for ever.
- `FiberScheduler`: WF of the running code, of `Yield` and of a handler's return:
  a fiber gives up the processor in the end, which cooperative scheduling takes
  for granted.  Neither interrupts nor calls are fair.
- `SerialPort`: WF of the interrupt, the tick, the fibers' steps, their giving up
  of the processor and its being given: one fiber at a time is in a call, the
  others' calls are refused, so that no call competes with another.
- `Radio`: WF of the fiber that is in the driver (the idle fiber has its turn),
  of the end of a transmission and of the interrupt.
- `Pairing`: WF of the main fiber, whose sleeps are timed; nothing of the central and
  nothing of the button, which may never be pressed.
- `FlashStorage` and, in `parts`, all modules: safety only.

`Radio` takes from the hardware that a transmission outlasts the way from
`TASKS_START` to the next statement, and that tasks take effect in any state.

`LinkHandlers` assumes of time that an animation (over 100 ms) outlasts the
fibers that are runnable when it begins, since their steps take microseconds; at
its end only a fiber that was just forked, or main, may be in the middle of one.
In the same way main's sleep (at least a tick) outlasts its way into `schedule()`.

## 4. What is proved

`tlapm` on each of the `*Proofs` modules checks every obligation, for all values of the constants that satisfy the named assumptions
(the numbers are naturals, the buffer has a slot, lines are lines).  Every invariant
that a passing run checks is stated by a theorem, and so are the action properties and
the refinements, but for the fairness in `ImplementsAlarmClock`.

The application (`MicrobitAlarmProofs`):

- `TypeCorrect`: the types are inductive by themselves.
- `ScriptSafe`: `ScriptIsWhatWasSaid` and `ScriptIsPlayable` are inductive together
  with the types.  Each needs the other: a line that is performed leaves the script
  alone because no line in it is an `a` or an `e`, and that is so because the script
  is what was said between the two.
- `EchoSafe`: `OneIndication` is inductive: only `SendWrite` makes an indication
  and it leaves main waiting, and only the confirmation, or the loss of the link,
  ends that.
- `RingsInTime` and `AlarmImplementsClock` assume `NoWrap`, that no sum of the clock
  and a delta reaches the value that stands for "no alarm" (49 days of uptime).
  The invariant is `DeadlineIsSum`: an armed deadline is the time of the last `a`
  plus its number.  The refinement maps each step to `Hear`, `Ring`, `Play` or a
  stutter.  Its fairness (`ClockSpec`'s WF of `Play`) is checked by TLC only.
- `ScriptPlayable`: `ScriptIsPlayable` alone, from the invariant of `ScriptSafe`.

The receive buffer (`UARTReceiveProofs`):

- `ReceiveTypes`: the types, which need where each call is: a place in the buffer
  is read only inside a call that has checked for it.  The number of bytes that `read`
  gives to `eventAfter` may be zero or negative, since bytes come between its two looks at
  the head.
- `ReceiveSafe`: the ring's indices and `WokenHasData`.  The invariant adds where
  the interrupt may have moved the head since the reader looked; only the reader
  moves the tail, so what it saw between the two is still there.
- `ReceiveIsFifo`: the ring with its two indices implements `ByteFifo`, from the
  same invariant: a store appends to the contents, a take removes the first, and a byte that
  is offered is refused only when the contents fill the ring.
- `CallsReturn`: `ReturnsWhatItTakes`.  Its invariant (`CallsInv`) says at each place of a call
  what it has taken, how much it still wants, and that the text `readUntil` has
  looked at has no delimiter but the one it found, also when it slept, unless `passed`.
- `ReadWakes`: `ReadWakesWithEnough`, a part of `CallsSettle`.  The head gets to the place a `read` waits for
  with as many bytes in the buffer as it wants, or has passed it before the
  registration (`WakeInv`), in which case it wakes only after a whole round, or never;
  the sums modulo the size, of numbers that may be negative, are the hard part.

Queues (`QueueProofs`): `OnlyIn` keeps those it should, once each, in their order, and with
`Append` and the removal of one fiber leaves a queue a queue.  `OnlyIn` is a recursive function, and an induction
over data needs a theorem with an operator parameter, which the provers cannot
instantiate; but an induction for a fixed set can be had from a fact about sets: a set that
has 0 and the successor of each of its numbers has them all (`NatSetInduction`).

The scheduler (`FiberSchedulerProofs`), for any fibers, events, sleeps and interrupts:

- `EveryFiberHasItsPlace`, `SchedulerTyped`, `NoFiberLost`: `PlacesInv` says that the four queues, the fresh
  fibers and the one in the hands of a call share nobody and are all there are (`Places`), and at
  which place of a call its fiber is in which queue (`InCall`), since an interrupt may have
  moved it between the two steps in which the call moves it.
- `WaitersHear`: `WaitersAreHeard`.  A walk that no interrupt has led astray has every fiber
  that waits for its event at the saved pointer or behind it (`WalkOK`), so that
  none is left when the event is unregistered.
- `SleepersSleep`: `SleepsItsTime`, for any number of counts to a millisecond and any width of
  `context`.  What `update_time` reads and stores is never more than the time that has passed,
  until a tick comes in the middle of it (`TimerInv`), so that no sleeper's time is further
  away by the time than by its wake-up time in counts, but for the rest of a millisecond
  (`OnTime`); a sleeper that is `folded` is left out.

The two handlers (`DisplayProofs`), for any depth of the queues and any number of events:

- `HandlersTyped`: each fiber is in the queue, and has the display, that go with its place
  (`CallsInv`).
- `HandlersEndInOrder`: `ConnectedIsTrue`.  The invariant (`Order`) finds the handler of the oldest
  event that is not dealt with (`Oldest`) from how many events each handler has: connections and
  disconnections take turns, so that the two numbers differ by one at most.  It is ahead of the
  other on its way through the display (`Ahead`), and `connected` is what the last one that ended
  has set.  It holds until a queue was full (`lost`) or an end missed (`missed`), as the property does.

The display (`DisplayProofs`), for any callers, width and range of the position, and the effects of
`MCDisplay`, of which the proofs use only what `ConstantsOK` says of any effects:

- `DisplayTyped`: the position wraps inside its range, and the display's queue is the fibers
  that wait for it, each once (`ScreenTypes`).
- `AnimationsAreAwaited`: `AnimationsQueue`.  Beside the types the invariant needs that a fiber between the beginning of
  its animation and the registration for its end owns the display while it is busy (`Begun`).

The drivers (`DriversProofs`), for any fibers, sizes, strings, passkeys and numbers of calls:

- `PasskeyIsShownOnDemand`: `PasskeyOnDemand`.  A digit that was loaded belongs to the passkey that the button
  has allowed, unless a request has replaced it (`Authorised`), and what is pending was requested
  by the peer that still waits (`Requested`).
- `EveryStringArrives`: `StringsArrive`.  The UART service: what the central has and what the buffer holds are
  one sequence (`Given`), in which a confirmation only moves the border, until a fiber has filled
  the buffer while an indication was out (`mixed`); what a confirmation drops uncarried belongs
  to the call that is `cut`, of which nothing is claimed but the order; `SYNC_SLEEP` goes on when
  the border has passed its characters.  The serial port (`PortInv`): from the tail to the head the ring holds what was
  accepted and is not on the wire (`Ring`), the wire is a beginning of what was
  accepted (`SentFirst`), one fiber is in a call (`OneCaller`), and what its call has copied is
  at the end of what was accepted (`Copied`).  An interrupt under the new size takes a
  character that the resize throws away with the rest.
- `DriversTyped`: the types, from the same invariants.

The parts (`PartsProofs`), for all values of the constants, except that the bus has the three
listeners of `MCParts`, one of each mode; the heap's theorems are about `HeapAllocator`'s own `Spec`,
with any heaps:

- `HeapSafe`: `OwnersAreSafe`, for any heaps that do not overlap, any number of
  contexts and any words written by owners.  The blocks tile each heap (`Tiled`), and
  an owner's block is used and long enough.  The inductive invariant adds where a
  walk is (`WalkerOK`: on a header, or at the end, and behind it only blocks too
  short that cannot be joined with the next) and what a free has read
  (`FreeingOK`: two contexts free different blocks, and nobody has touched the
  header since it was read, since malloc passes over used blocks).
- `PayloadSafe`: no step of the allocator writes into a payload: every word it
  writes is a header or lies inside a free block.
- `RefusalIsHonest`: what a walk has left behind is too short; this is the part
  of `WalkerOK` that says so.
- `ChannelsSafe`: `ChannelsFollowPins`, for any channels and pins: whoever takes a
  channel writes his own name into it, and only the owner of a name releases.
- `PressesAreClicks`: `PressesClick`, for any thresholds.  While a button is down its counter is
  no further below the upper threshold than it has had ticks since (`Steady`), so that a bounce
  does not turn it; what A+B supresses is what was part of a click of A+B since the button went
  down (`Supressed`).
- `LinesArriveInOrder`: `LinesInOrder`.  What was written is no later than what the characteristic
  holds, and that is before every line that the loop has not come to (`Behind`); so whoever writes
  next, the loop or the callback, keeps the order.
- `ListenersAreServed`: `ListenersServe`.  What a fiber in `queueEvent` remembers of the queue still
  divides it: before that place are older events, behind it those of interrupts that came since
  (`Entering`).  A listener that queues is owed what it has handled, the event between two calls
  and its backlog, in this order (`Entered`), and has a fiber while it has a backlog; so it is
  not deleted under it.
- `RadioHandsOver`: `RadioDelivers`.  A frame is in one place (`FramePlaces`); what the idle fiber has in its
  hand is the head of the queue or nobody's (`Hand`), also when the address is
  given away and comes back; what was heard is what was passed on, the hand and
  the queue, and the depth counts the queue, as long as no forwarded event came inside `recv` (`Order`);
  each packet to send has gone out once, was swallowed (`unsent`), or is the argument of the
  fiber inside `send` (`Outgoing`).
- `PartsTyped`: the types, from the same invariants.

The flash store (`FlashStorageProofs`):

- `Types`, `FlashWrittenOnce`, `KeysKeepTheirValues`, `StoreIsAMap`, for any keys,
  values, size of the page and resets.  The invariant says what the pages hold at
  each place of the code: the store's pairs have different keys, so that a key is
  found at most once; while `remove` works, the scratch page holds what the first
  `i - 1` pairs become.  The header and each pair have two words, so that the copy ends
  at a pair's end; a store page that is not what the scratch page holds is one whose
  copying is under way or that a reset tore.  A call
  takes effect where the store page is erased: from there on the scratch page holds
  the map after the call, which is what `StoreIsAMap` maps the state to.  That a full
  page holds as many keys as it has places is a bijection between the two.  The one
  assumption beside the types is that no call is `None`.

Left to TLC, because the provers do no reasoning about fairness: `AlarmRings`, `InputIsRead`, `CallsSettle`
(but for `ReadWakesWithEnough`), `DriversSettle`, `ConnectedFollowsLink`, `AnimationsEnd`, `RunnableRuns`, and that the
application plays a script to its end (the fairness in `ImplementsAlarmClock`).  The runs that end in a violation are
counterexamples and need no proof.

## 5. What the checks found

The findings in `PROJECT.json` quote the lines.  In short: the delta is in
milliseconds and an alarm may ring in the middle of its own recording; an echo
whose confirmation is lost stops the program;
`read`, `readUntil` and `waitForFreeDisplay` look before they register and can
sleep over what they wait for, the last with the effect that `connected` stays
wrong; an event raised in an interrupt can lead the walk of another one astray.

Not given a run of its own:

- `read(ASYNC)` takes a byte out of the buffer before it looks at its limit and
  drops it (`ReturnsWhatItTakes` has the exception).
- `readUntil(SYNC_SLEEP)` that was woken takes the byte before the head for its
  delimiter (`MicroBitUARTService.cpp:460`): a byte that came behind the delimiter makes it
  return the delimiter inside the text, and one that came before the registration is passed
  over, against `:414`, "Reads characters until a character matches one of the given
  delimeters" (`passed`).  When the delimiter lies in the last slot, the head is 0, the place before it -1,
  and the call returns an empty string although it was woken for a match.
- `read(SYNC_SLEEP)` counts what there is twice (`:368`, `:369`).  Bytes that come in between make
  the number it waits for zero or negative: `eventAfter` registers the place where the head
  is, one behind it, or, when the remainder is negative, none; the reader sleeps over what it
  asked for until the head has come round, or for ever (`receive_sleeps` shows it asleep).
- An indication carries 20 bytes when the MTU is 23; `nRF5xGattServer.cpp:240-246` is told how many
  were carried and does not look, and the confirmation empties the whole buffer
  (`MicroBitUARTService.cpp:52`).  With the default buffer of 20 everything fits; with the 32 of
  `MicrobitAlarm.cpp:139` up to 12 characters count as sent and are lost, against `:242-245`, "until all
  given characters have been received by the connected device" (`cut`).  The application
  sends one character at a time.
- A sleep of `t` milliseconds may end up to one millisecond early, since the time it begins at and
  the time it is compared with both lose what is below a millisecond
  (`MicroBitSystemTimer.cpp:137`), against `MicroBitFiber.cpp:325`, "the fiber will not be be made
  runnable until after the elapsed time".  The wake-up time is kept in 32 bits
  (`MicroBitFiber.h:88`) and compared with a time of 64 (`MicroBitFiber.cpp:249`): 49.7 days
  after the start every sleep ends at the next tick (`folded`).
- A fiber that sends while another's indication is out has its own indication
  refused; its characters stay in the buffer and are dropped by the first's
  confirmation, counted as sent, or arrive as zeros when the confirmation comes
  between the size and the copy (`mixed`).
- The bus tests `queueLength` outside the section that changes it: a fiber and an
  interrupt can queue one event more than the limit (`TypeOK` of `Listeners`).
- A reentrant listener is not busy any more when the first of two fibers leaves
  it, and may be deleted under the second (`overlapped`).
- A pin whose channel's object was deleted by the pin that took it reads freed
  memory to find out whose it is (`dangled`).
- The phone's `btTXCharac` is null after discovery unless the UART service comes
  last; tapping Send then ends the application in the middle of the queue.  A line
  that Android refuses, because another is under way, is lost without notice.
  The callback's `send("")` and a line share one characteristic, and the line may
  be written twice and the empty string never (`raced`).
- `update_time` counts a tick twice, and a sleeper wakes early, when the timer's
  interrupt comes between its sum and its reset (remove `skewed'` from
  `SleepsItsTime`).
- A reset between the two words of the flash header makes `get` return a value of
  zeros for every key (`torn`).
- `send(SYNC_SLEEP)` of the serial port waits for one tick and not for the buffer to
  be empty: `fiber_sleep(0)` (`MicroBitSerial.cpp:297`) takes the fiber out of the
  queue in which it has just been put; `MicroBitSerial.h:290` says that it "sleeps
  until all bytes have been sent".
- The serial port's size is set before the interrupt is detached: a character taken
  between the two is taken modulo the wrong size (`stray`).  A size of 255 wraps to
  0.  `isWriteable` (`:951`) leaves out the modulus and says yes to a full buffer whose
  tail is at 0.
- A sender of the serial port that registers for `TX_EMPTY` after the buffer has
  become empty, also an `ASYNC` one that never meant to wait, is parked until somebody
  else has sent (`forgotten`).
- A registered event that an interrupt raises while a fiber is in the radio's
  `send` is sent inside it and leaves the radio listening: the fiber waits in
  `MicroBitRadio.cpp:506` for the end of a packet until another micro:bit happens to send;
  inside `recv` it enables the interrupt in the middle of the section (`nested`).
  `MicroBitRadio.h:218` says "The call will wait until the transmission of the packet
  has completed before returning."
- Events that interrupts raise while an event from the radio is fired are not
  forwarded (`unsent`, `MicroBitRadioEvent.cpp:149`); `MicroBitRadioEvent.h:67` says that "all
  events matching the given registration" are.
- `send` turns the receiver on again although the radio has been disabled.  It clears
  `EVENTS_END` after `TASKS_START` (`:504`): an interrupt between the two that outlasts the
  packet would lose its end.
- The button changes the pairing flags in two statements (`MicroBitBLEManager.cpp:542`)
  that callbacks write whole in an interrupt: a result that comes in between is
  written over or has `PASSCODE` added to it, and the loop shows digits nobody waits
  for, which sets the timeout back each time.  A link that is lost before the answer
  leaves the request pending in the same way (`unanswered`).
- A request that comes while digits are shown (`:551`) replaces the passkey under
  the loop, which goes on with the digits of the new one, for which no button was
  pressed (`overtaken` of `Pairing`).
- By reading only: `storeSystemAttributes` (`:76`) files the attributes under the
  `deviceID` of the last link that asked for some, which need not be the one that
  ends, and copies a structure of which it has set only a part; `idleTick` disconnects
  `pairingHandle`, which a later connection may have replaced.
- The end of an animation wakes one fiber that waits for the display.  If that shows
  a character without a delay, or a string of one (`MicroBitDisplay.cpp:481`, `:649`), no
  animation begins, and the next in the queue sleeps although the display is free,
  until somebody else uses it (`stranded`); `MicroBitDisplay.cpp:435` says that "Animations
  are queued until their time to display."  A fiber that is woken and finds the
  display taken gives up its text (`MICROBIT_CANCELLED`), also when nobody has called
  `stopAnimation`.
- An image that is animated with a negative stride moves away from the edge at which
  it ends and keeps the display until its 16-bit position has wrapped.
- `put` (`MicroBitStorage.cpp:228`) compares only the bytes it is given: a value that
  is a prefix of the stored one is not stored.
- `dequeue_fiber` (`MicroBitFiber.cpp:138`) enables the interrupts whatever they were, so that
  the section of `getFiberContext` ends early; only fibers touch that queue.

## 6. What is not modelled

- Bonds and the set-up of the stack: a bond is a call of the SoftDevice and a copy of
  the system attributes to flash on disconnection; what the flash store does with
  them is `FlashStorage`.  The application runs in open mode and has none.
- Rendering, brightness, images and the font; sensors and I2C; the other
  Bluetooth services; pin tables, start-up, panic codes and the assembler: data,
  hardware values or plain copies, and none on the alarm's path.
- The receiving half of the serial port: the UART service's buffer once more
  (`UARTReceive`).  The radio's power, band, group and signal strength.
- Reference counts of strings and images, and running out of memory, which stops the
  device by a panic.
- The libraries below the DAL (mbed, the SoftDevice and its SDK, BLE API) are
  nine tenths of the lines of the repository; of the stack, its write and its
  test of subscriptions are modelled from their code and the rest as the DAL uses it.
- A 64-bit store of `time_us` torn by the tick (once in 71 minutes).
- That something at last happens: only what section 3 lists under fairness.

## 7. What would come next

Listeners with any modes in the theorem about the bus; a refinement from `LinkHandlers` to the handlers of
`MicrobitAlarm`, and from `UARTTransmit` to a queue like `ByteFifo`; the gestures of
the accelerometer; the tick components of the system timer.
