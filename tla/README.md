# Verification of the F3B timing system

The repository is the software of a timing system for F3B glider contests: a
main board that reads push buttons, drives horns, lamps and number displays,
runs the contest rules as a Lua script and serves web pages, and the firmware of
two kinds of displays.  This directory holds TLA+ models of it, configurations
that check them with TLC, and proofs that the TLA+ proof system checks.

## The system

`main` (MainBoard/main.c:338) starts three threads and ends.  They share global
variables; two mutexes exist.

| part | source | state | operations | shared with |
|---|---|---|---|---|
| button event list | main.c:70-79, 162-183, 218-227 | ring of 128 events, two indices, `buttonEventMutex` | push (I/O and HTTP threads), get, clear (script) | all three threads |
| ticks | main.c:27, 45-59, 90-106 | `tickZero` | `getTicks`, `getTime(0)`, `getTime(1)` | all three threads, no mutex |
| web action slot | main.c:81-82, 185-197, 294-301 | one string, `webActionMutex` | set by `GET /action`, fetched by the script | HTTP thread, script |
| state texts | main.c:25-26, 206-216 | two strings | `setState`, `setAdminState`; read by `GET /state`, `/adminstate` | HTTP thread, script, no mutex |
| horns and lamps | io.c:18-53, 246-259 | `outputStarted`, `outputEndTime` | `startSignal` (script), `getOutputs` and sending (I/O thread) | no mutex |
| I/O card protocol | io.c:55-198 | parser state, `resetFlags`, `inputState` | `processChar`, `processInputs`, `writeMsg` | three serial ports share one parser |
| sign bus | io.c:15-27, 261-283 | `signNum`, `signIdx` | `setSignNr` (script), four frames a turn (I/O thread) | no mutex |
| contest script | script.lua, config.lua | globals of the script | setup, duration, distance and speed game | runs again in a new Lua state whenever it ends (main.c:229-265) |
| HTTP server | http_server.c | 32 sockets with a buffer each | `select` loop, `handleSocket`, handlers | calls `httpALC` |
| serial ports | serialport.c | list of ports, lock files in /var/lock | open with lock, configure, close | other processes |
| displays | ATTiny2313displayDriver*/main.c | receive state, values shown | receive interrupt, refresh loop | interrupt and main loop |

### How a press becomes a lap

An I/O card sends its inputs; `processInputs` finds a rising one and calls
`pushButtonEvent` (so does `GET /button`).  The event is stamped with
`getTicks()` and put into the list.  The script empties the list in its loop,
finds out whose button it is (`resolveButton`), moves the state of the game, sets
signs and starts signals.  At the end of a turn of its loop it reads the time
that decides whether the game goes on.  Signals are ended by the I/O thread, which
sends the outputs to one of two cards every 10 ms.  At the start of a game, and
in the speed game at the end of a flight, the script moves the origin of the
ticks that everybody else stamps and compares with.

### What is hard about it, and what makes a part correct

* *Event list.*  Two producers and a consumer that tests for emptiness outside
  the mutex.  It should be a FIFO of whole events; nothing guards it against an
  overrun, so what an overrun does should be bounded.
* *Ticks.*  The origin moves in two stores while other threads stamp.  An event
  can carry a time of an older origin, and which ones can should be known.
* *Horns and lamps.*  Load-change-store of one word by two threads.  A signal
  should end, and not before its time.
* *Games.*  Presses in any order, times that come from the moment of the press and
  a `now` that is read once in a turn.  Laps should be right, a flight time should
  be the time of its legs, a game should end.
* *Card protocol, sign bus, displays.*  Bytes can be lost; parsers should find the
  frames again, what is shown should become what the script set.
* *HTTP server.*  A fixed table of sockets with one buffer each; requests come in
  pieces, several at once, and clients time out and leave in the middle of one.
  An accepted request should be answered once, in its order, and a slot should not
  be lost.
* *Lock files.*  Two processes at once, a lock left by a dead one, calls that fail
  half way.  One process should have the port, and a call should leave nothing
  behind.

`PROJECT.json` lists these hazards one by one with the line where each bites.

## Modules

| module | models | state and actions |
|---|---|---|
| `EventFifo` | the promise of the event list | `queue`, `got`; push, take, take nothing, clear |
| `ButtonQueue` | main.c's event list and ticks, access by access | the C variables by name; `push[p]` and `luaPc` are the threads' positions in `pushButtonEvent` and in the script's calls |
| `ButtonQueueProofs` | theorems about `ButtonQueue`, and lemmas about remainders | - |
| `Signals` | startSignal, getOutputs, sending the outputs | the C variables by name (a set of outputs for the bits); `lua` and `io` are the calls in progress with their registers; `lamp` is what the cards were told |
| `Buttons` | `resolveButton` | pure |
| `Clocks` | setClockTime, setLedClockTime, setClock60Speed, setLedClockTimeSpeed | pure; the digits as functions of a time |
| `ScriptInput` | what a script sees: ticks, events, web action | `events`, `stamped[p]` (a press of thread `p` between its stamp and the list), `based`, `ticks`, `webAction` |
| `Setup` | the setup loop | `pc` |
| `Duration`, `Distance`, `Speed` | the games, each with setup, wait, start, loop, end, restart | the Lua variables by name; one action for each step between two calls of the rest of the program, one for each branch of the event handler |
| `ScriptInputProofs`, `DurationProofs`, `DistanceProofs`, `SpeedProofs` | theorems about them; those about `Clocks` are in `SpeedProofs` | - |
| `CardBus` | the frames of the I/O cards, processChar, processInputs, handleButton | the parser's variables by name (`data` is its filled part); `line[c]` is the frame a card is sending; one action for a byte read, with one disjunct for each parser state |
| `SignFrame` | the frames of the sign bus and the receive interrupt | pure; `Receive` takes bytes one by one, `ReceiveFrame` a frame at once |
| `SignBus` | setSignNr, the sign half of ioLoop, the line, the LED board | the C variables by name; `step` is the next access of ioLoop to `signNum`, `loop` the next access of the board's main loop to `timeout`; `line` holds the frames that were written and not received |
| `FlipDigit` | one mechanical digit | the C variables by name; `line` is the frame that comes again and again, `segments` the segments that really are turned |
| `IoProofs` | theorems about `Signals`, `CardBus`, `SignBus` and `FlipDigit` | - |
| `SerialLock` | openSerialPort and closeSerialPort in several processes | `lock` and `tmp` are the files; `pc`, `found` (`lockedpid`) and `tries` the calls in progress; `fds` the entries of `serlist`; one action for each system call that another process can see |
| `SerialLockProofs` | theorems about `SerialLock` | - |
| `HttpServer` | serverLoop, handleSocket, httpSend and the clients | `socket` and `buffer` are `socketInfo`; `pc` and `cur` the place in the loop; one action for each select, accept, recv and send |
| `HttpServerProofs` | theorems about `HttpServer` | - |
| `MCHttpServer`, `MCCardBus` | the three clients of the HTTP run; the words of the two cards | - |

`CardBus` ends where `ButtonQueue` begins, at the call of `pushButtonEvent`.
`ButtonQueue` and the games meet in the FIFO: `ButtonQueue` is shown to
implement `EventFifo`, and `ScriptInput` uses the list as such a FIFO.
`Distance` ends at the call of `setSignNr`, where `SignBus` begins; `SignBus` and
`FlipDigit` share the frames of `SignFrame`.  `HttpServer` is the loop around the
handlers whose effects are `WebRequest` of `ScriptInput` and a producer of
`ButtonQueue`.

Steps are as fine as another thread can see.  In `ButtonQueue` every read or
write of a shared variable is a step of its own, but for the last access of a
critical section, which is taken together with the unlock, and for
`luaClearButtonEvents`, whose two stores nobody can tell apart: the only reader
outside the mutex is the script, which is doing it.  In `Signals` the accesses
are those a compiler may produce for code without volatile or atomics: the end
time may be stored before or after the bit, and `getOutputs` may keep the word
in a register for the whole pass or load and store it for every bit.  In the
games an action ends where the script calls into the rest of the program, since
only there it can see another thread.  In `SignBus` the two readings of
`signNum[signIdx]` that can differ, the load and the store of `timeout` on the
board, and the reception of a frame are steps; the bytes of a frame are taken
together, since nothing on the board looks at a half received frame.
`ReceiveAssumption` compares that with the bytes one by one, for every frame, every lost byte
and every rest of an earlier frame, when TLC starts.  `HttpServer` has one
thread, so its steps are the calls at which a client can have changed something.

Abstractions, by name:

* `Wall` is what getTicks() answers while `tickZero` is 0, the wall clock in ms.
  It is one value far above the times of a game.  It must not be -1, the value
  that the speed game takes for "no time" (`SpeedAssumption`).
* `ScriptInput` has one press between stamp and list for each thread of `Producers`;
  `pushButtonEvent` has two, the I/O thread and the HTTP server.  An event remembers
  that it was stamped on an older origin if `NoteOrigin` is TRUE, which the proofs
  leave open and only the speed run needs.
  Times below 0, which come from reading the clock before and `tickZero` after a
  move, are in `ButtonQueue` and `Signals` only.
* Times are integers without overflow.
* In `HttpServer` a request is a sequence of lines.  What matters of a line is
  whether it has two spaces, so that a path can be cut out of it, and whether it is
  the empty one.  `BufferSize` counts lines.  A page has a length of 0 or 1.
* `SignBus` has fewer boards and places, with gaps between the numbers of two
  boards as in the code (`PerRow < Stride`).  The digits of the LED board are its
  `values`; `FlipDigit` goes on to the segments.
* `io.pc`, `lua.todo`, `pc`, `step`, `loop`, `luaPc` and `push[p].pc` stand for
  program counters; `unread`, `settled`, `raced`, `base`, `by`, `old`, `sawOld`,
  `nowOld`, `timerOld`, `replaced`, `overtaken`, `resetLost`, `holders`, in `CardBus` `cur`,
  `since`, `invented` and `owed`, in `SerialLock` `robbed` and `twice`, in
  `HttpServer` `junk`, `hurried` and `clobbered`, and in `SignBus` `everSet` and
  `upset` are history and are read by no guard.  `faults` and `events` (of `SignBus`
  and `FlipDigit`) are read by their bounds only.  `asked`, `inside` and, for
  waiting clients, `sent` are the clients' own knowledge.
* Log lines and state texts are left out.  The score signs are in the games
  (`scoreSign`); what the clock signs show is a function of a time, in `Clocks`, and
  no variable of the games.
* A definition whose comment begins with "Mutant of" is a wrong variant of the
  definition it names.  It is used by no specification; it is there to show that
  the property it breaks depends on that line of the code.

Assumptions about the outside: pids are not reused and the device of a port is not
otherwise locked (`SerialLock`); the listening socket works, descriptor 0 is never
readable, a request for a page that needs a parameter has it, and SIGPIPE is not
ignored by whoever starts the program (`HttpServer`); at most one whole frame
comes between a test of the LED board's `timeout` and its store, a few
microseconds (`Sent` in `SignBus`), and a turn of that loop, 0.1 s, hears at
least one pass of the sender, if that is in its loop (`passed`).

## Runs

All are `tlc -config <cfg> <module>`.

| run | cfg | bounds | what it shows |
|---|---|---|---|
| queue_fifo | MCQueueFifo | 2 producers, ring of 4, at most 3 unread | types; the list is `EventFifo` short of an overrun; after moving the origin and then clearing, at most one event per producer is on an older origin |
| queue_live | MCQueueLive | 1 producer, ring of 3, up to 4 unread, clock 1..2 | overruns lose whole rings, the script never pops an event that is not there, a push completes, the oldest event is served |
| signals | MCSignals | 1 output a card, clock 1..2 | a signal is shortened only by a race or a moved origin; nothing sounds longer than its length; what was switched on is switched off |
| distance | MCDistance | 4 buttons, 2 threads, 2 events, 1 lap, ticks to 2 | laps, signs, the "time is up" of the table with a press held by each thread; a game ends |
| duration | MCDuration | 3 buttons, 1 event, ticks to 2 | the running working times are those of the two latest starts; they end; a reset ends the game unless a web Start swallows it |
| speed | MCSpeed | 6 buttons, 1 event, ticks to 5 | flight times, the debounce, the 60 seconds; a working time ends |
| card_bus | MCCardBus | 2 cards, 3 words, two faults | the parser finds the frames again; it makes presses up only near a fault, and short of one loses none |
| sign_bus | MCSignBus | 3 boards of 2 places, 3 events | a place shows what was set there or nothing, but for one race; in the end what stays in `signNum` for it |
| flip_digit | MCFlipDigit | 3 numbers, 3 events | the segments come to show the number |
| serial_lock | MCSerialLock | 3 processes, one opens twice, one dies | one process has the port unless a lock was unlinked under its owner; nothing is left behind; a call returns |
| http_server | MCHttpServer | 3 clients, 2 slots, 3 requests | the table of sockets, the answers, their order and form; a request is answered if every send returns |
| serial_lock_doc | MCSerialLockDoc | 2 processes | is expected to fail, see below |

### Bounds and why they are enough

* A ring of 3 has a slot that is neither first nor last and wraps around; one
  producer overruns it, two would not add to that and are in queue_fifo, whose
  clock stands still: events there differ in whether they were stamped before the
  origin was set, between its two stores or after.  `MaxUnread` limits pushes that are *begun*.  It is above the ring size in
  queue_live; in queue_fifo it is above the number of producers, so that the bound
  of `StaleBounded` is not the bound of the model, and below the ring size, since
  the FIFO is promised short of an overrun.  The loss of whole rings is proved for
  any ring.
* `FirstClock` is 1: a clock of 0 is the sentinel `tickZero == 0` and no real one.
* In `Signals` `LastStart` stops the script before the clock stops, so that a
  signal can end.  One output a card has both cards and two bits in one word,
  which is what a lost update needs.
* `MaxTicks` is not before the end of any working time (an assumption of the
  games), `MaxStart` is the time that may pass between the store of the new origin
  and the reading of it; it is 0 in the runs, and arbitrary in the proofs.
  `MaxLaps` stops presses, not laps that are in the list.
  `MaxEvents` limits the events in the list together with the presses that are held.
  It is 2 in distance, so that several events are taken in one turn and each of the
  two threads can hold one while the table says that time is up; it is 1 in duration
  and speed, where one thread presses.  The buttons in distance are the two stations and
  the relaunch of one player and the reset; the game is started
  from the web.  Players do not touch each other's entries, which the code shows by
  indexing with `p` and the proofs use.
* In `Speed` the buttons are the two stations and the relaunch of player 1, the
  reset, start, and the first station of player 5, which begins the 60 seconds; the
  web page changes the game.  `TURN_GAP` is 0, so that two turns are 1 ms
  apart at least and a whole flight fits into the 5 ms of the run.
* In `Duration` `DURATION_WORK_TIME` is 1 and the ticks go to 2: a third start can
  come before and after the end of the first.
* In `CardBus` a fault is a byte that is lost or a change of port inside a frame:
  `ioLoop` drains a port, so a whole frame or several may then come from the other
  one, and going back before the parser is between two frames is a second fault.
  With two faults a burst breaks into a frame and the frame goes on after it, a
  frame loses two bytes, or one byte in each of two.
  The bytes of a fault-free line are never interleaved: the ports are read in turn,
  and a card answers within one turn of `ioLoop`.  `Settle` is the longest thing
  the parser can be in the middle of: length, 16 data bytes and the check byte.
  A data byte above 127, that of a word with bit 7 or 15, looks like a header; `since`
  begins again there, since a card that goes on sending such a word could be taken
  for something else again and again.  The words of the run are those that the sum
  does not protect: 7 and 9 alone make such a byte, and 2 to 6 of card 1 a frame that
  card 0 can break into without a wrong sum.  One card (`Talkers`) sends the other
  frames too.
  `CharSigned` is FALSE, as on the board's processor.  `cur` follows the frame that
  the parser is in; a byte lost of that frame ends the following at once.
* In `SignBus` ioLoop's `j` is `signIdx`, which is 0 in the code until its loop begins
  (`ClearSign`).  Three boards have one before and one behind the modelled one, and
  three sign numbers a board leave one unused as in the code, where it is six.  The four frames of a
  pass do not divide the six signs.  The numbers are a digit and 512, which blanks.
  Three events are enough for a set before ioLoop comes to the sign with its 255,
  a set between the test and the second reading, a
  lost byte with a set before and after it, or the board heard nothing of until
  the demo and then again.
* In `FlipDigit` the numbers are digits with few and with all segments and one that
  is not a digit; `LastDemo` is 1, a power cut finds the segments in any position.
* In `SerialLock` one thief, one owner and one late comer are three processes.
  `MaxTries` is 1, so that a call can try again and can give up.  The port may be
  opened twice by one process, because `openSerialPort` allows it.  Each system call
  may fail, an interrupted unlink of a stale lock among them, which the code counts as
  a try (serialport.c:196).
* In `HttpServer` two slots and three clients fill the table; a buffer of three lines
  holds a request with a header and can be full in the middle of the second
  request.  One client stays and sends two requests of any form in any pieces, also
  without waiting; a second asks for one page and leaves or resets at any moment, also
  before its answer is whole, which ends the program for the first; the third is
  silent and takes a slot.

TLC also looks for deadlocks in all runs but http_server, where a client that
leaves can end the program by SIGPIPE.

### Fairness

* `ButtonQueue`: weak fairness for the steps of a thread inside a call, strong
  for taking the mutex (a thread that holds it sleeps or blocks before it comes
  again) and for the script's next `getButtonEvent`, which every loop of the script
  calls.  Nothing is assumed of `clear`, of moves of the origin or of presses.
* `Signals`: weak for the clock and both threads inside a call; strong for the
  begin of a pass, since a card may set the reset flag again and again but is
  answered again and again; strong for the end of a pass and for the arrival of a
  message, since a lost one is sent again 20 ms later.
* Games: weak for the clock and for the script.  Strong fairness of `DrainNoEvent`
  (`NextNoEvent` in `Duration`) and the premise `[]<>(events = <<>>)` say that the script catches up with the
  presses: an event takes microseconds and a press comes from a hand.  Without
  it the code really has an endless loop (script.lua:341, 564).
* `SignBus`, `FlipDigit`: weak for ioLoop, for the arrival of what was written, and
  for the main loops of the boards, none of which waits for anything else.
* `SerialLock`: weak for the steps of a call that has begun; none for calling, closing
  or dying.
* `HttpServer`: weak for the server's thread between its sends.  Clients may stop
  anywhere.  Nothing is assumed of a send: the sockets block (http_server.c:98, 104, 114,
  115), and a client that does not read a long page keeps the only thread in one.
  `RequestServed` has as its premise that sends return (`SendsReturn`).

### What the properties found about the code

One contradiction to what the source says of itself:

* The comment of openSerialPort says "The serial port is only opened if it was not
  locked" (serialport.c:100).  Two processes that both read the same dead pid both
  unlink the lock by its name (serialport.c:196); the second one unlinks the lock
  that the first has just made, and both open the port.  Run serial_lock_doc
  shows the steps.  `ExclusiveUnlessRobbed` says that this, and a process that has a
  port open twice and closes one of them, are the only ways.

The rest are facts about the code, not contradictions to something it documents.

* A signal can be cut short by the race of startSignal with getOutputs: a lost
  update, an end time not stored yet, an origin moved under the pass.  And
  getTime(0) at the end of a game (script.lua:463, 695), called between two passes,
  makes the next one switch off every signal that sounds, since the wall clock is
  past the end times of the game.  `CutShortOnlyByRaceOrMove` measures the end of a
  signal on the wall clock and says that nothing else shortens it.
* A signal started before the origin moves has no bound (`RemainingBounded` and
  `EverySignalEnds` exclude it by name): the end signal of a game is started after
  getTime(0), on the wall clock (script.lua:463-464), and a next game started
  within 1.5 s leaves it on.
* The debounce of the speed game can look into the future, where it shuts out every
  turn, if a press falls between clearButtonEvents() and getTime(1) at the start,
  or between getTime(1) and clearButtonEvents() after a flight; and the 60 seconds
  begun in the same turn as a finished flight begin on the old origin.
  `TimesFollowClock` says that these are the only ways.
* In the duration game a web Start takes the place of the event fetched in the
  same turn, also when that is the reset button (`ResetEndsGame`).  A start that was
  held up behind web Starts replaces a later one (`LatestTwoRun`), and one
  stamped before getTime(1) starts a working time on the wall clock that does not
  end (`WorkTimesEnd` is about times of the game).
* The 7-bit sum of the card protocol lets combinations of bytes through that nobody
  sent.  Acknowledgements without their length byte add up to a status message.  A
  report of just inputs 2 to 6 of card 1 passes when card 0 breaks into its frame.  If
  just inputs 7 and 9 are on and the report loses its header, its data bytes, 128 and
  2, are header and length of a frame that the next report completes: buttons are
  pressed that nobody touched.  `InventedNearFault` says when this can happen, and
  `EveryPressCounts` what holds until it does.
* On a build with a signed `char` a low byte above 127 presses inputs 8 to 15
  (`CharSigned`).
* When a speed game is over its clocks show 0:01 and not 0:00: C's division cuts -1 ms
  off to 0 s, and the script adds one (script.lua:692, `LastSecondStays`); the distance
  game sets -1000 ms (script.lua:457) and shows 0:00.
* After 128 unread events the list looks empty (`LossIsWholeRings`).
* A sign shows a 0 for a moment when the script sets 512 between ioLoop's test of
  the number and its second reading: 512 is cut to a byte (`ShownWasSet` has that 0
  in its right side, and TLC needs it there).
* After a lost byte a sign number can be taken for a place on the board and writes
  outside the array of values; a lost fourth byte takes the first byte of the next frame
  for the value.  `LastSetIsShown` says that the following turn of the bus repairs
  what was on the board; what was outside is not modelled.
* The LED board stores `timeout` after an interrupt may have set it to 0, so the
  demo can begin a turn early (`StoreTimeout` after "late").
* recv answers -1 on a connection that was reset; the 0 behind the data is then
  written one byte in front of it, and on a big-endian machine an empty buffer
  loses its descriptor: the connection is never closed (`OpenHasOneSlot` excludes
  it by name, `clobbered`).
* Two requests at once: what is behind the first one is thrown away with it, so a
  client that does not wait for an answer may get none (`AnswersMatch` and
  `RequestServed` exclude it by name, `hurried`).  A complete request without a
  path is cut by a 0 in the buffer and waits for the timeout.
* Nothing keeps the program from ending when a client leaves before its answer is
  sent (`BrokenPipe`).
* The sockets block, so one client that asks for a long page and does not read it
  stops the server for all others: without the premise `SendsReturn` TLC finds
  `RequestServed` violated.  An error of select takes the branch of the timeout
  and closes every socket, also one with a request in it (`SelectFails`).
* What the script sets before ioLoop, whose thread is started after the script's
  (main.c:365-367), has put its 255 into signNum (io.c:210-211) is lost.  The script
  begins by blanking the signs, so that it cannot be seen then; `LastSetIsShown` is about what
  stays in `signNum`.

## Proofs

TLC checks small instances; these hold for all constants that satisfy the
assumptions in the modules (`QueueAssumption`, `InputAssumption`,
`NoneAssumption`, `DurationAssumption`, `DistanceAssumption`, `SpeedAssumption`,
`SignalsAssumption`, the five of `SerialLock`, and `ClientAssumption` and
`SizeAssumption` of `HttpServer`).  A theorem that needs more says so in its
ASSUME.  The bounds of the runs (clocks, ticks, events, faults) are arbitrary
constants in the proofs.

* `ButtonQueueProofs`:
  - `TypeCorrect`; `Exclusion`: no two threads in the guarded sections, by the
    invariant that whoever is inside is the owner that the mutex names;
    `PopsArePushed` and `WholeRings`: the invariant relates `unread` to the two
    indices modulo the ring.  That `unread` stays at 1 or more while the script is
    between its test and its pop needs that only the script makes it smaller, and
    that different indices mean a number that is not a multiple of the ring.  The
    module begins with the arithmetic of an index that goes round.
  - `StaleFew` (`StaleBounded`): that a producer leaves at most one event of an
    older origin is not inductive by counting.  `OneEach` says instead that no two
    such events in the list are from one producer, and that none is from a producer
    which has another on its way; `Copying` says that what is in the slots is
    what the thread in the critical section has written so far.  The bound is
    then the number of producers, which must be finite.
  - `ListIsFifo` (`FifoSpec`): every step of the ring is a step of `EventFifo` or a
    stutter, the queue being the live slots from start to end.  It assumes
    `MaxUnread < MAX_BUTTON`, the run's own condition, since after an overrun the
    list is no FIFO.  `Room` counts the pushes that are on their way too; without it
    a push that began in time could still overrun the ring.
* `SpeedProofs`:
  - `TypeCorrect`, `TimingIsConsistent`, `FlightsTakeTime`.  For the last the
    invariant gives a floor to every leg: in state 10+k the last turn is more than
    k gaps after the start of the flight.  It holds for stamps in any order and on
    any origin, since the debounce compares before it accepts.
  - `TimesAreNotAhead` (`TimesFollowClock`): `ClockInv` adds when the script's origin
    is the current one, and that after a flight `now` counts as old until it is read
    again, in each step between the two calls of getTime.
  - `ClockShowsTimeLeft`, `LastSecondStays`, `FlightTimeIsShown`,
    `SixtySecondsAreShown` about the digits that the script computes (`Clocks`),
    from lemmas about C's division (`QuotientOfNat`).
* `DistanceProofs`:
  - `TypeCorrect`, `LapsAlternate`, `LapsAreShown`.  The invariant adds to the
    properties that nobody has laps or a status outside a game, which a start needs:
    it clears the signs and not the laps.
  - `TableIsHonest` (`TimeUpIsHonest`): the late presses, in the list or held, are at
    most as many as threads held one when the list was found empty (`holders`), and
    those are at most as many as there are threads.  What is pressed after that is
    stamped after the last reading of the clock; what moves from a thread to the list
    is counted once.
* `DurationProofs`:
  - `LatestStartsRun` (`LatestTwoRun`): every start that was replaced is not after
    either of the two that run, or its time is over, unless it was overtaken.  The
    invariant adds that no game is waited for with a start still remembered as replaced.
* `ScriptInputProofs` has the lemmas about the input that the three games cite.
* `SerialLockProofs`:
  - `TypeCorrect`, `OneProcess`, `NothingIsLeft`.  For `OneProcess` the invariant
    says that whoever relies on the lock (it has a descriptor or is between taking
    the lock and opening the device) finds its own pid in the file, unless it was
    robbed or had the port open twice; two processes cannot both find their own.
    For `NothingIsLeft` it says at which steps a live process can own the lock
    without a descriptor and where its temporary file exists.  Both hold for any
    number of processes, tries, descriptors and crashes, where the run has three,
    one, two and one.
* `HttpServerProofs`:
  - `TypeCorrect`, `OneSlotEach`, `AnswersAreWellFormed`.  The invariant says that
    the slot the loop is at holds a client while a socket is read or answered, and
    that what is answered is in the buffer; that everything sent is whole answers
    but for the one in progress.  That the loop finds a next slot, and accept a free
    one, needs that a set of slots has a first one (`FirstOf`).
  - `EachAnsweredOnce` (`AnswersMatch`): the invariant looks at what a client has sent
    and the server has not thrown away as one sequence, buffer and wire together
    (`Stream`).  Its requests come in order and after all that were answered
    (`Ordered`), and for a client that waits for its answers there is exactly the
    one that is not answered, from its first line on (`Polite`).
* `IoProofs`:
  - `SignalsAreShort` (`RemainingBounded`): no end time is further from its origin
    than the clock plus a length (`Bounded`); a call to startSignal in progress has
    read ticks of the current origin.
  - `OnlyRacesAndMovesCut` (`CutShortOnlyByRaceOrMove`, an action property): the copy of
    `outputStarted` in the script's register lacks nothing that is on, that of the
    I/O thread has nothing that is off (`Copies`); in a pass in which the script
    wrote nothing what is missing from the copy was over (`Undisturbed`).  Both
    hold for every way of loading and storing the word that the build may choose.
  - `ParserSyncsAgain`, the invariant `SyncAgain` of `CardBus`: the parser is where
    the card is in its frame and knows its length (`Synced`), or the last fault is
    more recent than the header it started from.  Nothing is assumed of the check
    byte.  `DataIsReceived`: no data byte is written past the array, and what the
    handlers read came with this frame.
  - The other theorems about `CardBus` are under `ParserConstants`: at most two cards,
    since `handleButton` gives a third one the buttons of the second.
    `ParserIsTyped` is its `TypeOK`.  `Sum`, of a frame of any length, is a recursive
    function; no frame of a card has more than nine bytes, so its values are those
    of a sum written out (`UpTo`, `SumIs`), and no induction is needed.
  - `OnlyFaultsInvent`: without a fault no inputs are handled that were not sent.
    While the parser follows a frame it holds what the card has
    sent of it, the sum included (`Followed`), so the check byte is the one it asks
    for (`CheckPasses`); and without a fault it follows every frame from its first
    byte to its last (`Order`).
  - `PressesCount` (`EveryPressCounts`): the word of a
    report on the line is the last one of its card (`Reported`); what was reported
    and not handled is owed, whatever was lost, until a wrong sum passes (`Pressed`);
    without a fault nothing else is (`Answered`).  Both theorems need that char is
    unsigned: where it is
    signed, bit 7 presses the upper buttons, as the mutant `Word_SignExtended` shows.
  - `FaultsInventOnlyNearby` (`InventedNearFault`): whatever the words and the faults,
    inputs that were not sent are handled only in a step that is a fault, or among
    the 18 bytes after one or after a data byte that looks like a header.
    Later the parser is in a frame it has followed (`SyncInv`), which then was sent
    (`Followed`).
  - `BusIsTyped`, `TypeOK` of `SignBus`, under `BusConstants`: what
    `SignAssumption` says, and a demo that counts in a byte.  That ioLoop never comes
    to a number that is not a sign is the arithmetic of a board and its place
    (`NextSignFacts`).  `BoardShowsWhatWasSet`, its `ShownWasSet`: `ShownInv` follows a
    number from the script to the digit: a tested number was set on its sign, so is
    the number in every frame of this board that is put together or on the line
    (`Honest`), and while nothing was lost the board is between two frames.
    `BusNumbers` assumes numbers of a byte and 512; of a larger one the board
    would show the low byte.
  - `DigitHeals` is the safety half of `SegmentsShowNumber` of `FlipDigit`, for any
    stride above 3 (with less, sign 3 is not on the first board) and any numbers up to 99: once the
    main loop has read the number that the frames hold and the interrupt is between
    two frames, only a lost byte, a missed pulse, a power cut or another number
    (`events`) can undo that; no segment is turned away from the number, the pulse of
    one segment sets that one right, and the pulse of all sets all right.
  - The theorems about `CardBus`, `SignBus` and `FlipDigit` are about instances of these
    modules (`Parser`, `Bus`, `Digit`), since a module cannot extend specifications
    that all have an `Init` and a `Next`.

Only model-checked: every liveness property, since fairness is out of the prover's
reach; of `FlipDigit` `DigitHeals` proves the part that needs no fairness.

## Not modelled, and the plan

* The sources in MainBoard that are not of this project (sqlite3.c, the Lua
  interpreter, pthread.h of the Windows build, jQuery in www) are most of the lines of the
  repository and are not modelled; the program's own C and Lua is about three
  thousand lines.
* The shift register bits and port pins of the displays (which bit lights what is wiring, not behaviour), the termios settings,
  log files, the texts of states and web pages: formatting.
* curState is written by the script and read by the HTTP thread without a mutex; its
  contents are not modelled, so neither is a torn text.  The overflow of
  `tv_sec * 1000` is not modelled either: differences of ticks wrap alike.
* Of the Windows build of the serial ports and of http_server.c nothing is modelled.

What is worth doing next: a composition of the setup loop with all three games, so
that one game's late events meet the next one; `CardBus` with the event list; the
words for which no single fault makes a wrong sum pass.
