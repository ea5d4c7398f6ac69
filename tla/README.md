# Verification project for the ground BCU

The repository holds the firmware of a *broadcast and communication unit*
(BCU) of a train's passenger information system: an eCos program of about
thirty thousand lines (`1.0.x/ProdExplUnits/642-ground/`) that runs in a
driver's cab or on the control desk. From a touch screen and three metal keys
the driver makes announcements, talks to another driver, talks to a passenger
at a call box (PCU), listens to one, and answers the calls that wait. A dozen
threads share global variables, linked lists and ring buffers, mostly without
locks. This project models that sharing in TLA+, checks it with TLC on small
instances, and proves the invariants that matter with TLAPS.

File names below are relative to `src/1.0.x/ProdExplUnits/642-ground/`.

## 1. The system

### 1.1 Threads and how they meet

`bcu_main.cxx` creates the threads, mostly at one priority: the **control
thread** (`SystemControl`), the **touch screen thread** (FLTK's `Fl::wait` and
the callbacks of `touch_screen/TouchScreen_horizontal.cxx`), the **sampling
thread** (`BcuMicSampleAndPlayEntry`, which also plays), the **network thread**
(`NetWorkMain`), a watchdog that changes priorities (`DemaoEntry`), and the
TFTP server's thread once an update asks for it. They interact by

* **block buffers**: named rings of fixed-size items ("bcu-screen-cmd-tx",
  "network-udp-server-recv", ...), polled, never waited for;
* **char buffers**: named rings of bytes, for samples and tones;
* **`switchFlag`**: the control thread stores a code and polls until the touch
  thread has run the handler of that code and cleared the flag;
* **shared globals**: the active states, the owner of the microphone, the
  lists of waiting calls, flags of buttons and tones, the sample timer,
  written by several threads.

### 1.2 Inventory

| component | state | operations | what is hard | what makes it correct | module |
|---|---|---|---|---|---|
| **Block buffer** (`buffer_read_write_fun.cxx`) | ring, `pb_writeto`, `pb_readfrom`, `items_waiting` | write, read | no lock (`CONFIG_BUFFER_MUTEX_LOCK` is off); a pointer is advanced and wrapped in two stores; `++`/`--` from two threads | a bounded FIFO: nothing lost, torn, doubled or reordered; `RW_BUSY` only passing | `BlockBuffer` |
| **Char buffer** (same file) | ring of bytes, two pointers, `clear_count` | write, read, full, pointers forth and back, clear | a reader that takes bytes in place and goes back; a third thread clears | a queue that remembers what was read last | `CharBuffer` |
| **Registry** (`InitBuffer`) | two lists of names | create, delete | three allocations each, any may fail; deletes through unset ids | the lists tell what is allocated | `Registry` |
| **Waiting calls** (`link.cxx`, `bcu_function.cxx`, `touch_screen_function.cxx`, `touch_screen_intercomm.cxx`) | two lists, two counts, rows, one-place package buffer, button flags | packages 6 and 8 to 13, choose, accept, refuse, cancel, redraw | control thread edits what the touch thread draws; a package may owe three handshakes | a call listed once; count, rows and button tell the list | `RequestList` |
| **Sessions** (`bcu_function.cxx`, `bcu_ann.cxx`, `bcu_intercom.cxx`, `bcu_state_machine.cxx`, `set_cmd_package.cxx`, callbacks) | intercom and announcement state, `mic_owner`, destination, flags, command buffer | exchange, enter, exit, keys, packages, commands, callbacks | an exchange sleeps between exit and enter; three threads change sessions; retries | microphone and flags belong to a session that is on; an end that was asked for comes; no thread stops another | `BcuControl` |
| **Alarm tones** (`alarm_pcu_audio.cxx`, `bcu_intercom.cxx`, `bcu_main.cxx`) | open, playing, again per kind; alarm and pending buffer; sample timer | start, fill, play, put back, stop | flags of three threads; a write of the card ends after the session changed | a tone while a call waits, nothing of it in a session | `AlarmTone` |
| **Samples** (`audio_sample.cxx`, `bcu_main.cxx`, `network/udp_recv_fun.cxx`) | receiving and sending buffer, timer, `play_audio`, statistics | turn of the sampling thread, datagrams, enter, exit | the state is looked at once a turn; a turn may wait in the middle | what is heard and sent is of the session that is on; no backlog for ever | `Audio` |
| **Car selection** (`touch_screen_function.cxx`, `bcu_function.cxx`) | marks, taken cars, count, buttons | mark, confirm, cancel, package 7 | control thread takes cars away while the driver chooses; a delay in the cancel | a mark can be taken back; one choice confirmed once | `CarSelection` |
| **Settings** (`touch_screen_function.cxx`, callbacks) | pages, password, volume, one-place buffer | digits, ok, plus, minus, package | pages in any order; sessions set the same speaker | pages tell the state; the call is as loud as chosen | `Settings` |
| **Metal keys** (`bcu_extern_button.cxx`) | counter and event of a key | read, count, ask | two threads count in one unlocked byte; priorities change | one event per press; a held key is noticed | `ExternButton` |
| **Network thread** (`network/zhw_*.cxx`) | lines, registrations, shared ring | receive, forward, send, register | one loop; a ring with two readers; a full buffer loses | each type finds its buffer; each package taken once; room again | `Network` |
| **Firmware** (`network/zhw_shell_function.cxx`, `tftp_server_*.cxx`) | three files, server, command | MOUNT, UPDATE, VERIFY, reboot | upload goes on during a check; power goes at any time | the firmware in place works | `Firmware` |
| **Start-up** (`bcu_main.cxx`, `thread_comm.cxx`, `network/*`) | what is set so far, the device table | the steps of `main` and of each thread | nothing waits for what another prepares | nothing is used before it is set | `StartUp` |
| announcement states other than live; D2D hang-up | - | automatic, manual, OCC, emergency | no live event leads to them | - | rules only (`StateTables`) |
| shell printing, self-test, logs, error pages, languages, tables | - | printing, layout | - | - | - |

`PROJECT.json` lists the same parts with their files and state, and under
`hazards` each of the hard places with its line.

## 2. Modules

| module | models | with |
|---|---|---|
| `BlockBuffer` | a block buffer, one shared access per step | implements `Mailbox`; `BlockBuffer_proofs` |
| `Mailbox` | abstract: a bounded FIFO with a slot in the reader's hand | |
| `MCBlockBuffer` | the mapping of `BlockBuffer` to `Mailbox` | `MCLines_proofs` |
| `Network` | the network thread, its lines, the shared ring | `MCLines_proofs` |
| `MCLines` | `MCBlockBuffer` and `Network` for TLC | `MCLines_proofs` |
| `RequestList` | waiting calls: control thread, touch thread, network | `MCRequestList`, `RequestList_proofs` |
| `StateTables` | rules and priorities of the two state machines | |
| `BcuControl` | sessions: control, touch and sampling thread | `MCBcuControl`, `BcuControl_proofs` |
| `CharBuffer` | a char buffer, one byte per step | implements `ByteTape`; `CharBuffer_proofs` |
| `ByteTape` | abstract: a queue of bytes that can be wound back | |
| `Registry` | creation and deletion of all buffers | `MCTone_proofs` |
| `AlarmTone` | tones of waiting calls | `MCTone_proofs` |
| `MCTone` | `CharBuffer`, `Registry` and `AlarmTone` for TLC | `MCTone_proofs` |
| `Audio` | samples of sessions and announcements | `Audio_proofs` |
| `CarSelection` | the choice of cars | `MCSeat_proofs` |
| `Settings` | password and volume | `MCSeat_proofs` |
| `ExternButton` | a metal key | `MCSeat_proofs` |
| `Firmware` | the update | `MCSeat_proofs` |
| `StartUp` | the start of the program | `MCSeat_proofs` |
| `MCSeat` | the five above for TLC | `MCSeat_proofs` |

`MCLines`, `MCTone` and `MCSeat` put components side by side that share no
state in the code (or whose sharing is abstracted in one of them): a behaviour
picks one `subject` at the start and stays with it. The state space is the sum,
not the product, of the parts.

### 2.1 BlockBuffer

`WriteEnter` .. `WrapWriteTo` are the statements of `BlockBufferWrite` and
`prvCopyQueueData` in program order, `ReadEnter` .. `ReadStoreCount` those of
`BlockBufferRead`; the two threads interleave between any two. A pointer is the
number of its item, and the value `total_items` is `pb_tail`, where a pointer
can be *seen* between `+= item_size` and the reset. The loop that counts the
items is one operator, `CountItems`, evaluated on the snapshot with which it
begins: the snapshot is in local variables. An item has two parts, length word
and payload, each named by the message it came from, so a torn item is visible.
`CounterModulus` is the width of `items_waiting`.

The threads' accesses happen in program order: the target has one core and
`pb_head` is a byte pointer, so the compiler may not move the copies across
the pointer stores.

`Mailbox` is what a user of the buffer expects. Under the mapping of
`MCBlockBuffer` a write takes effect when `pb_writeto` leaves its item, a read
when `pb_readfrom` arrives at its item; `RW_BUSY` is a stutter. The other
modules rely on it where they take a write or a read as one step.

### 2.2 RequestList

`list` and `number` are the two linked lists and their counts;
`IphDeleteLink` and `BcuDeleteLink` are modelled with what they return, the
unset variable of `BcuDeleteLink` included (`Garbage`). `ProbeBigCommPackage`
is one step per package up to its first delay, and pushes onto `c_todo` the
handshakes that its tail (`Refresh`, `Update`) owes. `ControlStep` is the loop
of `SystemControl` in order: metal key, D2D button, buttons, package.
`TouchStep` is a callback, or the handler of the code in `switchFlag`. The
buffer "network-udp-server-recv" has one place, and the seat writes its own
refusals to it.

### 2.3 BcuControl

A thread runs from one waiting call to the next; `pc[t]` says where it waits
and `then[t]` where a routine shared by the threads returns to
(`StateMachineExchange` sleeps and comes back in `Enter`, `TouchScreenSetCmd`
retries in `Retry`, `RecvD2PRequest` goes on in `Receive`). So the exchange is
two steps, with all the others between them. `Exit` and `Enter` gather the exit and
enter functions of all states, since the code calls them through the state
found at that moment, not through the rule. The rules themselves, and what a
command asks for, are `StateTables`. `active` is the set of buttons
that can be pressed: the code's guards are often no more than
`activate()`/`deactivate()`. `CommandsMayWait` says whether `SendCmd` may find
"bcu-network-cmd-tx" full and sleep in the middle of an enter.

Not in this module: which call is answered (RequestList), tones (AlarmTone),
samples (Audio), volumes (Settings), which cars are marked (CarSelection; here
only their number, up to 2).

### 2.4 AlarmTone, Audio, CharBuffer

The sampling thread has priority 14 and the others 10 to 12, so in `AlarmTone` it
is interrupted only where it waits, in `sem_wait` and `cyg_io_bwrite`
(`SamplerRuns` blocks the others). A turn looks first at passengers' calls, then
at drivers'; `PlayTone` is a turn up to the write, `Played` what follows it, and
`uncleared` is the flag by which `PlayAudioTwice` learns that the alarm buffer
was cleared meanwhile. Sizes are in KiB and only their order matters.

`Audio` is the same thread in a session or an announcement. `Exit` and `Enter`
are the two halves of an exchange of another thread with the delay between
them. A turn reads the states (`BcuMicSampleAndPlayEntry`), may wait for the
microphone (`AnnouncementRead`, `SessionRead`) and for the card (`Played`).
`fresh`, `stale`, `old`, `room`, `quick` are histories: what has come in this
session, which samples were taken before it, and whether the buffer has been
worked off. `former`, `sounding`, `heard`, `overtaken` follow what was received
before the enter: how much of it waits, whether a write under way holds
received audio, how many writes bring old audio out in this session, and
whether the enter found one under way. `network_buffer_num` stays 0 in the program, so `SortAlgorithm2` pushes
every datagram at once and the sorting branch is unreachable.

`CharBuffer` has one step per byte, advance and wrap being one or two stores
(`SwitchAtWrap`), and clears that fall between calls or into them
(`ClearInCall`). The threads' priorities rule both out, until `DemaoEntry` has
put the sampling thread below; what then happens is in the module, and nothing
is promised of it. `Registry` is `InitBuffer`: each creation with its up to
three allocations, and the deletes that follow a failure, through ids some of
which were never assigned.

### 2.5 CarSelection, Settings, ExternButton

`CarSelection`: callbacks of the touch thread, `SyncSelectCarInfo` asked for by
the control thread through `switchFlag`, the delay in `CannelSelectCar`, and
an external control centre (`owner`) that gives a free car to the seat that asks first.
`Settings`: one action per button of the menu pages; a digit is right or wrong
at its place. `ExternButton`: one key; a reading of the pin and the
read-modify-write of its counter are separate steps of two threads, and `low`
says whether the watchdog has put the sampling thread below the control thread.

### 2.6 Network, Firmware, StartUp

`Network`: a turn of `NetWorkMain` walks the lines in the code's order; a
datagram of the common line goes through "network-udp-common-recv", a ring
whose two readers (network and control thread) are modelled by the single
accesses of `BlockBufferRead`. `ZhwBufferRegister` and the search are kept
with their comparisons, that skip the last node.
`Firmware`: the shell commands by their file operations, in order; `tftp_server_open`,
`tftp_server_close` (of the server's thread) and `Reset` (power) fall between
any two. `StartUp`: each step of `main` and
of a thread *uses* some things and *sets* others; `early` gathers what is used
before it is set.

### 2.7 Grain

In `RequestList`, `BcuControl`, `CarSelection` and `Settings` threads change at
waiting calls only (`cyg_thread_delay`, `Fl::wait`, the wait for `switchFlag`).
The threads have one priority and eCos may slice time between them, so a
handler can in fact be interrupted anywhere; those interleavings are finer than
the model. What is shown holds for the program as it is meant to run, with
handlers far shorter than a slice. `BlockBuffer`, `CharBuffer`, `ExternButton`
and the shared ring of `Network` have the finest grain, one access to shared
memory.

## 3. Runs

| run | instance | states | shows |
|---|---|---|---|
| `block_buffer` | 4 items, 2 messages, counter modulo 2; four lines with room for 1, a shared ring of 3 | 357 thousand | the ring: types, ownership of the slot, refinement of `Mailbox` with its liveness; the network thread: registrations, each package taken once, room again |
| `request_list_pcu` | 2 calling PCUs, 1 row, 2 seats | 732 thousand | types, no duplicates, counts, button; under fairness every counted call is shown or ends |
| `request_list_both` | one PCU, one BCU, 1 row each | 3.6 million | rows, with the shared buffer and handshakes and with counts that hold garbage |
| `request_list_seat` (violation) | one call | few | configured seat overwritten |
| `control_listen` | pages car, choose, monitor; announcement key; centre listens; 2 places | 527 thousand | types, microphone, flags |
| `control_calls` | pages of passenger and driver calls; passenger key; centre begins announcements, the sampling thread ends them; 1 place | 377 thousand | under fairness a queued end is obeyed and the control thread goes on |
| `control_waiting` | driver page and key; all packages; `SendCmd` may wait | 668 thousand | the key's request ends with its session |
| `tone` | char buffer of 4 bytes, calls of up to 2; one call of each kind; alarm buffer of 6, tone of 4, write of 3 | 348 thousand | creation and deletion; the ring is a tape; a driver's call hears no tone, a tone ends |
| `tone_silent` (violation) | the same tones | few | an idle seat silent with calls waiting |
| `sound` | receiving buffer of 6, sending buffer of 2, writes of 2, at most 3 datagrams a turn | 2.7 million | what is heard and sent belongs to the session, but for one write and one reading under way at its enter; no lasting backlog; heard in the end |
| `seat` | 2 cars, one place each way; 3 digits; counter up to 3; all of Firmware and StartUp | 305 thousand | marks and confirmation, pages, volume, key, firmware, start |
| `cars_orphaned` (violation) | 2 cars, 3 places out | few | a cancelled choice keeps its cars at the centre |

Deadlock is checked in all runs but `tone`, in which `InitBuffer` returns.

**Why the bounds are enough.** With four items the pointers
are apart, adjacent and wrapped in every order, with up to three items queued;
two messages tell a torn item from a whole one; a counter modulo 2
wraps both ways. Fewer rows than calls make a list outgrow the screen
and calls move up; two seats are this one and another one. The command buffer
has four places (N = 5) in the program; one place makes *full*, *retry* and
*drop* happen at every command, two places let commands overtake each other's
effect. Each session run leaves out the pages and packages of the others,
because the whole seat has more than eight million states; between them the
runs fire every action, and what is proved (section 5) holds for every choice
of pages, keys, packages and capacity. A ring of 4 bytes with calls of 2 meets
every position of both pointers. In `tone` the sizes keep the order of the
program's (border 2 < chunk 3 < tone 4 < buffer 6 for 2234 bytes, 3, 4 and 11
KiB), so a tone ends with a rest above and below the border; in `sound` a write
of 2 leaves a rest, two plays make a session stable, and three datagrams a turn
outrun the card. `Cap` is 100 in the program; with 3 the counter reaches its
cap, and a press needs two readings. Two cars are one taken and one kept.

**Properties.** Beside one type invariant per module:

* `SlotOwnership`: what one thread decided from its snapshot stays true
  while the other moves. `IsTape`, `PointersAgree`: the same for the bytes,
  with a reader that goes back. `HeapIsListed`: nothing lost, nothing freed
  twice, whichever allocation fails.
* `NoDuplicates`, `CountsTellLength`, `RowsShowRequests`, `ButtonFollowsCount`,
  `CallsAreShown`: list, count, screen and button of one truth, kept by two
  threads.
* `MicHeldInSession`, `FlagsTellSessions`: whoever enters after the delay
  enters what the others have left there; no microphone, destination or flag
  survives its session, and none is missing once everybody has entered.
* `RequestEndsWithSession`: `this_bcu_request`, set by the key on one thread,
  never outlives the call that another thread ends (else `enter_d2d` is dead).
* `LiveOffObeyed`, `CallOffObeyed`, `ControlGoesOn`: progress.
* `DriverCallHearsNoTone`, `ToneStops`: a write of a tone that
  ends after the session has changed leaves nothing to be heard; a tone ends.
* `AtMostOneOldWrite`, `PlayStartsFilled`, `AtMostOneOldSample`, `StaysWorkedOff`,
  `HeardInTheEnd`: a turn that began in one session meets the next. What a
  write has already taken out of the receiving buffer when the session changes
  is played to its end in the next one: the flag of the clear is looked at
  before `cyg_io_bwrite` and after it, never in between. That is all that is
  heard of the old session.
* `MarksAreOffered`, `ConfirmedOnce`: package 7 on one thread, the driver on
  the other. `PagesTellState`, `CallIsAsLoudAsChosen`: any order of pages and
  sessions. `PressGivesOneEvent`, `HeldKeyIsNoticed`: two threads count.
* `AllRegistered`, `TakenOnce`, `RoomAgain`: walks that skip the last node, two
  readers, a flood.
* `KeepsWorking`: any failure between the renames of a VERIFY.
  `NothingIsEarly`: any order of the threads' preparations.

Some properties except what is known to go wrong, by name: `TakenOnce` two
readers that meet in a read (`met`), `CallIsAsLoudAsChosen` a lost package
(`missed`), `PressGivesOneEvent` a reading stored late (after
which the count of events begins again), `KeepsWorking` a VERIFY told not to check (`unchecked`)
or cut by a power loss (`cut`), `NothingIsEarly` the steps in `Known`. Section 6
says of each what happens.

## 4. Fairness

`BlockBuffer`: weak fairness of a write that has begun, since the thread is
scheduled round-robin, and of the reader, since every reader is an endless
polling loop; none on beginning a write. `RequestList`: of the control loop and
of the touch thread, whose `Fl::wait` also returns with nothing to do
(`NoCallback`); none on the network or the driver. `BcuControl`: the same, one
weak fairness per thread. `AlarmTone`, `Audio`: of the clock while the timer is
open, and of the sampling thread, which has the highest priority and whose
card returns. `Network`: of the network thread, which never waits (`select`
also asks for sockets that can be written). `ExternButton`: weak fairness of
the sampling thread's reading and *strong* fairness of the control thread's
steps: the sampling thread interrupts it, but waits for its timer in between,
so each of its steps is possible again and again and not always.
Which callback runs, what the control centre asks, and that a call is made are
never assumed.

## 5. Theorems

| theorem | says | argument |
|---|---|---|
| `BlockBuffer_proofs!Invariance` | `TypeOK` and `IInv`, for 2 to 256 items, any messages, any counter width | `IInv` is inductive with `TypeOK` |
| `... !TypeCorrect`, `!WriterOwnsItsSlot`, `!ReadsAreWhole` | consequences | `IInv` names each fact one thread relies on between two steps: where the pointers may stand, that full was false, what is in the item so far |
| `MCLines_proofs!ImplementsMailbox` | `Spec => Mail!Spec`, for the same constants | each step puts, takes, delivers, answers or stutters; lemmas say what an advance of either pointer does to the sequence of queued items |
| `... !LinesTypeCorrect`, `!RegistrationsFound`, `!EachTakenOnce` | the run's types; each type finds its buffer; two readers take each package once | `LinesInv`, see below |
| `RequestList_proofs!TypeCorrect`, `!ListedOnce`, `!CountsTell` | types; a call is listed once; the count is 0 or the length | lemmas about inserting into and deleting from a sequence; one step per action |
| `RequestList_proofs!ButtonFollows` | the button is active exactly while the count is positive, when no handshake is owed | `ButtonInv`: which code is in `switchFlag` or owed, by whether the two remembered flags agree with the count |
| `RequestList_proofs!RowsShow` | rows name waiting calls in their order, for any number of rows | `RowsInv`: where no redraw is owed each shown row is in place, and when the count is unset the list is still the one that was drawn |
| `BcuControl_proofs!TypeCorrect` | types, any capacity | one step per action |
| `BcuControl_proofs!RequestEnds` | the key's request ends with its session, also when `SendCmd` waits | inductive as it stands |
| `BcuControl_proofs!SessionsHold`, `!SessionFlags` | microphone and flags, if `SendCmd` never waits | see below |
| `... !QueuedEndsEnd` | the action property `EndsAreObeyed`: the command buffer is a queue, and a `live_off` or `d2p_off` taken from it leaves the announcement or call ended, also when `SendCmd` waits | by the control thread's cases, from `TypeOK` |
| `... !HandshakeTakesTurns` | the action property `AlarmsTakeTurns`: no key alarm overwrites another, none is answered twice | `HandshakeInv`, see below |
| `CharBuffer_proofs!TypeCorrect`, `!PointersHold` | both pointers stay in the ring and agree, for any size and call, also when cleared in the middle of one | `Fits` is inductive, if no switch falls between advance and wrap |
| `... !ImplementsTape` | `IsTape`: the ring is a tape that can be wound back | from `Fits`; the bytes since the last clear have places (`At`), which the reader's pointer parts into those read and those to be read; lemmas say what an advance of a pointer or a clear does to the two parts |
| `MCTone_proofs!ToneTypeCorrect`, `!LeftoverOfTone`, `!CallHearsNoTone` | no buffer overflows; what is pending is of the tone in the alarm buffer; a call between drivers hears no tone | `LeftInv`, `CallInv`: what a write still under way may put back, and that a turn which began with passengers' tones began in an idle seat |
| `... !StartLeavesNothing` | `HeapIsListed`: nothing is lost or freed twice, whichever allocations fail | `StartInv`, see below |
| `Audio_proofs!TypeCorrect`, `!StartsFilled` | no buffer overflows; a session starts filled | `AllowedInside`, `ReceivedHere`: playing is allowed only between enter and exit, and what waits has come in the session, so a late turn starts nothing |
| `... !OldWriteEnds` | what was received before the enter is heard only in the write that the enter found under way | `NothingFormer`: every clear leaves nothing older waiting, so no later write can hold any |
| `... !OldSamplesEnd` | at most two old samples are sent in a session | `OldInv`: those still to be sent stand together, and while one is being read none is in the buffer |
| `... !NoBacklogAgain` | the action property `StaysWorkedOff` | `QuickInv`: while it plays, no more waits than has come since the last turn |
| `MCSeat_proofs!SeatTypeCorrect` | the run's types, for any cars, password and end of the counter | one invariant per subject |
| `... !MarksOffered`, `!ChoiceConfirmedOnce` | for any cars and places | `MarksInv`: nothing is marked during the delay of a cancel |
| `... !PagesAreTrue`, `!DriverIsHeardAsChosen` | the pages tell the state; the call is as loud as chosen | `MenuInv`: the password page, the scale of the volume, and the speaker with the package under way to it |
| `... !OneEventPerPress` | one press, one event | `KeyInv`: how far each thread can take the counter past its end, that what a thread has read is true unless overtaken, and that the key is latched after its event |
| `... !FirmwareWorks` | `KeepsWorking` | `FlashInv`: in which of the two places an image that works stands at each step of a VERIFY, and that the file the server has open is partial and moves with its name |
| `... !NothingComesEarly` | `NothingIsEarly`: whatever the order of the threads' steps and turns, nothing is used before it is set | `StartInv`, see below |

**Assumptions.** `ItemsAssumption`: the count loops give up above 256 items,
`BlockBufferCreate` turns 1 into 2. `NumbersAssumption`, `RowsAssumption`:
devices, seats and rows are numbers; an unset `int` is taken to be natural.
`CapacityAssumption`, `CarsAssumption`, `SizeAssumption`, `SizesAssumption`:
there are places, cars are finitely many, sizes are numbers. `LinesAssumption`: there is a
line, the shared ring has more than one item. `ToneAssumption`: sizes are
numbers, and sessions are the three there are; `SeatAssumption`: a password has
a digit, the counter's end is at least 2 (it is 100). TLC evaluates all of them.
Two hypotheses stand in theorems instead. `WrapIsNotSeen` (of those about
`CharBuffer`, and of `ToneTypeCorrect`): no thread is switched between the
advance and the wrap of a pointer; where it is, the pointer leaves the ring,
which `tone` leaves out as well. `TalkerIsNoFaster` (of `NoBacklogAgain`):
between two turns less comes than one write and what a stable session drops, 6
KiB in the program; a turn is a write of 3 KiB, and a talker sends what it
samples. With one datagram more the property is false, so the theorem says how
far the code's dropping carries.

**SessionsHold.** `FlagsTellSessions` asks nothing of the flags while some
thread is between exit and enter, so it is not inductive by itself: an `Enter`
might end with another thread's state entered by nobody. It becomes so with
`ThreadsRun`: no thread stands behind a waiting `SendCmd`, so an exchange puts
its thread at "enter", and the last thread to leave "enter" has entered the
state that is current. The lemmas sort `Next` into steps that exchange
nothing, announcement steps, exchanges, enters and commands. With
`CommandsMayWait` the property is false: an announcement ended while
`LiveAnnEnter` sleeps in `SendCmd` gets the microphone afterwards. It is listed
as a hazard, for no document says how a full buffer is to be met.

**HandshakeTakesTurns.** `switchFlag` belongs to two threads and has no lock. A
handler of the touch thread may sleep for long, in the delay of an
announcement's end or for room in the command buffer, and clears the flag only
then. `HandshakeInv` says that the control thread waits as long as the flag is
set, and that a touch thread at the end of a handler, or in a subroutine that
returns there (`then`), still finds it set; a callback never returns there. So
each clear answers the alarm the control thread waits for. With `QueuedEndsEnd`
this is the safe half of what `LiveOffObeyed`, `CallOffObeyed` and
`ControlGoesOn` promise; that the turns come at all is theirs. `EndsAreObeyed`
and `AlarmsTakeTurns` stand beside their theorems and belong to no run.

**Two readers, one ring.** `TakenOnce` excepts readers that have met (`met`)
in a read. `Apart` says what holds until then: one of them is out of the read,
none or one package waits (one only while the network thread has it to
forward), a reader that is about to advance has seen `readfrom` as it is, and a
package has been taken once unless it waits or is being copied. For
`AllRegistered` it is enough that the rows are those registered so far, in
their order: the walks, which skip a row, are then computed.

**StartLeavesNothing.** `HeapIsListed` speaks of the moments between two
creations or deletes. `StartInv` holds in the middle of one too: each name is
in one list at most, once (`NamedOnce`), and what is allocated is what the
lists own together with what the creation in progress has in hand (`AllOwned`).
The theorem holds for any subset of allocations that fail, and for deletes
through ids that were never set.

**NothingComesEarly.** That nothing has been used too early says nothing of what
may be used next. `StartInv` adds what the program counters tell: each step
that is done has left what it sets, unless the card failed or the groups
(`LeftBehind`); what is set was set by a step that is done (`ComesFrom`), so a
thread that exists tells how far `main` is; and the sample timer runs only when
the control thread has set its active states (`TimerRuns`), which is why the
sampling thread, that never looks at the control thread, may use them. From
these `MainFine`, `ScreenFine`, `NetworkFine` and `ControlFine` show of each step, and
`LoopsHave` and `ThreadsFind` of each turn, that what it uses is there. The
proof names the orders that matter: `InitMutex` before the destination, every buffer,
the list of requests, the PTT package and the attributes before the first
thread, the seven preparations of the control thread before the timer.

The theorems of `MCLines_proofs`, `MCSeat_proofs` and `MCTone_proofs` speak of
the runs' specifications; a lemma (`RunIsParts`) or the case of each
subject says that such a behaviour is one of its part.

**Only model-checked.** Liveness: `CallsAreShown`, `LiveOffObeyed`,
`CallOffObeyed`, `ControlGoesOn`, `ToneStops`, `HeardInTheEnd`,
`HeldKeyIsNoticed`, `RoomAgain` and the liveness half of
`ImplementsFairMailbox` need fairness and `ENABLED`, which are beyond this
prover. Every other property of the passing runs, each safety invariant and
each action property among them, is stated by a theorem.

## 6. What the code does against its own words

| run | the code | the words |
|---|---|---|
| `request_list_seat` | `devices_no=3` in a condition, at every turn of the loop | `bcu_function.cxx:2102`, the number was to be tested |
| `tone_silent` | a session or announcement closes the sample timer; `open_snd_playback` still says open, so the next start does not open it | `bcu_intercom.cxx:494`, opens or closes the playing of the request tone |
| `cars_orphaned` | a cancel releases only marks; package 7 has taken them away | `TouchScreen_horizontal.cxx:1819`, the button is labelled "cancel the choice of cars" |

Seen and not made a run.

*Waiting calls and sessions.* Another seat's refusal resets `request_number`
and darkens the button though a PCU waits (`touch_screen_function.cxx:539`). The
end of listening clears a microphone that an announcement owns
(`state_machine.h:29`). A call accepted where no rule begins it is marked as
going on (`touch_screen_intercomm.cxx:24`). Package 6 for this seat names the
car by the seat's own number (`bcu_function.cxx:2023`). Row labels of cars from
12 on are parsed as their first digit, and `buf[10]` is a byte short for them
(`TouchScreen_horizontal.cxx`); the parser of BCU labels leaves two variables
unset for car 0.

*Buffers.* `items_waiting` is changed by unlocked `++` and `--` and drifts from
"number of blocks saved" (`buffer_read_write_fun.h:87`); nothing decides on it in this
build. `BlockBufferFull`, which nothing calls, compares with `total_items`
though a write is refused at `total_items - 1`. `CharBufferPointerSave` and its
twin write the terminator of a 64-byte name one past the field; no name is that
long. The id of "audio-rx" is overwritten before it is tested. `InitBuffer`
returns -25, -30 or -31 for some failures and the caller looks for -1 only; a
missing dev_vol buffer is found by nobody. `D2PIntercomEnter` calls
`CharBufferClear` with the id of a block buffer.

*Network.* When the two readers of "network-udp-common-recv" meet in a read the
ring may look full of packages already taken. Call states of other seats (type
7) are registered by no one and dropped by the forwarder, unless the control
thread reads in between. A search never compares the last node or row
(`ZhwBufferRegister`, `ResolveUseType`); `ReadGlobalArray` returns unset memory when
nothing is found. The answer to a shell command goes to who asked last. Two
buffers are opened by name and created nowhere ("bcu-local-audio-data",
"network-udp-common-big-send").

*Samples.* `network_buffer_num` is never raised, so datagrams that come out of order are
played as they come, though `network/udp_recv_fun.cxx:18` speaks of sorting.

*Firmware.* A power loss in the middle of a VERIFY leaves an unchecked image in
place, and the next VERIFY loses the good one. Images below 300 KiB fail the
check by an unsigned underflow. A file that cannot be opened is closed all the
same.

*Start.* `main` clears an array with the size of another type
(`bcu_main.cxx:32`). The first lock of the device states comes before
`InitMutex` (lines 67 and 76). A press before the control thread is in its loop meets null
pointers. A failed card or thread is printed and gone on with.

## 7. Not modelled

* `alarm_pcu_audio.cxx` is 6097 lines of two tones, byte by byte; the map names
  those lines nowhere. About 5000 lines are headers with prototypes, includes
  and constants, and comments in Chinese and English.
* Widgets: positions, fonts, colours and the strings of
  `TouchScreen_horizontal.cxx` and of the languages; the buttons the program
  hides (volumes of other devices); error pages and logs.
* The shell's printing commands and the self-test; the CRC table; `bcu_comm_link.c`,
  which nothing calls; branches compiled out.
* The announcement states that no event reaches, beyond their rules, and the
  D2D hang-up whose command is never sent.
* Sound data, gains and the codec (I/O); the TFTP protocol (a call of the
  library); the boot loader, which picks the image.
* Inside the modelled parts: formatting, the contents of packages beyond
  the fields a handler decides on, failures of `pthread_create`, interruptions
  inside a handler (2.7).

## 8. What is left

1. The two uses of `switchFlag` composed: waiting calls and keys together, from
   `RequestList` and `BcuControl`. The product is beyond TLC at the bounds
   above; it needs an abstraction of one of them, with a refinement.
2. Block buffers with several writers at the grain of `BlockBuffer`
   ("bcu-screen-cmd-tx" has two); the modules take such a write as one step.
3. The seat's destinations (`thread_comm.cxx`) as lists, with the device table.
4. Proofs: `WrapIsNotSeen` replaced by what the readers and writers that exist
   tolerate.
