# FBGmaster: a TLA+ model, its model checks and its proofs

FBGmaster receives the peak wavelengths of a fibre-Bragg-grating (FBG)
interrogator at 10.0.0.55 over UDP, after asking for them over TCP, and hands
them on: to the screen (`main.cpp`), to a processing thread
(`rt_interrogator_task.cpp`), or to a log next to the readings of an EtherCAT
force/torque sensor (`FT_FBG.cpp`). `src/src/original` is the firmware for a
Teensy board that the Linux code was derived from. Below, `rt:` stands for
`src/src/linux/rt_interrogator_task.cpp`, `ci:` for
`src/src/linux/linux_CInterrogator.cpp`, `ft:` for `src/src/linux/FT_FBG.cpp`,
`mc:`, `mh:`, `sp:`, `fs:`, `ti:` and `cc:` for `CMainControl.cpp`, `CMainControl.h`,
`CSerialPacket.cpp`, `CFTSensorSPI.cpp`, `CInterrogator.cpp` and `CCalibration.cpp`
in `src/src/original`.

## Inventory

| Component | State | Operations | Talks to | Hard behaviour | What makes it correct |
|---|---|---|---|---|---|
| `CInterrogator`, Linux (`ci:`) | two descriptor members without initialiser, `udpState`, the last peaks | `init`, `connectUDP`, `enablePeakDatagrams`, `readPacket`, `procPacket`, `getPeaks`, `disconnectUDP` | interrogator over TCP and UDP, the kernel's descriptor table | any system call may fail at any time; receive timeouts; the peer may vanish; stale and uninitialised numbers | uses only sockets it opened, closes what it opened, can always connect again |
| `processRTState` (`rt:75`) | `currentState` | one call per 1 ms period | `CInterrogator`, `PeakDataQueue` | retry after every kind of failure | gets back to reading, leaks nothing |
| `PeakDataQueue` (`rt:34`) | `std::queue`, mutex, one condition variable | `push`, `pop` | both threads | interleaving, lost and spurious wake-ups, full and empty queue | nothing lost, doubled, overtaken; nobody sleeps for ever |
| `InterrogatorManager`, `main`, signals (`rt:65`) | the above and the two threads | `initRTTask`, task callbacks, `signalHandler` | all of the above | a real-time thread that runs before its consumer exists; signals; failing `pthread_create` | every sample received reaches the processing thread |
| `FBGmaster` (`main.cpp`) | none of its own | connect once, then read and print for ever | `CInterrogator` | ignored results | prints what it has received |
| `FT_FBG` (`ft:`) | globals: state, peaks, `isReadyToLog`, `g_cKeyPress`, `logBuffer`, terminal mode | interrogator thread, real-time logging thread, keyboard thread, signal handler | `CInterrogator`, EtherCAT, terminal, a log file | three threads on globals, one mutex used in one place, `exit` from a handler | records of one datagram, complete log, terminal restored |
| `CMainControl` (Teensy) | run flags, tick flag, deque and its counter, filters | `run`, `stop`, `timerTrigger`, `queueDataLog`, `streamDataQueue`, threads | serial port, SPI sensor, interrogator | mutexes local to a function, dropped ticks, start against stop | every tick's record is sent once |
| `CSerialPacket` (Teensy) | receive and transmit buffers and positions | `procPacket`, `getCommandCode`, `encode`, `send_packet`, `dprintf` | host | framing across reads, two threads on one buffer | a frame sent is a frame received |
| `CFTSensorSPI` (Teensy) | last reading, `isValid` | `reset`, `stop`, `readSensor`, `getValue` | SPI bus | called from two threads | a valid reading is a recent one |
| `CInterrogator` (Teensy) | UDP and TCP clients | `connectUDP`, `readPacket`, `procPacket` | Ethernet library | link and connection failures | reads only when connected |

The EtherCAT master classes, the `posix_rt` task library and the KIST sensor
class are used by this repository but are not in it; `src/include/ecrt.h` is the
header of a vendored library.

## Modules

| Module | Models | Correspondence |
|---|---|---|
| `CInterrogator` | the socket methods of `ci:` | One action per system call. `call` is the program counter inside the method under way and, at the end, its result (`"ok"`, `"failed"`). `fdTable` is the kernel's table: what each descriptor number refers to. `tcpSockfd`, `udpSockfd`, `udpState` are the members. `streaming` is the interrogator's: `"on"` when the last command it got whole was *enable*; `"rest"` when it has stopped but datagrams it sent may still be under way or in the socket's receive buffer; else `"off"`. The three `send()` calls of a command are one step, which may lose the command on a connection that is otherwise fine. |
| `InterrogatorFsm` | `processRTState`, `rt:75-120` | EXTENDS `CInterrogator`; each `case` is a `Begin` of a method and an action for each of its results. |
| `PeakDataQueue` | `rt:34-62` | A program counter per thread: lock, test of the wait predicate, asleep, woken, change, unlock, notify. |
| `SampleChannel` | nothing by itself | What a hand-over promises: samples come out once, in order, at most `Capacity` under way. |
| `InterrogatorManager` | the rest of `rt:` | INSTANCEs the state machine and the queue; adds `main`, the start of the two threads (the second may fail, and the first then goes on until `main` has returned: `boot` is `"failed"`), the hand-over of a packet read to `push`, signals and process end. |
| `FtFbg` | `ft:` | INSTANCEs the state machine with both members zero (the object is a global), shares its descriptor table with the terminal (descriptor 0), the keyboard thread and the log file, and adds the real-time thread's log, `signalHandler`, `saveLogToFile` and the end of the process. `at` is where the real-time thread and the handler are; the log and the file are the numbers of records they hold. |
| `PeakDatagram` | `procPacket` and `getPeaks`, `ci:194-236`, `ti:113-154` | One action per statement group, a thread for each method, no lock between them. A value is the number of the datagram it is from; an average is the set of slots it was summed over, so that it can be compared with what it should have been summed over. A datagram carries any number of peaks (`carried`), whatever numbers it reports, negative ones too; behind its end are the zeros of `recvBuff`, behind the end of `recvBuff` anything. Members without initialiser start as `Stray`. |
| `FbgMaster` | `main.cpp` | EXTENDS `CInterrogator` and `PeakDatagram`, and runs their methods one after the other in one thread. `at`, its only variable of its own, is where `main` is. |
| `SerialTransmit` | the transmit buffer: `setCode`, `encode`, `send_packet`, `dprintf` of `sp:` | A program counter per calling thread (`sending`); the buffers hold what was put into them last, and by whom. |
| `TeensyControl` | `mc:` | EXTENDS `SerialTransmit`. `pc` has an entry for `mainThread`, `streamThread` and the sketch, and `spi` is where `FTSPIThread` stands: before its test of `bRun`, between its tests, or reading; every access to a flag, to the deque and to `queSize` that another thread can come between is a step. |
| `TeensySerial` | receiving and echo of `sp:` | Bytes go over the `wire` to the `line`, that is, to what `available()` counts. The host either waits for the echo of each command or does not. |
| `CFTSensorSPI` | `fs:` | Two readers with a program counter each, a board that answers late by `lag` words, readings of two words. |
| `TeensyInterrogator` | connection and `readPacket` of `ti:` | A step for each test of `connectUDP`; the library's client is closed, open, or dead; one datagram waits for `readPacket` at a time. |
| `ControlRecord` | `mainJobControl`, `LoopStauts` (`mh:23`), `LPFx` and its like, `queueDataLog` of `mc:`; `cc:` | A step for each call in `run()`, time as a counter, `init()` between any two steps. A register of a filter is an integer modulo a small number. |
| `TeensyDevices` | the three above | EXTENDS them; the sketch calls `init`, `stop` and the connection methods in any order. |
| `*_proofs` | | the theorems about the module named; `FbgMaster_proofs` also those about `PeakDatagram`, which they rest on |
| `MC*` | | constants for TLC |

`InterrogatorManager` shows by refinement that it uses its two parts as they
are specified (`FsmSpec`, `QueueSpec`), so that what is checked and proved of the
parts holds of the program, and that the whole is a channel from socket to
processing thread (`EndToEndSpec`). `PeakDataQueue` is itself shown to implement
`SampleChannel` (`ChannelSpec`).

A sample stands for a datagram and is the number of its arrival; wavelengths,
timestamps and printing are left out. `InterrogatorInit` lets the two
descriptor members hold any number of `Garbage`: they have no initialiser and
the object is a local variable of `main` (`rt:240`).

The Teensy's sketch (`setup` and `loop`) is not in the repository. It is modelled
from what the classes offer it: it starts by `init()` and then the timer, stops
by stopping the timer and then `stop()`, reads commands while the one ready flag
of `CSerialPacket` is set and data while the other is. On the Teensy the mutexes
of `mc:63` and `mc:243` are local variables, so the models have no lock. An
operation on an empty deque has no defined outcome; `TeensyControl` ends there.

## Runs

| Run | What it asks | Result |
|---|---|---|
| `queue` | `PeakDataQueue` alone: is the queue the backlog (`QueueIsBacklog`), is a wake-up ever missed (`NoMissedWakeup`), does each sample pushed come out (`EventualDelivery`), is it a channel (`ChannelSpec`)? | holds |
| `fsm` | the state machine with every system call free to fail | holds: it connects, enables and reads with sockets of its own, and once it has tried to connect `disconnectUDP` closes either its complete pair or numbers that are not open (`UsesOwnSockets`); only a `disconnectUDP` before that, after `init()` has found garbage in the members, uses and closes whatever it finds. The task gets back to reading after every failure (`AlwaysReadsAgain`) but one: a receive that fails, and a lost *enable* command, whose result nobody looks at, leads there (`LostEnableLeaks`). A failed receive leaks the port (`FailedReceiveLeaks`), for ever (`LeakIsPermanent`), makes the task deaf (`DeafOnceLeaked`), and costs one pair of sockets and no more (`LeakIsOnePair`) |
| `manager` | the whole program | holds: each sample received reaches the processing thread (`EverySampleDelivered`), the refinements hold |
| `ft_fbg` | the logging program | holds: while a log is saved nothing but `disconnectUDP` can close its file under it (`OnlyDisconnectClosesLog`), the program has closed its own terminal before it first tries to connect, and only an exit or a signal before that takes it out of raw mode again (`TerminalIsLost`), a full log ends it (`FullLogEnds`) |
| `saved_log_is_complete` | "Log saved to file", `ft:198` | violated: `disconnectUDP` closes the file by a number a failed `connectUDP` has left behind |
| `mode_comes_from_keyboard` | "Keyboard Input Task", `ft:353` | violated: the task reads the UDP socket, which has become descriptor 0, and the bytes of a datagram act as keys |
| `peaks` | `procPacket` and `getPeaks` at the same time | holds: the average of each channel whose peaks the datagram carries is of just these, however short the datagram is and whatever the other channels report (`AverageIsOfOwnPeaks`); a copy that overlaps a datagram may mix two of them, but one that does not is the datagram as it is, and its time stamp is never older than the copy (`SnapshotIsRegular`); averages never vanish or go back (`PeaksNeverGoBack`) |
| `fbg_master` | the simple client | holds: it uses its own two sockets although the result of `init()` is ignored (`OwnSockets`), prints, once a datagram has been decoded, the last one whole, over and over if need be (`PrintsLastDecoded`), and never hears again of an interrogator that has stopped sending and whose last datagram has been read (`NoDatagramOnceSilent`) |
| `teensy_devices` | sensor, connection and record of the Teensy | holds: a reading nothing interfered with is of one transfer (`ValueIsOneReading`), the offset stays within the buffers (`TypeOK`), a missing board is never reported as such, nor a missing link if the board is there (`FaultsAreMasked`), and a record holds the time of its own pass, the status of the pass before, and a filtered force that is right once the filter has settled (`RecordHoldsItsPass`) |
| `teensy_control` | the control loop without locks | holds: `queSize` is right, and the deque never read when empty, until two updates of it overlap (`CounterIsRight`); a frame nobody interferes with is whole (`FramesAreWhole`); a stop with no tick pending or being served holds: until the next start no flag is set and no acquisition over SPI begins, though one under way may end after `stop()` has returned (`StopHolds`); a start leads to records being sent unless `run()` is at work when it comes (`RunStreams`) |
| `stopped_means_stopped` | "Stopped Main Control", `mc:22` | violated: the first tick being served sets `bRun` after `stop()` has cleared it |
| `teensy_serial` | commands over USB serial | holds: no command is taken for another unless a time-out cuts a size in two (`CommandsInOrder`), every command of a host that waits is echoed (`EveryCommandEchoed`), and a byte too many stops the reception for good (`OverrunIsFatal`) |

### Bounds

- `queue`: capacity 2 (10 in the source), 5 samples, 2 spurious wake-ups. The
  queue fills, a push blocks, drains, and fills again; the counters only number
  the samples.
- `fsm`: descriptors 0 to 7, three of them standard streams: the sockets of a
  connection, a leaked pair, one to spare. Garbage is a negative number, a
  standard stream, a number `socket()` will return, or one never open.
- `manager`: capacity 2, 4 samples (one more than queue and hand-over can hold),
  1 spurious wake-up, 6 descriptors.
- `peaks`: two channels of two gratings, a receive buffer that holds two of the
  four peaks, a channel that reports -1, 1 or 3 of them, datagrams that carry none, one
  or two, and 3 datagrams: the peaks reported may be none, what is carried, more than
  that, more than `recvBuff` and more than `waveLength` holds, and a copy may span two
  datagrams.
- `fbg_master`: the descriptors of `manager`, -1 or 2 peaks in a
  channel, a receive buffer of three, 3 datagrams.
- `teensy_devices`: a board late by 0 words, by 1, or out of range, and 2
  transfers, so that each reader, or one of them twice, has its own. A reading
  is two words (24 in the source): enough for one to be torn. Sensor, connection
  and record share nothing but the sketch and values copied from one to the
  other, so a behaviour follows one of them. Record: clocks of two bits
  (32 in the source) that both overflow within the eight microseconds; forces 0
  and 1 modulo 3, and coefficients of unit gain, with which a filter can settle on
  either.
- `teensy_control` and its violation: 2 ticks: a start, a record taken from the queue
  while the next is counted, a stop and another start with a tick of its own;
  overlapping updates and the empty deque are reached, and `FTSPIThread` may stand
  anywhere at any time.
- `teensy_serial`: 3 commands of 0, 1 or 2 bytes of data: one may be lost between
  two others. A misread size is one of these or more than any command has.
  A value has a type that is echoed or one that is not.
- `ft_fbg`: 5 descriptors (the terminal and four more: a leaked pair, and two
  for the attempts to connect again and for the log), a log of 2 records (5000
  in the source): a second record can be appended while the first is being
  saved, and the log fills. Beyond its constants the model has these bounds: one
  signal, no two saves that overlap, a save writes its records in one step, and
  the interrogator does not close its TCP connection (the `fsm` run has that).

The number of failures and reconnections is not bounded.
Deadlock is checked except where a model rightly comes to rest: `queue` once the
samples are used up, `teensy_serial` once the commands are, and `teensy_control`
once the ticks are or where the behaviour is undefined.

### Fairness

- Threads run when they can (`WF`): they are scheduled by the operating system,
  and the mutex is held for a few statements only. No fairness is asked of
  spurious wake-ups, of a call of `push`, of a successful receive, of failures,
  or of signals.
- `ft_fbg` assumes nothing but that `main`, the interrogator thread, the
  real-time thread and a handler that has begun are scheduled: no key is ever
  typed and no signal arrives unless it happens to.
- `teensy_control` and `teensy_serial`: the Teensy's threads are scheduled in turn,
  the timer ticks while it is started, bytes sent arrive. A start, a stop or a
  command is never forced.
- `fsm` assumes of each system call of `connectUDP` that it succeeds eventually
  if tried over and over (`SF`): the interrogator is switched on and descriptors
  are to be had. `UdpBindOk` is subject to it too, but it is enabled only when no
  other socket holds the port, which is what the leak prevents.

## Proofs

All theorems hold for every value of the constants under the assumptions the
modules name:

- `QueueAssumption`, `ManagerAssumption`, `LoggerAssumption`: queue and log have
  room for one entry at least.
- `DescriptorAssumption`: descriptors are numbered from 0, and what is open before
  the program starts is among them. Nothing is assumed of `Garbage`, except that it
  is integers. In `FtFbg` descriptor 0 is the terminal.
- `PeakAssumption`: there is a channel, and the receive buffer has no more slots than
  `waveLength` (18 of 8 bytes in the 200 of `ci:168`, against 20,
  `linux_CInterrogator.h:41`). A channel may report any integer for its number of peaks,
  and a datagram may carry fewer.
- `SensorAssumption`, `SerialAssumption`, `ControlAssumption`: types of the bounds and of the
  inputs. A board may be late by any number of words, commands may have any sizes, and
  a size cut in two may be read as any number.
- `RecordAssumption`: a clock wraps at some positive number (2^32), a millisecond and the
  modulus are positive, and the filter's coefficients are integers of unit gain with
  leading coefficient 1.

Every safety invariant and action property of the passing runs is proved, in eight
modules:

- `PeakDataQueue_proofs`: the invariant is `TypeOK`, `MutualExclusion`,
  `QueueIsBacklog` and `NoMissedWakeup` together. `QueueIsBacklog` needs the
  mutual exclusion because `Pushed` counts a sample at the step that appends it;
  `NoMissedWakeup` is inductive because testing the predicate and going to sleep
  is one step under the mutex, and the step that makes a predicate true leaves its
  thread at `unlock`. That the channel is implemented follows step by step.
- `InterrogatorFsm_proofs`: the leak theorems need to know, for each step of each
  method, which descriptors the members name, that no two open sockets are
  orphans except a bound one and a connected one, and that a bound orphan keeps
  every later `bind` from succeeding; and `UsesOwnSockets` needs to know what each failure
  leaves in the members (`Leftover`). `IInv` states this by control state; the
  lemmas preserve it group by group (connect, other methods, control,
  environment). `LeakForGood` is an action property proved from it: a number
  about to be closed never is the orphan's.
- `InterrogatorManager_proofs`: each step of the program is a step of the state
  machine and of the queue or leaves them alone (`FsmStep`, `QueueStep`).
  The first gives `ImplementsFsm`; the second needs the invariant `Handover`,
  that a packet received and not pushed is the next one, so that push is called with
  `sample + 1`. With the queue's own theorem this gives `AllSamplesKept` and the
  end-to-end channel.

- `FtFbg_proofs`: the invariants of the state machine do not hold here, because
  other threads open and close descriptors. For the types (`TInv`) one has to know
  that the log is never full when a record is appended (`LogHasRoom`) and who may be
  saving it (`SaveOrder`). `LogIsNotClosed` needs that the numbers `connectUDP` works
  with are its own sockets; that is true until a log file is closed for the first
  time, and so for the first save, which is what the property is about (`SInv`). `RawForGood`
  proves `TerminalIsLost` from `TermInv`: while the terminal is open the thread is on its way
  through the first disconnect, with descriptor 0 in its member.
- `FbgMaster_proofs`, first half, about `PeakDatagram`: a running sum of the channels'
  counts, `Peaks`, says which slots are whose. It is a recursive function, and what
  the proof needs of it (its value at a channel is the one before plus the count, if that
  is positive) is proved from the least channel that could be an exception. The
  invariant is that each channel the loop has passed, if the datagram carries its peaks,
  has the average of its own slots (`OwnAverages`), that what has been copied is what is
  there as long as no datagram has come since (`Regular`), and that nothing the caller has is newer than what the object
  has (`Ordered`), which needs that each average is of slots of one datagram.
- `FbgMaster_proofs`, second half: a program of one thread is one of the interleavings
  of `PeakSpec` (`ImplementsPeaks`, a step at a time). So its invariants hold of the
  program, and `PrintsLastDecoded` follows with `InTurn`: only one of the two methods is
  under way, and a copy begins after the datagram's decoding has ended. For the sockets,
  `SetUp` says what each step of `connectUDP` finds; that `init()`'s result is ignored does no
  harm, because `connectUDP` sets both members before it uses them, and a failure of
  `connectUDP` ends the program. `SilentForGood` needs, of `MainInv`, which call can be
  under way in the loop: only a receive, and it is the one step that takes a datagram.
- `TeensyControl_proofs`: `queSize` is `Len` of the deque, less what `stream` has yet to
  count down, plus what `main` has yet to count up, and a thread that has loaded it has
  loaded what it still is (`CounterInv`): inductive until two updates overlap. The types
  need more, that is, bounds on `queSize` that hold even then (`Bounds`): lost updates
  never make it more than the number of pushes nor less than minus the number of
  takes. `StopInv` follows `stop()` from step to step (that no acquisition begins is an action
  property of it, `NoAcquisition`), and `Frames` has, for each thread whose
  frame nobody has overlapped, what the buffers hold so far.
- `TeensyDevices_proofs`: `OneReading` follows a reading from the bus through two copies
  to the caller; `Masked` says what `connectUDP` knows at each of its steps; `ClockRight`,
  `PeriodRight`, `FlagRight` and `GainRight` say the same for a pass of `run()`. That
  the times are right whatever a clock wraps at rests on lemmas about `%`, and that a
  settled filter gives its input on a small calculation modulo the register's size.
- `TeensySerial_proofs`: the bytes that have been sent and not been read are a chain,
  each one the `Follower` of the byte before, and the first is the one the device
  `Expected`, given what it has read of the current command (`Received`). A read takes a
  piece off the front. This holds until a size is cut in two or a command is
  overrun; after an overrun no step completes a command (`NoneAfterOverrun`); a host
  that waits causes neither, because it has one command under way at most.

Only model-checked: the liveness properties (`EventualDelivery`,
`AlwaysReadsAgain`, `FailedReceiveLeaks`, `LostEnableLeaks`, `EverySampleDelivered`,
`FullLogEnds`, `RunStreams`, `EveryCommandEchoed`), which rest on
fairness and so are out of the provers' reach. The violated properties have
counterexamples instead.

## Findings

1. The error paths of `connectUDP` leave the numbers of closed descriptors in
   the members, and `disconnectUDP` closes them once more: if the log was opened
   in between, it is lost, although it is reported as saved
   (`saved_log_is_complete`).
2. The descriptor members are read before anything is written to them. In
   `FT_FBG` they are zero, so before it first connects the program closes its
   terminal (`TerminalIsLost`), and the UDP socket, being descriptor 0 from then on,
   feeds the keyboard task (`mode_comes_from_keyboard`).
3. A stop of the Teensy's control loop while its first tick is being served is
   undone at once, although it is reported (`stopped_means_stopped`).

What the properties that hold say is as worth knowing: one receive time-out loses
the UDP port until the program is restarted, and a lost *enable* command leads to one
(`FailedReceiveLeaks`, `LostEnableLeaks`: `READ_PEAKS` goes to `CONNECT_UDP`, which overwrites the descriptors, and `bind` fails from then
on, although `ci:14` says "Check and close existing connections"); `push`, which
`rt:110` calls non-blocking, blocks when the queue is full (the step `WaitNotFull`);
a start while `run()` is at work never sets `bRun` (what `RunStreams` leaves out);
a datagram shorter than it says is averaged with zeros, or leaves old averages in place
(what `AverageIsOfOwnPeaks` leaves out); `main.cpp:26` and `:36` report a packet as
received whether or not there was one, and print old values, or, before the first
one, memory nobody has written (what `PrintsLastDecoded` leaves out);
one lost update of `queSize` leaves a record behind or reads an empty deque (what
`CounterIsRight` leaves out). In a record, the period and the flag are those of the
pass before, and the first record of a run may be flagged for a pass of the run
before (`StatusIsOfLastPass`), since `reset()` leaves `rtInvalid` as it is; a start
in the middle of a pass counts the time from power-on (what `crossed` leaves out of
`RecordHoldsItsPass`). The low-pass filters lose their second delay, but not their
gain (`FilterHasUnitGain`). `cc:22` gives nine coefficients to a matrix of three rows
and four columns: if Eigen's assertions are off, the model takes the force in x to
be zero and the other two to be anything.

## Not modelled, and the plan

Still to be done:

1. Facts about the programs that their parts' theorems imply and that nobody has
   stated: of `InterrogatorManager`, what `LeakIsOnePair` and `DeafOnceLeaked` mean for the
   processing thread; of `TeensyControl`, that the records come out in the order of
   their ticks whenever `CounterIsRight` has force.
2. An abstract specification of the serial link (commands in, echoes out) that
   `TeensySerial` implements as long as no size is cut in two.
3. The hazards of `ft:` without a property: they need the log's contents, and a handler
   that runs inside another thread's statement.

Left out of the components above: saves that overlap in `FT_FBG`, its EtherCAT
side and statistics; the locks of the C library in signal handlers; the sizes of
the serial and UDP buffers of the Teensy in bytes; the receive-wait flag of
`CSerialPacket`, which nothing reads; the thread that blinks a LED.

Not modelled at all: floating-point values (of the calibration and the filters the
shape is modelled), the vendored header `src/include/ecrt.h`, which declares
functions no source of the repository calls, the build files, printing and timing
statistics.
