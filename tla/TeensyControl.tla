---------------------------- MODULE TeensyControl ----------------------------
(***************************************************************************)
(* class CMainControl: the control loop of the Teensy firmware.  A timer   *)
(* interrupt raises bTimerTrigger, mainThread ("main") serves it with one  *)
(* pass of run(), which queues a record, and streamThread ("stream") sends *)
(* the records while bRun is set.  FTSPIThread, a thread of its own, reads *)
(* the force/torque sensor over SPI.  The sketch, which is not in the      *)
(* repository, starts the control by init() and the timer, and ends it by  *)
(* stopping the timer and stop().  No lock is shared: the mutexes of run() *)
(* and streamDataQueue() are local variables, and exclude nobody.          *)
(*                                                                         *)
(* Records are numbered by the ticks served.  ++queSize and --queSize read *)
(* and write the variable in two steps; the operations of the deque are    *)
(* one step each, and one on an empty deque has no defined outcome: the    *)
(* model ends there.  loopCount matters only in so far as it is zero;      *)
(* isRunning and rtInvalid are never read.                                 *)
(*                                                                         *)
(* Bound: MaxLoops, the ticks served.                                      *)
(***************************************************************************)
EXTENDS Integers, SerialTransmit

CONSTANT MaxLoops

ASSUME ControlAssumption == MaxLoops \in Nat /\ {"main", "stream", "sketch"} = Senders

VARIABLES
  timer,          \* the sketch has started it
  bTimerTrigger, bRun, bRunSPI,
  looped,         \* rtStatus.loopCount # 0
  loops,          \* ticks taken
  mDataLogQueue, queSize,
  loaded,         \* thread -> the queSize it has read
  mDataLog,       \* the record main makes
  curDataLog,     \* the record streamDataQueue sends
  pc,             \* sender -> what it does next
  spi,            \* FTSPIThread: "idle", "run" past its test of bRun, "read" past both
  raced,          \* history: one update of queSize has overwritten another one
  crossed,        \* history: the last start came while run() was past its test for the
                  \* start, or the last stop while a tick was pending or being served
  streamed        \* history: a record has been sent since the last start

flagVars == <<timer, bTimerTrigger, bRun, bRunSPI, looped, loops>>
queueVars == <<mDataLog, mDataLogQueue, queSize, loaded, curDataLog>>
historyVars == <<raced, crossed, streamed>>
vars == <<flagVars, queueVars, pc, spi, historyVars, txVars>>

Init ==
  /\ timer = FALSE /\ bTimerTrigger = FALSE
  /\ bRun = FALSE /\ bRunSPI = FALSE
  /\ looped = FALSE /\ loops = 0
  /\ mDataLogQueue = <<>> /\ queSize = 0
  /\ loaded = [t \in {"main", "stream"} |-> 0] /\ mDataLog = 0 /\ curDataLog = 0
  /\ pc = [main |-> "run", stream |-> "idle", sketch |-> "idle"]
  /\ spi = "idle"
  /\ raced = FALSE /\ crossed = FALSE /\ streamed = FALSE
  /\ TxInit

Undefined == pc["stream"] = "undefined"

Goto(t, from, to) ==
  /\ ~Undefined
  /\ pc[t] = from
  /\ pc' = [pc EXCEPT ![t] = to]

At(t, step) == ~Undefined /\ pc[t] = step /\ UNCHANGED pc

\* t calls dprintf; it goes on from "from" to "to" when it has been sent.
PrintLine(t, from, to) ==
  /\ \/ At(t, from) /\ (Begin(t, "text") \/ Dprintf(t))
     \/ Goto(t, from, to) /\ SendPacket(t)
  /\ UNCHANGED <<flagVars, queueVars, historyVars, spi>>

----------------------------------------------------------------------------
\* timerTrigger: a tick that comes while the last one is being served is dropped.
TimerTrigger ==
  /\ ~Undefined
  /\ timer /\ ~bTimerTrigger
  /\ loops < MaxLoops
  /\ bTimerTrigger' = TRUE
  /\ loops' = loops + 1
  /\ UNCHANGED <<timer, bRun, bRunSPI, looped, queueVars, pc, historyVars, spi, txVars>>

----------------------------------------------------------------------------
\* run(), setMainStartTimeTick: the first pass announces the start and sets the flags.
\* (Mutant: the tick is acknowledged before it is served.)
BeginRunClears ==
  /\ bTimerTrigger
  /\ Goto("main", "run", IF looped THEN "job" ELSE "announce")
  /\ bTimerTrigger' = FALSE
  /\ UNCHANGED <<timer, bRun, bRunSPI, looped, loops, queueVars, historyVars, spi, txVars>>

BeginRun ==
  /\ bTimerTrigger
  /\ Goto("main", "run", IF looped THEN "job" ELSE "announce")
  /\ UNCHANGED <<flagVars, queueVars, historyVars, spi, txVars>>

SetRun ==
  /\ Goto("main", "start", "startSPI")
  /\ bRun' = TRUE
  /\ UNCHANGED <<timer, bTimerTrigger, bRunSPI, looped, loops, queueVars, historyVars, spi, txVars>>

SetRunSPI ==
  /\ Goto("main", "startSPI", "job")
  /\ bRunSPI' = TRUE
  /\ UNCHANGED <<timer, bTimerTrigger, bRun, looped, loops, queueVars, historyVars, spi, txVars>>

\* The record of this pass is made, from the peaks and the reading of the sensor ...
MainJobControl ==
  /\ Goto("main", "job", "push")
  /\ mDataLog' = loops
  /\ UNCHANGED <<flagVars, mDataLogQueue, queSize, loaded, curDataLog, historyVars, spi, txVars>>

\* ... and queued ...
QueueDataLog ==
  /\ Goto("main", "push", "load")
  /\ mDataLogQueue' = Append(mDataLogQueue, mDataLog)
  /\ UNCHANGED <<flagVars, mDataLog, queSize, loaded, curDataLog, historyVars, spi, txVars>>

LoadSize(t) ==
  /\ Goto(t, "load", "store")
  /\ loaded' = [loaded EXCEPT ![t] = queSize]
  /\ UNCHANGED <<flagVars, mDataLog, mDataLogQueue, queSize, curDataLog, historyVars, spi, txVars>>

\* ... and queSize counted up, or down by the other thread.
StoreSize(t, other, change, to) ==
  /\ Goto(t, "store", to)
  /\ queSize' = loaded[t] + change
  /\ loaded' = [loaded EXCEPT ![t] = 0]
  /\ raced' = (raced \/ pc[other] = "store")
  /\ UNCHANGED <<flagVars, mDataLog, mDataLogQueue, curDataLog, crossed, streamed, spi, txVars>>

\* loopUpdate, at whose end the period may have been exceeded.
LoopUpdate ==
  /\ \E next \in {"clear", "exceed"} : Goto("main", "update", next)
  /\ looped' = TRUE
  /\ UNCHANGED <<timer, bTimerTrigger, bRun, bRunSPI, loops, queueVars, historyVars, spi, txVars>>

EndRun ==
  /\ Goto("main", "clear", "run")
  /\ bTimerTrigger' = FALSE
  /\ UNCHANGED <<timer, bRun, bRunSPI, looped, loops, queueVars, historyVars, spi, txVars>>

MainThread ==
  \/ BeginRun
  \/ PrintLine("main", "announce", "start") \/ SetRun \/ SetRunSPI
  \/ MainJobControl \/ QueueDataLog \/ LoadSize("main") \/ StoreSize("main", "stream", 1, "update")
  \/ LoopUpdate \/ PrintLine("main", "exceed", "clear")
  \/ EndRun

----------------------------------------------------------------------------
\* streamDataQueue
BeginStream ==
  /\ bRun /\ queSize > 0
  /\ Goto("stream", "idle", "take")
  /\ UNCHANGED <<flagVars, queueVars, historyVars, spi, txVars>>

\* (Mutant: the record is copied, but not removed.)
TakeFrontOnly ==
  /\ Goto("stream", "take", "load")
  /\ mDataLogQueue # <<>>
  /\ curDataLog' = Head(mDataLogQueue)
  /\ UNCHANGED <<flagVars, mDataLog, mDataLogQueue, queSize, loaded, historyVars, spi, txVars>>

TakeDataLog ==
  /\ Goto("stream", "take", IF mDataLogQueue = <<>> THEN "undefined" ELSE "load")
  /\ IF mDataLogQueue = <<>>
     THEN UNCHANGED <<mDataLogQueue, curDataLog>>
     ELSE curDataLog' = Head(mDataLogQueue) /\ mDataLogQueue' = Tail(mDataLogQueue)
  /\ UNCHANGED <<flagVars, mDataLog, queSize, loaded, historyVars, spi, txVars>>

StreamDataLog ==
  /\ \/ /\ At("stream", "send")
        /\ Begin("stream", "code") \/ SendDataLog("stream", curDataLog)
        /\ UNCHANGED <<curDataLog, streamed>>
     \/ /\ Goto("stream", "send", "idle")
        /\ SendPacket("stream")
        /\ curDataLog' = 0 /\ streamed' = TRUE
  /\ UNCHANGED <<flagVars, mDataLog, mDataLogQueue, queSize, loaded, raced, crossed, spi>>

StreamThread ==
  \/ BeginStream \/ TakeDataLog
  \/ LoadSize("stream") \/ StoreSize("stream", "main", -1, "send")
  \/ StreamDataLog

\* It tests one flag, then the other, and reads the sensor, which takes its time.
FTSPIThread ==
  /\ ~Undefined
  /\ \/ spi = "idle" /\ bRun /\ spi' = "run"
     \/ spi = "run" /\ spi' = (IF bRunSPI THEN "read" ELSE "idle")
     \/ spi = "read" /\ spi' = "idle"
  /\ UNCHANGED <<flagVars, queueVars, pc, historyVars, txVars>>

----------------------------------------------------------------------------
\* The sketch starts: init(), of which rtStatus.reset() matters here, and the timer.
\* (Mutant: the loop count goes on.)
StartKeepsCount ==
  /\ Goto("sketch", "idle", "idle")
  /\ ~timer /\ loops < MaxLoops
  /\ timer' = TRUE
  /\ crossed' = (pc["main"] # "run")
  /\ streamed' = FALSE
  /\ UNCHANGED <<bTimerTrigger, bRun, bRunSPI, looped, loops, queueVars, raced, spi, txVars>>

Start ==
  /\ Goto("sketch", "idle", "idle")
  /\ ~timer /\ loops < MaxLoops
  /\ looped' = FALSE
  /\ timer' = TRUE
  /\ crossed' = (pc["main"] # "run")
  /\ streamed' = FALSE
  /\ UNCHANGED <<bTimerTrigger, bRun, bRunSPI, loops, queueVars, raced, spi, txVars>>

\* It stops the timer, and calls stop().
StopTimer ==
  /\ Goto("sketch", "idle", "stopSPI")
  /\ timer
  /\ timer' = FALSE
  /\ crossed' = bTimerTrigger
  /\ UNCHANGED <<bTimerTrigger, bRun, bRunSPI, looped, loops, queueVars, raced, streamed>>
  /\ UNCHANGED <<spi, txVars>>

StopSPI ==
  /\ Goto("sketch", "stopSPI", "stop")
  /\ bRunSPI' = FALSE
  /\ UNCHANGED <<timer, bTimerTrigger, bRun, looped, loops, queueVars, historyVars, spi, txVars>>

StopRun ==
  /\ Goto("sketch", "stop", "announce")
  /\ bRun' = FALSE
  /\ UNCHANGED <<timer, bTimerTrigger, bRunSPI, looped, loops, queueVars, historyVars, spi, txVars>>

Stop == StopSPI \/ StopRun \/ PrintLine("sketch", "announce", "idle")

Next == TimerTrigger \/ MainThread \/ StreamThread \/ FTSPIThread \/ Start \/ StopTimer \/ Stop

Spec ==
  /\ Init /\ [][Next]_vars
  /\ WF_vars(TimerTrigger) /\ WF_vars(MainThread) /\ WF_vars(StreamThread) /\ WF_vars(Stop)
----------------------------------------------------------------------------
TypeOK ==
  /\ {timer, bTimerTrigger, bRun, bRunSPI, looped, raced, crossed, streamed} \subseteq BOOLEAN
  /\ loops \in 0..MaxLoops
  /\ mDataLogQueue \in Seq(1..MaxLoops)
  /\ queSize \in -MaxLoops..MaxLoops
  /\ loaded \in [{"main", "stream"} -> -MaxLoops..MaxLoops]
  /\ mDataLog \in 0..MaxLoops /\ curDataLog \in 0..MaxLoops
  /\ pc["main"] \in {"run", "announce", "start", "startSPI", "job", "push", "load", "store",
                     "update", "exceed", "clear"}
  /\ pc["stream"] \in {"idle", "take", "load", "store", "send", "undefined"}
  /\ pc["main"] # "run" => bTimerTrigger
  /\ pc["sketch"] \in {"idle", "stopSPI", "stop", "announce"}
  /\ spi \in {"idle", "run", "read"}
  /\ sending \in [Senders -> {"no", "text", "code", "body", "packet"}]
  /\ mCharBuffer \in Senders \cup {"nobody"}
  /\ mixed \subseteq Senders

Counting(t) == IF pc[t] \in {"load", "store"} THEN 1 ELSE 0

\* queSize against the deque it stands for, across starts and stops: as long as no two
\* of its updates overlap, it is the number of records queued but for the updates
\* that are under way; so the deque is never read when it is empty.
CounterIsRight ==
  ~raced => /\ queSize = Len(mDataLogQueue) - Counting("main") + Counting("stream")
            /\ ~Undefined

Code(t) == IF t = "stream" THEN COMMAND_CODE_DATA_STREAM ELSE COMMAND_CODE_DEBUG_PRINT
Body(t) == IF t = "stream" THEN Log(curDataLog) ELSE Text(t)

\* dprintf and sendDataLog share the transmit buffer: a frame no other call has overlapped
\* is sent with its own code and its own contents, whatever was left in the buffers.
FramesAreWhole ==
  \A t \in Senders \ mixed :
    sending[t] = "packet" => mTxBuffer = <<Code(t), Body(t)>>

Stopped == ~timer /\ pc["sketch"] = "idle"
Halted == Stopped /\ ~crossed

\* stop(), when no tick was pending or being served: no flag is set until the next start,
\* and no acquisition over SPI begins, though FTSPIThread may stand between its two tests.
\* One that was past both when stop() cleared the flags ends after it has returned.
StopHolds ==
  /\ [](Halted => ~bTimerTrigger /\ ~bRun /\ ~bRunSPI)
  /\ [][Halted => (spi' = "read" => spi = "read")]_vars

\* A start that does not come while run() is at work, nor is followed by a stop, leads
\* to records being streamed, as long as queSize counts right: loopCount is zero when
\* the first tick is served, so that bRun is set.
RunStreams == (timer /\ ~crossed) ~> (streamed \/ ~timer \/ raced)
----------------------------------------------------------------------------
\* CMainControl.cpp:22 reports "Stopped Main Control".
StoppedMeansStopped == Stopped => ~bRun
=============================================================================
