------------------------ MODULE TeensyControl_proofs ------------------------
(***************************************************************************)
(* Proofs about TeensyControl, for any number of ticks.  Its properties    *)
(* are about what three threads without a lock may still rely on; none is  *)
(* inductive.  The invariant of each says what the threads that are half   *)
(* way through an update, a frame or a stop have already done:             *)
(*                                                                         *)
(*   TInv       the values queSize and its copies may have, raced or not   *)
(*   CounterInv what a thread has loaded is still the value of queSize     *)
(*   FramesInv  what the buffers hold at each step of a frame              *)
(*   StopInv    which flags each step of stop() has cleared                *)
(***************************************************************************)
EXTENDS TeensyControl, TLAPS

Threads == {"main", "stream"}

\* The tick being served, in so far as its record is not in the deque yet, or not
\* in queSize.
ToQueue ==
  IF bTimerTrigger /\ pc["main"] \in {"run", "announce", "start", "startSPI", "job", "push"}
  THEN 1 ELSE 0

ToCount == IF pc["main"] \in {"load", "store"} THEN 1 ELSE ToQueue

\* How often main has counted queSize up, and stream has counted it down.
Ups == loops - ToCount
Downs == loops - ToQueue - Len(mDataLogQueue) - Counting("stream")

Steps ==
  {"run", "announce", "start", "startSPI", "job", "push", "load", "store", "update", "exceed",
   "clear", "idle", "take", "send", "undefined", "stopSPI", "stop"}

\* The bounds the type invariant follows from: queSize is never above what main has
\* counted up, nor below what stream has counted down, and no copy of it is.
Bounds ==
  /\ bTimerTrigger => loops >= 1
  /\ pc["main"] = "push" => mDataLog >= 1
  /\ Downs >= 0
  /\ -Downs <= queSize /\ queSize <= Ups
  /\ \A t \in Threads : -Downs <= loaded[t] /\ loaded[t] <= Ups

TInv == TypeOK /\ pc \in [Senders -> Steps] /\ Bounds

LEMMA InitTInv == Init => TInv
<1> SUFFICES ASSUME Init PROVE TInv
  OBVIOUS
<1> USE ControlAssumption DEF Init, TxInit, Threads
<1>1. TypeOK
  <2>1. {timer, bTimerTrigger, bRun, bRunSPI, looped, raced, crossed, streamed} \subseteq BOOLEAN
    OBVIOUS
  <2>2. loops \in 0..MaxLoops /\ queSize \in -MaxLoops..MaxLoops
    OBVIOUS
  <2>3. loaded \in [{"main", "stream"} -> -MaxLoops..MaxLoops]
    OBVIOUS
  <2>4. mDataLogQueue \in Seq(1..MaxLoops)
    OBVIOUS
  <2>5. sending \in [Senders -> {"no", "text", "code", "body", "packet"}]
    OBVIOUS
  <2>6. mDataLog \in 0..MaxLoops /\ curDataLog \in 0..MaxLoops
     OBVIOUS
  <2> QED
    BY <2>1, <2>2, <2>3, <2>4, <2>5, <2>6 DEF TypeOK
<1>2. pc \in [Senders -> Steps]
  BY DEF Steps
<1>3. Downs >= 0
  BY DEF Downs, ToQueue, Counting
<1>4. -Downs <= queSize /\ queSize <= Ups
  BY DEF Downs, Ups, ToQueue, ToCount, Counting
<1> QED
  BY <1>1, <1>2, <1>3, <1>4 DEF TInv, Bounds, Downs, Ups, ToQueue, ToCount, Counting

\* The steps that print or send change nothing but the transmitter and, at their
\* end, where the thread is.
TxStep ==
  \/ PrintLine("main", "announce", "start") \/ PrintLine("main", "exceed", "clear")
  \/ PrintLine("sketch", "announce", "idle") \/ StreamDataLog

LEMMA NextBounds == TInv /\ Next => Bounds'
<1> SUFFICES ASSUME TInv, Next PROVE Bounds'
  OBVIOUS
<1> USE ControlAssumption
<1>0. /\ Len(mDataLogQueue) \in Nat /\ mDataLogQueue \in Seq(1..MaxLoops)
      /\ loops \in Nat /\ queSize \in Int /\ loaded \in [Threads -> Int]
      /\ pc \in [Senders -> Steps] /\ bTimerTrigger \in BOOLEAN
      /\ pc["main"] # "run" => bTimerTrigger
  BY DEF TInv, TypeOK, Threads
<1>a. Downs \in Int /\ Ups \in Int /\ Ups >= 0 /\ Bounds
  <2>1. Bounds /\ ToQueue \in {0, 1} /\ Counting("stream") \in {0, 1} /\ ToCount \in {0, 1}
    BY DEF TInv, ToQueue, ToCount, Counting
  <2>2. ToCount = 1 => bTimerTrigger
    BY <1>0 DEF ToCount, ToQueue
  <2> QED
    BY <1>0, <2>1, <2>2 DEF Bounds, Downs, Ups
<1>1. CASE TimerTrigger
  <2>1. ToQueue = 0 /\ ToQueue' = 1 /\ ToCount = 0 /\ ToCount' = 1
    BY <1>0, <1>1 DEF TimerTrigger, queueVars, ToQueue, ToCount
  <2>2. loops' = loops + 1 /\ UNCHANGED <<mDataLogQueue, Counting("stream")>>
    BY <1>0, <1>1 DEF TimerTrigger, queueVars, Counting
  <2>3. Downs' = Downs /\ Ups' = Ups
    BY <1>0, <2>1, <2>2 DEF Downs, Ups
  <2>4. loops' = loops + 1 /\ UNCHANGED <<mDataLog, queSize, loaded, pc>>
    BY <1>0, <1>1 DEF TimerTrigger, queueVars
  <2> QED
    BY <1>0, <1>a, <2>3, <2>4 DEF Bounds, Threads
<1>2. CASE BeginRun
  BY <1>0, <1>a, <1>2
     DEF BeginRun, queueVars, Goto, Bounds, Threads, flagVars, Downs, Ups, ToQueue, ToCount,
         Counting
<1>3. CASE SetRun \/ SetRunSPI
  BY <1>0, <1>a, <1>3
     DEF SetRun, SetRunSPI, queueVars, Goto, Bounds, Threads, flagVars, Downs, Ups, ToQueue,
         ToCount, Counting
<1>4. CASE MainJobControl
  BY <1>0, <1>a, <1>4
     DEF MainJobControl, Goto, Bounds, Threads, flagVars, Downs, Ups, ToQueue, ToCount,
         Counting
<1>5. CASE QueueDataLog
  <2>1. ToQueue = 1 /\ ToQueue' = 0 /\ ToCount = 1 /\ ToCount' = 1
    BY <1>0, <1>5 DEF QueueDataLog, Goto, flagVars, ToQueue, ToCount
  <2>2. Len(mDataLogQueue') = Len(mDataLogQueue) + 1
    BY <1>0, <1>5 DEF QueueDataLog, Goto, flagVars, Threads
  <2>3. UNCHANGED <<loops, Counting("stream")>>
    BY <1>0, <1>5 DEF QueueDataLog, Goto, flagVars, Counting
  <2>4. Downs' = Downs /\ Ups' = Ups
    BY <1>0, <2>1, <2>2, <2>3 DEF Downs, Ups
  <2>5. pc'["main"] = "load" /\ UNCHANGED <<bTimerTrigger, loops, queSize, loaded>>
    BY <1>0, <1>5 DEF QueueDataLog, Goto, flagVars
  <2> QED
    BY <1>0, <1>a, <2>4, <2>5 DEF Bounds, Threads
<1>6. CASE LoadSize("main")
  BY <1>0, <1>a, <1>6
     DEF LoadSize, Goto, Bounds, Threads, flagVars, Downs, Ups, ToQueue, ToCount, Counting
<1>7. CASE StoreSize("main", "stream", 1, "update")
  <2>1. ToQueue' = ToQueue /\ ToCount = 1 /\ ToCount' = 0 /\ ToQueue \in Int
    BY <1>0, <1>7 DEF StoreSize, Goto, flagVars, ToQueue, ToCount
  <2>2. UNCHANGED <<loops, mDataLogQueue, Counting("stream")>> /\ Counting("stream") \in Int
    BY <1>0, <1>7 DEF StoreSize, Goto, flagVars, Counting
  <2>3. Downs' = Downs /\ Ups' = Ups + 1
    BY <1>0, <2>1, <2>2 DEF Downs, Ups
  <2>4. /\ pc'["main"] = "update" /\ UNCHANGED <<bTimerTrigger, loops>>
        /\ queSize' = loaded["main"] + 1 /\ loaded' = [loaded EXCEPT !["main"] = 0]
    BY <1>0, <1>7 DEF StoreSize, Goto, flagVars
  <2> QED
    BY <1>0, <1>a, <2>3, <2>4 DEF Bounds, Threads
<1>8. CASE LoopUpdate
  BY <1>0, <1>a, <1>8
     DEF LoopUpdate, queueVars, Goto, Bounds, Threads, flagVars, Downs, Ups, ToQueue, ToCount,
         Counting
<1>9. CASE EndRun
  BY <1>0, <1>a, <1>9
     DEF EndRun, queueVars, Goto, Bounds, Threads, flagVars, Downs, Ups, ToQueue, ToCount,
         Counting
<1>10. CASE BeginStream
  BY <1>0, <1>a, <1>10
     DEF BeginStream, queueVars, Goto, Bounds, Threads, flagVars, Downs, Ups, ToQueue, ToCount,
         Counting
<1>11. CASE TakeDataLog
  <2>1. UNCHANGED <<loops, ToQueue, ToCount>> /\ ToQueue \in Int /\ ToCount \in Int
    BY <1>0, <1>11 DEF TakeDataLog, Goto, flagVars, ToQueue, ToCount
  <2>2. /\ Len(mDataLogQueue') \in Nat
        /\ Len(mDataLogQueue') + Counting("stream")' = Len(mDataLogQueue) + Counting("stream")
    <3>1. CASE mDataLogQueue = <<>>
      BY <1>0, <1>11, <3>1 DEF TakeDataLog, Goto, Counting
    <3>2. CASE mDataLogQueue # <<>>
      <4>1. Len(mDataLogQueue') = Len(mDataLogQueue) - 1 /\ Len(mDataLogQueue) # 0
        BY <1>0, <1>11, <3>2 DEF TakeDataLog
      <4>2. Counting("stream") = 0 /\ Counting("stream")' = 1
        BY <1>0, <1>11, <3>2 DEF TakeDataLog, Goto, Counting
      <4> QED
        BY <1>0, <4>1, <4>2
    <3> QED
      BY <3>1, <3>2
  <2>3. Downs' = Downs /\ Ups' = Ups
    <3>1. Counting("stream") \in Int /\ Counting("stream")' \in Int
      BY DEF Counting
    <3>2. Len(mDataLogQueue') = Len(mDataLogQueue) + Counting("stream") - Counting("stream")'
      BY <1>0, <2>2, <3>1
    <3>3. Downs' = loops - ToQueue - Len(mDataLogQueue') - Counting("stream")' /\ Ups' = Ups
      BY <2>1 DEF Downs, Ups
    <3> QED
      BY <1>0, <2>1, <3>1, <3>2, <3>3 DEF Downs
  <2>4. UNCHANGED <<bTimerTrigger, loops, mDataLog, queSize, loaded, pc["main"]>>
    BY <1>0, <1>11 DEF TakeDataLog, Goto, flagVars
  <2> QED
    BY <1>0, <1>a, <2>3, <2>4 DEF Bounds, Threads
<1>12. CASE LoadSize("stream")
  BY <1>0, <1>a, <1>12
     DEF LoadSize, Goto, Bounds, Threads, flagVars, Downs, Ups, ToQueue, ToCount, Counting
<1>13. CASE StoreSize("stream", "main", -1, "send")
  <2>1. UNCHANGED <<loops, ToQueue, ToCount>> /\ ToQueue \in Int /\ ToCount \in Int
    BY <1>0, <1>13 DEF StoreSize, Goto, flagVars, ToQueue, ToCount
  <2>2. UNCHANGED mDataLogQueue /\ Counting("stream") = 1 /\ Counting("stream")' = 0
    BY <1>0, <1>13 DEF StoreSize, Goto, flagVars, Counting
  <2>3. Downs' = Downs + 1 /\ Ups' = Ups
    BY <1>0, <2>1, <2>2 DEF Downs, Ups
  <2>4. /\ UNCHANGED <<bTimerTrigger, loops, mDataLog, pc["main"]>>
        /\ queSize' = loaded["stream"] - 1 /\ loaded' = [loaded EXCEPT !["stream"] = 0]
    BY <1>0, <1>13 DEF StoreSize, Goto, flagVars
  <2> QED
    BY <1>0, <1>a, <2>3, <2>4 DEF Bounds, Threads
<1>14. CASE FTSPIThread \/ Start \/ StopTimer \/ StopSPI \/ StopRun \/ TxStep
  <2>1. /\ UNCHANGED <<bTimerTrigger, loops, mDataLogQueue, queSize, loaded, mDataLog>>
        /\ UNCHANGED <<ToQueue, ToCount, Counting("stream")>>
        /\ pc'["main"] = "push" <=> pc["main"] = "push"
    <3>1. CASE FTSPIThread \/ Start \/ StopTimer \/ StopSPI \/ StopRun
      BY <1>0, <3>1
         DEF FTSPIThread, Start, StopTimer, StopSPI, StopRun, flagVars, queueVars, Goto, ToQueue,
             ToCount, Counting
    <3>2. CASE PrintLine("main", "announce", "start") \/ PrintLine("main", "exceed", "clear")
      BY <1>0, <3>2 DEF PrintLine, queueVars, flagVars, Goto, At, ToQueue, ToCount, Counting
    <3>3. CASE PrintLine("sketch", "announce", "idle") \/ StreamDataLog
      BY <1>0, <3>3
         DEF PrintLine, StreamDataLog, queueVars, flagVars, Goto, At, ToQueue, ToCount,
             Counting
    <3> QED
      BY <1>14, <3>1, <3>2, <3>3 DEF TxStep
  <2>2. Downs' = Downs /\ Ups' = Ups
    BY <2>1 DEF Downs, Ups
  <2> QED
    BY <1>a, <2>1, <2>2 DEF Bounds, Threads
<1> QED
  BY <1>1, <1>2, <1>3, <1>4, <1>5, <1>6, <1>7, <1>8, <1>9, <1>10, <1>11, <1>12, <1>13, <1>14
     DEF Next, MainThread, StreamThread, Stop, TxStep

\* What TypeOK says of the transmitter, and of the program counters.
TxTypes ==
  /\ sending \in [Senders -> {"no", "text", "code", "body", "packet"}]
  /\ mCharBuffer \in Senders \cup {"nobody"}
  /\ mixed \subseteq Senders

PCTypes ==
  /\ pc["main"] \in {"run", "announce", "start", "startSPI", "job", "push", "load", "store",
                     "update", "exceed", "clear"}
  /\ pc["stream"] \in {"idle", "take", "load", "store", "send", "undefined"}
  /\ pc["sketch"] \in {"idle", "stopSPI", "stop", "announce"}
  /\ pc["main"] # "run" => bTimerTrigger

LEMMA BeginTypes ==
  ASSUME TxTypes, NEW t \in Senders, NEW step \in {"text", "code"}, Begin(t, step)
  PROVE  TxTypes'
BY DEF TxTypes, Begin, Overlapped

LEMMA SendTypes ==
  ASSUME TxTypes, NEW t \in Senders, NEW log, Dprintf(t) \/ SendDataLog(t, log) \/ SendPacket(t)
  PROVE  TxTypes'
BY DEF TxTypes, Dprintf, SendDataLog, SendPacket, Format, SetCode, Encode, Then

LEMMA NextTypes == TInv /\ Next => TypeOK' /\ pc' \in [Senders -> Steps]
<1> SUFFICES ASSUME TInv, Next PROVE TypeOK' /\ pc' \in [Senders -> Steps]
  OBVIOUS
<1> USE ControlAssumption
    DEF TInv, TypeOK, Bounds, Downs, Ups, ToQueue, ToCount, Counting, Threads, flagVars,
        historyVars, txVars, Steps
<1>1. CASE TimerTrigger
  BY <1>1 DEF TimerTrigger, queueVars
<1>2. CASE BeginRun
  BY <1>2 DEF BeginRun, queueVars, Goto
<1>3. CASE SetRun \/ SetRunSPI
  BY <1>3 DEF SetRun, SetRunSPI, queueVars, Goto
<1>4. CASE MainJobControl
  BY <1>4 DEF MainJobControl, Goto
<1>5. CASE QueueDataLog
  BY <1>5 DEF QueueDataLog, Goto
<1>6. CASE LoadSize("main")
  BY <1>6 DEF LoadSize, Goto
<1>7. CASE StoreSize("main", "stream", 1, "update")
  BY <1>7 DEF StoreSize, Goto
<1>8. CASE LoopUpdate
  BY <1>8 DEF LoopUpdate, queueVars, Goto
<1>9. CASE EndRun
  BY <1>9 DEF EndRun, queueVars, Goto
<1>10. CASE BeginStream
  BY <1>10 DEF BeginStream, queueVars, Goto
<1>11. CASE TakeDataLog
  <2>1. CASE mDataLogQueue = <<>>
    BY <1>11, <2>1 DEF TakeDataLog, Goto
  <2>2. CASE mDataLogQueue # <<>>
    <3>1. curDataLog' \in 0..MaxLoops /\ mDataLogQueue' \in Seq(1..MaxLoops)
      <4> HIDE DEF TInv, TypeOK
      <4>1. mDataLogQueue \in Seq(1..MaxLoops)
        BY DEF TInv, TypeOK
      <4>2. curDataLog' = Head(mDataLogQueue) /\ mDataLogQueue' = Tail(mDataLogQueue)
        BY <1>11, <2>2 DEF TakeDataLog
      <4>3. Head(mDataLogQueue) \in 1..MaxLoops /\ Tail(mDataLogQueue) \in Seq(1..MaxLoops)
        BY <2>2, <4>1
      <4> QED
        BY <4>2, <4>3
    <3>2. pc' \in [Senders -> Steps] /\ pc'["stream"] = "load" /\ pc'["main"] = pc["main"]
          /\ pc'["sketch"] = pc["sketch"]
      BY <1>11, <2>2 DEF TakeDataLog, Goto
    <3>3. UNCHANGED <<flagVars, mDataLog, queSize, loaded, historyVars, spi, txVars>>
      BY <1>11 DEF TakeDataLog
    <3> QED
      BY <3>1, <3>2, <3>3
  <2> QED
    BY <2>1, <2>2
<1>12. CASE LoadSize("stream")
  BY <1>12 DEF LoadSize, Goto
<1>13. CASE StoreSize("stream", "main", -1, "send")
  BY <1>13 DEF StoreSize, Goto
<1>14. CASE FTSPIThread \/ Start \/ StopTimer \/ StopSPI \/ StopRun
  BY <1>14 DEF FTSPIThread, Start, StopTimer, StopSPI, StopRun, queueVars, Goto
<1>15. CASE TxStep
  <2>1. TxTypes'
    BY <1>15, BeginTypes, SendTypes DEF TxStep, PrintLine, StreamDataLog, TxTypes
  <2>2. pc' \in [Senders -> Steps] /\ PCTypes'
    BY <1>15 DEF TxStep, PrintLine, StreamDataLog, PCTypes, Goto, At
  <2>3. UNCHANGED <<flagVars, mDataLog, mDataLogQueue, queSize, loaded, raced, crossed, spi>>
    BY <1>15 DEF TxStep, PrintLine, StreamDataLog, queueVars
  <2>4. curDataLog' \in {0, curDataLog} /\ streamed' \in {TRUE, streamed}
    BY <1>15 DEF TxStep, PrintLine, StreamDataLog, queueVars
  <2>5. {timer, bTimerTrigger, bRun, bRunSPI, looped, raced, crossed, streamed}' \subseteq BOOLEAN
    BY <2>3, <2>4
  <2>6. PCTypes' /\ TxTypes' => TypeOK'
    BY <2>3, <2>4, <2>5 DEF TxTypes, PCTypes
  <2> QED
    BY <2>1, <2>2, <2>6
<1> QED
  BY <1>1, <1>2, <1>3, <1>4, <1>5, <1>6, <1>7, <1>8, <1>9, <1>10, <1>11, <1>12, <1>13, <1>14,
     <1>15
     DEF Next, MainThread, StreamThread, Stop, TxStep

LEMMA NextTInv == TInv /\ [Next]_vars => TInv'
<1>1. ASSUME TInv, UNCHANGED vars PROVE TInv'
  <2> USE <1>1 DEF vars, flagVars, queueVars, historyVars, txVars, TInv
  <2>1. TypeOK' /\ pc' \in [Senders -> Steps]
    BY DEF TypeOK
  <2>2. UNCHANGED <<Downs, Ups>>
    BY DEF Downs, Ups, ToQueue, ToCount, Counting
  <2> QED
    BY <2>1, <2>2 DEF Bounds
<1> QED
  BY <1>1, NextBounds, NextTypes DEF TInv

THEOREM TypesInvariant == Spec => []TInv
  BY InitTInv, NextTInv, PTL DEF Spec

\* Flags, counters, buffers and program counters keep their types and bounds, however the
\* updates of queSize interleave.
THEOREM TypeCorrect == Spec => []TypeOK
  BY TypesInvariant, PTL DEF TInv
----------------------------------------------------------------------------
\* As long as no two updates have overlapped, what a thread has loaded is what queSize
\* still is, and streamDataQueue has found the deque filled.
CounterInv ==
  ~raced =>
    /\ queSize = Len(mDataLogQueue) - Counting("main") + Counting("stream")
    /\ ~Undefined
    /\ \A t \in Threads : pc[t] = "store" => loaded[t] = queSize
    /\ pc["stream"] = "take" => mDataLogQueue # <<>>

LEMMA InitCounter == Init => CounterInv
  BY DEF Init, CounterInv, Counting, Undefined, Threads

LEMMA NextCounter == TInv /\ CounterInv /\ Next => CounterInv'
<1> SUFFICES ASSUME TInv, CounterInv, Next, ~raced' PROVE CounterInv'
  BY DEF CounterInv
<1> USE ControlAssumption
<1>0. /\ Len(mDataLogQueue) \in Nat /\ mDataLogQueue \in Seq(1..MaxLoops)
      /\ queSize \in Int /\ loaded \in [Threads -> Int] /\ pc \in [Senders -> Steps]
  BY DEF TInv, TypeOK, Threads
<1>1. CASE MainJobControl \/ LoopUpdate \/ EndRun \/ SetRun \/ SetRunSPI \/ BeginRun \/ TimerTrigger
  BY <1>0, <1>1
     DEF MainJobControl, LoopUpdate, EndRun, SetRun, SetRunSPI, BeginRun, TimerTrigger, Goto,
         queueVars, historyVars, CounterInv, Counting, Undefined, Threads
<1>2. CASE QueueDataLog
  <2>1. Len(mDataLogQueue') = Len(mDataLogQueue) + 1 /\ mDataLogQueue' # <<>>
    BY <1>0, <1>2 DEF QueueDataLog
  <2> QED
    BY <1>0, <1>2, <2>1
       DEF QueueDataLog, Goto, historyVars, CounterInv, Counting, Undefined, Threads
<1>3. ASSUME NEW t \in Threads, LoadSize(t) PROVE CounterInv'
  BY <1>0, <1>3 DEF LoadSize, Goto, historyVars, CounterInv, Counting, Undefined, Threads
<1>4. ASSUME NEW t \in Threads, NEW u \in Threads \ {t}, NEW to \in {"update", "send"},
             StoreSize(t, u, IF t = "main" THEN 1 ELSE -1, to)
      PROVE  CounterInv'
  <2>1. pc[t] = "store" /\ pc[u] # "store" /\ ~raced
    BY <1>4 DEF StoreSize, Goto
  <2>2. queSize' = queSize + (IF t = "main" THEN 1 ELSE -1)
    BY <1>4, <2>1 DEF StoreSize, CounterInv
  <2>3. Counting(t) = 1 /\ Counting(t)' = 0 /\ UNCHANGED <<Counting(u), mDataLogQueue, pc[u]>>
    BY <1>0, <1>4, <2>1 DEF StoreSize, Goto, Counting, Threads
  <2>4. pc'[t] \notin {"store", "take", "undefined"} /\ pc["stream"] # "undefined"
    BY <1>0, <1>4, <2>1 DEF StoreSize, Goto, Threads, Undefined
  <2> QED
    BY <1>0, <2>1, <2>2, <2>3, <2>4 DEF CounterInv, Counting, Undefined, Threads
<1>6. CASE BeginStream
  BY <1>0, <1>6
     DEF BeginStream, Goto, queueVars, historyVars, CounterInv, Counting, Undefined, Threads
<1>7. CASE TakeDataLog
  <2>1. mDataLogQueue # <<>> /\ ~raced
    BY <1>7 DEF TakeDataLog, Goto, CounterInv, historyVars
  <2>2. Len(mDataLogQueue') = Len(mDataLogQueue) - 1
    BY <1>0, <1>7, <2>1 DEF TakeDataLog
  <2> QED
    BY <1>0, <1>7, <2>1, <2>2 DEF TakeDataLog, Goto, CounterInv, Counting, Undefined, Threads
<1>8. CASE FTSPIThread \/ Start \/ StopTimer \/ StopSPI \/ StopRun
  BY <1>0, <1>8
     DEF FTSPIThread, Start, StopTimer, StopSPI, StopRun, Goto, queueVars, historyVars, CounterInv,
         Counting, Undefined, Threads
<1>9. CASE PrintLine("main", "announce", "start") \/ PrintLine("main", "exceed", "clear")
  BY <1>0, <1>9
     DEF PrintLine, queueVars, historyVars, Goto, At, CounterInv, Counting, Undefined, Threads
<1>10. CASE PrintLine("sketch", "announce", "idle")
  BY <1>0, <1>10
     DEF PrintLine, queueVars, historyVars, Goto, At, CounterInv, Counting, Undefined, Threads
<1>11. CASE StreamDataLog
  BY <1>0, <1>11 DEF StreamDataLog, Goto, At, CounterInv, Counting, Undefined, Threads
<1> QED
  BY <1>1, <1>2, <1>3, <1>4, <1>6, <1>7, <1>8, <1>9, <1>10, <1>11
     DEF Next, MainThread, StreamThread, Stop, Threads

\* The size that two threads count without a lock is right, and the deque never read when
\* it is empty, until two of their updates overlap: no other interleaving does harm.
THEOREM CounterRight == Spec => []CounterIsRight
<1>1. ASSUME CounterInv, UNCHANGED vars PROVE CounterInv'
  BY <1>1 DEF vars, flagVars, queueVars, historyVars, CounterInv, Counting, Undefined
<1>2. CounterInv => CounterIsRight
  BY DEF CounterInv, CounterIsRight
<1> QED
  BY <1>1, <1>2, InitCounter, NextCounter, TypesInvariant, PTL DEF Spec
----------------------------------------------------------------------------
\* Each step of stop() finds the flags the steps before it have cleared still cleared.
StopInv ==
  /\ pc["sketch"] # "idle" => ~timer
  /\ (~timer /\ ~crossed) =>
       /\ ~bTimerTrigger
       /\ pc["sketch"] # "stopSPI" => ~bRunSPI
       /\ pc["sketch"] \in {"idle", "announce"} => ~bRun

LEMMA InitStop == Init => StopInv
  BY DEF Init, StopInv

LEMMA NextStop == TInv /\ StopInv /\ Next => StopInv'
<1> SUFFICES ASSUME TInv, StopInv, Next PROVE StopInv'
  OBVIOUS
<1> USE ControlAssumption DEF Goto
<1>0. pc \in [Senders -> Steps]
  BY DEF TInv
<1>a. pc["main"] # "run" => bTimerTrigger
  BY DEF TInv, TypeOK
<1>1. CASE TimerTrigger
  BY <1>1 DEF TimerTrigger, historyVars, StopInv
<1>2. CASE MainThread
  <2>1. bTimerTrigger
    BY <1>a, <1>2
       DEF MainThread, BeginRun, SetRun, SetRunSPI, MainJobControl, QueueDataLog, LoadSize,
                      StoreSize, LoopUpdate, EndRun, PrintLine, At
  <2>2. UNCHANGED <<timer, crossed>> /\ pc'["sketch"] = pc["sketch"]
    <3>1. CASE PrintLine("main", "announce", "start") \/ PrintLine("main", "exceed", "clear")
      BY <1>0, <3>1 DEF PrintLine, At, flagVars, historyVars
    <3> QED
      BY <1>0, <1>2, <3>1
         DEF MainThread, BeginRun, SetRun, SetRunSPI, MainJobControl, QueueDataLog,
                      LoadSize, StoreSize, LoopUpdate, EndRun, flagVars, historyVars
  <2> QED
    BY <2>1, <2>2 DEF StopInv
<1>3. CASE StreamThread
  <2>1. UNCHANGED <<timer, crossed, bTimerTrigger, bRun, bRunSPI>> /\ pc'["sketch"] = pc["sketch"]
    <3>1. CASE StreamDataLog
      BY <1>0, <3>1 DEF StreamDataLog, At, flagVars
    <3> QED
      BY <1>0, <1>3, <3>1
         DEF StreamThread, BeginStream, TakeDataLog, LoadSize, StoreSize, flagVars,
             historyVars
  <2> QED
    BY <2>1 DEF StopInv
<1>4. CASE FTSPIThread \/ Start
  BY <1>0, <1>4 DEF FTSPIThread, Start, flagVars, historyVars, StopInv
<1>5. CASE StopTimer
  <2>1. ~timer' /\ crossed' = bTimerTrigger /\ bTimerTrigger' = bTimerTrigger /\ pc'["sketch"] = "stopSPI"
    BY <1>0, <1>5 DEF StopTimer
  <2> QED
    BY <2>1 DEF StopInv
<1>6. CASE StopSPI
  <2>1. /\ UNCHANGED <<timer, crossed, bTimerTrigger>> /\ ~bRunSPI'
        /\ pc["sketch"] = "stopSPI" /\ pc'["sketch"] = "stop"
    BY <1>0, <1>6 DEF StopSPI, historyVars
  <2> QED
    BY <2>1 DEF StopInv
<1>7. CASE StopRun
  <2>1. /\ UNCHANGED <<timer, crossed, bTimerTrigger, bRunSPI>> /\ ~bRun'
        /\ pc["sketch"] = "stop" /\ pc'["sketch"] = "announce"
    BY <1>0, <1>7 DEF StopRun, historyVars
  <2> QED
    BY <2>1 DEF StopInv
<1>8. CASE PrintLine("sketch", "announce", "idle")
  <2>1. /\ UNCHANGED <<timer, crossed, bTimerTrigger, bRun, bRunSPI>>
        /\ pc["sketch"] = "announce" /\ pc'["sketch"] \in {"announce", "idle"}
    BY <1>0, <1>8 DEF PrintLine, At, flagVars, historyVars
  <2> QED
    BY <2>1 DEF StopInv
<1> QED
  BY <1>1, <1>2, <1>3, <1>4, <1>5, <1>6, <1>7, <1>8 DEF Next, Stop

\* A pass of FTSPIThread that tests bRunSPI when stop() has cleared it ends there.
LEMMA NoAcquisition ==
  ASSUME StopInv, Halted, Next
  PROVE  spi' = "read" => spi = "read"
<1>1. ~bRunSPI
  BY DEF StopInv, Halted, Stopped
<1>2. CASE FTSPIThread
  BY <1>1, <1>2 DEF FTSPIThread
<1>3. CASE StreamDataLog \/ PrintLine("main", "announce", "start")
           \/ PrintLine("main", "exceed", "clear") \/ PrintLine("sketch", "announce", "idle")
  BY <1>3 DEF StreamDataLog, PrintLine
<1> QED
  BY <1>2, <1>3
     DEF Next, TimerTrigger, MainThread, BeginRun, SetRun, SetRunSPI, MainJobControl,
         QueueDataLog, LoadSize, StoreSize, LoopUpdate, EndRun, StreamThread, BeginStream,
         TakeDataLog, Start, StopTimer, Stop, StopSPI, StopRun

\* stop() holds: when it returns, and no tick was pending or being served when the timer was
\* stopped, nothing sets a flag again before the next start, and the acquisition does
\* not begin again, wherever between its tests its thread stood.
THEOREM StopIsKept == Spec => StopHolds
<1>1. StopInv /\ UNCHANGED vars => StopInv'
  BY DEF vars, flagVars, historyVars, StopInv
<1>2. StopInv => (Halted => ~bTimerTrigger /\ ~bRun /\ ~bRunSPI)
  BY DEF StopInv, Halted, Stopped
<1>3. StopInv /\ [Next]_vars => [Halted => (spi' = "read" => spi = "read")]_vars
  BY NoAcquisition
<1> QED
  BY <1>1, <1>2, <1>3, InitStop, NextStop, TypesInvariant, PTL DEF Spec, StopHolds
----------------------------------------------------------------------------
\* A thread has a frame under way only at the step that prints or sends.
AtSend ==
  /\ sending["main"] # "no" => pc["main"] \in {"announce", "exceed"}
  /\ sending["stream"] # "no" => pc["stream"] = "send"
  /\ sending["sketch"] # "no" => pc["sketch"] = "announce"

\* A frame under way that no other call has overlapped is the only one, and the buffers
\* hold what its thread has put into them so far.
Alone(t) ==
  /\ \A u \in Senders \ {t} : sending[u] = "no"
  /\ sending[t] \in {"code", "body"} /\ t # "stream" => mCharBuffer = t
  /\ sending[t] = "body" => mTxBuffer = <<Code(t)>>
  /\ sending[t] = "packet" => mTxBuffer = <<Code(t), Body(t)>>

Frames ==
  /\ sending["stream"] # "text"
  /\ \A t \in Senders \ mixed : sending[t] # "no" => Alone(t)

\* One step of dprintf, of sendDataLog or of what they begin and end with.
SendStep(t) ==
  \/ Begin(t, IF t = "stream" THEN "code" ELSE "text")
  \/ t # "stream" /\ Dprintf(t)
  \/ t = "stream" /\ SendDataLog(t, curDataLog)
  \/ SendPacket(t)

\* A sequence of two elements is the pair of them, and so is what encode makes of the code that
\* setCode has put in the buffer and a body.
LEMMA Pair ==
  ASSUME NEW S, NEW s \in Seq(S), Len(s) = 2
  PROVE  s = <<s[1], s[2]>>
OBVIOUS

LEMMA AppendIsPair ==
  ASSUME NEW a, NEW b
  PROVE  Append(<<a>>, b) = <<a, b>>
<1>1. <<a>> \in Seq({a, b})
  OBVIOUS
<1>2. /\ Append(<<a>>, b) \in Seq({a, b})
      /\ Len(Append(<<a>>, b)) = 2
      /\ Append(<<a>>, b)[1] = a /\ Append(<<a>>, b)[2] = b
  BY <1>1
<1> QED
  BY <1>2, Pair

\* The step of a thread keeps the frames whole, its own one and those of the others, if it does
\* not change the record that is being sent.
LEMMA StepFrames ==
  ASSUME TxTypes, Frames, NEW t \in Senders, SendStep(t),
         curDataLog' = curDataLog \/ sending'["stream"] = "no"
  PROVE  Frames'
<1> USE ControlAssumption
<1>0. sending \in [Senders -> {"no", "text", "code", "body", "packet"}] /\ mixed \subseteq Senders
  BY DEF TxTypes
<1>1. CASE Begin(t, IF t = "stream" THEN "code" ELSE "text")
  <2>1. CASE Overlapped(t) = {}
    <3>1. \A u \in Senders \ {t} : sending'[u] = "no"
      BY <1>0, <1>1, <2>1 DEF Begin, Overlapped
    <3>2. sending'[t] = IF t = "stream" THEN "code" ELSE "text"
      BY <1>0, <1>1 DEF Begin
    <3> QED
      BY <3>1, <3>2 DEF Frames, Alone
  <2>2. CASE Overlapped(t) # {}
    <3>1. \A u \in Senders \ mixed' : sending'[u] = "no"
      BY <1>0, <1>1, <2>2 DEF Begin, Overlapped
    <3>2. sending'["stream"] # "text"
      BY <1>0, <1>1 DEF Begin, Frames
    <3> QED
      BY <3>1, <3>2 DEF Frames
  <2> QED
    BY <2>1, <2>2
<1>2. ASSUME ~Begin(t, IF t = "stream" THEN "code" ELSE "text") PROVE Frames'
  <2>1. /\ sending[t] # "no" /\ UNCHANGED mixed
        /\ \A u \in Senders \ {t} : sending'[u] = sending[u]
    BY <1>0, <1>2 DEF SendStep, Dprintf, SendDataLog, Format, SetCode, Encode, SendPacket, Then
  <2>2. \A u \in (Senders \ mixed) \ {t} : sending[u] = "no"
    BY <1>0, <2>1 DEF Frames, Alone
  <2>3. sending'["stream"] # "text"
    BY <1>0, <1>2
       DEF SendStep, Dprintf, SendDataLog, Format, SetCode, Encode, SendPacket, Then, Frames
  <2>4. ASSUME t \notin mixed PROVE sending'[t] # "no" => Alone(t)'
    <3>1. Alone(t)
      BY <2>1, <2>4 DEF Frames
    <3>2. CASE Format(t)
      BY <1>0, <2>1, <3>1, <3>2 DEF Format, Then, Alone
    <3>3. CASE SetCode(t, Code(t))
      BY <1>0, <2>1, <3>1, <3>3 DEF SetCode, Then, Alone, Code
    <3>4. ASSUME Encode(t, Body(t)), UNCHANGED Body(t) PROVE sending'[t] # "no" => Alone(t)'
      <4>1. sending[t] = "body" /\ sending'[t] = "packet" /\ UNCHANGED Code(t)
        BY <1>0, <3>4 DEF Encode, Then, Code
      <4>2. mTxBuffer' = Append(<<Code(t)>>, Body(t))
        BY <3>1, <3>4, <4>1 DEF Encode, Alone
      <4>3. Append(<<Code(t)>>, Body(t)) = <<Code(t), Body(t)>>
        BY AppendIsPair
      <4>4. mTxBuffer' = <<Code(t)', Body(t)'>>
        BY <3>4, <4>1, <4>2, <4>3
      <4> QED
        BY <2>1, <3>1, <4>1, <4>4 DEF Alone
    <3>5. CASE SendPacket(t)
      BY <1>0, <3>5 DEF SendPacket, Then
    <3>6. Encode(t, Body(t)) => UNCHANGED Body(t)
      BY <1>0 DEF Encode, Then, Body
    <3>7. Encode(t, Text(mCharBuffer)) /\ t # "stream" => Encode(t, Body(t))
      BY <3>1 DEF Encode, Then, Body, Alone
    <3>8. Encode(t, Log(curDataLog)) /\ t = "stream" => Encode(t, Body(t))
      BY DEF Body
    <3> QED
      BY <1>2, <3>2, <3>3, <3>4, <3>5, <3>6, <3>7, <3>8 DEF SendStep, Dprintf, SendDataLog, Code
  <2> QED
    BY <2>1, <2>2, <2>3, <2>4 DEF Frames
<1> QED
  BY <1>1, <1>2

LEMMA NextFrames == TInv /\ AtSend /\ Frames /\ Next => AtSend' /\ Frames'
<1> SUFFICES ASSUME TInv, AtSend, Frames, Next PROVE AtSend' /\ Frames'
  OBVIOUS
<1> USE ControlAssumption
<1>0. /\ pc \in [Senders -> Steps] /\ TxTypes
      /\ sending \in [Senders -> {"no", "text", "code", "body", "packet"}]
  BY DEF TInv, TypeOK, TxTypes
<1>1. ASSUME UNCHANGED txVars, UNCHANGED curDataLog \/ sending["stream"] = "no" PROVE Frames'
  BY <1>0, <1>1 DEF txVars, Frames, Alone, Code, Body
<1>2. CASE BeginRun \/ SetRun \/ SetRunSPI \/ MainJobControl \/ QueueDataLog \/ LoadSize("main")
           \/ StoreSize("main", "stream", 1, "update") \/ LoopUpdate \/ EndRun
  <2>1. UNCHANGED <<txVars, curDataLog>>
    BY <1>2 DEF BeginRun, SetRun, SetRunSPI, MainJobControl, QueueDataLog, LoadSize, StoreSize,
                LoopUpdate, EndRun, queueVars
  <2>2. /\ pc["main"] \notin {"announce", "exceed"}
        /\ \A t \in Senders \ {"main"} : pc'[t] = pc[t]
    BY <1>0, <1>2
       DEF BeginRun, SetRun, SetRunSPI, MainJobControl, QueueDataLog, LoadSize, StoreSize,
                LoopUpdate, EndRun, Goto
  <2>3. AtSend'
    BY <2>1, <2>2 DEF AtSend, txVars
  <2> QED
    BY <1>1, <2>1, <2>3
<1>3. CASE BeginStream \/ TakeDataLog \/ LoadSize("stream") \/ StoreSize("stream", "main", -1, "send")
  <2>1. UNCHANGED txVars
    BY <1>3 DEF BeginStream, TakeDataLog, LoadSize, StoreSize
  <2>2. /\ pc["stream"] # "send"
        /\ \A t \in Senders \ {"stream"} : pc'[t] = pc[t]
    BY <1>0, <1>3 DEF BeginStream, TakeDataLog, LoadSize, StoreSize, Goto
  <2>3. AtSend'
    BY <2>1, <2>2 DEF AtSend, txVars
  <2> QED
    BY <1>1, <2>1, <2>2, <2>3 DEF AtSend
<1>4. CASE TimerTrigger \/ FTSPIThread \/ Start \/ StopTimer \/ StopSPI \/ StopRun
  <2>1. UNCHANGED <<txVars, curDataLog>>
    BY <1>4 DEF TimerTrigger, FTSPIThread, Start, StopTimer, StopSPI, StopRun, queueVars
  <2>2. \/ UNCHANGED pc
        \/ pc["sketch"] # "announce" /\ \A t \in Senders \ {"sketch"} : pc'[t] = pc[t]
    BY <1>0, <1>4 DEF TimerTrigger, FTSPIThread, Start, StopTimer, StopSPI, StopRun, Goto
  <2>3. AtSend'
    BY <2>1, <2>2 DEF AtSend, txVars
  <2> QED
    BY <1>1, <2>1, <2>3
<1>5. ASSUME NEW t \in {"main", "sketch"}, NEW from \in {"announce", "exceed"},
             from = "announce" \/ t = "main", NEW to \in Steps, PrintLine(t, from, to)
      PROVE  AtSend' /\ Frames'
  <2>1. SendStep(t) /\ UNCHANGED curDataLog
    BY <1>5 DEF PrintLine, SendStep, queueVars
  <2>2. \A u \in Senders \ {t} : sending'[u] = sending[u] /\ pc'[u] = pc[u]
    BY <1>0, <1>5
       DEF PrintLine, At, Goto, Begin, Dprintf, Format, SetCode, Encode, SendPacket, Then
  <2>3. pc'[t] = from \/ sending'[t] = "no"
    BY <1>0, <1>5 DEF PrintLine, At, Goto, SendPacket, Then
  <2>4. AtSend'
    BY <1>5, <2>2, <2>3 DEF AtSend
  <2> QED
    BY <1>0, <2>1, <2>4, StepFrames
<1>6. CASE StreamDataLog
  <2>1. SendStep("stream")
    BY <1>6 DEF StreamDataLog, SendStep
  <2>2. \A u \in Senders \ {"stream"} : sending'[u] = sending[u] /\ pc'[u] = pc[u]
    BY <1>0, <1>6
       DEF StreamDataLog, At, Goto, Begin, SendDataLog, SetCode, Encode, SendPacket, Then
  <2>3. (pc'["stream"] = "send" /\ UNCHANGED curDataLog) \/ sending'["stream"] = "no"
    BY <1>0, <1>6 DEF StreamDataLog, At, Goto, SendPacket, Then
  <2>4. AtSend'
    BY <2>2, <2>3 DEF AtSend
  <2>5. Frames'
    BY <1>0, <2>1, <2>3, StepFrames
  <2> QED
    BY <2>4, <2>5
<1> QED
  BY <1>2, <1>3, <1>4, <1>5, <1>6 DEF Next, MainThread, StreamThread, Stop, Steps

\* A frame that no other thread's call overlaps is sent with its own code and contents, in
\* however many pieces it is put together and whatever the frames before have left behind.
THEOREM WholeFrames == Spec => []FramesAreWhole
<1>1. Init => AtSend /\ Frames
  BY ControlAssumption DEF Init, TxInit, AtSend, Frames
<1>2. ASSUME AtSend, Frames, UNCHANGED vars PROVE AtSend' /\ Frames'
  BY <1>2 DEF vars, txVars, queueVars, AtSend, Frames, Alone, Code, Body
<1>3. Frames => FramesAreWhole
  BY DEF Frames, Alone, FramesAreWhole
<1> QED
  BY <1>1, <1>2, <1>3, NextFrames, TypesInvariant, PTL DEF Spec
=============================================================================
