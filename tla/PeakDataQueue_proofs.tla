------------------------ MODULE PeakDataQueue_proofs ------------------------
(***************************************************************************)
(* Proofs about PeakDataQueue, for every capacity and any number of        *)
(* samples and spurious wake-ups.  TypeOK and MutualExclusion are          *)
(* inductive together; QueueIsBacklog and NoMissedWakeup are inductive     *)
(* relative to them.  The refinement of SampleChannel follows.             *)
(***************************************************************************)
EXTENDS PeakDataQueue, TLAPS

\* The inductive invariant.
IInv == TypeOK /\ MutualExclusion /\ QueueIsBacklog /\ NoMissedWakeup

\* The steps of push and pop, one disjunct per action, for the case splits.
Step ==
  \/ sample < MaxSamples /\ CallPush(sample + 1)
  \/ CallPop
  \/ \E t \in Threads : Acquire(t)
  \/ WaitNotFull
  \/ WaitNotEmpty
  \/ Push
  \/ Pop
  \/ \E t \in Threads : Unlock(t)
  \/ \E t \in Threads : NotifyOne(t)
  \/ \E t \in Threads : SpuriousWake(t)

LEMMA NextIsStep == Next => Step
  BY DEF Next, Step, RTStep, NRTStep, Threads

LEMMA InitIInv == Init => IInv
<1>1. SUFFICES ASSUME Init PROVE IInv
  OBVIOUS
<1>2. TypeOK
  BY <1>1, QueueAssumption DEF Init, TypeOK, PCs
<1>3. MutualExclusion
  BY <1>1 DEF Init, MutualExclusion, Threads
<1>4. QueueIsBacklog
  BY <1>1, QueueAssumption DEF Init, QueueIsBacklog, Pushed, Threads
<1>5. NoMissedWakeup
  BY <1>1 DEF Init, NoMissedWakeup, Threads
<1> QED
  BY <1>2, <1>3, <1>4, <1>5 DEF IInv

LEMMA TypeStep == TypeOK /\ Step => TypeOK'
<1> SUFFICES ASSUME TypeOK, Step PROVE TypeOK'
  OBVIOUS
<1> USE QueueAssumption DEF TypeOK, PCs, Threads
<1>1. CASE sample < MaxSamples /\ CallPush(sample + 1)
  BY <1>1 DEF CallPush
<1>2. CASE CallPop
  BY <1>2 DEF CallPop
<1>3. CASE \E t \in Threads : Acquire(t)
  BY <1>3 DEF Acquire
<1>4. CASE WaitNotFull
  BY <1>4 DEF WaitNotFull, Block
<1>5. CASE WaitNotEmpty
  BY <1>5 DEF WaitNotEmpty, Block
<1>6. CASE Push
  <2>1. dataQueue' \in Seq(Nat) /\ Len(dataQueue') = Len(dataQueue) + 1
    BY <1>6 DEF Push
  <2>2. Len(dataQueue) < MAX_QUEUE_SIZE /\ Len(dataQueue) \in Nat
    BY <1>6 DEF Push
  <2>3. Len(dataQueue') <= MAX_QUEUE_SIZE
    BY <2>1, <2>2
  <2> QED
    BY <1>6, <2>1, <2>3 DEF Push
<1>7. CASE Pop
  <2>1. dataQueue' \in Seq(Nat) /\ delivered' \in Nat
    BY <1>7 DEF Pop
  <2>2. Len(dataQueue') = Len(dataQueue) - 1 /\ Len(dataQueue) \in Nat
    BY <1>7 DEF Pop
  <2>3. Len(dataQueue') <= MAX_QUEUE_SIZE
    BY <2>2
  <2> QED
    BY <1>7, <2>1, <2>3 DEF Pop
<1>8. CASE \E t \in Threads : Unlock(t)
  BY <1>8 DEF Unlock
<1>9. CASE \E t \in Threads : NotifyOne(t)
  BY <1>9 DEF NotifyOne, Other
<1>10. CASE \E t \in Threads : SpuriousWake(t)
  BY <1>10 DEF SpuriousWake
<1> QED
  BY <1>1, <1>2, <1>3, <1>4, <1>5, <1>6, <1>7, <1>8, <1>9, <1>10 DEF Step

LEMMA MutexStep == TypeOK /\ MutualExclusion /\ Step => MutualExclusion'
<1> SUFFICES ASSUME TypeOK, MutualExclusion, Step PROVE MutualExclusion'
  OBVIOUS
<1> USE DEF TypeOK, MutualExclusion, Threads
<1>1. CASE sample < MaxSamples /\ CallPush(sample + 1)
  BY <1>1 DEF CallPush
<1>2. CASE CallPop
  BY <1>2 DEF CallPop
<1>3. CASE \E t \in Threads : Acquire(t)
  BY <1>3 DEF Acquire
<1>4. CASE WaitNotFull
  BY <1>4 DEF WaitNotFull, Block
<1>5. CASE WaitNotEmpty
  BY <1>5 DEF WaitNotEmpty, Block
<1>6. CASE Push
  BY <1>6 DEF Push
<1>7. CASE Pop
  BY <1>7 DEF Pop
<1>8. CASE \E t \in Threads : Unlock(t)
  BY <1>8 DEF Unlock
<1>9. CASE \E t \in Threads : NotifyOne(t)
  BY <1>9 DEF NotifyOne, Other
<1>10. CASE \E t \in Threads : SpuriousWake(t)
  BY <1>10 DEF SpuriousWake
<1> QED
  BY <1>1, <1>2, <1>3, <1>4, <1>5, <1>6, <1>7, <1>8, <1>9, <1>10 DEF Step

LEMMA BacklogStep == TypeOK /\ QueueIsBacklog /\ Step => QueueIsBacklog'
<1> SUFFICES ASSUME TypeOK, QueueIsBacklog, Step PROVE QueueIsBacklog'
  OBVIOUS
<1> USE QueueAssumption DEF TypeOK, QueueIsBacklog, Pushed, Threads
<1>1. CASE sample < MaxSamples /\ CallPush(sample + 1)
  BY <1>1 DEF CallPush
<1>2. CASE CallPop
  BY <1>2 DEF CallPop
<1>3. CASE \E t \in Threads : Acquire(t)
  BY <1>3 DEF Acquire
<1>4. CASE WaitNotFull
  BY <1>4 DEF WaitNotFull, Block
<1>5. CASE WaitNotEmpty
  BY <1>5 DEF WaitNotEmpty, Block
<1>6. CASE Push
  <2>1. Len(dataQueue') = Len(dataQueue) + 1 /\ Len(dataQueue) \in Nat
    BY <1>6 DEF Push
  <2>2. Pushed = sample - 1 /\ Pushed' = sample
    BY <1>6 DEF Push
  <2>3. delivered' = delivered /\ Len(dataQueue) < MAX_QUEUE_SIZE
    BY <1>6 DEF Push
  <2>4. ASSUME NEW i \in 1..Len(dataQueue')
        PROVE  dataQueue'[i] = delivered + i
    <3>1. CASE i \in 1..Len(dataQueue)
      BY <1>6, <3>1 DEF Push
    <3>2. CASE i = Len(dataQueue) + 1
      <4>1. dataQueue'[i] = sample
        BY <1>6, <3>2 DEF Push
      <4> QED
        BY <4>1, <3>2, <2>1, <2>2
    <3> QED
      BY <3>1, <3>2, <2>1
  <2> QED
    BY <2>1, <2>2, <2>3, <2>4
<1>7. CASE Pop
  <2>1. Len(dataQueue') = Len(dataQueue) - 1 /\ Len(dataQueue) \in Nat \ {0}
    BY <1>7 DEF Pop
  <2>2. Pushed' = Pushed /\ delivered' = delivered + 1
    <3>1. Head(dataQueue) = dataQueue[1] /\ 1 \in 1..Len(dataQueue)
      BY <1>7, <2>1 DEF Pop
    <3>2. delivered' = Head(dataQueue)
      BY <1>7 DEF Pop
    <3>3. Pushed' = Pushed
      BY <1>7 DEF Pop
    <3> QED
      BY <3>1, <3>2, <3>3
  <2>3. ASSUME NEW i \in 1..Len(dataQueue')
        PROVE  dataQueue'[i] = delivered' + i
    <3>1. dataQueue'[i] = dataQueue[i + 1]
      BY <1>7 DEF Pop
    <3>2. i + 1 \in 1..Len(dataQueue)
      BY <2>1
    <3> QED
      BY <3>1, <3>2, <2>2
  <2> QED
    BY <2>1, <2>2, <2>3
<1>8. CASE \E t \in Threads : Unlock(t)
  BY <1>8 DEF Unlock
<1>9. CASE \E t \in Threads : NotifyOne(t)
  BY <1>9 DEF NotifyOne, Other
<1>10. CASE \E t \in Threads : SpuriousWake(t)
  BY <1>10 DEF SpuriousWake
<1> QED
  BY <1>1, <1>2, <1>3, <1>4, <1>5, <1>6, <1>7, <1>8, <1>9, <1>10 DEF Step

\* A thread falls asleep only while it holds the mutex, which is why the other
\* thread cannot be between its change of the queue and its unlock.
LEMMA WakeupStep ==
  TypeOK /\ MutualExclusion /\ QueueIsBacklog /\ NoMissedWakeup /\ Step => NoMissedWakeup'
<1> SUFFICES ASSUME TypeOK, MutualExclusion, QueueIsBacklog, NoMissedWakeup, Step
             PROVE NoMissedWakeup'
  OBVIOUS
<1> USE QueueAssumption DEF TypeOK, NoMissedWakeup, Threads
<1>1. CASE sample < MaxSamples /\ CallPush(sample + 1)
  BY <1>1 DEF CallPush
<1>2. CASE CallPop
  BY <1>2 DEF CallPop
<1>3. CASE \E t \in Threads : Acquire(t)
  BY <1>3 DEF Acquire
<1>4. CASE WaitNotFull
  BY <1>4 DEF WaitNotFull, Block
<1>5. CASE WaitNotEmpty
  BY <1>5 DEF WaitNotEmpty, Block
<1>6. CASE Push
  <2>1. pc'["rt"] = "unlock" /\ pc["nrt"] = pc'["nrt"]
    BY <1>6 DEF Push
  <2> QED
    BY <2>1
<1>7. CASE Pop
  <2>1. pc'["nrt"] = "unlock" /\ pc["rt"] = pc'["rt"]
    BY <1>7 DEF Pop
  <2> QED
    BY <2>1
<1>8. CASE \E t \in Threads : Unlock(t)
  BY <1>8 DEF Unlock
<1>9. CASE \E t \in Threads : NotifyOne(t)
  BY <1>9 DEF NotifyOne, Other
<1>10. CASE \E t \in Threads : SpuriousWake(t)
  BY <1>10 DEF SpuriousWake
<1> QED
  BY <1>1, <1>2, <1>3, <1>4, <1>5, <1>6, <1>7, <1>8, <1>9, <1>10 DEF Step

LEMMA StutterIInv == IInv /\ UNCHANGED vars => IInv'
  BY DEF vars, IInv, TypeOK, MutualExclusion, QueueIsBacklog, NoMissedWakeup, Pushed

LEMMA NextIInv == IInv /\ [Next]_vars => IInv'
<1>1. CASE Next
  BY <1>1, NextIsStep, TypeStep, MutexStep, BacklogStep, WakeupStep DEF IInv
<1>2. CASE UNCHANGED vars
  BY <1>2, StutterIInv
<1> QED
  BY <1>1, <1>2

\* The inductive invariant holds throughout every execution of push and pop.
THEOREM Inductive == Spec => []IInv
  BY InitIInv, NextIInv, PTL DEF Spec

\* The queue never exceeds MAX_QUEUE_SIZE, whatever its value; the mutex and the
\* two program counters keep their types.
THEOREM TypeCorrect == Spec => []TypeOK
  BY Inductive, PTL DEF IInv

\* A thread is inside its critical section exactly when it holds mtx.
THEOREM Exclusion == Spec => []MutualExclusion
  BY Inductive, PTL DEF IInv

\* push and pop neither lose, duplicate nor reorder a sample.
THEOREM Backlog == Spec => []QueueIsBacklog
  BY Inductive, PTL DEF IInv

\* One condition variable for both directions, notified after the unlock,
\* misses no wake-up.
THEOREM WakeupNotMissed == Spec => []NoMissedWakeup
  BY Inductive, PTL DEF IInv

LEMMA AsleepOneByOne == IInv => NeverBothAsleep
<1> SUFFICES ASSUME IInv, \A t \in Threads : pc[t] = "blocked" PROVE FALSE
  BY DEF NeverBothAsleep
<1>1. pc["rt"] = "blocked" /\ pc["nrt"] = "blocked"
  BY DEF Threads
<1>2. dataQueue = <<>>
  BY <1>1 DEF IInv, NoMissedWakeup
<1>3. ~(Len(dataQueue) < MAX_QUEUE_SIZE)
  BY <1>1 DEF IInv, NoMissedWakeup
<1> QED
  BY <1>2, <1>3, QueueAssumption

\* The real-time task and the processing thread are never both asleep in
\* cv.wait: the queue cannot be full and empty at once.
THEOREM NotBothAsleep == Spec => []NeverBothAsleep
  BY Inductive, AsleepOneByOne, PTL

LEMMA ChannelInit == Init => Channel!Init
  BY DEF Init, Channel!Init, Pushed, Threads

LEMMA ChannelNext == IInv /\ [Next]_vars => [Channel!Next]_Channel!vars
<1> SUFFICES ASSUME IInv, [Next]_vars PROVE [Channel!Next]_Channel!vars
  OBVIOUS
<1> USE DEF Channel!vars, Pushed, Threads, IInv, TypeOK
<1>0. CASE UNCHANGED vars
  BY <1>0 DEF vars
<1>1. CASE sample < MaxSamples /\ CallPush(sample + 1)
  BY <1>1 DEF CallPush
<1>2. CASE CallPop
  BY <1>2 DEF CallPop
<1>3. CASE \E t \in Threads : Acquire(t)
  BY <1>3 DEF Acquire
<1>4. CASE WaitNotFull
  BY <1>4 DEF WaitNotFull, Block
<1>5. CASE WaitNotEmpty
  BY <1>5 DEF WaitNotEmpty, Block
<1>6. CASE Push
  <2>1. Channel!Send
    BY <1>6 DEF Push, Channel!Send, QueueIsBacklog
  <2> QED
    BY <2>1 DEF Channel!Next
<1>7. CASE Pop
  <2>1. Len(dataQueue) \in Nat \ {0} /\ Head(dataQueue) = dataQueue[1]
    BY <1>7 DEF Pop
  <2>2. Channel!Deliver
    BY <1>7, <2>1 DEF Pop, Channel!Deliver, QueueIsBacklog
  <2> QED
    BY <2>2 DEF Channel!Next
<1>8. CASE \E t \in Threads : Unlock(t)
  BY <1>8 DEF Unlock
<1>9. CASE \E t \in Threads : NotifyOne(t)
  BY <1>9 DEF NotifyOne, Other
<1>10. CASE \E t \in Threads : SpuriousWake(t)
  BY <1>10 DEF SpuriousWake
<1> QED
  BY <1>0, <1>1, <1>2, <1>3, <1>4, <1>5, <1>6, <1>7, <1>8, <1>9, <1>10, NextIsStep DEF Step

\* The queue of the program implements the abstract channel: exactly once, in
\* order, at most MAX_QUEUE_SIZE samples under way.
THEOREM ImplementsChannel == Spec => ChannelSpec
  BY Inductive, ChannelInit, ChannelNext, PTL DEF Spec, ChannelSpec, Channel!Spec
=============================================================================
