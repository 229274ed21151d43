--------------------------- MODULE PeakDataQueue ---------------------------
(***************************************************************************)
(* class PeakDataQueue of rt_interrogator_task.cpp: the queue between the  *)
(* real-time task ("rt", the only caller of push) and the processing       *)
(* thread ("nrt", the only caller of pop).  One mutex guards the queue and *)
(* both directions wait on the same condition variable:                    *)
(*                                                                         *)
(*   push: lock; wait until size < MAX_QUEUE_SIZE; push; unlock; notify    *)
(*   pop:  lock; wait until not empty; front, pop; unlock; notify          *)
(*                                                                         *)
(* Each thread has a program counter:                                      *)
(*   "idle"    outside push and pop                                        *)
(*   "lock"    in the constructor of unique_lock                           *)
(*   "test"    holding mtx, about to evaluate the wait predicate           *)
(*   "blocked" asleep in cv.wait, mtx released                             *)
(*   "wake"    woken in cv.wait, about to take mtx again                   *)
(*   "unlock"  queue changed, about to release mtx                         *)
(*   "notify"  mtx released, about to call cv.notify_one                   *)
(*                                                                         *)
(* A PeakData value is the number of the sample it holds.                  *)
(***************************************************************************)
EXTENDS Integers, Sequences

CONSTANTS
  MAX_QUEUE_SIZE,  \* capacity of the queue (10 in the source)
  MaxSamples,      \* bound: samples the real-time task pushes
  MaxSpurious      \* bound: spurious returns of cv.wait

ASSUME QueueAssumption ==
  /\ MAX_QUEUE_SIZE \in Nat \ {0}
  /\ MaxSamples \in Nat
  /\ MaxSpurious \in Nat

VARIABLES
  dataQueue,  \* the std::queue: a sequence of samples
  mtx,        \* who holds the mutex: a thread, or "free"
  pc,         \* program counter of each thread
  sample,     \* the last sample handed to push (its argument)
  delivered,  \* the last sample pop returned, 0 before the first
  spurious    \* spurious wake-ups so far

vars == <<dataQueue, mtx, pc, sample, delivered, spurious>>

Threads == {"rt", "nrt"}
PCs == {"idle", "lock", "test", "blocked", "wake", "unlock", "notify"}

\* The other thread: with one of each, the only one notify_one can find.
Other(t) == IF t = "rt" THEN "nrt" ELSE "rt"

Init ==
  /\ dataQueue = <<>>
  /\ mtx = "free"
  /\ pc = [t \in Threads |-> "idle"]
  /\ sample = 0
  /\ delivered = 0
  /\ spurious = 0

----------------------------------------------------------------------------
\* The real-time task calls push(d).
CallPush(d) ==
  /\ pc["rt"] = "idle"
  /\ sample' = d
  /\ pc' = [pc EXCEPT !["rt"] = "lock"]
  /\ UNCHANGED <<dataQueue, mtx, delivered, spurious>>

\* The processing thread calls pop().
CallPop ==
  /\ pc["nrt"] = "idle"
  /\ pc' = [pc EXCEPT !["nrt"] = "lock"]
  /\ UNCHANGED <<dataQueue, mtx, sample, delivered, spurious>>

\* The mutex is taken: by unique_lock's constructor, or by cv.wait once woken.
Acquire(t) ==
  /\ pc[t] \in {"lock", "wake"}
  /\ mtx = "free"
  /\ mtx' = t
  /\ pc' = [pc EXCEPT ![t] = "test"]
  /\ UNCHANGED <<dataQueue, sample, delivered, spurious>>

\* The wait predicate is false: cv.wait releases the mutex and sleeps, in one step.
Block(t) ==
  /\ mtx' = "free"
  /\ pc' = [pc EXCEPT ![t] = "blocked"]
  /\ UNCHANGED <<dataQueue, sample, delivered, spurious>>

WaitNotFull ==
  /\ pc["rt"] = "test"
  /\ ~(Len(dataQueue) < MAX_QUEUE_SIZE)
  /\ Block("rt")

WaitNotEmpty ==
  /\ pc["nrt"] = "test"
  /\ dataQueue = <<>>
  /\ Block("nrt")

\* push: the predicate holds and dataQueue.push(data) runs.
\* (Mutant: the predicate is off by one.)
PushOffByOne ==
  /\ pc["rt"] = "test"
  /\ Len(dataQueue) <= MAX_QUEUE_SIZE
  /\ dataQueue' = Append(dataQueue, sample)
  /\ pc' = [pc EXCEPT !["rt"] = "unlock"]
  /\ UNCHANGED <<mtx, sample, delivered, spurious>>

Push ==
  /\ pc["rt"] = "test"
  /\ Len(dataQueue) < MAX_QUEUE_SIZE
  /\ dataQueue' = Append(dataQueue, sample)
  /\ pc' = [pc EXCEPT !["rt"] = "unlock"]
  /\ UNCHANGED <<mtx, sample, delivered, spurious>>

\* pop: the predicate holds, dataQueue.front() is copied and removed.
\* (Mutants: the newest sample is taken; the sample is not removed.)
PopNewest ==
  /\ pc["nrt"] = "test"
  /\ dataQueue # <<>>
  /\ delivered' = dataQueue[Len(dataQueue)]
  /\ dataQueue' = SubSeq(dataQueue, 1, Len(dataQueue) - 1)
  /\ pc' = [pc EXCEPT !["nrt"] = "unlock"]
  /\ UNCHANGED <<mtx, sample, spurious>>

PopKeeps ==
  /\ pc["nrt"] = "test"
  /\ dataQueue # <<>>
  /\ delivered' = Head(dataQueue)
  /\ pc' = [pc EXCEPT !["nrt"] = "unlock"]
  /\ UNCHANGED <<dataQueue, mtx, sample, spurious>>

Pop ==
  /\ pc["nrt"] = "test"
  /\ dataQueue # <<>>
  /\ delivered' = Head(dataQueue)
  /\ dataQueue' = Tail(dataQueue)
  /\ pc' = [pc EXCEPT !["nrt"] = "unlock"]
  /\ UNCHANGED <<mtx, sample, spurious>>

Unlock(t) ==
  /\ pc[t] = "unlock"
  /\ mtx' = "free"
  /\ pc' = [pc EXCEPT ![t] = "notify"]
  /\ UNCHANGED <<dataQueue, sample, delivered, spurious>>

\* cv.notify_one: wakes the other thread if it sleeps, and is lost otherwise.
\* (Mutants: only push, or only pop, notifies.)
NotifyFromPushOnly(t) ==
  /\ pc[t] = "notify"
  /\ pc' = [pc EXCEPT ![t] = "idle",
                      ![Other(t)] = IF t = "rt" /\ @ = "blocked" THEN "wake" ELSE @]
  /\ UNCHANGED <<dataQueue, mtx, sample, delivered, spurious>>

NotifyFromPopOnly(t) ==
  /\ pc[t] = "notify"
  /\ pc' = [pc EXCEPT ![t] = "idle",
                      ![Other(t)] = IF t = "nrt" /\ @ = "blocked" THEN "wake" ELSE @]
  /\ UNCHANGED <<dataQueue, mtx, sample, delivered, spurious>>

NotifyOne(t) ==
  /\ pc[t] = "notify"
  /\ pc' = [pc EXCEPT ![t] = "idle",
                      ![Other(t)] = IF @ = "blocked" THEN "wake" ELSE @]
  /\ UNCHANGED <<dataQueue, mtx, sample, delivered, spurious>>

\* cv.wait may return without a notification.
SpuriousWake(t) ==
  /\ pc[t] = "blocked"
  /\ spurious < MaxSpurious
  /\ spurious' = spurious + 1
  /\ pc' = [pc EXCEPT ![t] = "wake"]
  /\ UNCHANGED <<dataQueue, mtx, sample, delivered>>

\* What a thread does on its own inside push, and inside the loop around pop.
RTStep == Acquire("rt") \/ WaitNotFull \/ Push \/ Unlock("rt") \/ NotifyOne("rt")

NRTStep ==
  CallPop \/ Acquire("nrt") \/ WaitNotEmpty \/ Pop \/ Unlock("nrt") \/ NotifyOne("nrt")

Next ==
  \/ sample < MaxSamples /\ CallPush(sample + 1)
  \/ RTStep
  \/ NRTStep
  \/ \E t \in Threads : SpuriousWake(t)

Spec == Init /\ [][Next]_vars

\* Both threads run whenever they can.  Nothing obliges the real-time task to
\* call push, and no fairness is asked of spurious wake-ups.
Fairness == WF_vars(RTStep) /\ WF_vars(NRTStep)

FairSpec == Spec /\ Fairness
----------------------------------------------------------------------------
\* The last sample that has entered the queue: the one being pushed counts
\* once dataQueue.push has run.
Pushed == IF pc["rt"] \in {"lock", "test", "blocked", "wake"} THEN sample - 1 ELSE sample

\* The types of the variables; the queue never exceeds its capacity.
TypeOK ==
  /\ dataQueue \in Seq(Nat)
  /\ Len(dataQueue) <= MAX_QUEUE_SIZE
  /\ mtx \in Threads \cup {"free"}
  /\ pc \in [Threads -> PCs]
  /\ sample \in Nat
  /\ delivered \in Nat
  /\ spurious \in 0..MaxSpurious

\* The mutex protects the queue: whoever is between lock and unlock holds it.
MutualExclusion == \A t \in Threads : (pc[t] \in {"test", "unlock"}) <=> (mtx = t)

\* The queue holds exactly the samples pushed and not yet delivered, in order:
\* nothing lost, doubled or overtaken.
QueueIsBacklog ==
  /\ Len(dataQueue) = Pushed - delivered
  /\ \A i \in 1..Len(dataQueue) : dataQueue[i] = delivered + i

\* With one condition variable for both directions and the notification sent
\* after the unlock, no wake-up is missed: a thread asleep although its
\* predicate holds has a notification on its way from the other thread.
NoMissedWakeup ==
  /\ (pc["nrt"] = "blocked" /\ dataQueue # <<>>) => pc["rt"] \in {"unlock", "notify"}
  /\ (pc["rt"] = "blocked" /\ Len(dataQueue) < MAX_QUEUE_SIZE)
        => pc["nrt"] \in {"unlock", "notify"}

\* The two threads are never both asleep in cv.wait on the same queue.
NeverBothAsleep == ~(\A t \in Threads : pc[t] = "blocked")

\* Every sample handed to push is eventually returned by pop, however full the
\* queue was when push was called.
EventualDelivery == \A k \in 1..MaxSamples : (sample >= k) ~> (delivered >= k)

\* The queue implements the abstract channel: every sample handed over comes out
\* once, in order, with at most MAX_QUEUE_SIZE of them under way.
Channel == INSTANCE SampleChannel WITH
             Capacity <- MAX_QUEUE_SIZE, sent <- Pushed, got <- delivered

ChannelSpec == Channel!Spec
=============================================================================
