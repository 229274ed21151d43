------------------------ MODULE InterrogatorManager ------------------------
(***************************************************************************)
(* The program of rt_interrogator_task.cpp: class InterrogatorManager, its *)
(* two threads, main and the signal handler.  The real-time task runs the  *)
(* state machine (InterrogatorFsm) and, after each packet it has read, the *)
(* push of the queue (PeakDataQueue); the processing thread runs pop.      *)
(*                                                                         *)
(*   main: start the real-time task, create the processing thread, pause   *)
(*                                                                         *)
(* Samples are numbered in the order readPacket() receives them, so that   *)
(* received, sample and delivered say how far each part has got.           *)
(***************************************************************************)
EXTENDS Integers, Sequences

CONSTANTS MaxFd, Garbage, Foreign,                 \* of CInterrogator
          MAX_QUEUE_SIZE, MaxSamples, MaxSpurious  \* of PeakDataQueue

ASSUME ManagerAssumption ==
  /\ MaxFd \in Nat
  /\ Garbage \subseteq Int
  /\ Foreign \subseteq 0..MaxFd
  /\ MAX_QUEUE_SIZE \in Nat \ {0}
  /\ MaxSamples \in Nat
  /\ MaxSpurious \in Nat

VARIABLES
  boot,      \* where main is: "startRt", "createNrt", "paused", or else about to
             \* return, with the real-time task running ("failed") or not ("returning")
  received,  \* samples readPacket() has received
  currentState, fdTable, tcpSockfd, udpSockfd, udpState, streaming, call, process,
  dataQueue, mtx, pc, sample, delivered, spurious

Fsm == INSTANCE InterrogatorFsm
Queue == INSTANCE PeakDataQueue

socketVars == <<fdTable, tcpSockfd, udpSockfd, udpState, streaming, call>>
fsmVars == <<currentState, socketVars, process>>
queueVars == <<dataQueue, mtx, pc, sample, delivered, spurious>>
vars == <<boot, received, fsmVars, queueVars>>

Init == boot = "startRt" /\ received = 0 /\ Fsm!Init /\ Queue!Init

\* The real-time task runs once it is started, the processing thread once
\* initRTTask has succeeded.
RtRunning == process = "running" /\ boot \in {"createNrt", "paused", "failed"}
NrtRunning == process = "running" /\ boot = "paused"

----------------------------------------------------------------------------
\* case READ_PEAKS, between readPacket() and the return: getPeaks copies the
\* sample just received, and push is called with it.
HasPacket == currentState = "READ_PEAKS" /\ call = "ok"

\* (Mutant: the packet is pushed again and again.)
PushPeaksAgain ==
  /\ RtRunning
  /\ HasPacket
  /\ Queue!CallPush(received)
  /\ UNCHANGED <<boot, received, fsmVars>>

PushPeaks ==
  /\ RtRunning
  /\ HasPacket
  /\ sample < received
  /\ Queue!CallPush(received)
  /\ UNCHANGED <<boot, received, fsmVars>>

PushReturned == sample = received /\ pc["rt"] = "idle"

\* One step of processRTState outside push.  A packet received counts.
ProcessRTState ==
  /\ RtRunning
  /\ Fsm!TaskStep
  /\ HasPacket => PushReturned
  /\ IF call = "recv" /\ call' = "ok"
     THEN received < MaxSamples /\ received' = received + 1
     ELSE UNCHANGED received
  /\ UNCHANGED <<boot, queueVars>>

\* One step of the real-time task inside push.
InPush ==
  /\ RtRunning
  /\ Queue!RTStep
  /\ UNCHANGED <<boot, received, fsmVars>>

\* One step of the processing thread.
NrtTaskCallback ==
  /\ NrtRunning
  /\ Queue!NRTStep
  /\ UNCHANGED <<boot, received, fsmVars>>

RtTaskCallback == ProcessRTState \/ PushPeaks \/ InPush
----------------------------------------------------------------------------
\* main, in initRTTask: create_rt_task, set_task_period and start_task, of
\* which any may fail before the task runs.
StartRt ==
  /\ process = "running"
  /\ boot = "startRt"
  /\ boot' \in {"createNrt", "returning"}
  /\ UNCHANGED <<received, fsmVars, queueVars>>

\* main, in initRTTask: pthread_create.  On failure main will return, and the
\* real-time task goes on until it does.  (Mutant: the failure is ignored.)
CreateNrtIgnored ==
  /\ process = "running"
  /\ boot = "createNrt"
  /\ boot' \in {"paused", "unattended"}
  /\ UNCHANGED <<received, fsmVars, queueVars>>

CreateNrt ==
  /\ process = "running"
  /\ boot = "createNrt"
  /\ boot' \in {"paused", "failed"}
  /\ UNCHANGED <<received, fsmVars, queueVars>>

\* main returns: the manager is destroyed while the real-time task may be using
\* it, so the process ends by exit or by a crash.
MainReturns ==
  /\ process = "running"
  /\ boot \in {"returning", "failed"}
  /\ process' \in {"exited", "killed"}
  /\ UNCHANGED <<boot, received, currentState, socketVars, queueVars>>

\* globalSignalHandler, on SIGINT or SIGTERM: it sets the state of a manager of
\* its own making and exits; the manager at work is left as it is.
\* (Mutant: it tells the manager at work to disconnect, and does not exit.)
SignalDisconnects ==
  /\ process = "running"
  /\ currentState' = "DISCONNECT_STATE"
  /\ UNCHANGED <<boot, received, socketVars, process, queueVars>>

GlobalSignalHandler ==
  /\ process = "running"
  /\ process' = "exited"
  /\ UNCHANGED <<boot, received, currentState, socketVars, queueVars>>

PeerCloses ==
  /\ process = "running"
  /\ Fsm!PeerCloses
  /\ UNCHANGED <<boot, received, currentState, queueVars>>

SpuriousWake ==
  /\ process = "running"
  /\ \E t \in Queue!Threads : Queue!SpuriousWake(t)
  /\ UNCHANGED <<boot, received, fsmVars>>

Ended == process # "running" /\ UNCHANGED vars

Main == StartRt \/ CreateNrt \/ MainReturns

Next ==
  \/ Main \/ RtTaskCallback \/ NrtTaskCallback
  \/ GlobalSignalHandler \/ PeerCloses \/ SpuriousWake
  \/ Ended

Spec == Init /\ [][Next]_vars

\* The scheduler runs main and both threads; receiving is never obliged to
\* succeed, since recvfrom may always time out instead.
Fairness == WF_vars(Main) /\ WF_vars(RtTaskCallback) /\ WF_vars(NrtTaskCallback)

FairSpec == Spec /\ Fairness
----------------------------------------------------------------------------
TypeOK ==
  /\ boot \in {"startRt", "createNrt", "paused", "returning", "failed"}
  /\ received \in 0..MaxSamples
  /\ Fsm!TypeOK
  /\ Queue!TypeOK

\* Every sample received has been delivered or is in the queue, but for the one
\* the real-time task is about to push: the state machine reads no packet
\* before it has handed the previous one over.
NoSampleLost ==
  received - delivered - Len(dataQueue)
    = IF HasPacket /\ Queue!Pushed < received THEN 1 ELSE 0

\* The invariant behind it: what the real-time task has received and what it
\* has handed over differ only between readPacket() and the call of push.
Handover ==
  /\ received \in 0..MaxSamples
  /\ sample <= received /\ received <= sample + 1
  /\ received = sample + 1 => HasPacket /\ pc["rt"] = "idle"
  /\ ~HasPacket => received = sample /\ pc["rt"] = "idle"

\* Every sample received reaches the processing thread, unless the process ends
\* first: neither a full queue nor a processing thread created after the first
\* packets were read, nor a receive that fails, keeps it from there.
EverySampleDelivered ==
  \A k \in 1..MaxSamples : (received >= k) ~> (delivered >= k \/ process # "running")

\* From the socket to the processing thread the program is a channel: samples
\* come out once, in the order received, at most a full queue and one of them
\* under way however slow the processing thread is.
EndToEnd == INSTANCE SampleChannel WITH
              Capacity <- MAX_QUEUE_SIZE + 1, sent <- received, got <- delivered

EndToEndSpec == EndToEnd!Spec

\* The program drives its sockets as the state machine on its own does, and
\* uses the queue as its one producer and its one consumer, so what holds of
\* the two parts holds of the whole.
FsmSpec == Fsm!Spec
QueueSpec == Queue!Spec
=============================================================================
