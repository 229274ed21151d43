--------------------- MODULE InterrogatorManager_proofs ---------------------
(***************************************************************************)
(* The whole program implements its two parts, for every value of the      *)
(* constants: the state machine that drives the sockets and the queue with *)
(* one producer and one consumer.  So every invariant proved of a part     *)
(* holds in the program, and with Handover, which ties the state machine   *)
(* to the queue, no sample is lost between them.                           *)
(***************************************************************************)
EXTENDS InterrogatorManager, TLAPS

FsmP == INSTANCE InterrogatorFsm_proofs
QueueP == INSTANCE PeakDataQueue_proofs

\* The parts as the program composes them, and as the proofs about them do.
LEMMA QueueSame ==
  /\ Queue!Init <=> QueueP!Init
  /\ [Queue!Next]_Queue!vars <=> [QueueP!Next]_QueueP!vars
<1>1. Queue!Init <=> QueueP!Init
  BY DEF Queue!Init, QueueP!Init, Queue!Threads, QueueP!Threads
<1>2. \A t : Queue!Other(t) = QueueP!Other(t)
  BY DEF Queue!Other, QueueP!Other
<1>3. Queue!Next <=> QueueP!Next
  BY <1>2
     DEF Queue!Next, QueueP!Next, Queue!CallPush, QueueP!CallPush, Queue!CallPop, QueueP!CallPop,
         Queue!Acquire, QueueP!Acquire, Queue!Block, QueueP!Block, Queue!WaitNotFull,
         QueueP!WaitNotFull, Queue!WaitNotEmpty, QueueP!WaitNotEmpty, Queue!Push, QueueP!Push,
         Queue!Pop, QueueP!Pop, Queue!Unlock, QueueP!Unlock, Queue!NotifyOne, QueueP!NotifyOne,
         Queue!SpuriousWake, QueueP!SpuriousWake, Queue!RTStep, QueueP!RTStep,
         Queue!NRTStep, QueueP!NRTStep, Queue!Threads, QueueP!Threads
<1> QED
  BY <1>1, <1>3 DEF Queue!vars, QueueP!vars

LEMMA FsmSame ==
  /\ Fsm!Init <=> FsmP!Init
  /\ [Fsm!Next]_Fsm!vars <=> [FsmP!Next]_FsmP!vars
<1>1. Fsm!Init <=> FsmP!Init
  BY DEF Fsm!Init, FsmP!Init, Fsm!InterrogatorInit, FsmP!InterrogatorInit, Fsm!Fds, FsmP!Fds
<1>2. /\ \A fd : Fsm!Kind(fd) = FsmP!Kind(fd)
      /\ \A fds : Fsm!Closing(fds) = FsmP!Closing(fds)
      /\ \A fd : Fsm!LowestFree(fd) <=> FsmP!LowestFree(fd)
      /\ Fsm!InitFails <=> FsmP!InitFails
      /\ Fsm!Connected = FsmP!Connected
      /\ Fsm!Fds = FsmP!Fds
  BY DEF Fsm!Kind, FsmP!Kind, Fsm!Closing, FsmP!Closing, Fsm!LowestFree, FsmP!LowestFree,
         Fsm!InitFails, FsmP!InitFails, Fsm!Connected, FsmP!Connected, Fsm!Fds, FsmP!Fds
<1>3. /\ Fsm!UdpSocketOk <=> FsmP!UdpSocketOk
      /\ Fsm!UdpSocketFails <=> FsmP!UdpSocketFails
      /\ Fsm!TcpSocketOk <=> FsmP!TcpSocketOk
      /\ Fsm!TcpSocketFails <=> FsmP!TcpSocketFails
      /\ Fsm!TcpConnectOk <=> FsmP!TcpConnectOk
      /\ Fsm!TcpConnectFails <=> FsmP!TcpConnectFails
      /\ Fsm!UdpBindOk <=> FsmP!UdpBindOk
      /\ Fsm!UdpBindFails <=> FsmP!UdpBindFails
      /\ Fsm!SetTimeoutOk <=> FsmP!SetTimeoutOk
      /\ Fsm!SetTimeoutFails <=> FsmP!SetTimeoutFails
  BY <1>2
     DEF Fsm!UdpSocketOk, FsmP!UdpSocketOk, Fsm!UdpSocketFails, FsmP!UdpSocketFails,
         Fsm!TcpSocketOk, FsmP!TcpSocketOk, Fsm!TcpSocketFails, FsmP!TcpSocketFails,
         Fsm!TcpConnectOk, FsmP!TcpConnectOk, Fsm!TcpConnectFails, FsmP!TcpConnectFails,
         Fsm!UdpBindOk, FsmP!UdpBindOk, Fsm!UdpBindFails, FsmP!UdpBindFails,
         Fsm!CloseBothAndFail, FsmP!CloseBothAndFail,
         Fsm!SetTimeoutOk, FsmP!SetTimeoutOk, Fsm!SetTimeoutFails, FsmP!SetTimeoutFails
<1>4. /\ Fsm!Ebbed = FsmP!Ebbed
      /\ \A obeyed : Fsm!WriteCommand(obeyed) <=> FsmP!WriteCommand(obeyed)
  BY <1>2 DEF Fsm!WriteCommand, FsmP!WriteCommand, Fsm!Ebbed, FsmP!Ebbed
<1>5. Fsm!MethodStep <=> FsmP!MethodStep
  BY <1>2, <1>3, <1>4
     DEF Fsm!MethodStep, FsmP!MethodStep, Fsm!EnablePeakDatagrams, FsmP!EnablePeakDatagrams,
         Fsm!RecvOk, FsmP!RecvOk, Fsm!RecvFails, FsmP!RecvFails, Fsm!SendDisable,
         FsmP!SendDisable, Fsm!CloseTcp, FsmP!CloseTcp, Fsm!CloseUdp, FsmP!CloseUdp
<1>6. Fsm!Control <=> FsmP!Control
  BY <1>2
     DEF Fsm!Control, FsmP!Control, Fsm!RunInit, FsmP!RunInit, Fsm!Begin, FsmP!Begin,
         Fsm!ConnectDone, FsmP!ConnectDone, Fsm!EnableDone, FsmP!EnableDone, Fsm!ReadFailed,
         FsmP!ReadFailed, Fsm!ReadDone, FsmP!ReadDone, Fsm!DisconnectDone, FsmP!DisconnectDone,
         Fsm!Enter, FsmP!Enter
<1>7. Fsm!vars = FsmP!vars /\ Fsm!vars' = FsmP!vars'
  BY DEF Fsm!vars, FsmP!vars, Fsm!ivars, FsmP!ivars
<1>8. Fsm!EnvStep <=> FsmP!EnvStep
  BY <1>2, <1>4 DEF Fsm!EnvStep, FsmP!EnvStep, Fsm!PeerCloses, FsmP!PeerCloses, Fsm!ProcessEnds,
              FsmP!ProcessEnds
<1> QED
  BY <1>1, <1>5, <1>6, <1>7, <1>8
     DEF Fsm!Next, FsmP!Next, Fsm!TaskStep, FsmP!TaskStep, Fsm!Ended, FsmP!Ended

\* The parts keep their own invariants; Handover ties them together.
MInv == Handover /\ FsmP!IInv /\ QueueP!IInv

LEMMA Assumptions == FsmP!DescriptorAssumption /\ QueueP!QueueAssumption
  BY ManagerAssumption DEF FsmP!DescriptorAssumption, QueueP!QueueAssumption, FsmP!Fds

LEMMA InitMInv == Init => MInv
<1> SUFFICES ASSUME Init PROVE MInv
  OBVIOUS
<1>1. FsmP!IInv /\ QueueP!IInv
  BY Assumptions, FsmSame, QueueSame, FsmP!InitIInv, QueueP!InitIInv DEF Init
<1>2. Handover
  BY ManagerAssumption DEF Init, Handover, Queue!Init, Queue!Threads
<1> QED
  BY <1>1, <1>2 DEF MInv

\* Every step of the program is a step of the state machine, or leaves it alone.
LEMMA FsmStep == [Next]_vars => [Fsm!Next]_Fsm!vars
<1> SUFFICES ASSUME [Next]_vars PROVE [Fsm!Next]_Fsm!vars
  OBVIOUS
<1>1. CASE ProcessRTState
  BY <1>1 DEF ProcessRTState, Fsm!Next
<1>2. CASE PeerCloses
  BY <1>2 DEF PeerCloses, Fsm!Next, Fsm!EnvStep
<1>3. CASE MainReturns
  BY <1>3 DEF MainReturns, socketVars, Fsm!Next, Fsm!EnvStep, Fsm!ProcessEnds
<1>4. CASE GlobalSignalHandler
  BY <1>4 DEF GlobalSignalHandler, socketVars, Fsm!Next, Fsm!EnvStep, Fsm!ProcessEnds
<1>5. CASE UNCHANGED fsmVars
  BY <1>5 DEF fsmVars, socketVars, Fsm!vars, Fsm!ivars
<1>6. CASE StartRt \/ CreateNrt \/ PushPeaks \/ InPush \/ NrtTaskCallback \/ SpuriousWake
  BY <1>5, <1>6 DEF StartRt, CreateNrt, PushPeaks, InPush, NrtTaskCallback, SpuriousWake
<1>7. CASE UNCHANGED vars
  BY <1>5, <1>7 DEF vars
<1> QED
  BY <1>1, <1>2, <1>3, <1>4, <1>6, <1>7 DEF Next, Main, RtTaskCallback, Ended

\* Every step is a step of the queue, or leaves it alone: push is called only
\* with the number after the last sample pushed.
LEMMA QueueStep == Handover /\ sample \in Nat /\ [Next]_vars => [Queue!Next]_Queue!vars
<1> SUFFICES ASSUME Handover, sample \in Nat, [Next]_vars PROVE [Queue!Next]_Queue!vars
  OBVIOUS
<1>1. CASE PushPeaks
  <2>1. received = sample + 1 /\ sample < MaxSamples
    BY <1>1, ManagerAssumption DEF PushPeaks, Handover
  <2> QED
    BY <1>1, <2>1 DEF PushPeaks, Queue!Next
<1>2. CASE InPush \/ NrtTaskCallback \/ SpuriousWake
  BY <1>2 DEF InPush, NrtTaskCallback, SpuriousWake, Queue!Next
<1>3. CASE UNCHANGED queueVars
  BY <1>3 DEF queueVars, Queue!vars
<1>4. CASE Main \/ ProcessRTState \/ GlobalSignalHandler \/ PeerCloses
  BY <1>3, <1>4 DEF Main, StartRt, CreateNrt, MainReturns, ProcessRTState, GlobalSignalHandler,
                    PeerCloses
<1>5. CASE UNCHANGED vars
  BY <1>3, <1>5 DEF vars
<1> QED
  BY <1>1, <1>2, <1>4, <1>5 DEF Next, RtTaskCallback, Ended

LEMMA HandoverStep == MInv /\ [Next]_vars => Handover'
<1> SUFFICES ASSUME MInv, [Next]_vars PROVE Handover'
  OBVIOUS
<1>0. /\ Handover /\ FsmP!CallsInState
      /\ sample \in Nat /\ pc \in [{"rt", "nrt"} -> QueueP!PCs]
  BY DEF MInv, FsmP!IInv, QueueP!IInv, QueueP!TypeOK, QueueP!Threads
<1> USE <1>0, ManagerAssumption DEF Handover, HasPacket
<1>1. CASE ProcessRTState
  <2>1. received = sample /\ pc["rt"] = "idle" /\ UNCHANGED <<sample, pc>>
    BY <1>1 DEF ProcessRTState, PushReturned, queueVars
  <2>2. CASE call = "recv" /\ call' = "ok"
    <3>1. UNCHANGED currentState
      BY <1>1, <2>2 DEF ProcessRTState, Fsm!TaskStep, Fsm!Control, Fsm!RunInit, Fsm!Begin,
            Fsm!ConnectDone, Fsm!EnableDone, Fsm!ReadFailed, Fsm!ReadDone, Fsm!DisconnectDone
    <3>2. currentState = "READ_PEAKS"
      BY <2>2 DEF FsmP!CallsInState
    <3> QED
      BY <1>1, <2>1, <2>2, <3>1, <3>2 DEF ProcessRTState
  <2>3. CASE ~(call = "recv" /\ call' = "ok")
    BY <1>1, <2>1, <2>3 DEF ProcessRTState
  <2> QED
    BY <2>2, <2>3
<1>2. CASE PushPeaks
  BY <1>2 DEF PushPeaks, Queue!CallPush, fsmVars, socketVars
<1>3. CASE InPush
  <2>1. pc["rt"] # "idle" /\ UNCHANGED sample
    BY <1>3 DEF InPush, Queue!RTStep, Queue!Acquire, Queue!WaitNotFull, Queue!Block, Queue!Push,
                Queue!Unlock, Queue!NotifyOne
  <2> QED
    BY <1>3, <2>1 DEF InPush, fsmVars, socketVars
<1>4. CASE NrtTaskCallback \/ SpuriousWake
  <2>1. (pc["rt"] = "idle" => pc'["rt"] = "idle") /\ UNCHANGED sample
    BY <1>4 DEF NrtTaskCallback, SpuriousWake, Queue!NRTStep, Queue!CallPop, Queue!Acquire,
                Queue!WaitNotEmpty, Queue!Block, Queue!Pop, Queue!Unlock, Queue!NotifyOne,
                Queue!Other, Queue!SpuriousWake, Queue!Threads
  <2> QED
    BY <1>4, <2>1 DEF NrtTaskCallback, SpuriousWake, fsmVars, socketVars
<1>5. CASE Main \/ GlobalSignalHandler \/ PeerCloses
  BY <1>5 DEF Main, StartRt, CreateNrt, MainReturns, GlobalSignalHandler, PeerCloses,
              Fsm!PeerCloses, fsmVars, socketVars, queueVars
<1>6. CASE UNCHANGED vars
  BY <1>6 DEF vars, fsmVars, socketVars, queueVars
<1> QED
  BY <1>1, <1>2, <1>3, <1>4, <1>5, <1>6 DEF Next, RtTaskCallback, Ended

LEMMA NextMInv == MInv /\ [Next]_vars => MInv'
<1> SUFFICES ASSUME MInv, [Next]_vars PROVE MInv'
  OBVIOUS
<1>1. sample \in Nat
  BY DEF MInv, QueueP!IInv, QueueP!TypeOK
<1>2. [FsmP!Next]_FsmP!vars
  BY FsmStep, FsmSame
<1>3. [QueueP!Next]_QueueP!vars
  BY <1>1, QueueStep, QueueSame DEF MInv
<1>4. FsmP!IInv' /\ QueueP!IInv'
  BY <1>2, <1>3, Assumptions, FsmP!NextIInv, QueueP!NextIInv DEF MInv
<1> QED
  BY <1>4, HandoverStep DEF MInv

\* The inductive invariant of the program.
THEOREM Inductive == Spec => []MInv
  BY InitMInv, NextMInv, PTL DEF Spec

\* The program drives its sockets as the state machine on its own does.
THEOREM ImplementsFsm == Spec => FsmSpec
  BY FsmStep, PTL DEF Spec, Init, FsmSpec, Fsm!Spec

\* The program uses its queue as one producer and one consumer.
THEOREM ImplementsQueue == Spec => QueueSpec
<1>1. MInv => Handover /\ sample \in Nat
  BY DEF MInv, QueueP!IInv, QueueP!TypeOK
<1> QED
  BY <1>1, Inductive, QueueStep, PTL DEF Spec, Init, QueueSpec, Queue!Spec

LEMMA NothingLost == MInv => NoSampleLost
<1> SUFFICES ASSUME MInv PROVE NoSampleLost
  OBVIOUS
<1>1. Handover /\ QueueP!QueueIsBacklog /\ QueueP!TypeOK
  BY DEF MInv, QueueP!IInv
<1>2. Len(dataQueue) = Queue!Pushed - delivered
  BY <1>1 DEF QueueP!QueueIsBacklog, QueueP!Pushed, Queue!Pushed
<1>3. sample \in Nat /\ delivered \in Nat /\ received \in Nat
  BY <1>1, ManagerAssumption DEF QueueP!TypeOK, Handover
<1>4. CASE pc["rt"] = "idle"
  <2>1. Queue!Pushed = sample
    BY <1>4 DEF Queue!Pushed
  <2> QED
    BY <1>1, <1>2, <1>3, <1>4, <2>1 DEF Handover, NoSampleLost
<1>5. CASE pc["rt"] # "idle"
  <2>1. HasPacket /\ received = sample
    BY <1>1, <1>3, <1>5 DEF Handover
  <2>2. Queue!Pushed \in {sample - 1, sample}
    BY DEF Queue!Pushed
  <2> QED
    BY <1>2, <1>3, <2>1, <2>2 DEF NoSampleLost
<1> QED
  BY <1>4, <1>5

\* Between the socket and the processing thread no sample is lost, for every
\* capacity of the queue and every interleaving of the two threads.
THEOREM AllSamplesKept == Spec => []NoSampleLost
  BY Inductive, NothingLost, PTL

LEMMA EndToEndStep == MInv /\ [Next]_vars => [EndToEnd!Next]_EndToEnd!vars
<1> SUFFICES ASSUME MInv, [Next]_vars PROVE [EndToEnd!Next]_EndToEnd!vars
  OBVIOUS
<1>1. /\ Handover /\ QueueP!QueueIsBacklog
      /\ sample \in Nat /\ delivered \in Nat /\ received \in Nat
      /\ Len(dataQueue) \in Nat /\ Len(dataQueue) <= MAX_QUEUE_SIZE
  BY ManagerAssumption DEF MInv, Handover, QueueP!IInv, QueueP!TypeOK
<1> USE <1>1, ManagerAssumption DEF EndToEnd!vars
<1>2. CASE ProcessRTState
  <2>1. UNCHANGED delivered
    BY <1>2 DEF ProcessRTState, queueVars
  <2>2. CASE call = "recv" /\ call' = "ok"
    <3>1. received' = received + 1 /\ received = sample /\ pc["rt"] = "idle"
      BY <1>2, <2>2 DEF ProcessRTState, Handover, HasPacket
    <3>2. received - delivered <= MAX_QUEUE_SIZE
      BY <3>1 DEF QueueP!QueueIsBacklog, QueueP!Pushed
    <3> QED
      BY <2>1, <3>1, <3>2 DEF EndToEnd!Next, EndToEnd!Send
  <2>3. CASE ~(call = "recv" /\ call' = "ok")
    BY <1>2, <2>1, <2>3 DEF ProcessRTState
  <2> QED
    BY <2>2, <2>3
<1>3. CASE NrtTaskCallback
  <2>1. CASE Queue!Pop
    <3>1. delivered' = Head(dataQueue) /\ dataQueue # <<>> /\ dataQueue \in Seq(Nat)
      BY <2>1 DEF Queue!Pop, MInv, QueueP!IInv, QueueP!TypeOK
    <3>2. Head(dataQueue) = dataQueue[1] /\ Len(dataQueue) >= 1
      BY <3>1
    <3>3. delivered' = delivered + 1
      BY <3>1, <3>2 DEF QueueP!QueueIsBacklog
    <3>4. delivered < received
      BY <3>2 DEF QueueP!QueueIsBacklog, QueueP!Pushed, Handover
    <3> QED
      BY <1>3, <3>3, <3>4 DEF NrtTaskCallback, EndToEnd!Next, EndToEnd!Deliver
  <2>2. CASE ~Queue!Pop
    BY <1>3, <2>2 DEF NrtTaskCallback, Queue!NRTStep, Queue!CallPop, Queue!Acquire,
                      Queue!WaitNotEmpty, Queue!Block, Queue!Unlock, Queue!NotifyOne
  <2> QED
    BY <2>1, <2>2
<1>4. CASE PushPeaks \/ InPush \/ SpuriousWake
  BY <1>4 DEF PushPeaks, InPush, SpuriousWake, Queue!CallPush, Queue!RTStep, Queue!Acquire,
              Queue!WaitNotFull, Queue!Block, Queue!Push, Queue!Unlock, Queue!NotifyOne,
              Queue!SpuriousWake
<1>5. CASE Main \/ GlobalSignalHandler \/ PeerCloses
  BY <1>5 DEF Main, StartRt, CreateNrt, MainReturns, GlobalSignalHandler, PeerCloses, queueVars
<1>6. CASE UNCHANGED vars
  BY <1>6 DEF vars, queueVars
<1> QED
  BY <1>2, <1>3, <1>4, <1>5, <1>6 DEF Next, RtTaskCallback, Ended

\* From the socket to the processing thread the program implements the abstract
\* channel, one place larger than its queue.
THEOREM ImplementsEndToEnd == Spec => EndToEndSpec
<1>1. Init => EndToEnd!Init
  BY DEF Init, Queue!Init, EndToEnd!Init
<1> QED
  BY <1>1, Inductive, EndToEndStep, PTL DEF Spec, EndToEndSpec, EndToEnd!Spec
=============================================================================
