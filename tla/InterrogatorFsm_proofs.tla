----------------------- MODULE InterrogatorFsm_proofs -----------------------
(***************************************************************************)
(* Proofs about InterrogatorFsm, for any number of descriptors, whatever   *)
(* the process has open besides, and whatever the uninitialised members    *)
(* hold.  The safety properties are not inductive: the reason why a read   *)
(* finds its own sockets lies in every earlier step of connectUDP, and the *)
(* reason why no more than one pair leaks in what CONNECT_UDP starts from. *)
(* IInv says both.                                                         *)
(***************************************************************************)
EXTENDS InterrogatorFsm, TLAPS

\* Each method runs in the state that calls it.
CallsInState ==
  /\ call \in ConnectSteps => currentState = "CONNECT_UDP"
  /\ call \in DisconnectSteps => currentState = "DISCONNECT_STATE"
  /\ call = "enable" => currentState = "ENABLE_PEAKS"
  /\ call = "recv" => currentState = "READ_PEAKS"
  /\ call = "failed" => currentState \in {"CONNECT_UDP", "READ_PEAKS"}
  /\ call = "ok" => currentState # "INIT_STATE"

\* Both sockets are set up and named by the members.
Ready == Kind(udpSockfd) = "bound" /\ Kind(tcpSockfd) \in Connected

\* connectUDP is about to create its first socket.
AtConnect == currentState = "CONNECT_UDP" /\ call \in {"idle", "udpSocket"}

\* What has been set up by each step of connectUDP, and what it starts from:
\* nothing, or the sockets of the connection whose receive has failed.
SetUp ==
  /\ AtConnect => Ready \/ (tcpSockfd < 0 /\ udpSockfd < 0)
  /\ call \in {"tcpSocket", "tcpConnect", "udpBind"} => Kind(udpSockfd) = "udp"
  /\ call = "tcpConnect" => Kind(tcpSockfd) = "tcp"
  /\ call = "udpBind" => Kind(tcpSockfd) \in Connected
  /\ \/ call = "setTimeout"
     \/ currentState = "CONNECT_UDP" /\ call = "ok"
     \/ currentState \in {"ENABLE_PEAKS", "READ_PEAKS"}
     => Ready

\* Where each kind of socket can be found.
Sockets ==
  /\ \A f \in Fds : fdTable[f] = "udp" =>
       f = udpSockfd /\ call \in {"tcpSocket", "tcpConnect", "udpBind"}
  /\ \A f \in Fds : fdTable[f] = "tcp" => f = tcpSockfd /\ call = "tcpConnect"
  /\ \A f \in Fds : fdTable[f] = "bound" => f # tcpSockfd
  /\ \A f \in Fds : fdTable[f] \in Connected => f # udpSockfd
  /\ \A f, g \in Fds : fdTable[f] = "bound" /\ fdTable[g] = "bound" => f = g

\* A socket is orphaned only along with the port, and connectUDP drops a
\* connected TCP socket only if that is the only one.
Orphans ==
  /\ \A f \in Fds : Orphan(f) => PortLeaked
  /\ (call = "tcpSocket" /\ Kind(tcpSockfd) \in Connected) => PortLeaked
  /\ (AtConnect \/ call = "tcpSocket") =>
       \A f \in Fds : (fdTable[f] \in Connected /\ Kind(tcpSockfd) \in Connected)
                        => f = tcpSockfd
  /\ \A f, g \in Fds : /\ Orphan(f) /\ Orphan(g)
                       /\ fdTable[f] \in Connected /\ fdTable[g] \in Connected
                       => f = g

\* From a failed connectUDP to the disconnectUDP it leads to, what the members
\* name is a socket set up completely or not open.
Leftover ==
  \/ currentState \in {"INIT_STATE", "DISCONNECT_STATE"} /\ udpState # 255
  \/ currentState = "CONNECT_UDP" /\ call = "failed"
  => /\ Kind(udpSockfd) \in {"bound", "closed"}
     /\ Kind(tcpSockfd) \in Connected \cup {"closed"}

\* The inductive invariant.
IInv == TypeOK /\ CallsInState /\ SetUp /\ Sockets /\ Orphans /\ Leftover

LEMMA InitIInv == Init => IInv
<1> SUFFICES ASSUME Init PROVE IInv
  OBVIOUS
<1> USE DEF Init, InterrogatorInit
<1>1. TypeOK
  BY DescriptorAssumption DEF TypeOK, InterrogatorTypeOK, FdKinds, SocketKinds, States, Calls
<1>2. \A f \in Fds : fdTable[f] \notin SocketKinds
  BY DEF SocketKinds, Connected
<1>3. CallsInState /\ SetUp /\ Leftover
  BY DEF CallsInState, SetUp, Leftover, AtConnect, ConnectSteps, DisconnectSteps
<1>4. Sockets /\ Orphans
  BY <1>2 DEF Sockets, Orphans, Orphan, AtConnect, SocketKinds, Connected
<1> QED
  BY <1>1, <1>3, <1>4 DEF IInv

\* The steps of connectUDP, and those of the other methods.
ConnectStep ==
  \/ UdpSocketOk \/ UdpSocketFails \/ TcpSocketOk \/ TcpSocketFails
  \/ TcpConnectOk \/ TcpConnectFails \/ UdpBindOk \/ UdpBindFails
  \/ SetTimeoutOk \/ SetTimeoutFails

OtherStep ==
  EnablePeakDatagrams \/ RecvOk \/ RecvFails \/ SendDisable \/ CloseTcp \/ CloseUdp

\* connectUDP sets up one socket after the other and undoes what it did on failure.
LEMMA ConnectIInv == IInv /\ ConnectStep /\ UNCHANGED currentState => IInv'
<1> SUFFICES ASSUME IInv, ConnectStep, UNCHANGED currentState PROVE IInv'
  OBVIOUS
<1> USE DescriptorAssumption
    DEF IInv, TypeOK, InterrogatorTypeOK, AtConnect, Ready, Kind, Fds, SocketKinds, Connected,
        ConnectSteps, DisconnectSteps
<1>1. CASE UdpSocketOk
  <2> USE <1>1 DEF UdpSocketOk, LowestFree
  <2>1. TypeOK'
    BY DEF Calls, States, FdKinds
  <2>2. CallsInState'
    BY DEF CallsInState, Calls, ConnectSteps, DisconnectSteps
  <2>3. SetUp'
    BY DEF SetUp, CallsInState
  <2>4. Sockets'
    BY DEF Sockets, SetUp
  <2>5. Orphans'
    <3> USE DEF TypeOK, InterrogatorTypeOK, Kind, Fds, SocketKinds, Connected
    <3>1. PICK fd \in Fds : /\ fdTable[fd] = "closed"
                            /\ udpSockfd' = fd
                            /\ fdTable' = [fdTable EXCEPT ![fd] = "udp"]
      OBVIOUS
    <3>2. AtConnect /\ ~AtConnect'
      BY DEF AtConnect, CallsInState, ConnectSteps
    <3>3. CASE Ready
      <4>1. /\ udpSockfd \in Fds /\ udpSockfd # fd /\ udpSockfd # tcpSockfd'
            /\ fdTable'[udpSockfd] = "bound"
        BY <3>1, <3>3 DEF Ready, Sockets
      <4>2. PortLeaked'
        BY <3>1, <4>1 DEF PortLeaked, Orphan
      <4>3. \A f \in Fds : fdTable'[f] \in Connected => fdTable[f] \in Connected
        BY <3>1
      <4>4. \A f \in Fds : Orphan(f)' /\ fdTable'[f] \in Connected => FALSE
        BY <3>1, <3>2, <3>3, <4>3 DEF Ready, Orphans, Orphan
      <4> QED
        BY <3>1, <3>2, <4>2, <4>3, <4>4 DEF Orphans, Orphan
    <3>4. CASE tcpSockfd < 0 /\ udpSockfd < 0
      <4>1. \A f \in Fds : Orphan(f)' => Orphan(f)
        BY <3>1, <3>4 DEF Orphan
      <4>2. \A f \in Fds : Orphan(f) => Orphan(f)' /\ fdTable'[f] = fdTable[f]
        BY <3>1, <3>4 DEF Orphan
      <4>3. PortLeaked => PortLeaked'
        BY <4>2 DEF PortLeaked
      <4> QED
        BY <3>1, <3>2, <3>4, <4>1, <4>2, <4>3 DEF Orphans
    <3> QED
      BY <3>2, <3>3, <3>4 DEF SetUp
  <2>6. Leftover'
    BY DEF Leftover, CallsInState
  <2> QED
    BY <2>1, <2>2, <2>3, <2>4, <2>5, <2>6
<1>2. CASE UdpSocketFails
  <2> USE <1>2 DEF UdpSocketFails, SetUp
  <2>1. TypeOK' /\ CallsInState'
    BY DEF CallsInState, Calls, States, FdKinds
  <2>2. SetUp' /\ Sockets'
    BY DEF CallsInState, Sockets
  <2>3. Orphans'
    BY DEF Sockets, Orphans, Orphan, PortLeaked
  <2>4. Leftover'
    BY DEF Leftover, CallsInState
  <2> QED
    BY <2>1, <2>2, <2>3, <2>4
<1>3. CASE TcpSocketOk
  <2> USE <1>3 DEF TcpSocketOk, LowestFree, SetUp
  <2>1. TypeOK' /\ CallsInState'
    BY DEF CallsInState, Calls, States, FdKinds
  <2>2. SetUp' /\ Sockets'
    BY DEF CallsInState, Sockets
  <2>3. Orphans'
    BY DEF Sockets, Orphans, Orphan, PortLeaked
  <2>4. Leftover'
    BY DEF Leftover, CallsInState
  <2> QED
    BY <2>1, <2>2, <2>3, <2>4
<1>4. CASE TcpSocketFails
  <2> USE <1>4 DEF TcpSocketFails, Closing, SetUp
  <2>1. TypeOK' /\ CallsInState'
    BY DEF CallsInState, Calls, States, FdKinds
  <2>2. SetUp' /\ Sockets'
    BY DEF CallsInState, Sockets
  <2>3. Orphans'
    BY DEF Sockets, Orphans, Orphan, PortLeaked
  <2>4. Leftover'
    BY DEF Leftover, CallsInState
  <2> QED
    BY <2>1, <2>2, <2>3, <2>4
<1>5. CASE TcpConnectOk
  <2> USE <1>5 DEF TcpConnectOk, SetUp
  <2>1. TypeOK' /\ CallsInState'
    BY DEF CallsInState, Calls, States, FdKinds
  <2>2. SetUp' /\ Sockets'
    BY DEF CallsInState, Sockets
  <2>3. Orphans'
    BY DEF Sockets, Orphans, Orphan, PortLeaked
  <2>4. Leftover'
    BY DEF Leftover, CallsInState
  <2> QED
    BY <2>1, <2>2, <2>3, <2>4
<1>6. CASE TcpConnectFails
  <2> USE <1>6 DEF TcpConnectFails, CloseBothAndFail, Closing, SetUp
  <2>1. TypeOK' /\ CallsInState'
    BY DEF CallsInState, Calls, States, FdKinds
  <2>2. SetUp' /\ Sockets'
    BY DEF CallsInState, Sockets
  <2>3. Orphans'
    BY DEF Sockets, Orphans, Orphan, PortLeaked
  <2>4. Leftover'
    BY DEF Leftover, CallsInState
  <2> QED
    BY <2>1, <2>2, <2>3, <2>4
<1>7. CASE UdpBindOk
  <2> USE <1>7 DEF UdpBindOk, SetUp
  <2>1. TypeOK' /\ CallsInState'
    BY DEF CallsInState, Calls, States, FdKinds
  <2>2. SetUp' /\ Sockets'
    BY DEF CallsInState, Sockets
  <2>3. Orphans'
    BY DEF Sockets, Orphans, Orphan, PortLeaked
  <2>4. Leftover'
    BY DEF Leftover, CallsInState
  <2> QED
    BY <2>1, <2>2, <2>3, <2>4
<1>8. CASE UdpBindFails
  <2> USE <1>8 DEF UdpBindFails, CloseBothAndFail, Closing, SetUp
  <2>1. TypeOK' /\ CallsInState'
    BY DEF CallsInState, Calls, States, FdKinds
  <2>2. SetUp' /\ Sockets'
    BY DEF CallsInState, Sockets
  <2>3. Orphans'
    BY DEF Sockets, Orphans, Orphan, PortLeaked
  <2>4. Leftover'
    BY DEF Leftover, CallsInState
  <2> QED
    BY <2>1, <2>2, <2>3, <2>4
<1>9. CASE SetTimeoutOk
  <2> USE <1>9 DEF SetTimeoutOk, SetUp, CallsInState
  <2>1. TypeOK' /\ CallsInState' /\ SetUp'
    BY DEF Calls, States, FdKinds
  <2>2. Sockets' /\ Orphans'
    BY DEF Sockets, Orphans, Orphan, PortLeaked
  <2>3. Leftover'
    BY DEF Leftover
  <2> QED
    BY <2>1, <2>2, <2>3
<1>10. CASE SetTimeoutFails
  <2> USE <1>10 DEF SetTimeoutFails, SetUp, CallsInState
  <2>1. TypeOK' /\ CallsInState' /\ SetUp'
    BY DEF Calls, States, FdKinds
  <2>2. Sockets' /\ Orphans'
    BY DEF Sockets, Orphans, Orphan, PortLeaked
  <2>3. Leftover'
    BY DEF Leftover
  <2> QED
    BY <2>1, <2>2, <2>3
<1> QED
  BY <1>1, <1>2, <1>3, <1>4, <1>5, <1>6, <1>7, <1>8, <1>9, <1>10 DEF ConnectStep

\* enablePeakDatagrams and readPacket leave the sockets alone; disconnectUDP closes them.
LEMMA OtherIInv == IInv /\ OtherStep /\ UNCHANGED currentState => IInv'
<1> SUFFICES ASSUME IInv, OtherStep, UNCHANGED currentState PROVE IInv'
  OBVIOUS
<1> USE DescriptorAssumption
    DEF IInv, TypeOK, InterrogatorTypeOK, AtConnect, Ready, Kind, Fds, SocketKinds, Connected,
        ConnectSteps, DisconnectSteps
<1>1. CASE EnablePeakDatagrams
  <2> USE <1>1 DEF EnablePeakDatagrams, WriteCommand
  <2>1. TypeOK'
    <3>1. streaming' \in {"off", "on", "rest"}
      BY DEF Ebbed
    <3> QED
      BY <3>1 DEF Calls, States, FdKinds
  <2>2. CallsInState'
    BY DEF CallsInState, Calls, ConnectSteps, DisconnectSteps
  <2>3. SetUp'
    BY DEF SetUp, CallsInState
  <2>4. Sockets'
    BY DEF Sockets, SetUp
  <2>5. Orphans'
    BY DEF SetUp, Sockets, Orphans, Orphan, PortLeaked
  <2>6. Leftover'
    BY DEF Leftover, CallsInState
  <2> QED
    BY <2>1, <2>2, <2>3, <2>4, <2>5, <2>6
<1>2. CASE RecvOk
  <2> USE <1>2 DEF RecvOk, SetUp, CallsInState
  <2>1. TypeOK' /\ CallsInState' /\ SetUp'
    BY DEF Calls, States, FdKinds
  <2>2. Sockets' /\ Orphans'
    BY DEF Sockets, Orphans, Orphan, PortLeaked
  <2>3. Leftover'
    BY DEF Leftover
  <2> QED
    BY <2>1, <2>2, <2>3
<1>3. CASE RecvFails
  <2> USE <1>3 DEF RecvFails, SetUp, CallsInState
  <2>1. TypeOK' /\ CallsInState' /\ SetUp'
    BY DEF Calls, States, FdKinds
  <2>2. Sockets' /\ Orphans'
    BY DEF Sockets, Orphans, Orphan, PortLeaked
  <2>3. Leftover'
    BY DEF Leftover
  <2> QED
    BY <2>1, <2>2, <2>3
<1>4. CASE SendDisable
  <2> USE <1>4 DEF SendDisable, WriteCommand
  <2>1. TypeOK'
    <3>1. streaming' \in {"off", "on", "rest"}
      BY DEF Ebbed
    <3> QED
      BY <3>1 DEF Calls, States, FdKinds
  <2>2. CallsInState'
    BY DEF CallsInState, Calls, ConnectSteps, DisconnectSteps
  <2>3. SetUp'
    BY DEF SetUp, CallsInState
  <2>4. Sockets'
    BY DEF Sockets, SetUp
  <2>5. Orphans'
    BY DEF SetUp, Sockets, Orphans, Orphan, PortLeaked
  <2>6. Leftover'
    BY DEF Leftover, CallsInState
  <2> QED
    BY <2>1, <2>2, <2>3, <2>4, <2>5, <2>6
<1>5. CASE CloseTcp
  <2> USE <1>5 DEF CloseTcp, Closing, SetUp
  <2>1. TypeOK' /\ CallsInState'
    BY DEF CallsInState, Calls, States, FdKinds
  <2>2. SetUp' /\ Sockets'
    BY DEF CallsInState, Sockets
  <2>3. Orphans'
    BY DEF Sockets, Orphans, Orphan, PortLeaked
  <2>4. Leftover'
    BY DEF Leftover, CallsInState
  <2> QED
    BY <2>1, <2>2, <2>3, <2>4
<1>6. CASE CloseUdp
  <2> USE <1>6 DEF CloseUdp, Closing, SetUp
  <2>1. TypeOK' /\ CallsInState'
    BY DEF CallsInState, Calls, States, FdKinds
  <2>2. SetUp' /\ Sockets'
    BY DEF CallsInState, Sockets
  <2>3. Orphans'
    BY DEF Sockets, Orphans, Orphan, PortLeaked
  <2>4. Leftover'
    BY DEF Leftover, CallsInState
  <2> QED
    BY <2>1, <2>2, <2>3, <2>4
<1> QED
  BY <1>1, <1>2, <1>3, <1>4, <1>5, <1>6 DEF OtherStep

\* The state machine itself changes no socket, only what is to be done next.
LEMMA ControlIInv == IInv /\ Control => IInv'
<1> SUFFICES ASSUME IInv, Control PROVE IInv'
  OBVIOUS
<1> USE DescriptorAssumption
    DEF IInv, TypeOK, InterrogatorTypeOK, AtConnect, Ready, Kind, Fds, SocketKinds, Connected,
        ConnectSteps, DisconnectSteps
<1>1. CASE RunInit
  <2> USE <1>1 DEF RunInit, Enter, InitFails, SetUp, CallsInState
  <2>1. TypeOK' /\ CallsInState' /\ SetUp'
    BY DEF Calls, States, FdKinds
  <2>2. Sockets' /\ Orphans'
    BY DEF Sockets, Orphans, Orphan, PortLeaked
  <2>3. Leftover'
    BY DEF Leftover
  <2> QED
    BY <2>1, <2>2, <2>3
<1>2. CASE Begin
  <2> USE <1>2 DEF Begin, SetUp, CallsInState
  <2>1. TypeOK' /\ CallsInState' /\ SetUp'
    BY DEF Calls, States, FdKinds
  <2>2. Sockets' /\ Orphans'
    BY DEF Sockets, Orphans, Orphan, PortLeaked
  <2>3. Leftover'
    BY DEF Leftover
  <2> QED
    BY <2>1, <2>2, <2>3
<1>3. CASE ConnectDone
  <2> USE <1>3 DEF ConnectDone, Enter, SetUp, CallsInState
  <2>1. TypeOK' /\ CallsInState' /\ SetUp'
    BY DEF Calls, States, FdKinds
  <2>2. Sockets' /\ Orphans'
    BY DEF Sockets, Orphans, Orphan, PortLeaked
  <2>3. Leftover'
    BY DEF Leftover
  <2> QED
    BY <2>1, <2>2, <2>3
<1>4. CASE EnableDone
  <2> USE <1>4 DEF EnableDone, Enter, SetUp, CallsInState
  <2>1. TypeOK' /\ CallsInState' /\ SetUp'
    BY DEF Calls, States, FdKinds
  <2>2. Sockets' /\ Orphans'
    BY DEF Sockets, Orphans, Orphan, PortLeaked
  <2>3. Leftover'
    BY DEF Leftover
  <2> QED
    BY <2>1, <2>2, <2>3
<1>5. CASE ReadFailed
  <2> USE <1>5 DEF ReadFailed, Enter, SetUp, CallsInState
  <2>1. TypeOK' /\ CallsInState' /\ SetUp'
    BY DEF Calls, States, FdKinds
  <2>2. Sockets' /\ Orphans'
    BY DEF Sockets, Orphans, Orphan, PortLeaked
  <2>3. Leftover'
    BY DEF Leftover
  <2> QED
    BY <2>1, <2>2, <2>3
<1>6. CASE ReadDone
  <2> USE <1>6 DEF ReadDone, Enter, SetUp, CallsInState
  <2>1. TypeOK' /\ CallsInState' /\ SetUp'
    BY DEF Calls, States, FdKinds
  <2>2. Sockets' /\ Orphans'
    BY DEF Sockets, Orphans, Orphan, PortLeaked
  <2>3. Leftover'
    BY DEF Leftover
  <2> QED
    BY <2>1, <2>2, <2>3
<1>7. CASE DisconnectDone
  <2> USE <1>7 DEF DisconnectDone, Enter, SetUp, CallsInState
  <2>1. TypeOK' /\ CallsInState' /\ SetUp'
    BY DEF Calls, States, FdKinds
  <2>2. Sockets' /\ Orphans'
    BY DEF Sockets, Orphans, Orphan, PortLeaked
  <2>3. Leftover'
    BY DEF Leftover
  <2> QED
    BY <2>1, <2>2, <2>3
<1> QED
  BY <1>1, <1>2, <1>3, <1>4, <1>5, <1>6, <1>7 DEF Control

\* The peer can take a connection away but not a socket.
LEMMA EnvIInv == IInv /\ (PeerCloses \/ ProcessEnds) /\ UNCHANGED currentState => IInv'
<1> SUFFICES ASSUME IInv, (PeerCloses \/ ProcessEnds), UNCHANGED currentState PROVE IInv'
  OBVIOUS
<1> USE DescriptorAssumption
    DEF IInv, TypeOK, InterrogatorTypeOK, AtConnect, Ready, Kind, Fds, SocketKinds, Connected,
        ConnectSteps, DisconnectSteps
<1>1. CASE PeerCloses
  <2> USE <1>1 DEF PeerCloses
  <2>1. TypeOK'
    <3>1. streaming' \in {"off", "on", "rest"}
      BY DEF Ebbed
    <3> QED
      BY <3>1 DEF Calls, States, FdKinds
  <2>2. CallsInState'
    BY DEF CallsInState, Calls, ConnectSteps, DisconnectSteps
  <2>3. SetUp'
    BY DEF SetUp, CallsInState
  <2>4. Sockets'
    BY DEF Sockets, SetUp
  <2>5. Orphans'
    BY DEF SetUp, Sockets, Orphans, Orphan, PortLeaked
  <2>6. Leftover'
    BY DEF Leftover
  <2> QED
    BY <2>1, <2>2, <2>3, <2>4, <2>5, <2>6
<1>2. CASE ProcessEnds
  <2> USE <1>2 DEF ProcessEnds, SetUp, CallsInState
  <2>1. TypeOK' /\ CallsInState' /\ SetUp'
    BY DEF Calls, States, FdKinds
  <2>2. Sockets' /\ Orphans'
    BY DEF Sockets, Orphans, Orphan, PortLeaked
  <2>3. Leftover'
    BY DEF Leftover
  <2> QED
    BY <2>1, <2>2, <2>3
<1> QED
  BY <1>1, <1>2

LEMMA StutterIInv == IInv /\ UNCHANGED vars => IInv'
  BY DEF vars, ivars, IInv, TypeOK, InterrogatorTypeOK, CallsInState, SetUp, AtConnect, Ready,
         Kind, Sockets, Orphans, Orphan, PortLeaked, Leftover

LEMMA NextIInv == IInv /\ [Next]_vars => IInv'
<1> SUFFICES ASSUME IInv, [Next]_vars PROVE IInv'
  OBVIOUS
<1>1. CASE TaskStep
  BY <1>1, ConnectIInv, OtherIInv, ControlIInv
     DEF TaskStep, MethodStep, ConnectStep, OtherStep
<1>2. CASE EnvStep
  BY <1>2, EnvIInv DEF EnvStep
<1>3. CASE UNCHANGED vars
  BY <1>3, StutterIInv
<1> QED
  BY <1>1, <1>2, <1>3 DEF Next, Ended

\* The inductive invariant holds in every execution of the state machine.
THEOREM Inductive == Spec => []IInv
  BY InitIInv, NextIInv, PTL DEF Spec

\* The descriptor table, the members and the state machine keep their types.
THEOREM TypeCorrect == Spec => []TypeOK
  BY Inductive, PTL DEF IInv

LEMMA UsesOwn == IInv => UsesOwnSockets
  BY DEF IInv, SetUp, Ready, Leftover, UsesOwnSockets, OwnWhileConnecting, OwnWhileReading,
         OwnWhileDisconnecting

\* Whatever the members held at the start and whichever calls failed since, the
\* task uses sockets of its own, once it has tried to connect.
THEOREM OwnSockets == Spec => []UsesOwnSockets
  BY Inductive, UsesOwn, PTL

LEMMA OnePair == IInv => LeakIsOnePair
<1> SUFFICES ASSUME IInv PROVE LeakIsOnePair
  OBVIOUS
<1>1. ASSUME NEW f \in Fds, Orphan(f)
      PROVE  PortLeaked /\ fdTable[f] \in {"bound"} \cup Connected
  BY <1>1 DEF IInv, Orphans, Orphan, Sockets, SocketKinds
<1>2. ASSUME NEW f \in Fds, NEW g \in Fds, Orphan(f), Orphan(g),
             (fdTable[f] = "bound") <=> (fdTable[g] = "bound")
      PROVE  f = g
  BY <1>1, <1>2 DEF IInv, Orphans, Sockets
<1> QED
  BY <1>1, <1>2 DEF LeakIsOnePair

\* However long connecting goes wrong, the process loses one UDP and one TCP
\* socket at most, and only by a receive that failed.
THEOREM LeakBounded == Spec => []LeakIsOnePair
  BY Inductive, OnePair, PTL

LEMMA LeakedIsDeaf == IInv => DeafOnceLeaked
  BY DEF IInv, SetUp, Ready, Kind, Sockets, Orphan, PortLeaked, DeafOnceLeaked

\* Once the port is leaked the task never reads again.
THEOREM Deaf == Spec => []DeafOnceLeaked
  BY Inductive, LeakedIsDeaf, PTL

LEMMA LeakStays == IInv /\ [Next]_vars => (PortLeaked => PortLeaked')
<1> SUFFICES ASSUME IInv, [Next]_vars, PortLeaked PROVE PortLeaked'
  OBVIOUS
<1>1. PICK fd \in Fds : fdTable[fd] = "bound" /\ fd # tcpSockfd /\ fd # udpSockfd
  BY DEF PortLeaked, Orphan
<1>2. fdTable \in [Fds -> FdKinds]
  BY DEF IInv, TypeOK, InterrogatorTypeOK
<1> SUFFICES fdTable'[fd] = "bound" /\ fd # tcpSockfd' /\ fd # udpSockfd'
  BY DEF PortLeaked, Orphan, SocketKinds
<1> USE <1>1, <1>2
<1>3. CASE ConnectStep
  <2>1. CASE UdpSocketOk
    BY <2>1 DEF UdpSocketOk, LowestFree
  <2>2. CASE UdpSocketFails
    BY <2>2 DEF UdpSocketFails, Fds
  <2>3. CASE TcpSocketOk
    BY <2>3 DEF TcpSocketOk, LowestFree
  <2>4. CASE TcpSocketFails
    BY <2>4 DEF TcpSocketFails, Closing, Fds
  <2>5. CASE TcpConnectOk
    BY <2>5 DEF TcpConnectOk
  <2>6. CASE TcpConnectFails
    BY <2>6 DEF TcpConnectFails, CloseBothAndFail, Closing
  <2>7. CASE UdpBindOk
    BY <2>7 DEF UdpBindOk
  <2>8. CASE UdpBindFails
    BY <2>8 DEF UdpBindFails, CloseBothAndFail, Closing
  <2>9. CASE SetTimeoutOk \/ SetTimeoutFails
    BY <2>9 DEF SetTimeoutOk, SetTimeoutFails
  <2> QED
    BY <1>3, <2>1, <2>2, <2>3, <2>4, <2>5, <2>6, <2>7, <2>8, <2>9 DEF ConnectStep
<1>4. CASE OtherStep
  <2>1. CASE CloseTcp
    <3>1. CASE tcpSockfd >= 0
      BY <2>1, <3>1 DEF CloseTcp, Closing, Fds
    <3>2. CASE ~(tcpSockfd >= 0)
      BY <2>1, <3>2 DEF CloseTcp
    <3> QED
      BY <3>1, <3>2
  <2>2. CASE CloseUdp
    <3>1. CASE udpSockfd >= 0
      BY <2>2, <3>1 DEF CloseUdp, Closing, Fds
    <3>2. CASE ~(udpSockfd >= 0)
      BY <2>2, <3>2 DEF CloseUdp
    <3> QED
      BY <3>1, <3>2
  <2>3. CASE EnablePeakDatagrams \/ RecvOk \/ RecvFails \/ SendDisable
    BY <2>3 DEF EnablePeakDatagrams, RecvOk, RecvFails, SendDisable
  <2> QED
    BY <1>4, <2>1, <2>2, <2>3 DEF OtherStep
<1>5. CASE Control
  BY <1>5 DEF Control, RunInit, Begin, ConnectDone, EnableDone, ReadFailed, ReadDone,
              DisconnectDone, Enter
<1>6. CASE PeerCloses \/ ProcessEnds
  BY <1>6 DEF PeerCloses, ProcessEnds
<1>7. CASE UNCHANGED vars
  BY <1>7 DEF vars, ivars
<1> QED
  BY <1>3, <1>4, <1>5, <1>6, <1>7
     DEF Next, TaskStep, EnvStep, Ended, MethodStep, ConnectStep, OtherStep

\* Nothing the program does, disconnectUDP() included, gives a leaked port back.
THEOREM LeakForGood == Spec => LeakIsPermanent
  BY Inductive, LeakStays, PTL DEF Spec, LeakIsPermanent
=============================================================================
