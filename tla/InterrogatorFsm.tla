-------------------------- MODULE InterrogatorFsm --------------------------
(***************************************************************************)
(* The state machine that drives CInterrogator: processRTState of          *)
(* rt_interrogator_task.cpp, called once per period by rtTaskCallback.     *)
(* (nrtTaskInterrogator of FT_FBG.cpp is the same machine.)                *)
(*                                                                         *)
(*   INIT_STATE -> CONNECT_UDP -> ENABLE_PEAKS -> READ_PEAKS, repeated     *)
(*   a failed init():       INIT_STATE -> DISCONNECT_STATE -> INIT_STATE   *)
(*   a failed connectUDP(): CONNECT_UDP -> INIT_STATE                      *)
(*   a failed readPacket(): READ_PEAKS -> CONNECT_UDP                      *)
(*                                                                         *)
(* What becomes of a packet once it is read is left to the module that     *)
(* composes this one with its consumer: here ReadDone just goes on.        *)
(***************************************************************************)
EXTENDS CInterrogator

VARIABLE currentState

vars == <<currentState, ivars>>

States == {"INIT_STATE", "CONNECT_UDP", "ENABLE_PEAKS", "READ_PEAKS", "DISCONNECT_STATE"}

Init == InterrogatorInit /\ currentState = "INIT_STATE"

Enter(state) ==
  /\ currentState' = state
  /\ call' = "idle"
  /\ UNCHANGED <<fdTable, tcpSockfd, udpSockfd, udpState, streaming, process>>

\* case INIT_STATE: init() decides.
RunInit ==
  /\ currentState = "INIT_STATE"
  /\ call = "idle"
  /\ Enter(IF InitFails THEN "DISCONNECT_STATE" ELSE "CONNECT_UDP")

\* The other cases call a method ...
Begin ==
  /\ call = "idle"
  /\ \/ currentState = "CONNECT_UDP" /\ call' = "udpSocket"
     \/ currentState = "ENABLE_PEAKS" /\ call' = "enable"
     \/ currentState = "READ_PEAKS" /\ call' = "recv"
     \/ currentState = "DISCONNECT_STATE" /\ call' = "sendDisable"
  /\ UNCHANGED <<currentState, fdTable, tcpSockfd, udpSockfd, udpState, streaming, process>>

\* ... and go on by its result.
ConnectDone ==
  /\ currentState = "CONNECT_UDP"
  /\ call \in {"ok", "failed"}
  /\ Enter(IF call = "ok" THEN "ENABLE_PEAKS" ELSE "INIT_STATE")

EnableDone ==
  /\ currentState = "ENABLE_PEAKS"
  /\ call = "ok"
  /\ Enter("READ_PEAKS")

\* A failed readPacket() connects again without disconnecting first.
\* (Mutant: it disconnects first.)
ReadFailedDisconnects ==
  /\ currentState = "READ_PEAKS"
  /\ call = "failed"
  /\ Enter("DISCONNECT_STATE")

ReadFailed ==
  /\ currentState = "READ_PEAKS"
  /\ call = "failed"
  /\ Enter("CONNECT_UDP")

ReadDone ==
  /\ currentState = "READ_PEAKS"
  /\ call = "ok"
  /\ Enter("READ_PEAKS")

DisconnectDone ==
  /\ currentState = "DISCONNECT_STATE"
  /\ call = "ok"
  /\ Enter("INIT_STATE")

\* One step of the task, apart from the system calls of its methods.
Control ==
  RunInit \/ Begin \/ ConnectDone \/ EnableDone \/ ReadFailed \/ ReadDone \/ DisconnectDone

TaskStep == process = "running" /\ (Control \/ (MethodStep /\ UNCHANGED currentState))

EnvStep == process = "running" /\ (PeerCloses \/ ProcessEnds) /\ UNCHANGED currentState

\* Nothing happens in a process that has ended.
Ended == process # "running" /\ UNCHANGED vars

Next == TaskStep \/ EnvStep \/ Ended

Spec == Init /\ [][Next]_vars

\* The task is scheduled every period, and each of the system calls of
\* connectUDP succeeds in the end if it is tried over and over.
Fairness ==
  /\ WF_vars(TaskStep)
  /\ SF_vars(TaskStep /\ UdpSocketOk)
  /\ SF_vars(TaskStep /\ TcpSocketOk)
  /\ SF_vars(TaskStep /\ TcpConnectOk)
  /\ SF_vars(TaskStep /\ UdpBindOk)
  /\ SF_vars(TaskStep /\ SetTimeoutOk)

FairSpec == Spec /\ Fairness
----------------------------------------------------------------------------
TypeOK == InterrogatorTypeOK /\ currentState \in States

\* An open socket that neither member names any more: nothing can close it.
Orphan(fd) == fdTable[fd] \in SocketKinds /\ fd \notin {tcpSockfd, udpSockfd}

\* Port 51970 is held by a socket the class has forgotten.
PortLeaked == \E fd \in Fds : fdTable[fd] = "bound" /\ Orphan(fd)

\* connectUDP(), which closes by number what it has opened when a call fails,
\* still has the sockets of its own it has set up so far behind those numbers.
OwnWhileConnecting ==
  /\ call \in {"tcpSocket", "tcpConnect", "udpBind"} => Kind(udpSockfd) = "udp"
  /\ call = "tcpConnect" => Kind(tcpSockfd) = "tcp"
  /\ call = "udpBind" => Kind(tcpSockfd) \in Connected

\* Datagrams are enabled and awaited with a socket that holds port 51970 and a TCP
\* socket that has been connected.
OwnWhileReading ==
  currentState \in {"ENABLE_PEAKS", "READ_PEAKS"} =>
    /\ Kind(udpSockfd) = "bound"
    /\ Kind(tcpSockfd) \in Connected

\* Once connecting has been tried, disconnectUDP() sends and closes on sockets
\* that connectUDP() has set up completely, or else on stale numbers that are not
\* open.  (Before that, udpState is 255 and it uses whatever init() has found.)
OwnWhileDisconnecting ==
  (currentState = "DISCONNECT_STATE" /\ udpState # 255) =>
    /\ Kind(udpSockfd) \in {"bound", "closed"}
    /\ Kind(tcpSockfd) \in Connected \cup {"closed"}

\* Whatever fails, the task uses no socket half set up and no descriptor of
\* anything else, except in a disconnectUDP() before it has tried to connect.
UsesOwnSockets == OwnWhileConnecting /\ OwnWhileReading /\ OwnWhileDisconnecting

\* The error paths leak nothing, except by way of READ_PEAKS -> CONNECT_UDP,
\* and that way they leak one pair of sockets at most however long they run.
LeakIsOnePair ==
  /\ \A f \in Fds : Orphan(f) => PortLeaked /\ fdTable[f] \in {"bound"} \cup Connected
  /\ \A f, g \in Fds : /\ Orphan(f) /\ Orphan(g)
                       /\ (fdTable[f] = "bound") <=> (fdTable[g] = "bound")
                       => f = g

\* After the failed receive that leaked the port the task never gets back to
\* ENABLE_PEAKS or READ_PEAKS: every later bind() finds the port taken.
DeafOnceLeaked == PortLeaked => currentState \notin {"ENABLE_PEAKS", "READ_PEAKS"}

\* No step closes a leaked port again, not even disconnectUDP().
LeakIsPermanent == [][PortLeaked => PortLeaked']_vars

\* As long as the port is not leaked the task always gets back to reading,
\* whatever fails on the way and whatever the members held at the start.
AlwaysReadsAgain ==
  []<>(currentState = "READ_PEAKS" \/ PortLeaked \/ process # "running")

\* One receive that fails is enough: the port is leaked from then on.
FailedReceiveLeaks ==
  (currentState = "READ_PEAKS" /\ call = "failed") ~> [](PortLeaked \/ process # "running")

\* So is one enable command that gets lost: as its result is not looked at, the
\* task awaits datagrams that nobody sends, and then connects as if it had none.
LostEnableLeaks ==
  (currentState = "ENABLE_PEAKS" /\ call = "ok" /\ streaming = "off")
    ~> [](PortLeaked \/ process # "running")
=============================================================================
