--------------------------- MODULE CInterrogator ---------------------------
(***************************************************************************)
(* class CInterrogator of linux_CInterrogator.cpp, as far as connections   *)
(* go: the methods that open, use and close its TCP and UDP sockets, one   *)
(* action per system call, over the table of file descriptors the calls    *)
(* work on.  The programs that use the class (and decide which method runs *)
(* next) are modelled in modules that extend this one: they start a method *)
(* by moving call from "idle" to the method's first step, and go on when   *)
(* call is "ok" or "failed", the method's result.                          *)
(*                                                                         *)
(* connectUDP:    "udpSocket" "tcpSocket" "tcpConnect" "udpBind" "setTimeout" *)
(* disconnectUDP: "sendDisable" "closeTcp" "closeUdp"                      *)
(* enablePeakDatagrams: "enable"                                           *)
(* readPacket:    "recv"                                                   *)
(*                                                                         *)
(* Not modelled here: the payload of commands and datagrams, the log       *)
(* output, and the member fconnectUDP, which nothing ever sets or reads.   *)
(***************************************************************************)
EXTENDS Integers

CONSTANTS
  MaxFd,    \* largest file descriptor the process may have
  Garbage,  \* what the uninitialised members tcpSockfd and udpSockfd may hold
  Foreign   \* descriptors the process has open for something else

ASSUME DescriptorAssumption ==
  /\ MaxFd \in Nat
  /\ Garbage \subseteq Int
  /\ Foreign \subseteq 0..MaxFd

VARIABLES
  fdTable,    \* what each file descriptor of the process refers to
  tcpSockfd,  \* the members that hold the two descriptors
  udpSockfd,
  udpState,   \* the member that reports how connecting went
  streaming,  \* "on": the interrogator sends peak datagrams to this host;
              \* "rest": it has stopped, but some may not have been received yet
  call,       \* next step of the method under way, or its result
  process     \* "running", "exited", or "killed" by a signal such as SIGPIPE

ivars == <<fdTable, tcpSockfd, udpSockfd, udpState, streaming, call, process>>

Fds == 0..MaxFd

\* TCP sockets with a connection: to a peer, or to one that has gone.
Connected == {"conn", "dead"}

\* "udp": a fresh UDP socket; "bound": one bound to port 51970; "tcp": a TCP
\* socket not connected.
SocketKinds == {"udp", "bound", "tcp"} \cup Connected

\* "log": a log file the program writes; "foreign": anything else.
FdKinds == {"closed", "foreign", "log"} \cup SocketKinds

ConnectSteps == {"udpSocket", "tcpSocket", "tcpConnect", "udpBind", "setTimeout"}
DisconnectSteps == {"sendDisable", "closeTcp", "closeUdp"}
Calls == ConnectSteps \cup DisconnectSteps \cup {"idle", "enable", "recv", "ok", "failed"}

\* What a descriptor number refers to: any number may be passed to a system
\* call, and most of them are not open.
Kind(fd) == IF fd \in Fds THEN fdTable[fd] ELSE "closed"

\* The table once the descriptors of a set have been passed to close().
Closing(fds) == [f \in Fds |-> IF f \in fds THEN "closed" ELSE fdTable[f]]

\* The descriptor socket() returns: the lowest one free.
LowestFree(fd) ==
  /\ fd \in Fds
  /\ fdTable[fd] = "closed"
  /\ \A g \in Fds : fdTable[g] = "closed" => fd <= g

\* The members that hold the descriptors have no initialiser.
InterrogatorInit ==
  /\ fdTable = [f \in Fds |-> IF f \in Foreign THEN "foreign" ELSE "closed"]
  /\ tcpSockfd \in Garbage
  /\ udpSockfd \in Garbage
  /\ udpState = 255
  /\ streaming = "off"
  /\ call = "idle"
  /\ process = "running"

----------------------------------------------------------------------------
\* init(): fails if a member looks like an open descriptor; it closes nothing.
\* (Mutant: descriptor 0 is taken for none.)
InitFailsAboveZero == tcpSockfd > 0 \/ udpSockfd > 0

InitFails == tcpSockfd >= 0 \/ udpSockfd >= 0

----------------------------------------------------------------------------
\* connectUDP(): socket(AF_INET, SOCK_DGRAM).  Whatever udpSockfd held before
\* is overwritten, not closed.
UdpSocketOk ==
  /\ call = "udpSocket"
  /\ \E fd \in Fds :
       /\ LowestFree(fd)
       /\ udpSockfd' = fd
       /\ fdTable' = [fdTable EXCEPT ![fd] = "udp"]
  /\ call' = "tcpSocket"
  /\ UNCHANGED <<tcpSockfd, udpState, streaming, process>>

\* (Mutant: the member gets -EMFILE instead of -1.)
UdpSocketFailsErrno ==
  /\ call = "udpSocket"
  /\ udpSockfd' = -24
  /\ udpState' = 1
  /\ call' = "failed"
  /\ UNCHANGED <<fdTable, tcpSockfd, streaming, process>>

UdpSocketFails ==
  /\ call = "udpSocket"
  /\ udpSockfd' = -1
  /\ udpState' = 1
  /\ call' = "failed"
  /\ UNCHANGED <<fdTable, tcpSockfd, streaming, process>>

\* connectUDP(): socket(AF_INET, SOCK_STREAM), overwriting tcpSockfd.
TcpSocketOk ==
  /\ call = "tcpSocket"
  /\ \E fd \in Fds :
       /\ LowestFree(fd)
       /\ tcpSockfd' = fd
       /\ fdTable' = [fdTable EXCEPT ![fd] = "tcp"]
  /\ call' = "tcpConnect"
  /\ UNCHANGED <<udpSockfd, udpState, streaming, process>>

TcpSocketFails ==
  /\ call = "tcpSocket"
  /\ tcpSockfd' = -1
  /\ fdTable' = Closing({udpSockfd})
  /\ udpState' = 2
  /\ call' = "failed"
  /\ UNCHANGED <<udpSockfd, streaming, process>>

\* connectUDP(): connect() to the interrogator.
TcpConnectOk ==
  /\ call = "tcpConnect"
  /\ Kind(tcpSockfd) = "tcp"
  /\ fdTable' = [fdTable EXCEPT ![tcpSockfd] = "conn"]
  /\ call' = "udpBind"
  /\ UNCHANGED <<tcpSockfd, udpSockfd, udpState, streaming, process>>

\* Both sockets are closed, but the members keep the numbers of the descriptors.
CloseBothAndFail ==
  /\ fdTable' = Closing({udpSockfd, tcpSockfd})
  /\ udpState' = 3
  /\ call' = "failed"
  /\ UNCHANGED <<tcpSockfd, udpSockfd, streaming, process>>

\* (Mutant: a missing return carries on with both sockets closed.)
TcpConnectFailsGoesOn ==
  /\ call = "tcpConnect"
  /\ fdTable' = Closing({udpSockfd, tcpSockfd})
  /\ udpState' = 3
  /\ call' = "udpBind"
  /\ UNCHANGED <<tcpSockfd, udpSockfd, streaming, process>>

TcpConnectFails == call = "tcpConnect" /\ CloseBothAndFail

\* connectUDP(): bind() to port 51970, which one socket at most can hold.
\* (Mutants: with SO_REUSEADDR a second socket may hold it, or take it over.)
UdpBindOkShares ==
  /\ call = "udpBind"
  /\ Kind(udpSockfd) = "udp"
  /\ fdTable' = [fdTable EXCEPT ![udpSockfd] = "bound"]
  /\ udpState' = 0
  /\ call' = "setTimeout"
  /\ UNCHANGED <<tcpSockfd, udpSockfd, streaming, process>>

UdpBindOkTakesOver ==
  /\ call = "udpBind"
  /\ Kind(udpSockfd) = "udp"
  /\ fdTable' = [f \in Fds |-> IF f = udpSockfd THEN "bound"
                                ELSE IF fdTable[f] = "bound" THEN "udp" ELSE fdTable[f]]
  /\ udpState' = 0
  /\ call' = "setTimeout"
  /\ UNCHANGED <<tcpSockfd, udpSockfd, streaming, process>>

UdpBindOk ==
  /\ call = "udpBind"
  /\ Kind(udpSockfd) = "udp"
  /\ \A f \in Fds : fdTable[f] # "bound"
  /\ fdTable' = [fdTable EXCEPT ![udpSockfd] = "bound"]
  /\ udpState' = 0
  /\ call' = "setTimeout"
  /\ UNCHANGED <<tcpSockfd, udpSockfd, streaming, process>>

\* (Mutant: a missing return carries on with a socket that is not bound.)
UdpBindFailsGoesOn ==
  /\ call = "udpBind"
  /\ udpState' = 3
  /\ call' = "setTimeout"
  /\ UNCHANGED <<fdTable, tcpSockfd, udpSockfd, streaming, process>>

UdpBindFails == call = "udpBind" /\ CloseBothAndFail

\* connectUDP(): setsockopt(SO_RCVTIMEO); on failure both sockets stay open.
SetTimeoutOk ==
  /\ call = "setTimeout"
  /\ call' = "ok"
  /\ UNCHANGED <<fdTable, tcpSockfd, udpSockfd, udpState, streaming, process>>

SetTimeoutFails ==
  /\ call = "setTimeout"
  /\ call' = "failed"
  /\ UNCHANGED <<fdTable, tcpSockfd, udpSockfd, udpState, streaming, process>>

----------------------------------------------------------------------------
\* The interrogator stops: what it has sent until then is still there to receive.
Ebbed == IF streaming = "on" THEN "rest" ELSE streaming

\* writeCommand(): the three send() calls of one command, the first to fail being
\* the last.  A connected interrogator obeys a command it has got whole, while one
\* whose send() fails is lost; a connection whose peer has gone loses it, and
\* raises SIGPIPE if the reset has arrived; on any other descriptor send() fails.
\* (The calls are one step: nothing else of the process uses the connection
\* between them, and no command follows one cut short on the same connection but
\* the disable command, after which it is closed.)
WriteCommand(obeyed) ==
  \/ /\ Kind(tcpSockfd) = "conn"
     /\ streaming' \in {streaming, obeyed}
     /\ UNCHANGED process
  \/ /\ Kind(tcpSockfd) = "dead"
     /\ process' \in {"running", "killed"}
     /\ UNCHANGED streaming
  \/ /\ Kind(tcpSockfd) \notin Connected
     /\ UNCHANGED <<streaming, process>>

\* enablePeakDatagrams(): the result of writeCommand is not looked at.
EnablePeakDatagrams ==
  /\ call = "enable"
  /\ IF tcpSockfd >= 0
     THEN udpState' = 4 /\ WriteCommand("on")
     ELSE udpState' = 5 /\ UNCHANGED <<streaming, process>>
  /\ call' = "ok"
  /\ UNCHANGED <<fdTable, tcpSockfd, udpSockfd>>

\* readPacket(): recvfrom() gets a datagram the interrogator sent, if only before
\* it stopped; then it may have been the last one.
RecvOk ==
  /\ call = "recv"
  /\ Kind(udpSockfd) = "bound"
  /\ streaming # "off"
  /\ streaming' \in {streaming} \cup (IF streaming = "rest" THEN {"off"} ELSE {})
  /\ call' = "ok"
  /\ UNCHANGED <<fdTable, tcpSockfd, udpSockfd, udpState, process>>

\* readPacket(): recvfrom() times out or fails.
RecvFails ==
  /\ call = "recv"
  /\ call' = "failed"
  /\ UNCHANGED <<fdTable, tcpSockfd, udpSockfd, udpState, streaming, process>>

----------------------------------------------------------------------------
\* disconnectUDP(): the disable command, its result not looked at.
SendDisable ==
  /\ call = "sendDisable"
  /\ WriteCommand(Ebbed)
  /\ call' = "closeTcp"
  /\ UNCHANGED <<fdTable, tcpSockfd, udpSockfd, udpState>>

\* disconnectUDP(): close(tcpSockfd), whatever that number refers to by now.
\* (Mutant: the member is reset before it is closed.)
CloseTcpTooLate ==
  /\ call = "closeTcp"
  /\ tcpSockfd' = -1
  /\ call' = "closeUdp"
  /\ UNCHANGED <<fdTable, udpSockfd, udpState, streaming, process>>

CloseTcp ==
  /\ call = "closeTcp"
  /\ IF tcpSockfd >= 0
     THEN fdTable' = Closing({tcpSockfd}) /\ tcpSockfd' = -1
     ELSE UNCHANGED <<fdTable, tcpSockfd>>
  /\ call' = "closeUdp"
  /\ UNCHANGED <<udpSockfd, udpState, streaming, process>>

\* disconnectUDP(): close(udpSockfd), and return.
\* (Mutant: the member is not reset.)
CloseUdpKeepsNumber ==
  /\ call = "closeUdp"
  /\ fdTable' = Closing({udpSockfd})
  /\ call' = "ok"
  /\ UNCHANGED <<tcpSockfd, udpSockfd, udpState, streaming, process>>

CloseUdp ==
  /\ call = "closeUdp"
  /\ IF udpSockfd >= 0
     THEN fdTable' = Closing({udpSockfd}) /\ udpSockfd' = -1
     ELSE UNCHANGED <<fdTable, udpSockfd>>
  /\ call' = "ok"
  /\ UNCHANGED <<tcpSockfd, udpState, streaming, process>>

----------------------------------------------------------------------------
\* The interrogator closes a connection, or loses its power and forgets the
\* enable command with it.
PeerCloses ==
  /\ \E f \in Fds : fdTable[f] = "conn" /\ fdTable' = [fdTable EXCEPT ![f] = "dead"]
  /\ streaming' \in {streaming, Ebbed}
  /\ UNCHANGED <<tcpSockfd, udpSockfd, udpState, call, process>>

\* The process ends for a reason outside the class: a signal handler calls
\* exit, main returns, or something else in it crashes.
ProcessEnds ==
  /\ process' \in {"exited", "killed"}
  /\ UNCHANGED <<fdTable, tcpSockfd, udpSockfd, udpState, streaming, call>>

\* One step of the method under way.
MethodStep ==
  \/ UdpSocketOk \/ UdpSocketFails
  \/ TcpSocketOk \/ TcpSocketFails
  \/ TcpConnectOk \/ TcpConnectFails
  \/ UdpBindOk \/ UdpBindFails
  \/ SetTimeoutOk \/ SetTimeoutFails
  \/ EnablePeakDatagrams
  \/ RecvOk \/ RecvFails
  \/ SendDisable \/ CloseTcp \/ CloseUdp
----------------------------------------------------------------------------
InterrogatorTypeOK ==
  /\ fdTable \in [Fds -> FdKinds]
  /\ tcpSockfd \in Fds \cup {-1} \cup Garbage
  /\ udpSockfd \in Fds \cup {-1} \cup Garbage
  /\ udpState \in {0, 1, 2, 3, 4, 5, 255}
  /\ streaming \in {"off", "on", "rest"}
  /\ call \in Calls
  /\ process \in {"running", "killed", "exited"}
=============================================================================
