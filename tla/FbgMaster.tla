------------------------------ MODULE FbgMaster ------------------------------
(***************************************************************************)
(* The program of main.cpp: connect once, then read and print for ever, in *)
(* one thread, over CInterrogator's sockets and PeakDatagram's members.    *)
(* The results of init() and readPacket() are not looked at.               *)
(*                                                                         *)
(* Bound: only MaxDatagrams datagrams are received.                        *)
(***************************************************************************)
EXTENDS CInterrogator, PeakDatagram

VARIABLE at  \* "start", "connect", "enable", "read", "decode", "copy" or "print"

vars == <<at, ivars, peakVars>>

Init == at = "start" /\ InterrogatorInit /\ PeakInit

\* The next method of CInterrogator, from its first step on.
Begin(step, method) ==
  /\ at' = step
  /\ call' = method
  /\ UNCHANGED <<fdTable, tcpSockfd, udpSockfd, udpState, streaming, process, peakVars>>

----------------------------------------------------------------------------
\* init(), whatever it returns, and connectUDP().
Start == at = "start" /\ Begin("connect", "udpSocket")

\* A failed connectUDP() ends the program.
ConnectDone ==
  /\ at = "connect"
  /\ \/ call = "ok" /\ Begin("enable", "enable")
     \/ /\ call = "failed"
        /\ process' = "exited"
        /\ UNCHANGED <<at, fdTable, tcpSockfd, udpSockfd, udpState, streaming, call, peakVars>>

EnableDone == at = "enable" /\ call = "ok" /\ Begin("read", "recv")

\* readPacket() decodes what it has received; if there is nothing it is getPeaks'
\* turn at once.  (Mutant: it connects again.)
ReadFailedConnects ==
  /\ at = "read" /\ call = "failed"
  /\ Begin("connect", "udpSocket")

ReadFailed ==
  /\ at = "read" /\ call = "failed"
  /\ Begin("copy", "idle")

ReadOk ==
  /\ at = "read" /\ call = "ok"
  /\ DecodeStamp
  /\ at' = "decode"
  /\ UNCHANGED <<ivars, copyVars>>

\* (Mutant: getPeaks() is called before the datagram is decoded.)
DecodeLate ==
  /\ at = "decode"
  /\ IF copied < PEAK_CH \/ copying # "idle"
     THEN GetPeaks /\ UNCHANGED <<at, decodeVars>>
     ELSE Decode /\ at' = (IF decoding' = "idle" THEN "print" ELSE at) /\ UNCHANGED copyVars
  /\ UNCHANGED ivars

DecodeRead ==
  /\ at = "decode"
  /\ Decode
  /\ at' = IF decoding' = "idle" THEN "copy" ELSE at
  /\ UNCHANGED <<ivars, copyVars>>

CopyPeaks ==
  /\ at = "copy"
  /\ GetPeaks
  /\ at' = IF copying' = "idle" THEN "print" ELSE at
  /\ UNCHANGED <<ivars, decodeVars>>

\* PrintPeaks, sleep(0.1), which is sleep(0), and read again.
PrintPeaks == at = "print" /\ Begin("read", "recv")

Main ==
  /\ process = "running"
  /\ \/ Start \/ ConnectDone \/ EnableDone \/ ReadFailed \/ ReadOk
     \/ DecodeRead \/ CopyPeaks \/ PrintPeaks
     \/ /\ MethodStep
        /\ RecvOk => datagrams < MaxDatagrams
        /\ UNCHANGED <<at, peakVars>>

Surroundings ==
  /\ process = "running"
  /\ PeerCloses \/ ProcessEnds
  /\ UNCHANGED <<at, peakVars>>

Ended == process # "running" /\ UNCHANGED vars

Next == Main \/ Surroundings \/ Ended

Spec == Init /\ [][Next]_vars
----------------------------------------------------------------------------
InLoop == at \in {"read", "decode", "copy", "print"}

\* main: although init() may have refused, from the enable command on the program
\* has a bound UDP socket and a TCP socket that has been connected, and no other.
OwnSockets ==
  (InLoop \/ at = "enable") =>
    /\ Kind(udpSockfd) = "bound"
    /\ Kind(tcpSockfd) \in Connected
    /\ \A f \in Fds :
         fdTable[f] \in SocketKinds => f \in {tcpSockfd, udpSockfd}

\* main: once a datagram has been decoded, what is printed is the last one, whole
\* and never a mixture: the datagram just received, or the one before if there was
\* none, although main.cpp:36 reports it as received.  (Until then what it prints is
\* what memory held, with the same words.)
PrintsLastDecoded ==
  (at = "print" /\ datagrams > 0) =>
    /\ snapshot.stamp = [of |-> datagrams, absolute |-> FALSE]
    /\ snapshot.num = numPeaks
    /\ snapshot.avg = avgPeak

\* The interrogator has stopped sending, and what it sent has been received and
\* decoded.
Silent == InLoop /\ streaming = "off" /\ ~(at = "read" /\ call = "ok")

\* main never connects or enables again: once the interrogator has stopped
\* sending, because of a restart for example, there is no further datagram.
NoDatagramOnceSilent == [][Silent => Silent' /\ datagrams' = datagrams]_vars
=============================================================================
