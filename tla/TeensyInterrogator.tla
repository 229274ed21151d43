------------------------- MODULE TeensyInterrogator -------------------------
(***************************************************************************)
(* class CInterrogator of the Teensy firmware (original/CInterrogator.cpp) *)
(* as far as its connection goes; procPacket and getPeaks are those of the *)
(* Linux class (PeakDatagram), called here by readPacket in a thread of    *)
(* its own.  The Ethernet library is external: a board and a link that may *)
(* be there or not, a TCP client, a UDP socket, which has one datagram for *)
(* readPacket at a time.                                                   *)
(***************************************************************************)
EXTENDS Integers

VARIABLES
  board, link,     \* the hardware: an Ethernet board, a link
  tcp,             \* TcpComm: "closed", "open", or "dead" when the peer has gone
  udp,             \* UdpComm has been begun
  streaming,       \* the interrogator sends datagrams
  fhardwareStatus, flinkStatus, udpState,
  bUDPConnected,   \* of CMainControl: readPacket is to be called
  datagram,        \* in UdpComm: "none", "waiting" or "parsed"
  netRead,         \* what readPacket does next, or "idle"
  netCall          \* what the method under way does next, or "idle"

linkVars == <<board, link, tcp, udp, streaming>>
readVars == <<bUDPConnected, datagram, netRead>>
netVars == <<linkVars, readVars, fhardwareStatus, flinkStatus, udpState, netCall>>

Unknown == 255  \* -1 in a uint8_t

NetInit ==
  /\ board \in BOOLEAN /\ link = FALSE
  /\ tcp = "closed" /\ udp = FALSE /\ streaming = FALSE
  /\ fhardwareStatus = Unknown /\ flinkStatus = Unknown /\ udpState = Unknown
  /\ netCall = "idle"
  /\ bUDPConnected = FALSE /\ datagram = "none" /\ netRead = "idle"

----------------------------------------------------------------------------
\* connectUDP: look for the board, then for the link ...
CheckHardware ==
  /\ netCall = "idle"
  /\ fhardwareStatus' = IF board THEN 1 ELSE 0
  /\ udpState' = IF board THEN udpState ELSE 1
  /\ netCall' = "checkLink"
  /\ UNCHANGED <<linkVars, readVars, flinkStatus>>

CheckLink ==
  /\ netCall = "checkLink"
  /\ flinkStatus' = IF link THEN 1 ELSE 0
  /\ udpState' = IF link THEN udpState ELSE 2
  /\ netCall' = "connect"
  /\ UNCHANGED <<linkVars, readVars, fhardwareStatus>>

\* ... and connect if there was one or the other.  (Mutant: if both.)
BothFound == fhardwareStatus = 1 /\ flinkStatus = 1

AnyFound == fhardwareStatus = 1 \/ flinkStatus = 1

Connect ==
  /\ netCall = "connect"
  /\ \/ AnyFound /\ board /\ link
        /\ tcp' = "open" /\ udp' = TRUE /\ udpState' = 0
     \/ AnyFound
        /\ tcp' = "closed" /\ udpState' = 3 /\ UNCHANGED udp
     \/ ~AnyFound /\ UNCHANGED <<tcp, udp, udpState>>
  /\ netCall' = "idle"
  /\ UNCHANGED <<board, link, streaming, readVars, fhardwareStatus, flinkStatus>>

\* enablePeakDatagrams: to a peer that is connected, or not at all.
EnablePeakDatagrams ==
  /\ netCall = "idle"
  /\ IF tcp = "open"
     THEN udpState' = 4 /\ streaming' = TRUE
     ELSE udpState' = 5 /\ UNCHANGED streaming
  /\ UNCHANGED <<board, link, tcp, udp, readVars, fhardwareStatus, flinkStatus, netCall>>

\* disconnectUDP: the disable command, stop TCP, stop UDP.  udpState stays.
StopTcp ==
  /\ netCall = "idle"
  /\ streaming' = (streaming /\ tcp # "open")
  /\ tcp' = "closed"
  /\ netCall' = "stopUdp"
  /\ UNCHANGED <<board, link, udp, readVars, fhardwareStatus, flinkStatus, udpState>>

StopUdp ==
  /\ netCall = "stopUdp"
  /\ udp' = FALSE /\ datagram' = "none"
  /\ netCall' = "idle"
  /\ UNCHANGED <<board, link, tcp, streaming, bUDPConnected, netRead,
                 fhardwareStatus, flinkStatus, udpState>>

\* One step of the method the sketch has called.
NetCall ==
  \/ CheckHardware \/ CheckLink \/ Connect
  \/ EnablePeakDatagrams
  \/ StopTcp \/ StopUdp

----------------------------------------------------------------------------
\* The sketch tells interrogatorThread whether to read.
SetConnected ==
  /\ netCall = "idle"
  /\ bUDPConnected' = ~bUDPConnected
  /\ UNCHANGED <<linkVars, datagram, netRead, fhardwareStatus, flinkStatus, udpState, netCall>>

\* threadUDP, readPacket: parsePacket, if there is a datagram ...
ParsePacket ==
  /\ netRead = "idle" /\ bUDPConnected
  /\ datagram' = IF datagram = "waiting" THEN "parsed" ELSE datagram
  /\ netRead' = "read"
  /\ UNCHANGED <<linkVars, bUDPConnected, fhardwareStatus, flinkStatus, udpState, netCall>>

\* ... and if one is still available, read and procPacket.
ReadParsed ==
  /\ netRead = "read"
  /\ datagram' = IF datagram = "parsed" THEN "none" ELSE datagram
  /\ netRead' = "idle"
  /\ UNCHANGED <<linkVars, bUDPConnected, fhardwareStatus, flinkStatus, udpState, netCall>>

InterrogatorThread == ParsePacket \/ ReadParsed

\* The cable, the interrogator at its other end, and a datagram of it.
NetSurroundings ==
  /\ \/ link' = ~link /\ UNCHANGED <<tcp, streaming, datagram>>
     \/ tcp = "open" /\ tcp' = "dead" /\ streaming' = FALSE /\ UNCHANGED <<link, datagram>>
     \/ /\ streaming /\ link /\ udp /\ datagram = "none"
        /\ datagram' = "waiting"
        /\ UNCHANGED <<link, tcp, streaming>>
  /\ UNCHANGED <<board, udp, bUDPConnected, netRead, fhardwareStatus, flinkStatus, udpState, netCall>>
----------------------------------------------------------------------------
NetTypeOK ==
  /\ board \in BOOLEAN /\ link \in BOOLEAN /\ udp \in BOOLEAN /\ streaming \in BOOLEAN
  /\ tcp \in {"closed", "open", "dead"}
  /\ fhardwareStatus \in {0, 1, Unknown} /\ flinkStatus \in {0, 1, Unknown}
  /\ udpState \in {0, 1, 2, 3, 4, 5, Unknown}
  /\ netCall \in {"idle", "checkLink", "connect", "stopUdp"}
  /\ bUDPConnected \in BOOLEAN /\ netRead \in {"idle", "read"}
  /\ datagram \in {"none", "waiting", "parsed"}
  /\ datagram # "none" => udp

\* connectUDP tests the two flags with "|": once it has returned, a missing board
\* is never what udpState reports (1), a missing link (2) only if the board is
\* missing too; either alone is reported as a failed connection (3).
FaultsAreMasked ==
  netCall = "idle" => /\ udpState # 1
                      /\ udpState = 2 => fhardwareStatus = 0 /\ flinkStatus = 0
=============================================================================
