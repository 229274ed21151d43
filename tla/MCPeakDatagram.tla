--------------------------- MODULE MCPeakDatagram ---------------------------
(***************************************************************************)
(* Two channels of two gratings; a datagram may report as many peaks as    *)
(* fit into recvBuff (2), into waveLength (4), or into neither (6), or a   *)
(* negative number, and carry any number of them up to what fits.          *)
(***************************************************************************)
EXTENDS PeakDatagram

MCPeakCounts == {-1, 1, 3}
=============================================================================
