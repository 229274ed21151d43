---------------------------- MODULE MCFbgMaster ----------------------------
(***************************************************************************)
(* Standard streams and two sockets, with one descriptor to spare; the     *)
(* members start as a negative number, a standard stream, or a number that *)
(* socket() will return.  Two channels, each with two peaks or a negative  *)
(* number of them.                                                         *)
(***************************************************************************)
EXTENDS FbgMaster

MCForeign == {0, 1, 2}
MCGarbage == {-1, 1, 3}
MCPeakCounts == {-1, 2}
=============================================================================
