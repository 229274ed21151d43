--------------------------- MODULE MCTeensyDevices ---------------------------
(***************************************************************************)
(* A board that is late by nothing, by one word, or by so much that it has *)
(* no offset within range (one that does not answer); two transfers, so    *)
(* that each reader, or one of them twice, has its own.                    *)
(*                                                                         *)
(* Clocks of two bits, a millisecond of two microseconds, and eight of     *)
(* those: both counters overflow, and a run may span the overflow.         *)
(***************************************************************************)
EXTENDS TeensyDevices

MCLags == {0, 1, 60}

MCOverflow == 2^2
MCLPFCoefA == <<1, 0, 1>>
MCLPFCoefB == <<2, -2, 2>>
MCForces == {0, 1}
=============================================================================
