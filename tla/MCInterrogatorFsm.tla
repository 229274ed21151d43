------------------------- MODULE MCInterrogatorFsm -------------------------
(***************************************************************************)
(* Descriptors 0, 1 and 2 are the standard streams; five more leave room   *)
(* for the two sockets of a connection, a leaked pair and one to spare.    *)
(* The uninitialised members hold a negative number, a standard stream, a  *)
(* number a socket will get, or one that is never open.                    *)
(***************************************************************************)
EXTENDS InterrogatorFsm

MCForeign == {0, 1, 2}
MCGarbage == {-1, 0, 3, 9}
=============================================================================
