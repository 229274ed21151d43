----------------------- MODULE MCInterrogatorManager -----------------------
(***************************************************************************)
(* One standard stream and five more descriptors, enough for a connection, *)
(* a leaked pair and one to spare; a queue of two that four samples fill   *)
(* and overfill.  What garbage does at boot is MCInterrogatorFsm's part.   *)
(***************************************************************************)
EXTENDS InterrogatorManager

MCForeign == {0}
MCGarbage == {-1, 0}
=============================================================================
