------------------------------ MODULE MCFtFbg ------------------------------
(***************************************************************************)
(* Descriptor 0 is the terminal; four more are enough for a connection, a  *)
(* leaked pair and a log file.                                             *)
(***************************************************************************)
EXTENDS FtFbg

MCForeign == {0}
=============================================================================
