--------------------------- MODULE MCTeensySerial ---------------------------
(***************************************************************************)
(* Three commands, so that one may be lost between two others, of none, of *)
(* one or of two bytes; a size misread is one of those, or more than all   *)
(* the bytes of a command; a type that is echoed, and one that is not.     *)
(* One type of values reported, whose reports nothing else depends on.     *)
(***************************************************************************)
EXTENDS TeensySerial

MCVarTypes == {"CHAR", "INT16"}
MCLengths == {0, 1, 2}
MCGarbage == {0, 1, 7}
=============================================================================
