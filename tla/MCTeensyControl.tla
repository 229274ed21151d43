--------------------------- MODULE MCTeensyControl ---------------------------
(***************************************************************************)
(* Two ticks: enough for a start, a record taken from the queue while the  *)
(* next one is counted, for a stop and another start with a tick of its    *)
(* own, and for every place of the acquisition in all of it.               *)
(***************************************************************************)
EXTENDS TeensyControl

MCSenders == {"main", "stream", "sketch"}
=============================================================================
