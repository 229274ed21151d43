--------------------------- MODULE SampleChannel ---------------------------
(***************************************************************************)
(* What the hand-over from the real-time task to the processing thread     *)
(* promises, whatever lock or condition variable it is built from: the     *)
(* samples come out once each, in the order they went in, and at most      *)
(* Capacity of them are under way at a time.                               *)
(*                                                                         *)
(* Samples are numbered in the order the real-time task hands them over,   *)
(* so a channel that neither loses, duplicates nor reorders is fully       *)
(* described by the number of the last sample put in and of the last       *)
(* sample taken out.                                                       *)
(***************************************************************************)
EXTENDS Integers

CONSTANT Capacity  \* most samples under way, a positive number

VARIABLES
  sent,  \* number of the last sample put into the channel
  got    \* number of the last sample taken out of it

vars == <<sent, got>>

Init == sent = 0 /\ got = 0

Send ==
  /\ sent - got < Capacity
  /\ sent' = sent + 1
  /\ UNCHANGED got

Deliver ==
  /\ got < sent
  /\ got' = got + 1
  /\ UNCHANGED sent

Next == Send \/ Deliver

Spec == Init /\ [][Next]_vars
=============================================================================
