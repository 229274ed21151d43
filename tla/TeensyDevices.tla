---------------------------- MODULE TeensyDevices ----------------------------
(***************************************************************************)
(* The two devices of the Teensy firmware and the threads that use them,   *)
(* and the record that is made of what they measure (ControlRecord):       *)
(* mainThread and FTAcqThread read the sensor, and the sketch (which is    *)
(* not in the repository) calls init (reset of the sensor), stop, and the  *)
(* methods that connect, one after the other, in any order.  FTAcqThread   *)
(* reads while bRun and bRunSPI are set, mainThread at every tick: both    *)
(* are left open here, see TeensyControl.                                  *)
(*                                                                         *)
(* They share nothing but the sketch and the values copied from one to the *)
(* other, so a behaviour follows one of the three: inUse says which.       *)
(***************************************************************************)
EXTENDS CFTSensorSPI, TeensyInterrogator, ControlRecord

VARIABLES
  inUse,
  resetting   \* NotResetting, or the lag reset() has measured and not stored yet

vars == <<sensorVars, netVars, recordVars, inUse, resetting>>

NotResetting == -1

Init ==
  /\ SensorInit /\ NetInit /\ RecordInit
  /\ inUse \in {"sensor", "interrogator", "record"}
  /\ inUse # "sensor" => lag = CHOOSE l \in Lags : TRUE
  /\ inUse # "interrogator" => board
  /\ resetting = NotResetting

\* init() and stop() of CMainControl, as far as the sensor goes.
SketchResets ==
  \/ resetting = NotResetting /\ ResetFinds /\ resetting' = lag
  \/ resetting # NotResetting /\ ResetStores(resetting) /\ resetting' = NotResetting

SketchStops == resetting = NotResetting /\ Stop /\ UNCHANGED resetting

SensorNext ==
  /\ inUse = "sensor"
  /\ \/ SketchResets \/ SketchStops
     \/ (SensorThreads \/ BoardRestarts) /\ UNCHANGED resetting
  /\ UNCHANGED <<netVars, recordVars, inUse>>

InterrogatorNext ==
  /\ inUse = "interrogator"
  /\ NetCall \/ SetConnected \/ InterrogatorThread \/ NetSurroundings
  /\ UNCHANGED <<sensorVars, recordVars, inUse, resetting>>

\* mainThread, init() of the status, and time.
RecordNext ==
  /\ inUse = "record"
  /\ Pass \/ ResetStatus \/ Time
  /\ UNCHANGED <<sensorVars, netVars, inUse, resetting>>

Next == SensorNext \/ InterrogatorNext \/ RecordNext

Spec == Init /\ [][Next]_vars
----------------------------------------------------------------------------
TypeOK ==
  /\ SensorTypeOK /\ NetTypeOK /\ RecordTypeOK
  /\ inUse \in {"sensor", "interrogator", "record"}
  /\ resetting \in Lags \cup {NotResetting}
=============================================================================
