------------------------ MODULE TeensyDevices_proofs ------------------------
(***************************************************************************)
(* Proofs about the sensor, the connection and the record of the Teensy    *)
(* firmware, for boards that are late by any number of words, counters of  *)
(* any width, any filter whose coefficients pass a constant force as it    *)
(* is, and any number of transfers and any time.                           *)
(*                                                                         *)
(* Each of the three safety properties is about the end of something that  *)
(* takes many steps, and its invariant says what every step on the way     *)
(* there has done: OneReading follows the two words of a reading through   *)
(* the three buffers, Masked what connectUDP knows, and HoldsPass the      *)
(* times of a pass and of the one before.                                  *)
(***************************************************************************)
EXTENDS TeensyDevices, TLAPS

ReadSteps ==
  {"idle", "transfer", "fill", "copy1", "copy2", "store1", "store2", "get1", "get2"}

\* What the steps of a reading of t have done, if nothing has come in.
Taken(t) ==
  /\ reading[t] = "fill" => read_buffer[1] = [sent |-> transfers, at |-> lag]
  /\ reading[t] \in {"copy1", "copy2"} => read_buffer[1] = read_buffer[2]
  /\ reading[t] = "copy2" => readout[t][1] = Placed(2)
  /\ reading[t] = "store1" => readout[t][1] = readout[t][2]
  /\ reading[t] = "store2" => mFTData[1] = readout[t][2]

\* The words in mFTData are of one reading, unless one is being taken.
Stored ==
  /\ reading["main"] = "idle" /\ reading["spi"] # "store2" => mFTData[1] = mFTData[2]
  /\ reading["main"] \in {"get1", "get2"} => mFTData[1] = mFTData[2]
  /\ reading["main"] = "get2" => value[1] = mFTData[1]
  /\ reading["main"] = "idle" => value[1] = value[2]

\* Nothing has come in: one thread at most is reading, and what it has is one reading.
OneReading ==
  /\ reading["spi"] \notin {"get1", "get2"}
  /\ ~disturbed => /\ \E t \in Readers : reading[t] = "idle"
                   /\ \A t \in Readers : Taken(t)
                   /\ Stored

\* What connectUDP knows at each step, and what it makes of it.
Masked ==
  /\ netCall \in {"idle", "stopUdp"} =>
       udpState # 1 /\ (udpState = 2 => fhardwareStatus = 0 /\ flinkStatus = 0)
  /\ netCall \in {"checkLink", "connect"} => fhardwareStatus \in {0, 1}
  /\ netCall = "connect" => flinkStatus \in {0, 1} /\ (udpState = 1 => flinkStatus = 1)

\* The types of the history.
HistoryTypeOK ==
  /\ began \in [run : 0..MaxTime, pass : 0..MaxTime, first : BOOLEAN]
  /\ lastPass \in [took : Int, crossed : BOOLEAN]

\* The time of the pass.
ClockRight ==
  ~crossed =>
    /\ looped \/ pass # "idle" => startTime = Unsigned(Ms(began.run))
    /\ pass \in {"job", "queue"} => elapsedTime = Unsigned(Ms(began.pass) - Ms(began.run))
    /\ pass \in {"job", "queue", "update"} => currentTime = Unsigned(began.pass)
    /\ pass = "update" => TimeIsOfThisPass

\* The period, which is that of the pass before until this one is updated.
PeriodRight ==
  /\ ~looped => loopPeriod = 0
  /\ ~crossed =>
       /\ (looped /\ pass = "idle") \/ pass = "judge" => loopPeriod = Unsigned(lastPass.took)
       /\ pass \in {"tick", "job", "queue"} =>
            loopPeriod = IF began.first THEN 0 ELSE Unsigned(lastPass.took)
       /\ pass = "update" =>
            mDataLog.loopPeriod = IF began.first THEN 0 ELSE Unsigned(lastPass.took)

TookTooLong == Unsigned(lastPass.took) > controlPeriod

\* The flag, which is that of the pass before until this one is judged.
FlagRight ==
  ~lastPass.crossed =>
    /\ pass \notin {"update", "judge"} => (rtInvalid <=> TookTooLong)
    /\ pass = "update" => (mDataLog.statusFlag <=> TookTooLong)

GainRight == pass \in {"queue", "update"} => FilterHasUnitGain

HoldsPass == ClockRight /\ PeriodRight /\ FlagRight /\ GainRight

----------------------------------------------------------------------------
(* The sensor. *)

SensorInv == SensorTypeOK /\ resetting \in Lags \cup {NotResetting} /\ OneReading

LEMMA InitSensor == Init => SensorInv
<1> SUFFICES ASSUME Init PROVE SensorInv
  OBVIOUS
<1> USE SensorAssumption DEF Init, SensorInit, Readers, Words
<1>1. SensorTypeOK
  <2>1. isValid \in BOOLEAN /\ disturbed \in BOOLEAN
    OBVIOUS
  <2>2. \A t \in Readers : bus = t <=> reading[t] = "fill"
    OBVIOUS
  <2> QED
    BY <2>1, <2>2 DEF SensorTypeOK, Misplaced
<1>2. Stored /\ \A t \in Readers : Taken(t)
  BY DEF Stored, Taken
<1> QED
  BY <1>1, <1>2 DEF SensorInv, OneReading, NotResetting

\* The types, step by step.
LEMMA SensorTypes ==
  ASSUME SensorTypeOK, resetting \in Lags \cup {NotResetting}, SensorNext
  PROVE  SensorTypeOK' /\ resetting' \in Lags \cup {NotResetting}
<1> DEFINE Sent == {Misplaced} \cup 0..MaxTransfers
<1> USE SensorAssumption
<1>0. /\ lag \in Lags /\ transfers \in 0..MaxTransfers
      /\ offsetPos \in {0} \cup {l \in Lags : l < 10}
      /\ read_buffer \in [Words -> [sent : 0..MaxTransfers, at : Lags \cup {0}]]
      /\ bus \in Readers \cup {"free"}
      /\ reading \in [Readers -> ReadSteps]
      /\ readout \in [Readers -> [Words -> Sent]]
      /\ mFTData \in [Words -> Sent] /\ value \in [Words -> Sent]
  BY DEF SensorTypeOK, ReadSteps
<1>a. \A t \in Readers : bus = t <=> reading[t] = "fill"
  BY DEF SensorTypeOK
<1>b. isValid \in BOOLEAN /\ disturbed \in BOOLEAN
  BY DEF SensorTypeOK
<1> DEFINE BusOK == \A t \in Readers : bus = t <=> reading[t] = "fill"
           RestOK == /\ offsetPos \in {0} \cup {l \in Lags : l < 10}
                     /\ reading \in [Readers -> ReadSteps]
                     /\ readout \in [Readers -> [Words -> Sent]]
                     /\ mFTData \in [Words -> Sent] /\ value \in [Words -> Sent]
           BufOK == /\ lag \in Lags /\ transfers \in 0..MaxTransfers
                    /\ read_buffer \in [Words -> [sent : 0..MaxTransfers, at : Lags \cup {0}]]
                    /\ bus \in Readers \cup {"free"}
           FlagsOK == isValid \in BOOLEAN /\ disturbed \in BOOLEAN
<1>1. BusOK' /\ RestOK' /\ BufOK' /\ FlagsOK' => SensorTypeOK'
  BY DEF SensorTypeOK, ReadSteps
\* The sketch and the board.
<1>2. CASE SketchResets \/ SketchStops \/ (BoardRestarts /\ UNCHANGED resetting)
  <2>1. UNCHANGED <<busVars, reading, dataVars>> /\ lag' \in Lags
    BY <1>0, <1>2
       DEF SketchResets, SketchStops, BoardRestarts, ResetFinds, ResetStores, Stop
  <2>2. FlagsOK'
    BY <1>b, <1>2
       DEF SketchResets, SketchStops, BoardRestarts, ResetFinds, ResetStores, Stop, Disturbs,
           Meets, InRange
  <2>3. /\ resetting' \in Lags \cup {NotResetting}
        /\ offsetPos' \in {0} \cup {l \in Lags : l < 10}
    BY <1>0, <1>2
       DEF SketchResets, SketchStops, BoardRestarts, ResetFinds, ResetStores, Stop
  <2> QED
    BY <1>0, <1>a, <1>1, <2>1, <2>2, <2>3 DEF busVars, dataVars
<1>3. ASSUME NEW t \in Readers, Enter(t), UNCHANGED <<lag, resetting>> PROVE SensorTypeOK'
  <2>1. /\ UNCHANGED <<isValid, offsetPos, busVars, dataVars>> /\ reading[t] = "idle"
        /\ reading' \in {[reading EXCEPT ![t] = "get1"], [reading EXCEPT ![t] = "transfer"]}
    BY <1>3 DEF Enter, Goto
  <2>2. FlagsOK'
    BY <1>b, <1>3 DEF Enter, Disturbs, Meets
  <2>3. RestOK' /\ BusOK'
    BY <1>0, <1>a, <2>1 DEF ReadSteps, busVars, dataVars
  <2> QED
    BY <1>0, <1>1, <1>3, <2>1, <2>2, <2>3 DEF busVars
<1>4. ASSUME NEW t \in Readers, BeginTransfer(t), UNCHANGED <<lag, resetting>>
      PROVE  SensorTypeOK'
  <2>1. /\ reading[t] = "transfer" /\ bus = "free" /\ bus' = t
        /\ reading' = [reading EXCEPT ![t] = "fill"]
        /\ transfers < MaxTransfers /\ transfers' = transfers + 1
        /\ read_buffer' = [read_buffer EXCEPT ![1] = [sent |-> transfers', at |-> lag]]
        /\ UNCHANGED <<isValid, offsetPos, dataVars, disturbed>>
    BY <1>4 DEF BeginTransfer, Goto, Fill
  <2>2. transfers' \in 0..MaxTransfers
    BY <1>0, <2>1
  <2>3. BufOK'
    BY <1>0, <1>4, <2>1, <2>2 DEF Words
  <2>4. BusOK' /\ RestOK'
    BY <1>0, <1>a, <2>1 DEF ReadSteps, Readers, dataVars
  <2> QED
    BY <1>b, <1>1, <2>1, <2>3, <2>4
<1>5. ASSUME NEW t \in Readers, EndTransfer(t), UNCHANGED <<lag, resetting>>
      PROVE  SensorTypeOK'
  <2>1. /\ reading[t] = "fill" /\ bus' = "free"
        /\ reading' = [reading EXCEPT ![t] = "copy1"]
        /\ read_buffer' = [read_buffer EXCEPT ![2] = [sent |-> transfers, at |-> lag]]
        /\ UNCHANGED <<isValid, offsetPos, transfers, dataVars, disturbed>>
    BY <1>5 DEF EndTransfer, Goto, Fill
  <2>2. BufOK'
    BY <1>0, <1>5, <2>1 DEF Words
  <2>3. bus = t
    BY <1>a, <2>1
  <2>4. BusOK' /\ RestOK'
    BY <1>0, <1>a, <2>1, <2>3 DEF ReadSteps, Readers, dataVars
  <2> QED
    BY <1>b, <1>1, <2>1, <2>2, <2>4
\* Copying from one buffer to the next.
<1>6. ASSUME NEW t \in Readers, NEW step \in ReadSteps \ {"fill"}, NEW then \in ReadSteps \ {"fill"},
             reading[t] = step, Goto(t, then), UNCHANGED <<lag, isValid, offsetPos, busVars, disturbed>>,
             RestOK'
      PROVE  SensorTypeOK'
  <2>1. BusOK'
    BY <1>0, <1>a, <1>6 DEF Goto, busVars
  <2> QED
    BY <1>0, <1>b, <1>1, <1>6, <2>1 DEF busVars
<1>7. ASSUME NEW t \in Readers, CopyReadout(t), UNCHANGED <<lag, resetting>> PROVE SensorTypeOK'
  <2>1. \A w \in Words : Placed(w) \in Sent
    BY <1>0 DEF Placed
  <2>2. ASSUME NEW w \in Words, NEW step \in {"copy1", "copy2"}, NEW then \in {"copy2", "store1"},
               CopyWord(t, w, step, then)
        PROVE  SensorTypeOK'
    <3>1. readout' = [readout EXCEPT ![t][w] = Placed(w)]
      BY <2>2 DEF CopyWord
    <3>2. readout' \in [Readers -> [Words -> Sent]]
      BY <1>0, <2>1, <3>1
    <3>3. RestOK'
      BY <1>0, <2>2, <3>2 DEF CopyWord, Goto, ReadSteps
    <3>4. step \in ReadSteps \ {"fill"} /\ then \in ReadSteps \ {"fill"}
      BY DEF ReadSteps
    <3> QED
      BY <1>6, <1>7, <2>2, <3>3, <3>4 DEF CopyWord
  <2> QED
    BY <1>7, <2>2 DEF CopyReadout, Words
<1>8. ASSUME NEW t \in Readers, UNCHANGED <<lag, resetting>>,
             \/ StoreWord(t, 1, "store1", "store2")
             \/ StoreWord(t, 2, "store2", IF t = "main" THEN "get1" ELSE "idle")
      PROVE  SensorTypeOK'
  <2>1. ASSUME NEW w \in Words, NEW step \in {"store1", "store2"},
               NEW then \in {"store2", "get1", "idle"}, StoreWord(t, w, step, then)
        PROVE  SensorTypeOK'
    <3>1. /\ mFTData' = [mFTData EXCEPT ![w] = readout[t][w]]
          /\ readout' = [readout EXCEPT ![t][w] = 0]
      BY <2>1 DEF StoreWord
    <3>2. mFTData' \in [Words -> Sent] /\ readout' \in [Readers -> [Words -> Sent]]
      BY <1>0, <3>1
    <3>3. RestOK'
      BY <1>0, <2>1, <3>2 DEF StoreWord, Goto, ReadSteps
    <3>4. step \in ReadSteps \ {"fill"} /\ then \in ReadSteps \ {"fill"}
      BY DEF ReadSteps
    <3> QED
      BY <1>6, <1>8, <2>1, <3>3, <3>4 DEF StoreWord
  <2> QED
    BY <1>8, <2>1 DEF Words
<1>9. ASSUME GetValue, UNCHANGED <<lag, resetting>> PROVE SensorTypeOK'
  <2>1. ASSUME NEW w \in Words, NEW step \in {"get1", "get2"}, NEW then \in {"get2", "idle"},
               GetWord(w, step, then)
        PROVE  SensorTypeOK'
    <3>1. value' = [value EXCEPT ![w] = mFTData[w]]
      BY <2>1 DEF GetWord
    <3>2. RestOK'
      BY <1>0, <2>1, <3>1 DEF GetWord, Goto, ReadSteps, Readers
    <3>3. step \in ReadSteps \ {"fill"} /\ then \in ReadSteps \ {"fill"} /\ "main" \in Readers
      BY DEF ReadSteps, Readers
    <3> QED
      BY <1>6, <1>9, <2>1, <3>2, <3>3 DEF GetWord
  <2> QED
    BY <1>9, <2>1 DEF GetValue, Words
<1>10. CASE SensorThreads /\ UNCHANGED resetting
  BY <1>3, <1>4, <1>5, <1>7, <1>8, <1>9, <1>10 DEF SensorThreads, ReadSensor
<1> QED
  BY <1>2, <1>10 DEF SensorNext
\* A reading follows one transfer through the buffers, unless something comes in.
LEMMA OneReadingKept ==
  ASSUME SensorTypeOK, OneReading, SensorNext
  PROVE  OneReading'
<1>0. /\ read_buffer \in [Words -> [sent : 0..MaxTransfers, at : Lags \cup {0}]]
      /\ reading \in [Readers -> ReadSteps]
      /\ DOMAIN readout = Readers /\ \A t \in Readers : DOMAIN readout[t] = Words
      /\ DOMAIN mFTData = Words /\ DOMAIN value = Words
  BY DEF SensorTypeOK, ReadSteps
<1> USE DEF Readers
<1>1. CASE SketchResets \/ SketchStops \/ (BoardRestarts /\ UNCHANGED resetting)
  <2>1. UNCHANGED <<busVars, reading, dataVars>>
    BY <1>1 DEF SketchResets, SketchStops, BoardRestarts, ResetFinds, ResetStores, Stop
  <2>2. ~disturbed' => ~disturbed /\ \A t \in Readers : reading[t] = "idle"
    BY <1>1
       DEF SketchResets, SketchStops, BoardRestarts, ResetFinds, ResetStores, Stop, Disturbs, Meets
  <2>3. ASSUME ~disturbed' PROVE Stored' /\ \A t \in Readers : Taken(t)'
    BY <2>1, <2>2, <2>3 DEF OneReading, Stored, Taken, dataVars
  <2> QED
    BY <2>1, <2>2, <2>3 DEF OneReading
<1>2. ASSUME NEW t \in Readers, Enter(t), UNCHANGED <<lag, resetting>> PROVE OneReading'
  <2>1. /\ UNCHANGED <<isValid, offsetPos, busVars, dataVars>> /\ reading[t] = "idle"
        /\ \/ t = "main" /\ reading' = [reading EXCEPT ![t] = "get1"]
           \/ reading' = [reading EXCEPT ![t] = "transfer"]
    BY <1>2 DEF Enter, Goto
  <2>2. ~disturbed' => /\ \A u \in Readers \ {t} : reading[u] = "idle"
                       /\ \/ t = "main" /\ reading' = [reading EXCEPT ![t] = "transfer"]
                          \/ ~disturbed
    BY <1>2 DEF Enter, Goto, Disturbs, Meets
  <2>3. reading'["spi"] \notin {"get1", "get2"}
    BY <1>0, <2>1 DEF OneReading
  <2>4. ASSUME ~disturbed' PROVE Stored' /\ \A u \in Readers : Taken(u)'
    BY <1>0, <2>1, <2>2, <2>4 DEF OneReading, Stored, Taken, dataVars
  <2> QED
    BY <1>0, <2>1, <2>2, <2>3, <2>4 DEF OneReading
\* The other steps of a reading: they leave the history alone, so it suffices to follow
\* the one thread that is reading.
<1>3. ASSUME NEW t \in Readers, reading[t] # "idle", UNCHANGED <<lag, offsetPos, disturbed>>,
             NEW then \in ReadSteps, reading' = [reading EXCEPT ![t] = then],
             t = "spi" => then \notin {"get1", "get2"},
             ~disturbed /\ Taken(t) /\ Stored /\ (\A u \in Readers \ {t} : reading[u] = "idle")
               => Taken(t)' /\ Stored'
      PROVE  OneReading'
  <2>1. reading'["spi"] \notin {"get1", "get2"}
    BY <1>0, <1>3 DEF OneReading
  <2>2. ASSUME ~disturbed
        PROVE  /\ \A u \in Readers \ {t} : reading'[u] = "idle"
               /\ Stored' /\ \A u \in Readers : Taken(u)'
    <3>1. \A u \in Readers \ {t} : reading[u] = "idle" /\ reading'[u] = "idle"
      BY <1>0, <1>3, <2>2 DEF OneReading
    <3>2. \A u \in Readers \ {t} : Taken(u)'
      BY <3>1 DEF Taken
    <3> QED
      BY <1>3, <2>2, <3>1, <3>2 DEF OneReading
  <2> QED
    BY <1>3, <2>1, <2>2 DEF OneReading
<1>4. ASSUME NEW t \in Readers, BeginTransfer(t) \/ EndTransfer(t), UNCHANGED <<lag, resetting>>
      PROVE  OneReading'
  <2>1. CASE BeginTransfer(t)
    <3>1. /\ reading[t] = "transfer" /\ reading' = [reading EXCEPT ![t] = "fill"]
          /\ read_buffer' = [read_buffer EXCEPT ![1] = [sent |-> transfers', at |-> lag]]
          /\ UNCHANGED <<offsetPos, readout, mFTData, value, disturbed>>
      BY <2>1 DEF BeginTransfer, Goto, Fill, dataVars
    <3>2. Taken(t)'
      BY <1>0, <1>4, <3>1 DEF Taken, Words
    <3>3. Stored => Stored'
      BY <1>0, <3>1 DEF Stored
    <3> QED
      BY <1>3, <1>4, <3>1, <3>2, <3>3 DEF ReadSteps
  <2>2. CASE EndTransfer(t)
    <3>1. /\ reading[t] = "fill" /\ reading' = [reading EXCEPT ![t] = "copy1"]
          /\ read_buffer' = [read_buffer EXCEPT ![2] = [sent |-> transfers, at |-> lag]]
          /\ UNCHANGED <<offsetPos, readout, mFTData, value, disturbed>>
      BY <2>2 DEF EndTransfer, Goto, Fill, dataVars
    <3>2. Taken(t) => Taken(t)'
      BY <1>0, <1>4, <3>1 DEF Taken, Words
    <3>3. Stored => Stored'
      BY <1>0, <3>1 DEF Stored
    <3> QED
      BY <1>3, <1>4, <3>1, <3>2, <3>3 DEF ReadSteps
  <2> QED
    BY <1>4, <2>1, <2>2
<1>5. ASSUME NEW t \in Readers, CopyReadout(t), UNCHANGED <<lag, resetting>> PROVE OneReading'
  <2>1. CASE CopyWord(t, 1, "copy1", "copy2")
    <3>1. /\ reading[t] = "copy1" /\ reading' = [reading EXCEPT ![t] = "copy2"]
          /\ readout' = [readout EXCEPT ![t][1] = Placed(1)]
          /\ UNCHANGED <<offsetPos, read_buffer, mFTData, value, disturbed>>
      BY <2>1 DEF CopyWord, Goto, busVars
    <3>2. Taken(t) => Taken(t)'
      BY <1>0, <1>5, <3>1 DEF Taken, Words, Placed
    <3>3. Stored => Stored'
      BY <1>0, <3>1 DEF Stored
    <3> QED
      BY <1>3, <1>5, <3>1, <3>2, <3>3 DEF ReadSteps
  <2>2. CASE CopyWord(t, 2, "copy2", "store1")
    <3>1. /\ reading[t] = "copy2" /\ reading' = [reading EXCEPT ![t] = "store1"]
          /\ readout' = [readout EXCEPT ![t][2] = Placed(2)]
          /\ UNCHANGED <<offsetPos, read_buffer, mFTData, value, disturbed>>
      BY <2>2 DEF CopyWord, Goto, busVars
    <3>2. Taken(t) => Taken(t)'
      BY <1>0, <1>5, <3>1 DEF Taken, Words, Placed
    <3>3. Stored => Stored'
      BY <1>0, <3>1 DEF Stored
    <3> QED
      BY <1>3, <1>5, <3>1, <3>2, <3>3 DEF ReadSteps
  <2> QED
    BY <1>5, <2>1, <2>2 DEF CopyReadout
<1>6. ASSUME NEW t \in Readers, UNCHANGED <<lag, resetting>>,
             \/ StoreWord(t, 1, "store1", "store2")
             \/ StoreWord(t, 2, "store2", IF t = "main" THEN "get1" ELSE "idle")
      PROVE  OneReading'
  <2>1. CASE StoreWord(t, 1, "store1", "store2")
    <3>1. /\ reading[t] = "store1" /\ reading' = [reading EXCEPT ![t] = "store2"]
          /\ mFTData' = [mFTData EXCEPT ![1] = readout[t][1]]
          /\ readout' = [readout EXCEPT ![t][1] = 0]
          /\ UNCHANGED <<offsetPos, read_buffer, value, disturbed>>
      BY <2>1 DEF StoreWord, Goto, busVars
    <3>2. Taken(t) => Taken(t)'
      BY <1>0, <1>6, <3>1 DEF Taken, Words
    <3>3. Stored /\ (\A u \in Readers \ {t} : reading[u] = "idle") => Stored'
      BY <1>0, <3>1 DEF Stored
    <3> QED
      BY <1>3, <1>6, <3>1, <3>2, <3>3 DEF ReadSteps
  <2>2. CASE StoreWord(t, 2, "store2", IF t = "main" THEN "get1" ELSE "idle")
    <3> DEFINE then == IF t = "main" THEN "get1" ELSE "idle"
    <3>1. /\ reading[t] = "store2" /\ reading' = [reading EXCEPT ![t] = then]
          /\ mFTData' = [mFTData EXCEPT ![2] = readout[t][2]]
          /\ readout' = [readout EXCEPT ![t][2] = 0]
          /\ UNCHANGED <<offsetPos, read_buffer, value, disturbed>>
      BY <2>2 DEF StoreWord, Goto, busVars
    <3>2. Taken(t)'
      BY <1>0, <3>1 DEF Taken
    <3>3. Taken(t) /\ Stored /\ (\A u \in Readers \ {t} : reading[u] = "idle") => Stored'
      <4>1. Taken(t) => mFTData'[1] = mFTData'[2]
        BY <1>0, <3>1 DEF Taken, Words
      <4>2. CASE t = "main"
        BY <1>0, <3>1, <4>1, <4>2 DEF Stored
      <4>3. CASE t = "spi"
        BY <1>0, <3>1, <4>1, <4>3 DEF Stored
      <4> QED
        BY <4>2, <4>3
    <3> QED
      BY <1>3, <1>6, <3>1, <3>2, <3>3 DEF ReadSteps
  <2> QED
    BY <1>6, <2>1, <2>2
<1>7. ASSUME GetValue, UNCHANGED <<lag, resetting>> PROVE OneReading'
  <2>1. CASE GetWord(1, "get1", "get2")
    <3>1. /\ reading["main"] = "get1" /\ reading' = [reading EXCEPT !["main"] = "get2"]
          /\ value' = [value EXCEPT ![1] = mFTData[1]]
          /\ UNCHANGED <<offsetPos, read_buffer, mFTData, readout, disturbed>>
      BY <2>1 DEF GetWord, Goto, busVars
    <3>2. Taken("main")' /\ (Stored => Stored')
      BY <1>0, <3>1 DEF Taken, Stored, Words
    <3> QED
      BY <1>3, <1>7, <3>1, <3>2 DEF ReadSteps
  <2>2. CASE GetWord(2, "get2", "idle")
    <3>1. /\ reading["main"] = "get2" /\ reading' = [reading EXCEPT !["main"] = "idle"]
          /\ value' = [value EXCEPT ![2] = mFTData[2]]
          /\ UNCHANGED <<offsetPos, read_buffer, mFTData, readout, disturbed>>
      BY <2>2 DEF GetWord, Goto, busVars
    <3>2. Taken("main")' /\ (Stored => Stored')
      BY <1>0, <3>1 DEF Taken, Stored, Words
    <3> QED
      BY <1>3, <1>7, <3>1, <3>2 DEF ReadSteps
  <2> QED
    BY <1>7, <2>1, <2>2 DEF GetValue
<1>8. CASE SensorThreads /\ UNCHANGED resetting
  BY <1>2, <1>4, <1>5, <1>6, <1>7, <1>8 DEF SensorThreads, ReadSensor
<1> QED
  BY <1>1, <1>8 DEF SensorNext

LEMMA SensorKept == SensorInv /\ UNCHANGED <<sensorVars, resetting>> => SensorInv'
BY DEF SensorInv, SensorTypeOK, OneReading, Taken, Stored, Placed, sensorVars, busVars, dataVars
----------------------------------------------------------------------------
(* The connection. *)

NetInv == NetTypeOK /\ Masked

LEMMA InitNet == Init => NetInv
<1> SUFFICES ASSUME Init PROVE NetInv
  OBVIOUS
<1>1. /\ board \in BOOLEAN /\ link \in BOOLEAN /\ udp \in BOOLEAN /\ streaming \in BOOLEAN
      /\ bUDPConnected \in BOOLEAN
  BY DEF Init, NetInit
<1>2. NetTypeOK
  BY <1>1 DEF Init, NetInit, NetTypeOK
<1>3. Masked
  BY DEF Init, NetInit, Masked, Unknown
<1> QED
  BY <1>2, <1>3 DEF NetInv

LEMMA NetStep == NetInv /\ InterrogatorNext => NetInv'
<1> SUFFICES ASSUME NetInv, InterrogatorNext PROVE NetInv'
  OBVIOUS
<1>0. /\ tcp \in {"closed", "open", "dead"}
      /\ fhardwareStatus \in {0, 1, Unknown} /\ flinkStatus \in {0, 1, Unknown}
      /\ udpState \in {0, 1, 2, 3, 4, 5, Unknown}
      /\ netCall \in {"idle", "checkLink", "connect", "stopUdp"} /\ netRead \in {"idle", "read"}
      /\ datagram \in {"none", "waiting", "parsed"}
  BY DEF NetInv, NetTypeOK
<1>a. /\ board \in BOOLEAN /\ link \in BOOLEAN /\ udp \in BOOLEAN /\ streaming \in BOOLEAN
      /\ bUDPConnected \in BOOLEAN
  BY DEF NetInv, NetTypeOK
<1>b. datagram # "none" => udp
  BY DEF NetInv, NetTypeOK
<1>c. Masked
  BY DEF NetInv
\* What connectUDP finds.
<1>1. CASE CheckHardware \/ CheckLink \/ Connect
  <2>1. /\ board' \in BOOLEAN /\ link' \in BOOLEAN /\ udp' \in BOOLEAN /\ streaming' \in BOOLEAN
        /\ bUDPConnected' \in BOOLEAN /\ (datagram' # "none" => udp')
    BY <1>1, <1>a, <1>b DEF CheckHardware, CheckLink, Connect, linkVars, readVars
  <2>2. /\ tcp' \in {"closed", "open", "dead"} /\ UNCHANGED <<netRead, datagram>>
        /\ fhardwareStatus' \in {0, 1, Unknown} /\ flinkStatus' \in {0, 1, Unknown}
        /\ udpState' \in {0, 1, 2, 3, 4, 5, Unknown}
        /\ netCall' \in {"idle", "checkLink", "connect", "stopUdp"}
    BY <1>0, <1>1 DEF CheckHardware, CheckLink, Connect, linkVars, readVars
  <2>3. ASSUME CheckHardware PROVE Masked'
    BY <1>0, <1>c, <2>3 DEF CheckHardware, Masked
  <2>4. ASSUME CheckLink PROVE Masked'
    <3>1. /\ fhardwareStatus' \in {0, 1} /\ flinkStatus' \in {0, 1}
          /\ udpState' = 1 => flinkStatus' = 1
      BY <1>c, <2>4 DEF CheckLink, Masked
    <3> QED
      BY <2>4, <3>1 DEF CheckLink, Masked
  <2>5. ASSUME Connect PROVE Masked'
    BY <1>0, <1>c, <2>5 DEF Connect, Masked, AnyFound
  <2>6. NetTypeOK'
    BY <1>0, <2>1, <2>2 DEF NetTypeOK
  <2> QED
    BY <1>1, <2>3, <2>4, <2>5, <2>6 DEF NetInv
\* The other steps report neither of the two faults.
<1>2. ASSUME UNCHANGED <<fhardwareStatus, flinkStatus>>, udpState' \in {udpState, 4, 5},
             netCall' \in {netCall, "idle", "stopUdp"},
             netCall' # netCall => netCall \in {"idle", "stopUdp"},
             udpState' # udpState => netCall = "idle",
             tcp' \in {"closed", "open", "dead"}, netRead' \in {"idle", "read"},
             datagram' \in {"none", "waiting", "parsed"},
             /\ board' \in BOOLEAN /\ link' \in BOOLEAN /\ udp' \in BOOLEAN
             /\ streaming' \in BOOLEAN /\ bUDPConnected' \in BOOLEAN,
             datagram' # "none" => udp'
      PROVE  NetInv'
  <2>1. Masked'
    BY <1>0, <1>2, <1>c DEF Masked
  <2>2. /\ udpState' \in {0, 1, 2, 3, 4, 5, Unknown}
        /\ netCall' \in {"idle", "checkLink", "connect", "stopUdp"}
    BY <1>0, <1>2
  <2> QED
    BY <1>0, <1>2, <2>1, <2>2 DEF NetInv, NetTypeOK
<1>3. CASE EnablePeakDatagrams \/ StopTcp \/ StopUdp
  <2>1. /\ UNCHANGED <<fhardwareStatus, flinkStatus, board, link, bUDPConnected, netRead>>
        /\ udpState' \in {udpState, 4, 5} /\ netCall' \in {netCall, "idle", "stopUdp"}
        /\ netCall' # netCall => netCall \in {"idle", "stopUdp"}
        /\ udpState' # udpState => netCall = "idle"
        /\ tcp' \in {tcp, "closed"} /\ datagram' \in {datagram, "none"}
    BY <1>3 DEF EnablePeakDatagrams, StopTcp, StopUdp, readVars
  <2>2. udp' \in BOOLEAN /\ streaming' \in BOOLEAN /\ (datagram' # "none" => udp')
    BY <1>3, <1>a, <1>b DEF EnablePeakDatagrams, StopTcp, StopUdp, readVars
  <2> QED
    BY <1>0, <1>2, <1>a, <2>1, <2>2
<1>4. CASE SetConnected \/ InterrogatorThread \/ NetSurroundings
  <2>1. /\ UNCHANGED <<fhardwareStatus, flinkStatus, udpState, netCall>>
        /\ tcp' \in {tcp, "dead"} /\ netRead' \in {"idle", "read"}
        /\ datagram' \in {"none", "waiting", "parsed"}
    BY <1>0, <1>4
       DEF SetConnected, InterrogatorThread, ParsePacket, ReadParsed, NetSurroundings, linkVars
  <2>2. /\ board' \in BOOLEAN /\ link' \in BOOLEAN /\ udp' \in BOOLEAN
        /\ streaming' \in BOOLEAN /\ bUDPConnected' \in BOOLEAN
    BY <1>4, <1>a
       DEF SetConnected, InterrogatorThread, ParsePacket, ReadParsed, NetSurroundings, linkVars
  <2>3. datagram' # "none" => udp'
    BY <1>4, <1>b
       DEF SetConnected, InterrogatorThread, ParsePacket, ReadParsed, NetSurroundings, linkVars
  <2> QED
    BY <1>0, <1>2, <2>1, <2>2, <2>3
<1> QED
  BY <1>1, <1>3, <1>4 DEF InterrogatorNext, NetCall

LEMMA NetKept == NetInv /\ UNCHANGED netVars => NetInv'
BY DEF NetInv, NetTypeOK, Masked, netVars, linkVars, readVars
----------------------------------------------------------------------------
(* The record: the arithmetic of counters that overflow and of the filter. *)

LEMMA Division ==
  ASSUME NEW m \in Nat \ {0}, NEW z \in Int
  PROVE  z % m \in 0..(m - 1) /\ \E q \in Int : z = m * q + (z % m)
<1>1. z % m \in 0..(m - 1) /\ z = m * (z \div m) + (z % m) /\ z \div m \in Int
  OBVIOUS
<1> QED
  BY <1>1

LEMMA ProductNat ==
  ASSUME NEW a \in Int, NEW b \in Int, a >= 0, b >= 0
  PROVE  a * b >= 0
OBVIOUS

\* Two remainders that differ by a multiple of m are the same.
LEMMA SameRemainder ==
  ASSUME NEW m \in Nat \ {0}, NEW k \in Int, NEW r \in 0..(m - 1), NEW s \in 0..(m - 1),
         m * k = r - s
  PROVE  r = s
<1>1. CASE k >= 1
  <2>1. m * (k - 1) >= 0
    BY <1>1, ProductNat
  <2>2. m * (k - 1) = r - s - m
    OBVIOUS
  <2> QED
    BY <2>1, <2>2
<1>2. CASE k <= -1
  <2>1. m * (-k - 1) >= 0
    BY <1>2, ProductNat
  <2>2. m * (-k - 1) = s - r - m
    OBVIOUS
  <2> QED
    BY <2>1, <2>2
<1>3. CASE k = 0
  BY <1>3
<1> QED
  BY <1>1, <1>2, <1>3

\* A multiple of m makes no difference modulo m.
LEMMA ModShift ==
  ASSUME NEW m \in Nat \ {0}, NEW y \in Int, NEW z \in Int, NEW q \in Int, y = m * q + z
  PROVE  y % m = z % m
<1>1. PICK p1 \in Int, r1 \in 0..(m - 1) : y = m * p1 + r1 /\ y % m = r1
  BY Division
<1>2. PICK p2 \in Int, r2 \in 0..(m - 1) : z = m * p2 + r2 /\ z % m = r2
  BY Division
<1>3. m * (p2 + q - p1) = r1 - r2
  BY <1>1, <1>2
<1>4. r1 = r2
  BY <1>3, SameRemainder
<1> QED
  BY <1>1, <1>2, <1>4

LEMMA ModSmall ==
  ASSUME NEW m \in Nat \ {0}, NEW x \in 0..(m - 1)
  PROVE  x % m = x
<1>1. x \in Int
  OBVIOUS
<1>2. PICK p \in Int, r \in 0..(m - 1) : x = m * p + r /\ x % m = r
  BY <1>1, Division
<1> QED
  BY <1>2, SameRemainder

\* What a counter shows may be subtracted before or after it has overflowed.
LEMMA ModDifference ==
  ASSUME NEW m \in Nat \ {0}, NEW x \in Int, NEW y \in Int
  PROVE  ((x % m) - (y % m)) % m = (x - y) % m
<1>1. PICK p1 \in Int, r1 \in 0..(m - 1) : x = m * p1 + r1 /\ x % m = r1
  BY Division
<1>2. PICK p2 \in Int, r2 \in 0..(m - 1) : y = m * p2 + r2 /\ y % m = r2
  BY Division
<1>3. PICK d \in Int, e \in Int, p \in Int : d = x - y /\ e = r1 - r2 /\ p = p1 - p2
  OBVIOUS
<1>4. d = m * p + e
  BY <1>1, <1>2, <1>3
<1>5. d % m = e % m
  BY <1>4, ModShift
<1> QED
  BY <1>1, <1>2, <1>3, <1>5

LEMMA ModComplement ==
  ASSUME NEW m \in Nat \ {0}, NEW y \in Int, NEW z \in Int, NEW x \in 0..(m - 1),
         y + z = x + (z % m)
  PROVE  y % m = x
<1>1. PICK p1 \in Int, r1 \in 0..(m - 1) : z = m * p1 + r1 /\ z % m = r1
  BY Division
<1>2. PICK p \in Int : p = -p1
  OBVIOUS
<1>3. y = m * p + x
  BY <1>1, <1>2
<1>4. x \in Int
  OBVIOUS
<1>5. y % m = x % m
  BY <1>3, <1>4, ModShift
<1> QED
  BY <1>5, ModSmall

LEMMA UnsignedType == \A n \in Int : Unsigned(n) \in 0..(Overflow - 1)
BY RecordAssumption, Division DEF Unsigned

LEMMA UnsignedDifference ==
  \A x, y \in Int : Unsigned(Unsigned(x) - Unsigned(y)) = Unsigned(x - y)
BY RecordAssumption, ModDifference DEF Unsigned

LEMMA UnsignedZero == Unsigned(0) = 0
<1>1. 0 \in 0..(Overflow - 1)
  BY RecordAssumption
<1> QED
  BY <1>1, RecordAssumption, ModSmall DEF Unsigned

LEMMA MsType == \A t \in 0..MaxTime : Ms(t) \in Int
BY RecordAssumption DEF Ms

\* What the filter is given and gives.
LEMMA FilterTypes ==
  ASSUME NEW r \in [1..3 -> 0..(Modulus - 1)], NEW x \in Forces
  PROVE  /\ LPF(r, x).reg \in [1..3 -> 0..(Modulus - 1)]
         /\ LPF(r, x).out \in 0..(Modulus - 1)
<1> DEFINE z == LPFCoefA[1] * x - LPFCoefA[2] * r[2] - LPFCoefA[3] * r[3]
           w == z % Modulus
           y == LPFCoefB[1] * w + LPFCoefB[2] * r[2] + LPFCoefB[3] * r[3]
<1>1. /\ LPFCoefA[1] \in Int /\ LPFCoefA[2] \in Int /\ LPFCoefA[3] \in Int
      /\ LPFCoefB[1] \in Int /\ LPFCoefB[2] \in Int /\ LPFCoefB[3] \in Int
      /\ x \in Int /\ r[2] \in Int /\ r[3] \in Int /\ Modulus \in Nat \ {0}
  BY RecordAssumption
<1>2. z \in Int
  BY <1>1
<1>3. w \in 0..(Modulus - 1)
  BY <1>1, <1>2, Division
<1>4. w \in Int
  BY <1>1, <1>3
<1>5. y \in Int
  BY <1>1, <1>4
<1>6. y % Modulus \in 0..(Modulus - 1)
  BY <1>1, <1>5, Division
<1>7. LPF(r, x) = [reg |-> <<w, w, w>>, out |-> y % Modulus]
  BY DEF LPF
<1> HIDE DEF w, y
<1> QED
  BY <1>3, <1>6, <1>7

\* Settled with all its delays at one value, a filter whose coefficients have the same sum
\* shows what it is given.
LEMMA FilterSettled ==
  ASSUME NEW r \in [1..3 -> 0..(Modulus - 1)], NEW x \in Forces, LPF(r, x).reg = r
  PROVE  LPF(r, x).out = x
<1> DEFINE w == (LPFCoefA[1] * x - LPFCoefA[2] * r[2] - LPFCoefA[3] * r[3]) % Modulus
<1>1. LPF(r, x).reg = <<w, w, w>>
  BY DEF LPF
<1>2. r = <<w, w, w>>
  BY <1>1
<1>3. r[2] = w /\ r[3] = w
  <2> HIDE DEF w
  <2> QED
    BY <1>2
<1>4. LPF(r, x).out =
        (LPFCoefB[1] * w + LPFCoefB[2] * r[2] + LPFCoefB[3] * r[3]) % Modulus
  BY DEF LPF
<1>5. /\ LPFCoefA[1] = 1 /\ LPFCoefA[2] \in Int /\ LPFCoefA[3] \in Int
      /\ LPFCoefB[1] \in Int /\ LPFCoefB[2] \in Int /\ LPFCoefB[3] \in Int
      /\ 1 + LPFCoefA[2] + LPFCoefA[3] = LPFCoefB[1] + LPFCoefB[2] + LPFCoefB[3]
      /\ x \in 0..(Modulus - 1) /\ Modulus \in Nat \ {0} /\ r[2] \in Int
  BY RecordAssumption
<1>6. PICK v \in Int, a2 \in Int, a3 \in Int, b1 \in Int, b2 \in Int, b3 \in Int :
        /\ v = r[2] /\ a2 = LPFCoefA[2] /\ a3 = LPFCoefA[3]
        /\ b1 = LPFCoefB[1] /\ b2 = LPFCoefB[2] /\ b3 = LPFCoefB[3]
  BY <1>5
<1>7. PICK y \in Int, z \in Int :
        z = x - a2 * v - a3 * v /\ y = b1 * v + b2 * v + b3 * v
  BY <1>5
<1>8. z % Modulus = v
  BY <1>3, <1>5, <1>6, <1>7
<1>9. LPF(r, x).out = y % Modulus
  BY <1>3, <1>4, <1>6, <1>7
<1>10. 1 + a2 + a3 = b1 + b2 + b3
  BY <1>5, <1>6
<1>11. y = (1 + a2 + a3) * v
  BY <1>7, <1>10
<1>12. (1 + a2 + a3) * v = v + a2 * v + a3 * v
  OBVIOUS
<1>13. y + z = x + v
  BY <1>5, <1>7, <1>11, <1>12
<1>14. y % Modulus = x
  BY <1>5, <1>8, <1>13, ModComplement
<1> QED
  BY <1>9, <1>14
----------------------------------------------------------------------------
(* The record: its types. *)

Counts == 0..(Overflow - 1)
Records == [timeStamp : Counts, loopPeriod : Counts, statusFlag : BOOLEAN,
            FBGForce : [Axes -> Forces], LPFForce : [Axes -> 0..(Modulus - 1)]]

\* RecordTypeOK and HistoryTypeOK, conjunct by conjunct.
LEMMA RecordTypes ==
  RecordTypeOK /\ HistoryTypeOK <=>
    /\ now \in 0..MaxTime
    /\ pass \in {"idle", "tick", "job", "queue", "update", "judge"}
    /\ looped \in BOOLEAN /\ rtInvalid \in BOOLEAN /\ crossed \in BOOLEAN
    /\ startTime \in Counts /\ currentTime \in Counts /\ elapsedTime \in Counts
    /\ loopPeriod \in Counts
    /\ Reg \in [Axes -> [1..3 -> 0..(Modulus - 1)]]
    /\ settled \subseteq Axes
    /\ mDataLog \in Records
    /\ began \in [run : 0..MaxTime, pass : 0..MaxTime, first : BOOLEAN]
    /\ lastPass \in [took : Int, crossed : BOOLEAN]
<1>1. {looped, rtInvalid, crossed} \subseteq BOOLEAN
        <=> looped \in BOOLEAN /\ rtInvalid \in BOOLEAN /\ crossed \in BOOLEAN
  OBVIOUS
<1>2. {startTime, currentTime, elapsedTime, loopPeriod} \subseteq Counts
        <=> /\ startTime \in Counts /\ currentTime \in Counts /\ elapsedTime \in Counts
            /\ loopPeriod \in Counts
  OBVIOUS
<1> QED
  BY <1>1, <1>2, Zenon DEF RecordTypeOK, HistoryTypeOK, Records, Counts

LEMMA NoRecordType == NoRecord \in Records
<1>1. 0 \in Counts /\ FALSE \in BOOLEAN /\ NoForce \in [Axes -> Forces]
      /\ NoForce \in [Axes -> 0..(Modulus - 1)]
  BY RecordAssumption DEF Counts, NoForce
<1> QED
  BY <1>1 DEF NoRecord, Records

RecordInv == RecordTypeOK /\ HistoryTypeOK /\ HoldsPass

LEMMA InitRecord == Init => RecordInv
<1> SUFFICES ASSUME Init PROVE RecordInv
  OBVIOUS
<1>0. RecordInit
  BY DEF Init
<1>1. /\ looped \in BOOLEAN /\ rtInvalid \in BOOLEAN /\ crossed \in BOOLEAN
      /\ settled \subseteq Axes
  BY <1>0 DEF RecordInit
<1>2. /\ startTime \in Counts /\ currentTime \in Counts /\ elapsedTime \in Counts
      /\ loopPeriod \in Counts /\ now \in 0..MaxTime
  BY <1>0, RecordAssumption DEF RecordInit, Counts
<1>3. Reg \in [Axes -> [1..3 -> 0..(Modulus - 1)]]
  <2>1. <<0, 0, 0>> \in [1..3 -> 0..(Modulus - 1)]
    BY RecordAssumption
  <2> QED
    BY <1>0, <2>1 DEF RecordInit
<1>4. /\ began \in [run : 0..MaxTime, pass : 0..MaxTime, first : BOOLEAN]
      /\ lastPass \in [took : Int, crossed : BOOLEAN]
  BY <1>0, RecordAssumption DEF RecordInit
<1>5. pass = "idle" /\ mDataLog \in Records
  BY <1>0, NoRecordType DEF RecordInit
<1>6. RecordTypeOK /\ HistoryTypeOK
  BY <1>1, <1>2, <1>3, <1>4, <1>5, RecordTypes
<1>7. ClockRight /\ GainRight
  BY <1>0 DEF RecordInit, ClockRight, GainRight
<1>8. PeriodRight
  BY <1>0 DEF RecordInit, PeriodRight
<1>9. FlagRight
  <2>1. ~TookTooLong
    BY <1>0, UnsignedZero, RecordAssumption DEF RecordInit, TookTooLong
  <2> QED
    BY <1>0, <2>1 DEF RecordInit, FlagRight
<1> QED
  BY <1>6, <1>7, <1>8, <1>9 DEF RecordInv, HoldsPass

LEMMA RecordTypesKept ==
  ASSUME RecordTypeOK, HistoryTypeOK, RecordNext
  PROVE  RecordTypeOK' /\ HistoryTypeOK'
<1> DEFINE Times == /\ startTime \in Counts /\ currentTime \in Counts
                    /\ elapsedTime \in Counts /\ loopPeriod \in Counts
           Flags == looped \in BOOLEAN /\ rtInvalid \in BOOLEAN /\ crossed \in BOOLEAN
           Filters == Reg \in [Axes -> [1..3 -> 0..(Modulus - 1)]] /\ settled \subseteq Axes
           History == /\ began \in [run : 0..MaxTime, pass : 0..MaxTime, first : BOOLEAN]
                      /\ lastPass \in [took : Int, crossed : BOOLEAN]
           Steps == {"idle", "tick", "job", "queue", "update", "judge"}
<1>0. /\ now \in 0..MaxTime /\ pass \in Steps
      /\ Times /\ Flags /\ Filters /\ mDataLog \in Records /\ History
  BY RecordTypes
<1>1. /\ now' \in 0..MaxTime /\ pass' \in Steps
      /\ Times' /\ Flags' /\ Filters' /\ mDataLog' \in Records /\ History'
      => RecordTypeOK' /\ HistoryTypeOK'
  <2>1. Flags' => {looped', rtInvalid', crossed'} \subseteq BOOLEAN
    OBVIOUS
  <2>2. Times' => {startTime', currentTime', elapsedTime', loopPeriod'} \subseteq Counts
    OBVIOUS
  <2> QED
    BY <2>1, <2>2, Zenon DEF RecordTypeOK, HistoryTypeOK, Records, Counts
<1>2. now \in Int /\ millis \in Int /\ micros \in Counts /\ millis \in Counts
  BY <1>0, MsType, UnsignedType DEF millis, micros, Counts
<1>3. CASE Time
  <2>1. /\ now' = now + 1 /\ now < MaxTime
        /\ UNCHANGED <<pass, statusVars, forceVars, crossed, began, lastPass>>
    BY <1>3 DEF Time
  <2>2. now' \in 0..MaxTime
    BY <1>0, <2>1, RecordAssumption
  <2> QED
    BY <1>0, <1>1, <2>1, <2>2 DEF statusVars, forceVars
<1>4. CASE SetMainStartTimeTick
  <2>1. /\ pass' = "tick" /\ UNCHANGED now /\ startTime' \in {startTime, millis}
        /\ began' = [began EXCEPT !.run = IF looped THEN @ ELSE now, !.first = ~looped]
        /\ UNCHANGED <<looped, currentTime, elapsedTime, loopPeriod, rtInvalid, forceVars, crossed,
                       lastPass>>
    BY <1>4 DEF SetMainStartTimeTick, Proceed
  <2>2. History'
    BY <1>0, <2>1
  <2>3. Times'
    BY <1>0, <1>2, <2>1
  <2> QED
    BY <1>0, <1>1, <2>1, <2>2, <2>3 DEF forceVars
<1>5. CASE LoopTick
  <2>1. /\ pass' = "job" /\ UNCHANGED now /\ currentTime' = micros
        /\ elapsedTime' = Unsigned(millis - startTime)
        /\ began' = [began EXCEPT !.pass = now]
        /\ UNCHANGED <<looped, startTime, loopPeriod, rtInvalid, forceVars, crossed, lastPass>>
    BY <1>5 DEF LoopTick, Proceed
  <2>2. millis - startTime \in Int
    BY <1>0, <1>2 DEF Counts
  <2>3. Times'
    BY <1>0, <1>2, <2>1, <2>2, UnsignedType DEF Counts
  <2>4. History'
    BY <1>0, <2>1
  <2> QED
    BY <1>0, <1>1, <2>1, <2>3, <2>4 DEF forceVars
<1>6. CASE Job
  <2>1. PICK f \in [Axes -> Forces] :
          /\ Reg' = [a \in Axes |-> LPF(Reg[a], f[a]).reg]
          /\ settled' = {a \in Axes : Reg[a] = Reg'[a]}
          /\ mDataLog' = [NoRecord EXCEPT !.FBGForce = f,
                                          !.LPFForce = [a \in Axes |-> LPF(Reg[a], f[a]).out]]
    BY <1>6 DEF Job
  <2>2. pass' = "queue" /\ UNCHANGED <<now, statusVars, crossed, began, lastPass>>
    BY <1>6 DEF Job, Proceed
  <2>3. \A a \in Axes : /\ LPF(Reg[a], f[a]).reg \in [1..3 -> 0..(Modulus - 1)]
                        /\ LPF(Reg[a], f[a]).out \in 0..(Modulus - 1)
    BY <1>0, FilterTypes
  <2>4. Filters'
    BY <2>1, <2>3
  <2>5. mDataLog' \in Records
    <3>1. [a \in Axes |-> LPF(Reg[a], f[a]).out] \in [Axes -> 0..(Modulus - 1)]
      BY <2>3
    <3> QED
      BY <2>1, <3>1, NoRecordType DEF Records
  <2> QED
    BY <1>0, <1>1, <2>2, <2>4, <2>5 DEF statusVars
<1>7. CASE QueueRecord
  <2>1. /\ pass' = "update" /\ UNCHANGED <<now, statusVars, Reg, settled, crossed, began, lastPass>>
        /\ mDataLog' = [mDataLog EXCEPT !.timeStamp = elapsedTime, !.loopPeriod = loopPeriod,
                                        !.statusFlag = rtInvalid]
    BY <1>7 DEF QueueRecord, Proceed
  <2>2. mDataLog' \in Records
    BY <1>0, <2>1 DEF Records
  <2> QED
    BY <1>0, <1>1, <2>1, <2>2 DEF statusVars
<1>8. CASE Update
  <2>1. /\ pass' = "judge" /\ UNCHANGED now /\ looped' = TRUE
        /\ loopPeriod' = Unsigned(micros - currentTime)
        /\ lastPass' = [lastPass EXCEPT !.took = now - began.pass]
        /\ UNCHANGED <<startTime, currentTime, elapsedTime, rtInvalid, forceVars, crossed, began>>
    BY <1>8 DEF Update, Proceed
  <2>2. micros - currentTime \in Int /\ now - began.pass \in Int
    BY <1>0, <1>2, RecordAssumption DEF Counts
  <2>3. Times'
    BY <1>0, <2>1, <2>2, UnsignedType DEF Counts
  <2>4. History'
    BY <1>0, <2>1, <2>2
  <2>5. Flags'
    BY <1>0, <2>1
  <2> QED
    BY <1>0, <1>1, <2>1, <2>3, <2>4, <2>5 DEF forceVars
<1>9. CASE Judge
  <2>1. /\ pass' = "idle" /\ UNCHANGED now
        /\ lastPass' = [lastPass EXCEPT !.crossed = crossed]
        /\ mDataLog' = NoRecord /\ settled' = {}
        /\ UNCHANGED <<looped, startTime, currentTime, elapsedTime, loopPeriod, Reg, crossed, began>>
    BY <1>9 DEF Judge, Proceed
  <2>2. History'
    BY <1>0, <2>1
  <2>3. Flags'
    <3>1. rtInvalid' \in BOOLEAN
      BY <1>9 DEF Judge
    <3> QED
      BY <1>0, <2>1, <3>1
  <2>4. mDataLog' \in Records
    BY <2>1, NoRecordType
  <2> QED
    BY <1>0, <1>1, <2>1, <2>2, <2>3, <2>4
<1>10. CASE ResetStatus
  <2>1. /\ startTime' = 0 /\ currentTime' = 0 /\ elapsedTime' = 0 /\ loopPeriod' = 0
        /\ UNCHANGED <<now, pass, rtInvalid, forceVars, began, lastPass>>
    BY <1>10 DEF ResetStatus
  <2>2. Times'
    BY <2>1, RecordAssumption DEF Counts
  <2>3. Flags'
    BY <1>0, <1>10, <2>1 DEF ResetStatus
  <2> QED
    BY <1>0, <1>1, <2>1, <2>2, <2>3 DEF forceVars
<1> QED
  BY <1>3, <1>4, <1>5, <1>6, <1>7, <1>8, <1>9, <1>10 DEF RecordNext, Pass
----------------------------------------------------------------------------
(* The record: what it holds. *)

LEMMA RecordStep == RecordInv /\ RecordNext => RecordInv'
<1> SUFFICES ASSUME RecordInv, RecordNext PROVE RecordInv'
  OBVIOUS
<1>1. RecordTypeOK' /\ HistoryTypeOK'
  BY RecordTypesKept DEF RecordInv
<1>2. /\ now \in Int /\ Ms(now) \in Int /\ Ms(began.run) \in Int /\ Ms(began.pass) \in Int
      /\ began.pass \in Int
      /\ pass \in {"idle", "tick", "job", "queue", "update", "judge"}
      /\ mDataLog \in Records /\ loopPeriod \in Int /\ lastPass.took \in Int
      /\ began \in [run : 0..MaxTime, pass : 0..MaxTime, first : BOOLEAN]
      /\ lastPass \in [took : Int, crossed : BOOLEAN]
      /\ Reg \in [Axes -> [1..3 -> 0..(Modulus - 1)]]
  <2>1. \A t \in 0..MaxTime : t \in Int /\ Ms(t) \in Int
    BY RecordAssumption, MsType
  <2> QED
    BY <2>1, RecordTypes DEF RecordInv, Counts
<1>3. ClockRight /\ PeriodRight /\ FlagRight /\ GainRight
  BY DEF RecordInv, HoldsPass
<1>4. SUFFICES ClockRight' /\ PeriodRight' /\ FlagRight' /\ GainRight'
  BY <1>1 DEF RecordInv, HoldsPass
<1> USE DEF TimeIsOfThisPass
<1>5. CASE Time
  <2>1. UNCHANGED <<pass, statusVars, forceVars, crossed, began, lastPass>>
    BY <1>5 DEF Time
  <2> QED
    BY <1>3, <2>1
       DEF statusVars, forceVars, ClockRight, PeriodRight, FlagRight, GainRight,
           FilterHasUnitGain, TookTooLong, Unsigned, Ms
<1>6. CASE SetMainStartTimeTick
  <2>1. /\ pass = "idle" /\ pass' = "tick" /\ UNCHANGED now
        /\ startTime' = IF looped THEN startTime ELSE millis
        /\ began' = [began EXCEPT !.run = IF looped THEN @ ELSE now, !.first = ~looped]
        /\ UNCHANGED <<looped, currentTime, elapsedTime, loopPeriod, rtInvalid, forceVars, crossed,
                       lastPass>>
    BY <1>6 DEF SetMainStartTimeTick, Proceed
  <2>2. /\ began'.run = (IF looped THEN began.run ELSE now)
        /\ began'.first = ~looped /\ began'.pass = began.pass
    BY <1>2, <2>1
  <2>3. ClockRight'
    <3>1. CASE looped
      BY <1>3, <2>1, <2>2, <3>1 DEF ClockRight, Unsigned, Ms
    <3>2. CASE ~looped
      BY <2>1, <2>2, <3>2 DEF ClockRight, millis, Unsigned, Ms
    <3> QED
      BY <3>1, <3>2
  <2>4. PeriodRight'
    <3>1. CASE looped
      BY <1>3, <2>1, <2>2, <3>1 DEF PeriodRight, Unsigned
    <3>2. CASE ~looped
      BY <1>3, <2>1, <2>2, <3>2 DEF PeriodRight
    <3> QED
      BY <3>1, <3>2
  <2>5. FlagRight'
    BY <1>3, <2>1 DEF FlagRight, TookTooLong, Unsigned
  <2>6. GainRight'
    BY <2>1 DEF GainRight
  <2> QED
    BY <2>3, <2>4, <2>5, <2>6
<1>7. CASE LoopTick
  <2>1. /\ pass = "tick" /\ pass' = "job" /\ UNCHANGED now /\ currentTime' = micros
        /\ elapsedTime' = Unsigned(millis - startTime)
        /\ began' = [began EXCEPT !.pass = now]
        /\ UNCHANGED <<looped, startTime, loopPeriod, rtInvalid, forceVars, crossed, lastPass>>
    BY <1>7 DEF LoopTick, Proceed
  <2>2. began'.pass = now /\ began'.run = began.run /\ began'.first = began.first
    BY <1>2, <2>1
  <2>3. ASSUME ~crossed PROVE elapsedTime' = Unsigned(Ms(now) - Ms(began.run))
    <3>1. startTime = Unsigned(Ms(began.run)) /\ millis = Unsigned(Ms(now))
      BY <1>3, <2>1, <2>3 DEF ClockRight, millis
    <3> QED
      BY <1>2, <2>1, <3>1, UnsignedDifference
  <2>4. ClockRight'
    BY <1>3, <2>1, <2>2, <2>3 DEF ClockRight, micros, Unsigned, Ms
  <2>5. PeriodRight'
    BY <1>3, <2>1, <2>2 DEF PeriodRight, Unsigned
  <2>6. FlagRight'
    BY <1>3, <2>1 DEF FlagRight, TookTooLong, Unsigned
  <2>7. GainRight'
    BY <2>1 DEF GainRight
  <2> QED
    BY <2>4, <2>5, <2>6, <2>7
<1>8. CASE Job
  <2>1. PICK f \in [Axes -> Forces] :
          /\ Reg' = [a \in Axes |-> LPF(Reg[a], f[a]).reg]
          /\ settled' = {a \in Axes : Reg[a] = Reg'[a]}
          /\ mDataLog' = [NoRecord EXCEPT !.FBGForce = f,
                                          !.LPFForce = [a \in Axes |-> LPF(Reg[a], f[a]).out]]
    BY <1>8 DEF Job
  <2>2. /\ pass = "job" /\ pass' = "queue"
        /\ UNCHANGED <<now, statusVars, crossed, began, lastPass>>
    BY <1>8 DEF Job, Proceed
  <2>3. ClockRight' /\ PeriodRight'
    BY <1>3, <2>2 DEF ClockRight, PeriodRight, Unsigned, Ms, statusVars
  <2>4. FlagRight'
    BY <1>3, <2>2 DEF FlagRight, TookTooLong, Unsigned, statusVars
  <2>5. FilterHasUnitGain'
    <3>1. ASSUME NEW a \in Axes, Reg[a] = Reg'[a] PROVE LPF(Reg[a], f[a]).out = f[a]
      BY <1>2, <2>1, <3>1, FilterSettled
    <3>2. \A a \in Axes : /\ mDataLog'.LPFForce[a] = LPF(Reg[a], f[a]).out
                          /\ mDataLog'.FBGForce[a] = f[a]
      BY <2>1 DEF NoRecord
    <3> QED
      BY <2>1, <3>1, <3>2 DEF FilterHasUnitGain
  <2> QED
    BY <2>3, <2>4, <2>5 DEF GainRight
<1>9. CASE QueueRecord
  <2>1. /\ pass = "queue" /\ pass' = "update"
        /\ UNCHANGED <<now, statusVars, Reg, settled, crossed, began, lastPass>>
        /\ mDataLog' = [mDataLog EXCEPT !.timeStamp = elapsedTime, !.loopPeriod = loopPeriod,
                                        !.statusFlag = rtInvalid]
    BY <1>9 DEF QueueRecord, Proceed
  <2>2. /\ mDataLog'.timeStamp = elapsedTime /\ mDataLog'.loopPeriod = loopPeriod
        /\ mDataLog'.LPFForce = mDataLog.LPFForce /\ mDataLog'.FBGForce = mDataLog.FBGForce
    BY <1>2, <2>1 DEF Records
  <2>3. mDataLog'.statusFlag = rtInvalid
    BY <1>2, <2>1 DEF Records
  <2>4. ClockRight'
    BY <1>3, <2>1, <2>2 DEF ClockRight, Unsigned, Ms, statusVars
  <2>5. PeriodRight'
    BY <1>3, <2>1, <2>2 DEF PeriodRight, Unsigned, statusVars
  <2>6. FlagRight'
    BY <1>3, <2>1, <2>3 DEF FlagRight, TookTooLong, Unsigned, statusVars
  <2>7. GainRight'
    BY <1>3, <2>1, <2>2 DEF GainRight, FilterHasUnitGain
  <2> QED
    BY <2>4, <2>5, <2>6, <2>7
<1>10. CASE Update
  <2>1. /\ pass = "update" /\ pass' = "judge" /\ UNCHANGED now /\ looped' = TRUE
        /\ loopPeriod' = Unsigned(micros - currentTime)
        /\ lastPass' = [lastPass EXCEPT !.took = now - began.pass]
        /\ UNCHANGED <<startTime, currentTime, elapsedTime, rtInvalid, forceVars, crossed, began>>
    BY <1>10 DEF Update, Proceed
  <2>2. lastPass'.took = now - began.pass
    BY <1>2, <2>1
  <2>3. ASSUME ~crossed PROVE loopPeriod' = Unsigned(now - began.pass)
    <3>1. currentTime = Unsigned(began.pass) /\ micros = Unsigned(now)
      BY <1>3, <2>1, <2>3 DEF ClockRight, micros
    <3> QED
      BY <1>2, <2>1, <3>1, UnsignedDifference
  <2>4. ClockRight'
    BY <1>3, <2>1 DEF ClockRight, Unsigned, Ms
  <2>5. PeriodRight'
    BY <2>1, <2>2, <2>3 DEF PeriodRight, Unsigned
  <2>6. FlagRight' /\ GainRight'
    BY <2>1 DEF FlagRight, GainRight
  <2> QED
    BY <2>4, <2>5, <2>6
<1>11. CASE Judge
  <2>1. /\ pass = "judge" /\ pass' = "idle" /\ UNCHANGED now
        /\ lastPass' = [lastPass EXCEPT !.crossed = crossed]
        /\ UNCHANGED <<looped, startTime, currentTime, elapsedTime, loopPeriod, Reg, crossed, began>>
    BY <1>11 DEF Judge, Proceed
  <2>2. lastPass'.took = lastPass.took
    BY <1>2, <2>1
  <2>3. lastPass'.crossed = crossed
    BY <1>2, <2>1
  <2>4. ClockRight'
    BY <1>3, <2>1 DEF ClockRight, Unsigned, Ms
  <2>5. PeriodRight'
    BY <1>3, <2>1, <2>2 DEF PeriodRight, Unsigned
  <2>6. FlagRight'
    <3>1. rtInvalid' <=> loopPeriod > controlPeriod
      BY <1>11 DEF Judge
    <3>2. ~crossed => loopPeriod = Unsigned(lastPass'.took)
      BY <1>3, <2>1, <2>2 DEF PeriodRight
    <3>3. ~crossed => (rtInvalid' <=> TookTooLong')
      BY <3>1, <3>2 DEF TookTooLong, Unsigned
    <3> QED
      BY <2>1, <2>3, <3>3 DEF FlagRight
  <2>7. GainRight'
    BY <2>1 DEF GainRight
  <2> QED
    BY <2>4, <2>5, <2>6, <2>7
<1>12. CASE ResetStatus
  <2>1. /\ loopPeriod' = 0 /\ UNCHANGED <<now, pass, rtInvalid, forceVars, began, lastPass>>
    BY <1>12 DEF ResetStatus
  <2>2. ~looped' /\ (pass # "idle" => crossed')
    BY <1>12 DEF ResetStatus
  <2>3. ClockRight'
    BY <2>1, <2>2 DEF ClockRight
  <2>4. PeriodRight'
    BY <2>1, <2>2 DEF PeriodRight
  <2>5. FlagRight' /\ GainRight'
    BY <1>3, <2>1
       DEF FlagRight, GainRight, FilterHasUnitGain, TookTooLong, Unsigned, forceVars
  <2> QED
    BY <2>3, <2>4, <2>5
<1> QED
  BY <1>5, <1>6, <1>7, <1>8, <1>9, <1>10, <1>11, <1>12 DEF RecordNext, Pass

LEMMA RecordKept == RecordInv /\ UNCHANGED recordVars => RecordInv'
<1> SUFFICES ASSUME RecordInv, UNCHANGED recordVars PROVE RecordInv'
  OBVIOUS
<1>1. RecordTypeOK' /\ HistoryTypeOK'
  BY DEF RecordInv, RecordTypeOK, HistoryTypeOK, recordVars, statusVars, forceVars
<1>2. HoldsPass'
  BY DEF RecordInv, HoldsPass, ClockRight, PeriodRight, FlagRight, GainRight, TimeIsOfThisPass,
         FilterHasUnitGain, TookTooLong, Unsigned, Ms, recordVars, statusVars, forceVars
<1> QED
  BY <1>1, <1>2 DEF RecordInv
----------------------------------------------------------------------------
(* The three together. *)

Inv == /\ SensorInv /\ NetInv /\ RecordInv
       /\ inUse \in {"sensor", "interrogator", "record"}

\* The inductive invariants of the sensor, the connection and the record hold together.
THEOREM Inductive == Spec => []Inv
<1>1. Init => Inv
  BY InitSensor, InitNet, InitRecord DEF Init, Inv
<1>2. Inv /\ [Next]_vars => Inv'
  <2> SUFFICES ASSUME Inv, [Next]_vars PROVE Inv'
    OBVIOUS
  <2>1. CASE SensorNext
    <3>1. SensorInv'
      BY <2>1, SensorTypes, OneReadingKept DEF Inv, SensorInv
    <3> QED
      BY <2>1, <3>1, NetKept, RecordKept DEF SensorNext, Inv
  <2>2. CASE InterrogatorNext
    BY <2>2, NetStep, SensorKept, RecordKept DEF InterrogatorNext, Inv
  <2>3. CASE RecordNext
    BY <2>3, RecordStep, SensorKept, NetKept DEF RecordNext, Inv
  <2>4. CASE UNCHANGED vars
    BY <2>4, SensorKept, NetKept, RecordKept DEF vars, Inv
  <2> QED
    BY <2>1, <2>2, <2>3, <2>4 DEF Next
<1> QED
  BY <1>1, <1>2, PTL DEF Spec

\* The variables keep their types; in particular the offset stays below ten words, whatever
\* the board answers, and the UDP socket is there while it holds a datagram.
THEOREM TypeCorrect == Spec => []TypeOK
<1>1. Inv => TypeOK
  BY DEF Inv, SensorInv, NetInv, RecordInv, TypeOK
<1> QED
  BY <1>1, Inductive, PTL

\* A value that main has copied with nothing coming in is one reading of the sensor.
THEOREM OneReadingValue == Spec => []ValueIsOneReading
<1>1. Inv => ValueIsOneReading
  BY DEF Inv, SensorInv, OneReading, Stored, ValueIsOneReading
<1> QED
  BY <1>1, Inductive, PTL

\* connectUDP masks a missing board and, unless both are missing, a missing link.
THEOREM FaultsMasked == Spec => []FaultsAreMasked
<1>1. Inv => FaultsAreMasked
  BY DEF Inv, NetInv, Masked, FaultsAreMasked
<1> QED
  BY <1>1, Inductive, PTL

\* A record holds the time of its pass, the status of the one before, and a force that a
\* filter at rest shows as it is.
THEOREM RecordRight == Spec => []RecordHoldsItsPass
<1>1. Inv => RecordHoldsItsPass
  BY DEF Inv, RecordInv, HoldsPass, ClockRight, PeriodRight, FlagRight, GainRight, TookTooLong,
         RecordHoldsItsPass, StatusIsOfLastPass
<1> QED
  BY <1>1, Inductive, PTL

=============================================================================
