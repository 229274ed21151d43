---------------------------- MODULE CFTSensorSPI ----------------------------
(***************************************************************************)
(* class CFTSensorSPI: the force/torque sensor the Teensy reads over SPI.  *)
(* mainJobControl ("main") reads it and copies the reading, FTSPIThread    *)
(* ("spi") reads it too, and the sketch resets and stops it, without a     *)
(* lock.  The board answers every word lag words late: reset() measures by *)
(* how many, a board that does not answer gives a number out of range.     *)
(*                                                                         *)
(* A reading is two words (24 in the source), each the number of the       *)
(* transfer it came with, or Misplaced if it was taken from another place  *)
(* than it was sent to.  TsyDMASPI is external: it serves one transfer at  *)
(* a time, and transfer() returns when it is done.                         *)
(*                                                                         *)
(* Bound: MaxTransfers.  convCount, which only debugging reads, is left    *)
(* out, and so is what reset() and stop() print.                           *)
(***************************************************************************)
EXTENDS Integers

CONSTANTS
  Lags,         \* by how many words the board may be late
  MaxTransfers

ASSUME SensorAssumption == Lags \subseteq Nat /\ MaxTransfers \in Nat

SZ_SPI_NUM_READ == 28
SZ_SPI_PACKET_MAX == 76
Misplaced == -1

Readers == {"main", "spi"}
Words == {1, 2}

VARIABLES
  lag, transfers,      \* of the board: its delay, the number of transfers
  isValid, offsetPos,
  read_buffer,         \* word -> [sent: transfer, at: the lag it was sent with]
  bus,                 \* the reader whose transfer is under way, or "free"
  reading,             \* reader -> what readSensor or getValue does next
  readout,             \* reader -> word -> transfer
  mFTData, value,      \* the reading, and the copy getValue made of it
  disturbed            \* history: a thread or a restart of the board has come in while a
                       \* reading was being taken, since the last one main took alone

busVars == <<read_buffer, bus, transfers>>
dataVars == <<readout, mFTData, value>>
sensorVars == <<lag, isValid, offsetPos, busVars, reading, dataVars, disturbed>>

SensorInit ==
  /\ lag \in Lags /\ transfers = 0
  /\ isValid = FALSE /\ offsetPos = 0
  /\ read_buffer = [w \in Words |-> [sent |-> 0, at |-> 0]]
  /\ bus = "free"
  /\ reading = [t \in Readers |-> "idle"]
  /\ readout = [t \in Readers |-> [w \in Words |-> 0]]
  /\ mFTData = [w \in Words |-> 0] /\ value = mFTData
  /\ disturbed = FALSE

Goto(t, step) == reading' = [reading EXCEPT ![t] = step]

\* t comes in while another reader is there.
Meets(t) == \E u \in Readers \ {t} : reading[u] # "idle"
Disturbs(t) == disturbed' = (disturbed \/ Meets(t))

----------------------------------------------------------------------------
\* readSensor: the test that is to keep it from reading an invalid sensor.
Refuses == ~isValid /\ SZ_SPI_NUM_READ + offsetPos < SZ_SPI_PACKET_MAX

Enter(t) ==
  /\ reading[t] = "idle"
  /\ \/ Refuses /\ t = "main" /\ Goto(t, "get1") /\ Disturbs(t)
     \/ ~Refuses /\ Goto(t, "transfer")
        /\ disturbed' = (Meets(t) \/ (disturbed /\ t # "main"))
  /\ UNCHANGED <<isValid, offsetPos, busVars, dataVars>>

Fill(w, n) == read_buffer' = [read_buffer EXCEPT ![w] = [sent |-> n, at |-> lag]]

BeginTransfer(t) ==
  /\ reading[t] = "transfer"
  /\ bus = "free"
  /\ transfers < MaxTransfers
  /\ transfers' = transfers + 1
  /\ bus' = t
  /\ Fill(1, transfers')
  /\ Goto(t, "fill")
  /\ UNCHANGED <<isValid, offsetPos, dataVars, disturbed>>

EndTransfer(t) ==
  /\ reading[t] = "fill"
  /\ bus' = "free"
  /\ Fill(2, transfers)
  /\ Goto(t, "copy1")
  /\ UNCHANGED <<isValid, offsetPos, transfers, dataVars, disturbed>>

\* From read_buffer to readout, from where offsetPos says the answer begins.
Placed(w) == IF offsetPos = read_buffer[w].at THEN read_buffer[w].sent ELSE Misplaced

CopyWord(t, w, step, then) ==
  /\ reading[t] = step
  /\ readout' = [readout EXCEPT ![t][w] = Placed(w)]
  /\ Goto(t, then)
  /\ UNCHANGED <<isValid, offsetPos, busVars, mFTData, value, disturbed>>

\* (Mutant: the memcpy that is commented out, which counts bytes, not words.)
CopyReadoutHalf(t) ==
  \/ CopyWord(t, 1, "copy1", "copy2")
  \/ reading[t] = "copy2" /\ Goto(t, "store1")
     /\ UNCHANGED <<isValid, offsetPos, busVars, dataVars, disturbed>>

CopyReadout(t) == CopyWord(t, 1, "copy1", "copy2") \/ CopyWord(t, 2, "copy2", "store1")

\* From readout to mFTData.
StoreWord(t, w, step, then) ==
  /\ reading[t] = step
  /\ mFTData' = [mFTData EXCEPT ![w] = readout[t][w]]
  /\ readout' = [readout EXCEPT ![t][w] = 0]  \* for the next call, whose own one starts with zeros
  /\ Goto(t, then)
  /\ UNCHANGED <<isValid, offsetPos, busVars, value, disturbed>>

ReadSensor(t) ==
  \/ Enter(t) \/ BeginTransfer(t) \/ EndTransfer(t) \/ CopyReadout(t)
  \/ StoreWord(t, 1, "store1", "store2")
  \/ StoreWord(t, 2, "store2", IF t = "main" THEN "get1" ELSE "idle")

\* getValue, which mainJobControl calls after readSensor.
GetWord(w, step, then) ==
  /\ reading["main"] = step
  /\ value' = [value EXCEPT ![w] = mFTData[w]]
  /\ Goto("main", then)
  /\ UNCHANGED <<isValid, offsetPos, busVars, readout, mFTData, disturbed>>

GetValue == GetWord(1, "get1", "get2") \/ GetWord(2, "get2", "idle")

SensorThreads == (GetValue \/ \E t \in Readers : ReadSensor(t)) /\ UNCHANGED lag

----------------------------------------------------------------------------
\* reset(): one transfer, of which only the last word counts.  A number out of
\* range changes neither member.
InRange == lag < 10

ResetFinds ==
  /\ bus = "free"
  /\ isValid' = (isValid \/ InRange)
  /\ Disturbs("sketch")
  /\ UNCHANGED <<lag, offsetPos, busVars, reading, dataVars>>

\* The offset found is stored after the sensor has been declared valid.
\* (Mutant: whatever it is.)
ResetStoresAny(found) ==
  /\ offsetPos' = found
  /\ Disturbs("sketch")
  /\ UNCHANGED <<lag, isValid, busVars, reading, dataVars>>

ResetStores(found) ==
  /\ offsetPos' = IF found < 10 THEN found ELSE offsetPos
  /\ Disturbs("sketch")
  /\ UNCHANGED <<lag, isValid, busVars, reading, dataVars>>

\* stop()
Stop ==
  /\ isValid' = FALSE
  /\ Disturbs("sketch")
  /\ UNCHANGED <<lag, offsetPos, busVars, reading, dataVars>>

\* The board restarts.
BoardRestarts ==
  /\ lag' \in Lags
  /\ Disturbs("board")
  /\ UNCHANGED <<isValid, offsetPos, busVars, reading, dataVars>>
----------------------------------------------------------------------------
SensorTypeOK ==
  LET Sent == {Misplaced} \cup 0..MaxTransfers
  IN /\ lag \in Lags /\ transfers \in 0..MaxTransfers
     /\ isValid \in BOOLEAN /\ offsetPos \in {0} \cup {l \in Lags : l < 10}
     /\ read_buffer \in [Words -> [sent : 0..MaxTransfers, at : Lags \cup {0}]]
     /\ bus \in Readers \cup {"free"}
     /\ \A t \in Readers : bus = t <=> reading[t] = "fill"
     /\ reading \in [Readers -> {"idle", "transfer", "fill", "copy1", "copy2", "store1",
                                 "store2", "get1", "get2"}]
     /\ readout \in [Readers -> [Words -> Sent]]
     /\ mFTData \in [Words -> Sent] /\ value \in [Words -> Sent]
     /\ disturbed \in BOOLEAN

\* readSensor, getValue: when nothing came in while main took its reading, the
\* value it puts into the record is one reading, all words of the same transfer,
\* whatever the other thread, reset() and stop() did before.
ValueIsOneReading ==
  (~disturbed /\ reading["main"] = "idle") => value[1] = value[2]
=============================================================================
