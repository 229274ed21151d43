--------------------------- MODULE SerialTransmit ---------------------------
(***************************************************************************)
(* The transmitting half of CSerialPacket: one buffer, mTxBuffer, in which *)
(* a frame is put together piece by piece before it is written, and one    *)
(* buffer for text, mCharBuffer.  On the Teensy several threads call the   *)
(* same object, without a lock.                                            *)
(*                                                                         *)
(* A frame is the sequence of what was encoded after the code; the length  *)
(* and the CR LF that send_packet adds are left out.                       *)
(***************************************************************************)
EXTENDS Sequences

CONSTANT Senders  \* the threads that call the object

VARIABLES
  mTxBuffer,    \* up to mEncodePos
  mCharBuffer,  \* whose text it holds
  sending,      \* sender -> what its call does next, or "no"
  mixed         \* history: the senders whose call another one overlaps

txVars == <<mTxBuffer, mCharBuffer, sending, mixed>>

COMMAND_CODE_DEBUG_PRINT == <<"code", "print">>
COMMAND_CODE_DATA_STREAM == <<"code", "stream">>
Text(t) == <<"text", t>>
Log(n) == <<"log", n>>

TxInit ==
  /\ mTxBuffer = <<>>
  /\ mCharBuffer = "nobody"
  /\ sending = [t \in Senders |-> "no"]
  /\ mixed = {}

Overlapped(t) == {u \in Senders \ {t} : sending[u] # "no"}

Begin(t, step) ==
  /\ sending[t] = "no"
  /\ sending' = [sending EXCEPT ![t] = step]
  /\ mixed' = IF Overlapped(t) = {} THEN mixed \ {t} ELSE mixed \cup Overlapped(t) \cup {t}
  /\ UNCHANGED <<mTxBuffer, mCharBuffer>>

Then(t, from, to) ==
  /\ sending[t] = from
  /\ sending' = [sending EXCEPT ![t] = to]
  /\ UNCHANGED mixed

\* (Mutant: mEncodePos stays.)
SetCodeKeepsPosition(t, code) ==
  /\ Then(t, "code", "body")
  /\ mTxBuffer' = Append(mTxBuffer, code)
  /\ UNCHANGED mCharBuffer

SetCode(t, code) ==
  /\ Then(t, "code", "body")
  /\ mTxBuffer' = <<code>>
  /\ UNCHANGED mCharBuffer

Encode(t, body) ==
  /\ Then(t, "body", "packet")
  /\ mTxBuffer' = Append(mTxBuffer, body)
  /\ UNCHANGED mCharBuffer

SendPacket(t) ==
  /\ Then(t, "packet", "no")
  /\ UNCHANGED <<mTxBuffer, mCharBuffer>>

\* dprintf, both overloads: the text is put into a buffer of its own first.
Format(t) ==
  /\ Then(t, "text", "code")
  /\ mCharBuffer' = t
  /\ UNCHANGED mTxBuffer

Dprintf(t) ==
  \/ Format(t)
  \/ SetCode(t, COMMAND_CODE_DEBUG_PRINT)
  \/ Encode(t, Text(mCharBuffer))

\* sendDataLog
SendDataLog(t, log) == SetCode(t, COMMAND_CODE_DATA_STREAM) \/ Encode(t, Log(log))
=============================================================================
