---------------------------- MODULE TeensySerial ----------------------------
(***************************************************************************)
(* The receiving half of CSerialPacket: commands of a host (code, size of  *)
(* the data, data) arrive byte by byte over USB serial.  The sketch, which *)
(* is not in the repository, is taken to do what the two ready flags are   *)
(* for: getCommandCode while the one is set, procPacket while the other    *)
(* is, and for every command that is complete an echo of its code and of   *)
(* the value that came with it.                                            *)
(*                                                                         *)
(* A byte is the number of its command, the field it belongs to, and its   *)
(* place there.  Data is a type, one byte here, and a value, another one.  *)
(* A host that waits sends a command when the last one has been echoed,    *)
(* and makes no pause of the length of the time-out of readBytes; another  *)
(* one does as it pleases.  What a size means that is not read from its    *)
(* place is any member of Garbage.                                         *)
(*                                                                         *)
(* Bound: MaxCommands.  The buffer is larger than all of the data sent.    *)
(***************************************************************************)
EXTENDS Integers, Sequences

CONSTANTS Lengths, VarTypes, CTypes, Garbage, MaxCommands

ASSUME SerialAssumption ==
  /\ Lengths \subseteq Nat /\ Garbage \subseteq Nat /\ MaxCommands \in Nat
  /\ "CHAR" \in VarTypes
  /\ CTypes \subseteq {"int16_t", "int", "uint32_t", "float", "double"}

EchoSize == 2  \* bytes echo_message decodes: the type of a value, the value

VAR_TYPE_CHAR == "CHAR"  \* zero, the type in a buffer never written to

\* The types echo_message knows.
EchoedTypes == {"INT16", "UINT16", "INT32", "UINT32", "FLOAT", "DOUBLE"}

COMMAND_CODE_TRNS_DATA == <<"TRNS_DATA">>

VARIABLES
  waits,       \* the host is one that waits
  lengths,     \* of the data of the commands sent so far
  types,       \* of the values in these data
  wire, line,  \* bytes under way, bytes available()
  mReadCommandReady, mReadDataReady,
  mCommand_Code, mSzPacket, mNumByteIn,
  mRxBuffer,   \* its first bytes, which echo_message decodes
  reported,    \* the value reported last, as a frame, or <<>>
  echoes,      \* what the host has got back: for each command two frames
  timedOut     \* history: a time-out has cut a size in two

hostVars == <<waits, lengths, types, wire>>
flagVars == <<mReadCommandReady, mReadDataReady>>
outVars == <<reported, echoes>>
packetVars == <<mCommand_Code, mSzPacket, mNumByteIn, mRxBuffer>>
vars == <<hostVars, line, flagVars, packetVars, outVars, timedOut>>

NoByte == [of |-> 0, field |-> "none", at |-> 0]

Bytes(c, field, n) == [k \in 1..n |-> [of |-> c, field |-> field, at |-> k]]

Init ==
  /\ waits \in BOOLEAN
  /\ lengths = <<>> /\ types = <<>> /\ wire = <<>> /\ line = <<>>
  /\ mReadCommandReady = TRUE /\ mReadDataReady = FALSE
  /\ mCommand_Code = <<>> /\ mSzPacket = -1 /\ mNumByteIn = 0
  /\ mRxBuffer = [k \in 1..EchoSize |-> NoByte]
  /\ reported = <<>> /\ echoes = <<>> /\ timedOut = FALSE

----------------------------------------------------------------------------
HostSends(length, type) ==
  LET c == Len(lengths) + 1
  IN /\ c <= MaxCommands
     /\ waits => Len(echoes) = Len(lengths)
     /\ length = 0 => type = VAR_TYPE_CHAR
     /\ lengths' = Append(lengths, length)
     /\ types' = Append(types, type)
     /\ wire' = wire \o Bytes(c, "code", 2) \o Bytes(c, "size", 2) \o Bytes(c, "data", length)
     /\ UNCHANGED <<waits, line, flagVars, packetVars, outVars, timedOut>>

Arrives ==
  /\ wire # <<>>
  /\ line' = Append(line, Head(wire))
  /\ wire' = Tail(wire)
  /\ UNCHANGED <<waits, lengths, types, flagVars, packetVars, outVars, timedOut>>

----------------------------------------------------------------------------
\* setCommandReadReady, setDataReadReady: always called together.
ReadyFor(what) == mReadCommandReady' = (what = "command") /\ mReadDataReady' = (what = "data")

\* getCommandCode
GetCommandCode ==
  /\ mReadCommandReady
  /\ Len(line) >= 2
  /\ mCommand_Code' = SubSeq(line, 1, 2)
  /\ line' = SubSeq(line, 3, Len(line))
  /\ mSzPacket' = -1
  /\ ReadyFor("data")
  /\ UNCHANGED <<hostVars, mNumByteIn, mRxBuffer, outVars, timedOut>>

\* The size that is read from the first n bytes available.  A missing second byte
\* reads as zero, which it is for sizes below 256.
SizesRead(n) ==
  LET c == line[1].of
  IN IF SubSeq(line, 1, n) = SubSeq(Bytes(c, "size", 2), 1, n) THEN {lengths[c]} ELSE Garbage

\* readPacketSize: readBytes awaits two bytes, or its time-out.  (Mutant: two
\* bytes are taken to have arrived with the first.)
ReadPacketSizeAtOnce ==
  /\ mReadDataReady /\ mSzPacket < 0
  /\ line # <<>>
  /\ LET n == IF Len(line) = 1 THEN 1 ELSE 2
     IN mSzPacket' \in SizesRead(n) /\ line' = SubSeq(line, n + 1, Len(line))
  /\ UNCHANGED <<hostVars, flagVars, mCommand_Code, mNumByteIn, mRxBuffer, outVars, timedOut>>

ReadPacketSize ==
  /\ mReadDataReady /\ mSzPacket < 0
  /\ \E n \in {1, 2} :
       /\ n <= Len(line)
       /\ n = 1 => Len(line) = 1 /\ ~waits
       /\ mSzPacket' \in SizesRead(n)
       /\ line' = SubSeq(line, n + 1, Len(line))
       /\ timedOut' = (timedOut \/ n = 1)
  /\ UNCHANGED <<hostVars, flagVars, mCommand_Code, mNumByteIn, mRxBuffer, outVars>>

\* mRxBuffer once the bytes available have been read behind those read before.
Filled ==
  [k \in 1..EchoSize |->
     IF k - mNumByteIn \in DOMAIN line THEN line[k - mNumByteIn] ELSE mRxBuffer[k]]

\* The type a byte is read as; one that is not in the place of a type, as any.
TypesRead(byte) ==
  CASE byte = NoByte -> {VAR_TYPE_CHAR}
    [] byte.field = "data" /\ byte.at = 1 -> {types[byte.of]}
    [] OTHER -> VarTypes

\* message_out: a frame of a code, a type and a value.
MessageOut(code, type, value) == <<code, type, value>>

EchoCommand == <<mCommand_Code, mCommand_Code>>

\* echo_message: the type and the value are decoded from the buffer, whether the
\* packet has been that long or not; a type it does not know is not answered.
EchoMessage(type, value) ==
  IF type \in EchoedTypes THEN MessageOut(COMMAND_CODE_TRNS_DATA, type, value) ELSE <<>>

Echoes(buffer) ==
  {[command |-> EchoCommand, message |-> EchoMessage(type, buffer[2])] :
     type \in TypesRead(buffer[1])}

\* The packet is complete, and the sketch echoes it.
\* (Mutant: the count of its bytes stays.)
CompleteKeepsCount ==
  /\ mSzPacket' = -1 /\ mNumByteIn' = mNumByteIn + Len(line)
  /\ ReadyFor("command")
  /\ \E echo \in Echoes(mRxBuffer') : echoes' = Append(echoes, echo)
  /\ UNCHANGED mCommand_Code

Complete ==
  /\ mSzPacket' = -1 /\ mNumByteIn' = 0
  /\ ReadyFor("command")
  /\ \E echo \in Echoes(mRxBuffer') : echoes' = Append(echoes, echo)
  /\ UNCHANGED mCommand_Code

Incomplete(n) ==
  /\ mNumByteIn' = n
  /\ UNCHANGED <<flagVars, mCommand_Code, mSzPacket, echoes>>

\* procPacket: all the bytes available are read, those of a next command too.
\* (Mutant: the bytes are counted from zero at every call.)
ProcPacketForgets ==
  /\ mReadDataReady /\ mSzPacket > 0
  /\ line # <<>>
  /\ mRxBuffer' = Filled
  /\ line' = <<>>
  /\ IF Len(line) = mSzPacket THEN Complete ELSE Incomplete(Len(line))
  /\ UNCHANGED <<hostVars, reported, timedOut>>

ProcPacket ==
  /\ mReadDataReady /\ mSzPacket > 0
  /\ line # <<>>
  /\ mRxBuffer' = Filled
  /\ line' = <<>>
  /\ IF mNumByteIn + Len(line) = mSzPacket
     THEN Complete ELSE Incomplete(mNumByteIn + Len(line))
  /\ UNCHANGED <<hostVars, reported, timedOut>>

\* A packet without data reads nothing.
ProcEmptyPacket ==
  /\ mReadDataReady /\ mSzPacket = 0
  /\ mRxBuffer' = mRxBuffer
  /\ Complete
  /\ UNCHANGED <<hostVars, line, reported, timedOut>>

\* The overloads of message_out for values: the C type gives the type code.
VarTypeOf ==
  [int16_t |-> "INT16", int |-> "INT32", uint32_t |-> "UINT32", float |-> "FLOAT",
   double |-> "DOUBLE"]

\* The sketch reports a value between two calls.
Report(ctype) ==
  /\ reported' = MessageOut(COMMAND_CODE_TRNS_DATA, VarTypeOf[ctype], ctype)
  /\ UNCHANGED <<hostVars, line, flagVars, packetVars, echoes, timedOut>>

Device == GetCommandCode \/ ReadPacketSize \/ ProcPacket \/ ProcEmptyPacket

Next ==
  \/ \E length \in Lengths, type \in VarTypes : HostSends(length, type)
  \/ \E ctype \in CTypes : Report(ctype)
  \/ Arrives \/ Device

Spec == Init /\ [][Next]_vars /\ WF_vars(Arrives) /\ WF_vars(Device)
----------------------------------------------------------------------------
TypeOK ==
  /\ lengths \in Seq(Lengths) /\ Len(lengths) <= MaxCommands
  /\ types \in Seq(VarTypes) /\ Len(types) = Len(lengths)
  /\ reported # <<>> => reported[2] \in EchoedTypes
  /\ mReadCommandReady = ~mReadDataReady
  /\ mSzPacket \in {-1} \cup Lengths \cup Garbage
  /\ mReadCommandReady => mSzPacket = -1 /\ mNumByteIn = 0
  /\ mNumByteIn \in Nat
  /\ waits => Len(lengths) - Len(echoes) \in {0, 1}

\* The echo of command c: its own code and, if it has come with a value whose type is
\* known, this type and value.
IsEchoOf(echo, c) ==
  LET code == Bytes(c, "code", 2)
      value == [of |-> c, field |-> "data", at |-> 2]
  IN /\ echo.command = <<code, code>>
     /\ lengths[c] = EchoSize =>
          echo.message = IF types[c] \in EchoedTypes
                         THEN <<COMMAND_CODE_TRNS_DATA, types[c], value>> ELSE <<>>

\* Commands are taken in order, each with its own value, even if the host does not wait
\* and the next one is there already: only a size cut by a time-out derails it.
CommandsInOrder ==
  ~timedOut => \A i \in DOMAIN echoes : i <= Len(lengths) /\ IsEchoOf(echoes[i], i)

Overrun == mReadDataReady /\ mSzPacket >= 0 /\ mNumByteIn > mSzPacket

\* What a host that does not wait risks: once procPacket has read a byte of the next
\* command with the data of this one, no command is ever complete again.
OverrunIsFatal == [][Overrun => Overrun' /\ echoes' = echoes]_vars

\* A host that waits gets every command echoed.
EveryCommandEchoed == \A n \in 1..MaxCommands : (waits /\ Len(lengths) = n) ~> Len(echoes) >= n
=============================================================================
