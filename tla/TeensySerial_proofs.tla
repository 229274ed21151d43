------------------------ MODULE TeensySerial_proofs ------------------------
(***************************************************************************)
(* CSerialPacket's receiving half, for every number of commands of any     *)
(* length: unless the time-out of readBytes cuts a size in two, commands   *)
(* are taken in the order they were sent, each with its own size and data, *)
(* until one is overrun by the next; and after that none is complete.      *)
(***************************************************************************)
EXTENDS TeensySerial, SequenceTheorems, NaturalsInduction, WellFoundedInduction,
        TLAPS

----------------------------------------------------------------------------
(* The inductive invariant.                                                *)

Byte(c, field, at) == [of |-> c, field |-> field, at |-> at]

\* The bytes of the commands sent so far.
SentBytes == [of : 1..Len(lengths), field : {"code", "size", "data"}, at : Nat \ {0}]

IsSequence(s) == \E S : s \in Seq(S)

Types ==
  /\ {waits, timedOut, mReadCommandReady, mReadDataReady} \subseteq BOOLEAN
  /\ lengths \in Seq(Lengths) /\ Len(lengths) <= MaxCommands
  /\ types \in Seq(VarTypes) /\ Len(types) = Len(lengths)
  /\ line \in Seq(SentBytes) /\ wire \in Seq(SentBytes)
  /\ reported # <<>> => reported[2] \in EchoedTypes
  /\ mReadCommandReady = ~mReadDataReady
  /\ mSzPacket \in {-1} \cup Lengths \cup Garbage
  /\ mNumByteIn \in Nat
  /\ mReadCommandReady => mSzPacket = -1
  /\ mSzPacket <= 0 => mNumByteIn = 0
  /\ IsSequence(echoes)

\* Byte number at of the data of command c, or what comes behind the data, if
\* commands have data of the given sizes.
Data(sizes, c, at) == IF at <= sizes[c] THEN Byte(c, "data", at) ELSE Byte(c + 1, "code", 1)

\* The byte that is sent after byte b.
Follower(sizes, b) ==
  CASE b.field = "code" /\ b.at = 1 -> Byte(b.of, "code", 2)
    [] b.field = "code" /\ b.at # 1 -> Byte(b.of, "size", 1)
    [] b.field = "size" /\ b.at = 1 -> Byte(b.of, "size", 2)
    [] b.field = "size" /\ b.at # 1 -> Data(sizes, b.of, 1)
    [] OTHER -> Data(sizes, b.of, b.at + 1)

\* The bytes to come, with the first one of the command that is not sent yet.
Stream == (line \o wire) \o <<Byte(Len(lengths) + 1, "code", 1)>>

\* The command that is being received, and the byte that is next.
Current == Len(echoes) + 1

Expected ==
  CASE mReadCommandReady -> Byte(Current, "code", 1)
    [] mReadDataReady /\ mSzPacket < 0 -> Byte(Current, "size", 1)
    [] OTHER -> Data(lengths, Current, mNumByteIn + 1)

\* Nothing is lost, repeated or out of order in what is to come.
Linked == \A k \in 1..(Len(line) + Len(wire)) : Stream[k + 1] = Follower(lengths, Stream[k])

Chained == Stream[1] = Expected /\ Linked

\* What has been received is of the current command.
Received ==
  mReadDataReady =>
    /\ Current <= Len(lengths)
    /\ mCommand_Code = Bytes(Current, "code", 2)
    /\ mSzPacket >= 0 =>
         /\ mSzPacket = lengths[Current]
         /\ mSzPacket = 0 \/ mNumByteIn < mSzPacket
         /\ \A k \in 1..EchoSize :
              k <= mNumByteIn => mRxBuffer[k] = Byte(Current, "data", k)

InOrder == Len(echoes) <= Len(lengths) /\ Chained /\ Received

\* All of it holds until a size is cut in two or a command is overrun, neither of
\* which a host that waits makes happen.
Inv ==
  /\ Types
  /\ ~timedOut /\ ~Overrun => InOrder
  /\ CommandsInOrder
  /\ waits => ~timedOut /\ ~Overrun /\ Len(lengths) - Len(echoes) \in {0, 1}

----------------------------------------------------------------------------
(* Sequences.                                                              *)

LEMMA LengthsType == Lengths \subseteq Nat /\ Garbage \subseteq Nat
  BY SerialAssumption

\* Bytes is a sequence of n bytes.
LEMMA BytesType ==
  ASSUME NEW c, NEW field, NEW n \in Nat
  PROVE  /\ Len(Bytes(c, field, n)) = n
         /\ \A k \in 1..n : Bytes(c, field, n)[k] = Byte(c, field, k)
         /\ \A S : (\A k \in 1..n : Byte(c, field, k) \in S) => Bytes(c, field, n) \in Seq(S)
BY DEF Bytes, Byte

LEMMA AppendIsSequence ==
  ASSUME NEW s, IsSequence(s), NEW e
  PROVE  /\ IsSequence(Append(s, e)) /\ Len(s) \in Nat
         /\ Len(Append(s, e)) = Len(s) + 1 /\ Append(s, e)[Len(s) + 1] = e
         /\ \A i \in 1..Len(s) : Append(s, e)[i] = s[i]
         /\ DOMAIN s = 1..Len(s) /\ DOMAIN Append(s, e) = 1..(Len(s) + 1)
<1>1. PICK S : s \in Seq(S)
  BY DEF IsSequence
<1>2. s \in Seq(S \cup {e}) /\ e \in S \cup {e}
  BY <1>1, SeqMonotonic
<1>3. Append(s, e) \in Seq(S \cup {e})
  BY <1>2, AppendProperties
<1> QED
  BY <1>2, <1>3, AppendProperties, LenProperties DEF IsSequence

\* What is to come, by position.
LEMMA StreamIs ==
  ASSUME Types
  PROVE  /\ Len(line) \in Nat /\ Len(wire) \in Nat /\ Len(lengths) \in Nat
         /\ \A k \in 1..Len(line) : Stream[k] = line[k]
         /\ \A k \in 1..Len(wire) : Stream[Len(line) + k] = wire[k]
         /\ Stream[Len(line) + Len(wire) + 1] = Byte(Len(lengths) + 1, "code", 1)
         /\ \A k \in 1..(Len(line) + Len(wire)) : Stream[k] \in SentBytes
<1> DEFINE last == Byte(Len(lengths) + 1, "code", 1)
           S == SentBytes \cup {last}
<1>1. line \in Seq(SentBytes) /\ wire \in Seq(SentBytes) /\ lengths \in Seq(Lengths)
  BY DEF Types
<1>2. line \in Seq(S) /\ wire \in Seq(S) /\ <<last>> \in Seq(S)
  BY <1>1, SeqMonotonic
<1>3. Len(line) \in Nat /\ Len(wire) \in Nat /\ Len(lengths) \in Nat
  BY <1>1
<1> HIDE DEF last, S
<1>4. /\ line \o wire \in Seq(S) /\ Len(line \o wire) = Len(line) + Len(wire)
      /\ \A k \in 1..(Len(line) + Len(wire)) :
           (line \o wire)[k] = IF k <= Len(line) THEN line[k] ELSE wire[k - Len(line)]
  BY <1>2, ConcatProperties
<1>5. /\ Len(<<last>>) = 1 /\ <<last>>[1] = last
      /\ \A k \in 1..(Len(line) + Len(wire) + 1) :
           Stream[k] = IF k <= Len(line) + Len(wire) THEN (line \o wire)[k]
                       ELSE <<last>>[k - (Len(line) + Len(wire))]
  BY <1>2, <1>4, ConcatProperties DEF Stream, last
<1>6. \A k \in 1..Len(line) : Stream[k] = line[k]
  BY <1>3, <1>4, <1>5
<1>7. \A k \in 1..Len(wire) : Stream[Len(line) + k] = wire[k]
  BY <1>3, <1>4, <1>5
<1>8. Stream[Len(line) + Len(wire) + 1] = last
  BY <1>3, <1>5
<1>9. ASSUME NEW k \in 1..(Len(line) + Len(wire))
      PROVE  Stream[k] \in SentBytes
  <2>1. CASE k \in 1..Len(line)
    BY <1>1, <1>6, <2>1, ElementOfSeq
  <2>2. CASE k - Len(line) \in 1..Len(wire)
    <3>1. Stream[Len(line) + (k - Len(line))] = wire[k - Len(line)]
      BY <1>7, <2>2
    <3>2. wire[k - Len(line)] \in SentBytes
      BY <1>1, <2>2, ElementOfSeq
    <3> QED
      BY <1>3, <3>1, <3>2
  <2> QED
    BY <1>3, <2>1, <2>2
<1> QED
  BY <1>3, <1>6, <1>7, <1>8, <1>9 DEF last

\* The same of the next state.
LEMMA NextStreamIs ==
  ASSUME Types'
  PROVE  (/\ Len(line) \in Nat /\ Len(wire) \in Nat /\ Len(lengths) \in Nat
          /\ \A k \in 1..Len(line) : Stream[k] = line[k]
          /\ \A k \in 1..Len(wire) : Stream[Len(line) + k] = wire[k]
          /\ Stream[Len(line) + Len(wire) + 1] = Byte(Len(lengths) + 1, "code", 1)
          /\ \A k \in 1..(Len(line) + Len(wire)) : Stream[k] \in SentBytes)'
BY StreamIs, PTL

----------------------------------------------------------------------------
(* Types, and what a command that is overrun becomes.                      *)

LEMMA TypesInit == Init => Types
<1> SUFFICES ASSUME Init PROVE Types
  OBVIOUS
<1>1. \A S : <<>> \in Seq(S) /\ Len(<<>>) = 0
  BY EmptySeq
<1>2. IsSequence(echoes)
  BY <1>1 DEF Init, IsSequence
<1>3. /\ lengths \in Seq(Lengths) /\ Len(lengths) <= MaxCommands
      /\ types \in Seq(VarTypes) /\ Len(types) = Len(lengths)
      /\ line \in Seq(SentBytes) /\ wire \in Seq(SentBytes)
  BY <1>1, SerialAssumption DEF Init
<1> QED
  BY <1>2, <1>3 DEF Init, Types

LEMMA TypesKept == Types /\ UNCHANGED vars => Types'
  BY DEF Types, vars, hostVars, flagVars, packetVars, outVars, SentBytes

LEMMA TypesSent ==
  ASSUME Types, NEW length \in Lengths, NEW type \in VarTypes, HostSends(length, type)
  PROVE  Types'
<1> DEFINE c == Len(lengths) + 1
<1>1. /\ lengths' = Append(lengths, length) /\ types' = Append(types, type) /\ c <= MaxCommands
      /\ wire' = wire \o Bytes(c, "code", 2) \o Bytes(c, "size", 2) \o Bytes(c, "data", length)
      /\ UNCHANGED <<waits, line, flagVars, packetVars, outVars, timedOut>>
  BY DEF HostSends
<1>2. lengths \in Seq(Lengths) /\ types \in Seq(VarTypes) /\ Len(types) = Len(lengths)
      /\ Len(lengths) \in Nat /\ length \in Nat
  BY LengthsType DEF Types
<1>3. lengths' \in Seq(Lengths) /\ types' \in Seq(VarTypes) /\ Len(lengths') = c
      /\ Len(types') = Len(lengths')
  BY <1>1, <1>2, AppendProperties
<1>4. SentBytes \subseteq SentBytes'
  BY <1>2, <1>3 DEF SentBytes
<1>5. line' \in Seq(SentBytes')
  BY <1>1, <1>4, SeqMonotonic DEF Types
<1>6. wire' \in Seq(SentBytes')
  <2>1. \A field \in {"code", "size", "data"}, k \in Nat \ {0} : Byte(c, field, k) \in SentBytes'
    BY <1>2, <1>3 DEF SentBytes, Byte
  <2>2. \A field \in {"code", "size", "data"}, n \in Nat : Bytes(c, field, n) \in Seq(SentBytes')
    BY <2>1, BytesType
  <2>3. wire \in Seq(SentBytes')
    BY <1>4, SeqMonotonic DEF Types
  <2> HIDE DEF c
  <2>4. wire \o Bytes(c, "code", 2) \in Seq(SentBytes')
    BY <2>2, <2>3, ConcatProperties
  <2>5. wire \o Bytes(c, "code", 2) \o Bytes(c, "size", 2) \in Seq(SentBytes')
    BY <2>2, <2>4, ConcatProperties
  <2> QED
    BY <1>1, <1>2, <2>2, <2>5, ConcatProperties
<1> QED
  BY <1>1, <1>3, <1>5, <1>6 DEF Types, flagVars, packetVars, outVars

LEMMA TypesArrived ==
  ASSUME Types, Arrives
  PROVE  Types'
<1>1. line' \in Seq(SentBytes) /\ wire' \in Seq(SentBytes)
  BY HeadTailProperties, AppendProperties DEF Types, Arrives
<1> QED
  BY <1>1 DEF Types, Arrives, flagVars, packetVars, outVars, SentBytes

\* The first n bytes are read.
LEMMA RestIsSent ==
  ASSUME Types, NEW n \in 0..Len(line)
  PROVE  /\ SubSeq(line, n + 1, Len(line)) \in Seq(SentBytes)
         /\ Len(SubSeq(line, n + 1, Len(line))) = Len(line) - n
         /\ \A k \in 1..(Len(line) - n) : SubSeq(line, n + 1, Len(line))[k] = line[n + k]
<1>1. line \in Seq(SentBytes) /\ Len(line) \in Nat
  BY DEF Types
<1>2. \A k \in n + 1 .. Len(line) : line[k] \in SentBytes
  BY <1>1, ElementOfSeq
<1>3. n + 1 \in Int /\ Len(line) \in Int
  BY <1>1
<1> QED
  BY <1>1, <1>2, <1>3, SubSeqProperties

LEMMA TypesOfCode ==
  ASSUME Types, GetCommandCode
  PROVE  Types'
<1>1. line' \in Seq(SentBytes)
  <2>1. 2 \in 0..Len(line) /\ 2 + 1 = 3
    BY StreamIs DEF GetCommandCode
  <2> QED
    BY <2>1, RestIsSent DEF GetCommandCode
<1>2. /\ UNCHANGED <<waits, lengths, types, wire, mNumByteIn, reported, echoes, timedOut>>
      /\ mReadCommandReady /\ mReadCommandReady' = FALSE /\ mReadDataReady' = TRUE
      /\ mSzPacket' = -1
  BY DEF GetCommandCode, ReadyFor, hostVars, outVars
<1>3. mNumByteIn = 0
  BY <1>2 DEF Types
<1> QED
  BY <1>1, <1>2, <1>3 DEF Types, SentBytes

\* The size that is read, where it begins at the first byte of a size, is that of
\* the command the byte belongs to.
LEMMA SizesType ==
  ASSUME Types, line # <<>>, NEW n
  PROVE  SizesRead(n) \subseteq Lengths \cup Garbage
<1>1. line[1] \in SentBytes
  BY DEF Types
<1>2. lengths[line[1].of] \in Lengths
  BY <1>1 DEF Types, SentBytes
<1> QED
  BY <1>2 DEF SizesRead

LEMMA TypesOfSize ==
  ASSUME Types, ReadPacketSize
  PROVE  Types'
<1>1. PICK n \in {1, 2} :
        /\ n <= Len(line) /\ mSzPacket' \in SizesRead(n)
        /\ line' = SubSeq(line, n + 1, Len(line)) /\ timedOut' = (timedOut \/ n = 1)
  BY DEF ReadPacketSize
<1>2. Len(line) \in Nat /\ line # <<>> /\ n \in 0..Len(line)
  BY <1>1, StreamIs
<1>3. line' \in Seq(SentBytes) /\ mSzPacket' \in Lengths \cup Garbage
  BY <1>1, <1>2, RestIsSent, SizesType
<1>4. /\ UNCHANGED <<waits, lengths, types, wire, flagVars, mNumByteIn, reported, echoes>>
      /\ mReadDataReady /\ mSzPacket < 0
  BY DEF ReadPacketSize, hostVars, outVars
<1>5. mNumByteIn = 0 /\ timedOut' \in BOOLEAN /\ ~mReadCommandReady
  <2>1. mSzPacket <= 0
    BY <1>4, LengthsType DEF Types
  <2> QED
    BY <1>1, <1>4, <2>1 DEF Types
<1> QED
  BY <1>1, <1>3, <1>4, <1>5 DEF Types, SentBytes, flagVars

LEMMA TypesOfData ==
  ASSUME Types, ProcPacket \/ ProcEmptyPacket
  PROVE  Types'
<1>1. /\ UNCHANGED <<waits, lengths, types, wire, reported, timedOut>>
      /\ mReadDataReady /\ mSzPacket >= 0
  BY LengthsType DEF ProcPacket, ProcEmptyPacket, hostVars, Types
<1>2. line' \in Seq(SentBytes)
  BY EmptySeq DEF ProcPacket, ProcEmptyPacket, Types
<1>3. ASSUME Complete
      PROVE  Types'
  <2>1. PICK echo : echoes' = Append(echoes, echo)
    BY <1>3 DEF Complete
  <2>2. IsSequence(echoes')
    BY <2>1, AppendIsSequence DEF Types
  <2>3. mSzPacket' = -1 /\ mNumByteIn' = 0 /\ mReadCommandReady' = TRUE /\ mReadDataReady' = FALSE
    BY <1>3 DEF Complete, ReadyFor
  <2> QED
    BY <1>1, <1>2, <2>2, <2>3 DEF Types, SentBytes
<1>4. ASSUME NEW n \in Nat, Incomplete(n), mSzPacket > 0
      PROVE  Types'
  BY <1>1, <1>2, <1>4, LengthsType DEF Types, SentBytes, Incomplete, flagVars
<1>5. mNumByteIn + Len(line) \in Nat
  BY StreamIs DEF Types
<1> QED
  BY <1>3, <1>4, <1>5 DEF ProcPacket, ProcEmptyPacket

LEMMA TypesReported ==
  ASSUME Types, NEW ctype \in CTypes, Report(ctype)
  PROVE  Types'
<1>1. VarTypeOf[ctype] \in EchoedTypes
  BY SerialAssumption DEF VarTypeOf, EchoedTypes
<1>2. reported'[2] \in EchoedTypes
  BY <1>1 DEF Report, MessageOut
<1> QED
  BY <1>2 DEF Types, Report, hostVars, flagVars, packetVars, SentBytes

LEMMA TypesStep == Types /\ [Next]_vars => Types'
  BY TypesKept, TypesSent, TypesArrived, TypesOfCode, TypesOfSize, TypesOfData, TypesReported
  DEF Next, Device

\* A count beyond the size is never the size again.
LEMMA OverrunStep ==
  ASSUME Types, [Next]_vars, Overrun
  PROVE  Overrun' /\ echoes' = echoes /\ timedOut' = timedOut
<1>1. /\ mReadDataReady /\ ~mReadCommandReady /\ mSzPacket \in Int /\ mSzPacket > 0
      /\ mNumByteIn \in Nat /\ mNumByteIn > mSzPacket /\ Len(line) \in Nat
  BY LengthsType, StreamIs DEF Types, Overrun
<1>2. CASE Device
  <2>1. ProcPacket
    BY <1>1, <1>2 DEF Device, GetCommandCode, ReadPacketSize, ProcEmptyPacket
  <2>2. mNumByteIn + Len(line) # mSzPacket
    BY <1>1
  <2> QED
    BY <1>1, <2>1, <2>2 DEF ProcPacket, Incomplete, flagVars, Overrun
<1>3. CASE UNCHANGED <<flagVars, packetVars, echoes, timedOut>>
  BY <1>1, <1>3 DEF flagVars, packetVars, Overrun
<1> QED
  BY <1>2, <1>3
  DEF Next, HostSends, Arrives, Report, vars, outVars

----------------------------------------------------------------------------
(* The order of the bytes to come.                                         *)

\* Every set of natural numbers with a member has a least one.
LEMMA LeastMember ==
  ASSUME NEW S, S \subseteq Nat, S # {}
  PROVE  \E n \in S : \A m \in S : n <= m
<1>1. PICK n \in S : \A m \in S : ~(<<m, n>> \in OpToRel(<, Nat))
  BY NatLessThanWellFounded, WFMin
<1>2. \A m \in S : ~(m < n)
  BY <1>1 DEF OpToRel
<1>3. \A m \in S : m \in Nat
  OBVIOUS
<1> QED
  BY <1>2, <1>3

LEMMA Followers ==
  ASSUME NEW sizes, NEW c
  PROVE  /\ Follower(sizes, Byte(c, "code", 1)) = Byte(c, "code", 2)
         /\ Follower(sizes, Byte(c, "code", 2)) = Byte(c, "size", 1)
         /\ Follower(sizes, Byte(c, "size", 1)) = Byte(c, "size", 2)
         /\ Follower(sizes, Byte(c, "size", 2)) = Data(sizes, c, 1)
         /\ \A at \in Nat : Follower(sizes, Byte(c, "data", at)) = Data(sizes, c, at + 1)
BY DEF Follower, Byte

\* The data of a command is there without a gap, if its first byte is.
LEMMA DataFollows ==
  ASSUME Types, Linked, NEW c \in 1..Len(lengths), NEW a \in Nat \ {0},
         a <= lengths[c], Stream[1] = Byte(c, "data", a)
  PROVE  /\ \A j \in 0..(lengths[c] - a) :
              j < Len(line) + Len(wire) /\ Stream[j + 1] = Byte(c, "data", a + j)
         /\ Stream[lengths[c] - a + 2] = Byte(c + 1, "code", 1)
<1> DEFINE N == Len(line) + Len(wire)
           Right(j) == j < N /\ Stream[j + 1] = Byte(c, "data", a + j)
           S == {j \in 0..(lengths[c] - a) : ~Right(j)}
<1>0. /\ N \in Nat /\ lengths[c] \in Nat /\ lengths[c] - a \in Nat
      /\ \A k \in 1..N : Stream[k + 1] = Follower(lengths, Stream[k])
  <2>1. lengths[c] \in Nat
    BY LengthsType, ElementOfSeq DEF Types
  <2> QED
    BY <2>1, StreamIs DEF Linked
<1>1. \A at : Stream[N + 1] # Byte(c, "data", at)
  BY StreamIs DEF Byte
<1> HIDE DEF N
<1>2. ASSUME S # {} PROVE FALSE
  <2>1. S \subseteq Nat
    BY <1>0
  <2>2. PICK n \in S : \A m \in S : n <= m
    BY <1>2, <2>1, LeastMember
  <2>3. n # 0
    <3>1. Stream[0 + 1] = Byte(c, "data", a + 0)
      OBVIOUS
    <3>2. 0 < N
      <4>1. N # 0
        BY <1>1
      <4> QED
        BY <1>0, <4>1
    <3> QED
      BY <2>2, <3>1, <3>2
  <2>4. n - 1 \in 0..(lengths[c] - a) /\ ~(n <= n - 1) /\ n \in Nat /\ n <= lengths[c] - a
    BY <1>0, <2>1, <2>2, <2>3
  <2>5. Right(n - 1)
    BY <2>2, <2>4
  <2>6. Stream[n] = Byte(c, "data", a + n - 1) /\ n \in 1..N
    BY <1>0, <2>3, <2>4, <2>5
  <2>7. Stream[n + 1] = Data(lengths, c, a + n)
    <3>1. a + n - 1 \in Nat /\ (a + n - 1) + 1 = a + n
      BY <2>4
    <3>2. Stream[n + 1] = Follower(lengths, Byte(c, "data", a + n - 1))
      BY <1>0, <2>6
    <3>3. Follower(lengths, Byte(c, "data", a + n - 1)) = Data(lengths, c, (a + n - 1) + 1)
      BY <3>1, Followers
    <3> QED
      BY <3>1, <3>2, <3>3
  <2>8. Stream[n + 1] = Byte(c, "data", a + n)
    BY <1>0, <2>4, <2>7 DEF Data
  <2>9. n # N
    BY <1>1, <2>8
  <2> QED
    BY <1>0, <2>2, <2>6, <2>8, <2>9
<1>3. \A j \in 0..(lengths[c] - a) : Right(j)
  BY <1>2
<1>4. Stream[lengths[c] - a + 2] = Byte(c + 1, "code", 1)
  <2> DEFINE j == lengths[c] - a
  <2>1. j \in 0..(lengths[c] - a) /\ j + 1 \in 1..N
    BY <1>0, <1>3
  <2>2. Stream[j + 1] = Byte(c, "data", lengths[c])
    BY <1>0, <1>3, <2>1
  <2>3. Stream[(j + 1) + 1] = Data(lengths, c, lengths[c] + 1)
    <3>1. Stream[(j + 1) + 1] = Follower(lengths, Byte(c, "data", lengths[c]))
      BY <1>0, <2>1, <2>2
    <3> QED
      BY <1>0, <3>1, Followers
  <2> QED
    BY <1>0, <2>3 DEF Data
<1> QED
  BY <1>3, <1>4 DEF N

\* When n bytes have been read the others are still a chain.
LEMMA ChainRead ==
  ASSUME Types, Types', Linked, NEW n \in 0..Len(line), UNCHANGED <<lengths, wire>>,
         Len(line') = Len(line) - n, \A k \in 1..(Len(line) - n) : line'[k] = line[n + k]
  PROVE  Linked' /\ Stream'[1] = Stream[n + 1]
<1>1. /\ Len(line) \in Nat /\ Len(wire) \in Nat /\ n \in Nat /\ n <= Len(line)
      /\ Len(line') \in Nat /\ Len(wire') = Len(wire)
  BY StreamIs
<1>2. \A k \in 1..(Len(line') + Len(wire) + 1) : Stream'[k] = Stream[n + k]
  <2> TAKE k \in 1..(Len(line') + Len(wire) + 1)
  <2>1. CASE k \in 1..Len(line')
    <3>1. Stream'[k] = line'[k] /\ Stream[n + k] = line[n + k] /\ line'[k] = line[n + k]
      BY <1>1, <2>1, StreamIs, NextStreamIs
    <3> QED
      BY <3>1
  <2>2. CASE k - Len(line') \in 1..Len(wire)
    <3>1. Stream'[Len(line') + (k - Len(line'))] = wire[k - Len(line')]
      BY <2>2, NextStreamIs
    <3>2. Stream[Len(line) + (k - Len(line'))] = wire[k - Len(line')]
      BY <2>2, StreamIs
    <3>3. Len(line') + (k - Len(line')) = k /\ Len(line) + (k - Len(line')) = n + k
      BY <1>1
    <3> QED
      BY <3>1, <3>2, <3>3
  <2>3. CASE k = Len(line') + Len(wire) + 1
    <3>1. n + k = Len(line) + Len(wire) + 1
      BY <1>1, <2>3
    <3> QED
      BY <2>3, <3>1, StreamIs, NextStreamIs
  <2> QED
    BY <1>1, <2>1, <2>2, <2>3
<1>3. ASSUME NEW k \in 1..(Len(line') + Len(wire))
      PROVE  Stream'[k + 1] = Follower(lengths, Stream'[k])
  <2>1. n + k \in 1..(Len(line) + Len(wire)) /\ n + (k + 1) = (n + k) + 1
    BY <1>1
  <2>2. Stream[(n + k) + 1] = Follower(lengths, Stream[n + k])
    BY <2>1 DEF Linked
  <2>3. Stream'[k] = Stream[n + k] /\ Stream'[k + 1] = Stream[n + (k + 1)]
    BY <1>1, <1>2
  <2> QED
    BY <2>1, <2>2, <2>3
<1>4. Stream'[1] = Stream[n + 1]
  BY <1>1, <1>2
<1> QED
  BY <1>3, <1>4 DEF Linked

----------------------------------------------------------------------------
(* The host, and the line.                                                 *)

\* A step the device has no part in, after which what is to come begins as before.
LEMMA InOrderKept ==
  ASSUME Types, InOrder, UNCHANGED <<flagVars, packetVars, echoes>>,
         Linked', Stream'[1] = Stream[1], Len(lengths) \in Nat, Len(lengths') \in Nat,
         Len(lengths) <= Len(lengths'), \A c \in 1..Len(lengths) : lengths'[c] = lengths[c]
  PROVE  InOrder'
<1>1. Len(echoes) \in Nat /\ Current' = Current
  BY AppendIsSequence DEF Types, Current
<1>2. mReadDataReady => Current \in 1..Len(lengths) /\ lengths'[Current] = lengths[Current]
  BY <1>1 DEF InOrder, Received, Current
<1>3. mReadCommandReady = ~mReadDataReady
  BY DEF Types
<1>4. Expected' = Expected
  BY <1>1, <1>2, <1>3 DEF Expected, Data, flagVars, packetVars
<1>5. Received'
  BY <1>1, <1>2 DEF InOrder, Received, flagVars, packetVars
<1>6. Len(echoes') <= Len(lengths')
  BY <1>1 DEF InOrder
<1> QED
  BY <1>4, <1>5, <1>6 DEF InOrder, Chained

\* What has been echoed does not depend on commands to come.
LEMMA CommandsKept ==
  ASSUME Types, CommandsInOrder, echoes' = echoes, timedOut => timedOut',
         Len(lengths) \in Nat, Len(lengths') \in Nat,
         Len(lengths) <= Len(lengths'),
         \A c \in 1..Len(lengths) : lengths'[c] = lengths[c] /\ types'[c] = types[c]
  PROVE  CommandsInOrder'
<1> SUFFICES ASSUME ~timedOut', NEW i \in DOMAIN echoes
             PROVE  i <= Len(lengths') /\ IsEchoOf(echoes[i], i)'
  BY DEF CommandsInOrder
<1>1. i <= Len(lengths) /\ IsEchoOf(echoes[i], i)
  BY DEF CommandsInOrder
<1>2. i \in 1..Len(lengths)
  <2>1. DOMAIN echoes = 1..Len(echoes) /\ Len(echoes) \in Nat
    BY AppendIsSequence DEF Types
  <2> QED
    BY <1>1, <2>1
<1>3. IsEchoOf(echoes[i], i)'
  BY <1>1, <1>2 DEF IsEchoOf
<1> QED
  BY <1>2, <1>3

\* What is added to the wire.
LEMMA WireSent ==
  ASSUME Types, NEW length \in Lengths, NEW type \in VarTypes, HostSends(length, type), NEW c,
         c = Len(lengths) + 1
  PROVE  /\ Len(wire') = Len(wire) + 4 + length
         /\ \A k \in 1..Len(wire) : wire'[k] = wire[k]
         /\ wire'[Len(wire) + 1] = Byte(c, "code", 1)
         /\ wire'[Len(wire) + 2] = Byte(c, "code", 2)
         /\ wire'[Len(wire) + 3] = Byte(c, "size", 1)
         /\ wire'[Len(wire) + 4] = Byte(c, "size", 2)
         /\ \A k \in 1..length : wire'[Len(wire) + 4 + k] = Byte(c, "data", k)
<1> DEFINE code == Bytes(c, "code", 2)
           size == Bytes(c, "size", 2)
           data == Bytes(c, "data", length)
           S == SentBytes \cup {Byte(c, field, k) : field \in {"code", "size", "data"}, k \in Nat}
<1>1. wire' = ((wire \o code) \o size) \o data
  BY DEF HostSends
<1>2. length \in Nat /\ wire \in Seq(S) /\ Len(wire) \in Nat
  BY LengthsType, SeqMonotonic, StreamIs DEF Types
<1>3. /\ code \in Seq(S) /\ Len(code) = 2 /\ size \in Seq(S) /\ Len(size) = 2
      /\ data \in Seq(S) /\ Len(data) = length
      /\ code[1] = Byte(c, "code", 1) /\ code[2] = Byte(c, "code", 2)
      /\ size[1] = Byte(c, "size", 1) /\ size[2] = Byte(c, "size", 2)
      /\ \A k \in 1..length : data[k] = Byte(c, "data", k)
  <2>1. 1 \in 1..2 /\ 2 \in 1..2 /\ \A n \in Nat : \A k \in 1..n : k \in Nat
    OBVIOUS
  <2>2. \A field \in {"code", "size", "data"}, k \in Nat : Byte(c, field, k) \in S
    OBVIOUS
  <2>3. Bytes(c, "code", 2) \in Seq(S) /\ Bytes(c, "size", 2) \in Seq(S)
    BY <2>1, <2>2, BytesType
  <2>4. Bytes(c, "data", length) \in Seq(S)
    BY <1>2, <2>1, <2>2, BytesType
  <2>5. /\ Len(Bytes(c, "code", 2)) = 2
        /\ \A k \in 1..2 : Bytes(c, "code", 2)[k] = Byte(c, "code", k)
    BY DEF Bytes, Byte
  <2>6. /\ Len(Bytes(c, "size", 2)) = 2
        /\ \A k \in 1..2 : Bytes(c, "size", 2)[k] = Byte(c, "size", k)
    BY DEF Bytes, Byte
  <2>7. /\ Len(data) = length
        /\ \A k \in 1..length : data[k] = Byte(c, "data", k)
    BY <1>2, BytesType
  <2> HIDE DEF S
  <2> QED
    BY <2>1, <2>3, <2>4, <2>5, <2>6, <2>7
<1> HIDE DEF code, size, data, S
<1>4. /\ wire \o code \in Seq(S) /\ Len(wire \o code) = Len(wire) + 2
      /\ \A k \in 1..(Len(wire) + 2) :
           (wire \o code)[k] = IF k <= Len(wire) THEN wire[k] ELSE code[k - Len(wire)]
  <2>1. /\ wire \o code \in Seq(S) /\ Len(wire \o code) = Len(wire) + Len(code)
        /\ \A k \in 1..(Len(wire) + Len(code)) :
             (wire \o code)[k] = IF k <= Len(wire) THEN wire[k] ELSE code[k - Len(wire)]
    BY <1>2, <1>3, ConcatProperties
  <2> QED
    BY <1>3, <2>1
<1>5. /\ (wire \o code) \o size \in Seq(S) /\ Len((wire \o code) \o size) = Len(wire) + 4
      /\ \A k \in 1..(Len(wire) + 4) :
           ((wire \o code) \o size)[k] =
             IF k <= Len(wire) + 2 THEN (wire \o code)[k] ELSE size[k - (Len(wire) + 2)]
  BY <1>2, <1>3, <1>4, ConcatProperties
<1>6. /\ Len(wire') = Len(wire) + 4 + length
      /\ \A k \in 1..(Len(wire) + 4 + length) :
           wire'[k] = IF k <= Len(wire) + 4 THEN ((wire \o code) \o size)[k]
                      ELSE data[k - (Len(wire) + 4)]
  <2> DEFINE w == (wire \o code) \o size
  <2>1. w \in Seq(S) /\ Len(w) = Len(wire) + 4 /\ wire' = w \o data
    BY <1>1, <1>5
  <2> HIDE DEF w
  <2>2. /\ Len(wire') = Len(w) + Len(data)
        /\ \A k \in 1..(Len(w) + Len(data)) :
             wire'[k] = IF k <= Len(w) THEN w[k] ELSE data[k - Len(w)]
    BY <1>3, <2>1, ConcatProperties
  <2>3. /\ Len(wire') = Len(wire) + 4 + length
        /\ \A k \in 1..(Len(wire) + 4 + length) :
             wire'[k] = IF k <= Len(wire) + 4 THEN w[k] ELSE data[k - (Len(wire) + 4)]
    BY <1>3, <2>1, <2>2
  <2> QED
    BY <2>3 DEF w
<1>7. \A k \in 1..Len(wire) : wire'[k] = wire[k]
  BY <1>2, <1>4, <1>5, <1>6
<1>8. wire'[Len(wire) + 1] = code[1] /\ wire'[Len(wire) + 2] = code[2]
  BY <1>2, <1>4, <1>5, <1>6
<1>9. wire'[Len(wire) + 3] = size[1] /\ wire'[Len(wire) + 4] = size[2]
  <2>1. /\ wire'[Len(wire) + 3] = ((wire \o code) \o size)[Len(wire) + 3]
        /\ wire'[Len(wire) + 4] = ((wire \o code) \o size)[Len(wire) + 4]
    <3>1. /\ Len(wire) + 3 \in 1..(Len(wire) + 4 + length) /\ Len(wire) + 3 <= Len(wire) + 4
          /\ Len(wire) + 4 \in 1..(Len(wire) + 4 + length) /\ Len(wire) + 4 <= Len(wire) + 4
      BY <1>2
    <3> QED
      BY <1>6, <3>1
  <2>2. /\ ((wire \o code) \o size)[Len(wire) + 3] = size[(Len(wire) + 3) - (Len(wire) + 2)]
        /\ ((wire \o code) \o size)[Len(wire) + 4] = size[(Len(wire) + 4) - (Len(wire) + 2)]
    BY <1>2, <1>5
  <2>3. (Len(wire) + 3) - (Len(wire) + 2) = 1 /\ (Len(wire) + 4) - (Len(wire) + 2) = 2
    BY <1>2
  <2> QED
    BY <2>1, <2>2, <2>3
<1>10. \A k \in 1..length : wire'[Len(wire) + 4 + k] = data[k]
  BY <1>2, <1>6
<1> QED
  BY <1>3, <1>6, <1>7, <1>8, <1>9, <1>10

LEMMA LinkedSent ==
  ASSUME Types, Types', Linked, NEW length \in Lengths, NEW type \in VarTypes,
         HostSends(length, type)
  PROVE  Linked' /\ Stream'[1] = Stream[1]
<1> DEFINE c == Len(lengths) + 1
           N == Len(line) + Len(wire)
<1>1. /\ lengths' = Append(lengths, length) /\ line' = line
      /\ Len(lengths) \in Nat /\ Len(line) \in Nat /\ Len(wire) \in Nat /\ length \in Nat
  BY LengthsType, StreamIs DEF HostSends
<1>2. Len(lengths') = c /\ lengths'[c] = length
      /\ \A i \in 1..Len(lengths) : lengths'[i] = lengths[i]
  BY <1>1, AppendProperties DEF Types
<1>3. Len(line') + Len(wire') = N + 4 + length
  <2>1. Len(wire') = Len(wire) + 4 + length
    BY WireSent
  <2> QED
    BY <1>1, <2>1
<1>4. \A k \in 1..N : Stream'[k] = Stream[k]
  <2> TAKE k \in 1..N
  <2>1. CASE k \in 1..Len(line)
    BY <1>1, <2>1, StreamIs, NextStreamIs
  <2>2. CASE k - Len(line) \in 1..Len(wire)
    <3>1. k - Len(line) \in 1..Len(wire') /\ wire'[k - Len(line)] = wire[k - Len(line)]
      BY <1>1, <2>2, WireSent
    <3>2. Stream'[Len(line) + (k - Len(line))] = Stream[Len(line) + (k - Len(line))]
      BY <1>1, <2>2, <3>1, StreamIs, NextStreamIs
    <3> QED
      BY <1>1, <3>2
  <2> QED
    BY <1>1, <2>1, <2>2
<1>5. \A k \in 1..(4 + length) : Stream'[N + k] = wire'[Len(wire) + k]
  <2> TAKE k \in 1..(4 + length)
  <2>1. Len(wire) + k \in 1..Len(wire')
    BY <1>1, WireSent
  <2>2. Stream'[Len(line) + (Len(wire) + k)] = wire'[Len(wire) + k]
    BY <1>1, <2>1, NextStreamIs
  <2> QED
    BY <1>1, <2>2
<1>6. /\ Stream'[N + 1] = Byte(c, "code", 1) /\ Stream'[N + 2] = Byte(c, "code", 2)
      /\ Stream'[N + 3] = Byte(c, "size", 1) /\ Stream'[N + 4] = Byte(c, "size", 2)
      /\ \A k \in 1..length : Stream'[N + 4 + k] = Byte(c, "data", k)
  <2>1. ASSUME NEW k \in 1..length PROVE Stream'[N + 4 + k] = Byte(c, "data", k)
    <3>1. 4 + k \in 1..(4 + length)
      BY <1>1
    <3>2. Stream'[N + (4 + k)] = wire'[Len(wire) + (4 + k)]
      BY <1>5, <3>1
    <3>3. N + (4 + k) = N + 4 + k /\ Len(wire) + (4 + k) = Len(wire) + 4 + k
      BY <1>1
    <3> QED
      BY <3>2, <3>3, WireSent
  <2>2. \A k \in {1, 2, 3, 4} : k \in 1..(4 + length)
    BY <1>1
  <2> QED
    BY <1>5, <2>1, <2>2, WireSent
<1>7. Stream'[N + 4 + length + 1] = Byte(c + 1, "code", 1)
  BY <1>1, <1>2, <1>3, NextStreamIs
<1>8. Stream[N + 1] = Byte(c, "code", 1) /\ N \in Nat
  BY <1>1, StreamIs
<1>9. \A k \in 1..N : Follower(lengths', Stream[k]) = Follower(lengths, Stream[k])
  <2> TAKE k \in 1..N
  <2>1. Stream[k].of \in 1..Len(lengths)
    BY StreamIs DEF SentBytes
  <2> QED
    BY <1>2, <2>1 DEF Follower, Data
<1> HIDE DEF c, N
<1>10. ASSUME NEW k \in 1..(N + 4 + length)
       PROVE  Stream'[k + 1] = Follower(lengths', Stream'[k])
  <2>1. CASE k \in 1..N
    <3>1. Stream'[k + 1] = Stream[k + 1]
      BY <1>4, <1>6, <1>8, <2>1
    <3>2. Stream[k + 1] = Follower(lengths, Stream[k])
      BY <2>1 DEF Linked, N
    <3> QED
      BY <1>4, <1>9, <2>1, <3>1, <3>2
  <2>2. CASE k \in {N + 1, N + 2, N + 3}
    <3>1. (N + 1) + 1 = N + 2 /\ (N + 2) + 1 = N + 3 /\ (N + 3) + 1 = N + 4
      BY <1>8
    <3> QED
      BY <1>6, <2>2, <3>1, Followers
  <2>3. CASE k = N + 4
    <3>1. Stream'[k + 1] = Data(lengths', c, 1)
      <4>1. length = 0 \/ 1 \in 1..length
        BY <1>1
      <4>2. (N + 4) + 1 = N + 4 + 1 /\ N + 4 + 0 + 1 = N + 4 + 1
        BY <1>8
      <4> QED
        BY <1>1, <1>2, <1>6, <1>7, <2>3, <4>1, <4>2 DEF Data
    <3> QED
      BY <1>6, <2>3, <3>1, Followers
  <2>4. CASE k - (N + 4) \in 1..length
    <3> DEFINE at == k - (N + 4)
    <3>1. k = N + 4 + at /\ at \in 1..length /\ at \in Nat
      BY <1>1, <1>8, <2>4
    <3>2. Stream'[k] = Byte(c, "data", at)
      BY <1>6, <3>1
    <3>3. Stream'[k + 1] = Data(lengths', c, at + 1)
      <4>1. CASE at = length
        BY <1>1, <1>2, <1>7, <3>1, <4>1 DEF Data
      <4>2. CASE at # length
        <5>1. at + 1 \in 1..length /\ k + 1 = N + 4 + (at + 1)
          BY <1>1, <1>8, <3>1, <4>2
        <5>2. at + 1 <= lengths'[c]
          BY <1>2, <5>1
        <5> QED
          BY <1>6, <5>1, <5>2 DEF Data
      <4> QED
        BY <4>1, <4>2
    <3> QED
      BY <3>1, <3>2, <3>3, Followers
  <2> QED
    BY <1>1, <1>8, <2>1, <2>2, <2>3, <2>4
<1>11. Linked'
  BY <1>3, <1>10 DEF Linked, N
<1>12. Stream'[1] = Stream[1]
  <2>1. N = 0 \/ 1 \in 1..N
    BY <1>8
  <2> QED
    BY <1>4, <1>6, <1>8, <2>1
<1> QED
  BY <1>11, <1>12

LEMMA LinkedArrived ==
  ASSUME Types, Types', Linked, Arrives
  PROVE  Linked' /\ Stream'[1] = Stream[1]
<1>1. /\ wire # <<>> /\ line' = Append(line, Head(wire)) /\ wire' = Tail(wire)
      /\ lengths' = lengths
  BY DEF Arrives
<1>2. line \in Seq(SentBytes) /\ wire \in Seq(SentBytes)
  BY DEF Types
<1>3. /\ Len(line) \in Nat /\ Len(wire) \in Nat \ {0} /\ Len(lengths) \in Nat
      /\ Head(wire) = wire[1] /\ Head(wire) \in SentBytes
  BY <1>1, <1>2, EmptySeq, HeadTailProperties, StreamIs
<1>4. /\ Len(line') = Len(line) + 1 /\ line'[Len(line) + 1] = wire[1]
      /\ \A k \in 1..Len(line) : line'[k] = line[k]
  BY <1>1, <1>2, <1>3, AppendProperties
<1>5. /\ Len(wire') = Len(wire) - 1
      /\ \A k \in 1..(Len(wire) - 1) : wire'[k] = wire[k + 1]
  BY <1>1, <1>2, HeadTailProperties
<1>6. \A k \in 1..(Len(line) + Len(wire) + 1) : Stream'[k] = Stream[k]
  <2> TAKE k \in 1..(Len(line) + Len(wire) + 1)
  <2>1. CASE k \in 1..Len(line)
    <3>1. k \in 1..Len(line')
      BY <1>3, <1>4, <2>1
    <3> QED
      BY <1>4, <2>1, <3>1, StreamIs, NextStreamIs
  <2>2. CASE k = Len(line) + 1
    <3>1. k \in 1..Len(line') /\ 1 \in 1..Len(wire)
      BY <1>3, <1>4, <2>2
    <3> QED
      BY <1>4, <2>2, <3>1, StreamIs, NextStreamIs
  <2>3. CASE k - Len(line) \in 2..Len(wire)
    <3> DEFINE j == k - Len(line) - 1
    <3>1. /\ j \in 1..Len(wire') /\ j \in 1..(Len(wire) - 1) /\ j + 1 \in 1..Len(wire)
          /\ Len(line') + j = k /\ Len(line) + (j + 1) = k
      BY <1>3, <1>4, <1>5, <2>3
    <3>2. Stream'[Len(line') + j] = wire'[j]
      BY <3>1, NextStreamIs
    <3>3. Stream[Len(line) + (j + 1)] = wire[j + 1]
      BY <3>1, StreamIs
    <3> QED
      BY <1>5, <3>1, <3>2, <3>3
  <2>4. CASE k = Len(line) + Len(wire) + 1
    <3>1. k = Len(line') + Len(wire') + 1
      BY <1>3, <1>4, <1>5, <2>4
    <3> QED
      BY <1>1, <2>4, <3>1, StreamIs, NextStreamIs
  <2> QED
    BY <1>3, <2>1, <2>2, <2>3, <2>4
<1>7. Len(line') + Len(wire') = Len(line) + Len(wire)
  BY <1>3, <1>4, <1>5
<1>8. ASSUME NEW k \in 1..(Len(line) + Len(wire))
      PROVE  Stream'[k + 1] = Follower(lengths, Stream'[k])
  <2>1. k \in 1..(Len(line) + Len(wire) + 1) /\ k + 1 \in 1..(Len(line) + Len(wire) + 1)
    BY <1>3
  <2> QED
    BY <1>6, <2>1 DEF Linked
<1>9. Stream'[1] = Stream[1]
  BY <1>3, <1>6
<1> QED
  BY <1>1, <1>7, <1>8, <1>9 DEF Linked

----------------------------------------------------------------------------
(* The device.                                                             *)

\* Two bytes read are the whole of a field of two.
LEMMA TwoBytes ==
  ASSUME Types, Len(line) >= 2, NEW c, NEW field,
         line[1] = Byte(c, field, 1), line[2] = Byte(c, field, 2)
  PROVE  /\ SubSeq(line, 1, 2) = Bytes(c, field, 2)
         /\ SubSeq(Bytes(c, field, 2), 1, 2) = Bytes(c, field, 2)
<1> DEFINE S == {Byte(c, field, 1), Byte(c, field, 2)}
           bytes == Bytes(c, field, 2)
<1>1. /\ Len(bytes) = 2 /\ \A k \in 1..2 : bytes[k] = Byte(c, field, k)
  BY DEF Bytes, Byte
<1>2. bytes \in Seq(S)
  BY DEF Bytes, Byte
<1>3. /\ SubSeq(line, 1, 2) \in Seq(S) /\ Len(SubSeq(line, 1, 2)) = 2
      /\ \A k \in 1..2 : SubSeq(line, 1, 2)[k] = line[k]
  <2>1. 1 \in Int /\ 2 \in Int /\ \A k \in 1..2 : line[k] \in S
    OBVIOUS
  <2>2. /\ SubSeq(line, 1, 2) \in Seq(S)
        /\ Len(SubSeq(line, 1, 2)) = IF 1 <= 2 THEN 2 - 1 + 1 ELSE 0
        /\ \A k \in 1..(2 - 1 + 1) : SubSeq(line, 1, 2)[k] = line[1 + k - 1]
    BY <2>1, SubSeqProperties
  <2> QED
    BY <2>2
<1> HIDE DEF S, bytes
<1>4. \A k \in 1..2 : SubSeq(line, 1, 2)[k] = bytes[k]
  <2>1. 1 \in 1..2 /\ 2 \in 1..2 /\ \A k \in 1..2 : k = 1 \/ k = 2
    OBVIOUS
  <2> QED
    BY <1>1, <1>3, <2>1
<1>5. SubSeq(line, 1, 2) = bytes
  BY <1>1, <1>2, <1>3, <1>4, SeqEqual
<1>6. SubSeq(bytes, 1, 2) = bytes
  BY <1>1, <1>2, SubSeqFull
<1> QED
  BY <1>5, <1>6 DEF bytes

\* What the device knows of the current command.
LEMMA CurrentType ==
  ASSUME Types
  PROVE  /\ Len(echoes) \in Nat /\ Current \in Nat \ {0} /\ Len(lengths) \in Nat
         /\ \A c \in 1..Len(lengths) : lengths[c] \in Nat
<1>1. Len(echoes) \in Nat
  BY AppendIsSequence DEF Types
<1>2. \A c \in 1..Len(lengths) : lengths[c] \in Nat
  BY ElementOfSeq, LengthsType DEF Types
<1> QED
  BY <1>1, <1>2, StreamIs DEF Current

\* The first two bytes, once they have arrived, and what follows them.
LEMMA FirstTwo ==
  ASSUME Types, Linked, Len(line) >= 2
  PROVE  /\ line[1] = Stream[1] /\ line[2] = Follower(lengths, Stream[1])
         /\ Stream[3] = Follower(lengths, line[2])
         /\ line[1] \in SentBytes
<1>1. /\ 1 \in 1..Len(line) /\ 2 \in 1..Len(line)
      /\ 1 \in 1..(Len(line) + Len(wire)) /\ 2 \in 1..(Len(line) + Len(wire))
  BY StreamIs
<1>2. Stream[1] = line[1] /\ Stream[2] = line[2] /\ Stream[1] \in SentBytes
  BY <1>1, StreamIs
<1>3. Stream[1 + 1] = Follower(lengths, Stream[1]) /\ Stream[2 + 1] = Follower(lengths, Stream[2])
  BY <1>1 DEF Linked
<1> QED
  BY <1>2, <1>3

LEMMA OrderOfCode ==
  ASSUME Types, Types', InOrder, GetCommandCode
  PROVE  InOrder'
<1> DEFINE c == Current
<1>1. /\ mReadCommandReady /\ Len(line) >= 2 /\ mCommand_Code' = SubSeq(line, 1, 2)
      /\ line' = SubSeq(line, 2 + 1, Len(line)) /\ mSzPacket' = -1
      /\ mReadCommandReady' = FALSE /\ mReadDataReady' = TRUE
      /\ UNCHANGED <<lengths, wire, echoes>>
  <2>1. 2 + 1 = 3
    OBVIOUS
  <2>2. mReadCommandReady' = FALSE /\ mReadDataReady' = TRUE
    BY DEF GetCommandCode, ReadyFor
  <2> QED
    BY <2>1, <2>2 DEF GetCommandCode, hostVars, outVars
<1>2. c \in Nat \ {0} /\ Len(echoes) \in Nat /\ 2 \in 0..Len(line) /\ Current' = c
  BY <1>1, CurrentType, StreamIs DEF Current
<1>3. Stream[1] = Byte(c, "code", 1)
  <2>1. ~mReadDataReady
    BY <1>1 DEF Types
  <2> QED
    BY <1>1, <2>1 DEF InOrder, Chained, Expected
<1>4. line[1] = Byte(c, "code", 1) /\ line[2] = Byte(c, "code", 2) /\ Stream[3] = Byte(c, "size", 1)
  BY <1>1, <1>3, FirstTwo, Followers DEF InOrder, Chained
<1>5. c <= Len(lengths)
  <2>1. line[1].of \in 1..Len(lengths)
    BY <1>1, FirstTwo DEF InOrder, Chained, SentBytes
  <2> QED
    BY <1>4, <2>1, StreamIs DEF Byte
<1>6. mCommand_Code' = Bytes(c, "code", 2)
  BY <1>1, <1>4, TwoBytes
<1>7. Linked' /\ Stream'[1] = Stream[2 + 1]
  BY <1>1, <1>2, RestIsSent, ChainRead DEF InOrder, Chained
<1>8. Expected' = Byte(c, "size", 1)
  BY <1>1, <1>2 DEF Expected
<1>9. Received'
  BY <1>1, <1>2, <1>5, <1>6 DEF Received
<1> QED
  BY <1>1, <1>4, <1>7, <1>8, <1>9 DEF InOrder, Chained

LEMMA OrderOfSize ==
  ASSUME Types, Types', InOrder, ReadPacketSize, ~timedOut'
  PROVE  InOrder'
<1> DEFINE c == Current
<1>1. /\ mReadDataReady /\ mSzPacket < 0 /\ Len(line) >= 2
      /\ mSzPacket' \in SizesRead(2) /\ line' = SubSeq(line, 2 + 1, Len(line))
  BY DEF ReadPacketSize
<1>2. /\ ~mReadCommandReady /\ mNumByteIn = 0
      /\ UNCHANGED <<lengths, wire, echoes, flagVars, mCommand_Code, mNumByteIn>>
  <2>1. mSzPacket <= 0
    BY <1>1, LengthsType DEF Types
  <2> QED
    BY <1>1, <2>1 DEF ReadPacketSize, hostVars, outVars, Types
<1>3. /\ c \in 1..Len(lengths) /\ lengths[c] \in Nat /\ 2 \in 0..Len(line) /\ Current' = c
      /\ mCommand_Code = Bytes(c, "code", 2) /\ Len(echoes) <= Len(lengths)
  BY <1>1, <1>2, CurrentType, StreamIs DEF InOrder, Received, Current
<1>4. Stream[1] = Byte(c, "size", 1)
  BY <1>1, <1>2 DEF InOrder, Chained, Expected
<1>5. /\ line[1] = Byte(c, "size", 1) /\ line[2] = Byte(c, "size", 2)
      /\ Stream[3] = Data(lengths, c, 1)
  BY <1>1, <1>4, FirstTwo, Followers DEF InOrder, Chained
<1>6. mSzPacket' = lengths[c]
  <2>1. line[1].of = c
    BY <1>5 DEF Byte
  <2>2. SubSeq(line, 1, 2) = SubSeq(Bytes(line[1].of, "size", 2), 1, 2)
    BY <1>1, <1>5, <2>1, TwoBytes
  <2> QED
    BY <1>1, <2>1, <2>2 DEF SizesRead
<1>7. Linked' /\ Stream'[1] = Stream[2 + 1]
  BY <1>1, <1>2, <1>3, RestIsSent, ChainRead DEF InOrder, Chained
<1>8. Expected' = Data(lengths, c, 1)
  <2>1. ~mReadCommandReady' /\ ~(mSzPacket' < 0) /\ mNumByteIn' + 1 = 1
    BY <1>2, <1>3, <1>6 DEF flagVars
  <2> QED
    BY <1>2, <1>3, <2>1 DEF Expected
<1>9. Received'
  <2>1. \A k \in 1..EchoSize : ~(k <= mNumByteIn')
    BY <1>2 DEF EchoSize
  <2>2. mSzPacket' = 0 \/ mNumByteIn' < mSzPacket'
    BY <1>2, <1>3, <1>6
  <2>3. Current' <= Len(lengths') /\ mCommand_Code' = Bytes(Current', "code", 2)
    BY <1>2, <1>3, StreamIs
  <2> QED
    BY <1>2, <1>3, <1>6, <2>1, <2>2, <2>3 DEF Received
<1> QED
  BY <1>2, <1>3, <1>5, <1>7, <1>8, <1>9 DEF InOrder, Chained

\* An echo of the current command's code, and of its data if it has just a type and
\* a value.
LEMMA EchoIsRight ==
  ASSUME NEW c, mCommand_Code = Bytes(c, "code", 2), c # 0, NEW buffer, NEW echo \in Echoes(buffer),
         lengths[c] = EchoSize =>
           buffer[1] = Byte(c, "data", 1) /\ buffer[2] = Byte(c, "data", 2)
  PROVE  IsEchoOf(echo, c)
<1>1. PICK type \in TypesRead(buffer[1]) :
        echo = [command |-> EchoCommand, message |-> EchoMessage(type, buffer[2])]
  BY DEF Echoes
<1>2. echo.command = <<Bytes(c, "code", 2), Bytes(c, "code", 2)>>
  BY <1>1 DEF EchoCommand
<1>3. ASSUME lengths[c] = EchoSize
      PROVE  echo.message = IF types[c] \in EchoedTypes
               THEN <<COMMAND_CODE_TRNS_DATA, types[c], Byte(c, "data", 2)>> ELSE <<>>
  <2>1. buffer[1] # NoByte /\ buffer[1].field = "data" /\ buffer[1].at = 1 /\ buffer[1].of = c
    BY <1>3 DEF Byte, NoByte
  <2>2. TypesRead(buffer[1]) = {types[c]}
    BY <2>1 DEF TypesRead
  <2>3. type = types[c]
    BY <2>2
  <2> QED
    BY <1>1, <1>3, <2>3 DEF EchoMessage, MessageOut
<1> QED
  BY <1>2, <1>3 DEF IsEchoOf, Byte

\* A command is complete, and its echo added.
LEMMA OrderOfComplete ==
  ASSUME Types, Types', InOrder, mReadDataReady, Complete, UNCHANGED lengths,
         Linked', Stream'[1] = Byte(Current + 1, "code", 1)
  PROVE  InOrder'
<1>1. PICK echo : echoes' = Append(echoes, echo)
  BY DEF Complete
<1>2. Len(echoes') = Current
  BY <1>1, AppendIsSequence DEF Types, Current
<1>3. mReadCommandReady' = TRUE /\ mReadDataReady' = FALSE
  BY DEF Complete, ReadyFor
<1>4. Expected' = Byte(Current + 1, "code", 1)
  BY <1>2, <1>3 DEF Expected, Current
<1>5. Current <= Len(lengths)
  BY DEF InOrder, Received
<1> QED
  BY <1>2, <1>3, <1>4, <1>5 DEF InOrder, Chained, Received

LEMMA CommandsOfComplete ==
  ASSUME Types, InOrder, CommandsInOrder, mReadDataReady, Complete,
         UNCHANGED <<lengths, types, timedOut>>,
         lengths[Current] = EchoSize =>
           /\ mRxBuffer'[1] = Byte(Current, "data", 1)
           /\ mRxBuffer'[2] = Byte(Current, "data", 2)
  PROVE  CommandsInOrder'
<1> DEFINE c == Current
<1>1. PICK echo \in Echoes(mRxBuffer') : echoes' = Append(echoes, echo)
  BY DEF Complete
<1>2. /\ c = Len(echoes) + 1 /\ Len(echoes) \in Nat /\ DOMAIN echoes = 1..Len(echoes)
      /\ DOMAIN echoes' = 1..(Len(echoes) + 1) /\ echoes'[c] = echo
      /\ \A i \in 1..Len(echoes) : echoes'[i] = echoes[i]
  BY <1>1, AppendIsSequence DEF Types, Current
<1>3. c <= Len(lengths) /\ mCommand_Code = Bytes(c, "code", 2)
  BY DEF InOrder, Received
<1>4. IsEchoOf(echo, c)
  BY <1>1, <1>2, <1>3, EchoIsRight
<1> SUFFICES ASSUME ~timedOut, NEW i \in DOMAIN echoes'
             PROVE  i <= Len(lengths) /\ IsEchoOf(echoes'[i], i)
  BY DEF CommandsInOrder, IsEchoOf
<1>5. CASE i = c
  BY <1>2, <1>3, <1>4, <1>5
<1>6. CASE i \in 1..Len(echoes)
  BY <1>2, <1>6 DEF CommandsInOrder
<1> QED
  BY <1>2, <1>5, <1>6

\* While data is being received, all that is left of it comes next, and behind it the
\* next command.
LEMMA RestOfData ==
  ASSUME Types, InOrder, mReadDataReady, mSzPacket > 0, NEW m, m = mNumByteIn,
         NEW z, z = mSzPacket
  PROVE  /\ Current \in 1..Len(lengths) /\ z = lengths[Current] /\ z \in Nat
         /\ m \in Nat /\ m < z
         /\ \A j \in 0..(z - m - 1) :
              j < Len(line) + Len(wire) /\ Stream[j + 1] = Byte(Current, "data", m + 1 + j)
         /\ Stream[z - m + 1] = Byte(Current + 1, "code", 1)
<1> DEFINE c == Current
<1>1. /\ c \in 1..Len(lengths) /\ z = lengths[c] /\ z \in Nat /\ m \in Nat
      /\ z = 0 \/ m < z
  BY CurrentType, LengthsType DEF InOrder, Received, Types
<1>2. m < z /\ m + 1 \in Nat \ {0} /\ m + 1 <= lengths[c]
  BY <1>1
<1>3. Stream[1] = Byte(c, "data", m + 1)
  <2>1. ~mReadCommandReady /\ ~(mSzPacket < 0)
    BY <1>1 DEF Types
  <2> QED
    BY <1>2, <2>1 DEF InOrder, Chained, Expected, Data
<1>4. /\ \A j \in 0..(lengths[c] - (m + 1)) :
           j < Len(line) + Len(wire) /\ Stream[j + 1] = Byte(c, "data", (m + 1) + j)
      /\ Stream[lengths[c] - (m + 1) + 2] = Byte(c + 1, "code", 1)
  BY <1>1, <1>2, <1>3, DataFollows DEF InOrder, Chained
<1>5. lengths[c] - (m + 1) = z - m - 1 /\ lengths[c] - (m + 1) + 2 = z - m + 1
  BY <1>1
<1> QED
  BY <1>1, <1>2, <1>4, <1>5

\* procPacket: what it has read so far is in the buffer.
LEMMA BufferFilled ==
  ASSUME Types, InOrder, mReadDataReady, mSzPacket > 0,
         mNumByteIn + Len(line) <= mSzPacket,
         NEW k \in 1..EchoSize, k <= mNumByteIn + Len(line)
  PROVE  Filled[k] = Byte(Current, "data", k)
<1> DEFINE m == mNumByteIn
           z == mSzPacket
<1>1. /\ Current \in 1..Len(lengths) /\ z = lengths[Current] /\ z \in Nat /\ m \in Nat
      /\ \A j \in 0..(z - m - 1) : Stream[j + 1] = Byte(Current, "data", m + 1 + j)
  BY RestOfData
<1>2. Len(line) \in Nat /\ DOMAIN line = 1..Len(line) /\ k \in Nat \ {0}
  BY StreamIs DEF Types, EchoSize
<1>3. CASE k - m \in DOMAIN line
  <2>1. k - m \in 1..Len(line)
    BY <1>2, <1>3
  <2>2. /\ k - m - 1 \in 0..(z - m - 1) /\ (k - m - 1) + 1 = k - m
        /\ m + 1 + (k - m - 1) = k
    BY <1>1, <1>2, <2>1
  <2>3. Stream[k - m] = Byte(Current, "data", k)
    BY <1>1, <2>2
  <2>4. Stream[k - m] = line[k - m]
    BY <2>1, StreamIs
  <2> QED
    BY <1>3, <2>3, <2>4 DEF Filled
<1>4. CASE k - m \notin DOMAIN line
  <2>1. k <= m
    BY <1>1, <1>2, <1>4
  <2>2. mRxBuffer[k] = Byte(Current, "data", k)
    BY <1>1, <2>1 DEF InOrder, Received
  <2> QED
    BY <1>4, <2>2 DEF Filled
<1> QED
  BY <1>3, <1>4

LEMMA AllRead ==
  ASSUME Types, Types', Linked, line' = <<>>, UNCHANGED <<lengths, wire>>
  PROVE  Linked' /\ Stream'[1] = Stream[Len(line) + 1]
<1>1. Len(line) \in 0..Len(line) /\ Len(line') = Len(line) - Len(line)
      /\ \A k \in 1..(Len(line) - Len(line)) : line'[k] = line[Len(line) + k]
  BY StreamIs
<1> QED
  BY <1>1, ChainRead

\* procPacket takes all that is left of the data, or some of it; or it takes bytes of
\* the next command too, and then the host has not waited.
LEMMA OrderOfData ==
  ASSUME Types, Types', InOrder, CommandsInOrder, ProcPacket
  PROVE  /\ ~Overrun' => InOrder'
         /\ CommandsInOrder'
         /\ Overrun' => Len(lengths) > Current
         /\ echoes' = echoes \/ Len(echoes') = Current
<1> DEFINE m == mNumByteIn
           z == mSzPacket
           L == Len(line)
           c == Current
<1>1. /\ mReadDataReady /\ z > 0 /\ line' = <<>> /\ mRxBuffer' = Filled
      /\ UNCHANGED <<lengths, types, wire, timedOut>>
  BY DEF ProcPacket, hostVars
<1>2. /\ c \in 1..Len(lengths) /\ z = lengths[c] /\ z \in Nat /\ m \in Nat /\ m < z
      /\ \A j \in 0..(z - m - 1) : Stream[j + 1] = Byte(c, "data", m + 1 + j)
      /\ Stream[z - m + 1] = Byte(c + 1, "code", 1)
  BY <1>1, RestOfData
<1>3. /\ L \in Nat \ {0} /\ Len(lengths) \in Nat /\ Len(echoes) \in Nat
      /\ mCommand_Code = Bytes(c, "code", 2)
  <2>1. line # <<>> /\ line \in Seq(SentBytes)
    BY DEF ProcPacket, Types
  <2> QED
    BY <1>1, <2>1, EmptySeq, StreamIs, CurrentType DEF InOrder, Received
<1>4. Linked' /\ Stream'[1] = Stream[L + 1]
  BY <1>1, AllRead DEF InOrder, Chained
<1>5. CASE m + L = z
  <2>1. Complete
    BY <1>5 DEF ProcPacket
  <2>2. L + 1 = z - m + 1
    BY <1>2, <1>3, <1>5
  <2>3. InOrder'
    BY <1>1, <1>2, <1>4, <2>1, <2>2, OrderOfComplete
  <2>4. ASSUME lengths[c] = EchoSize
        PROVE  mRxBuffer'[1] = Byte(c, "data", 1) /\ mRxBuffer'[2] = Byte(c, "data", 2)
    <3>1. m + L <= z /\ \A k \in {1, 2} : k \in 1..EchoSize /\ k <= m + L
      BY <1>2, <1>3, <1>5, <2>4 DEF EchoSize
    <3> QED
      BY <1>1, <3>1, BufferFilled
  <2>5. CommandsInOrder'
    BY <1>1, <2>1, <2>4, CommandsOfComplete
  <2>6. ~Overrun'
    BY <2>1 DEF Complete, ReadyFor, Overrun
  <2>7. Len(echoes') = c
    BY <2>1, AppendIsSequence DEF Complete, Types, Current
  <2> QED
    BY <2>3, <2>5, <2>6, <2>7
<1>6. CASE m + L # z
  <2>1. /\ mNumByteIn' = m + L /\ mSzPacket' = z /\ mReadDataReady' = TRUE
        /\ UNCHANGED <<flagVars, mCommand_Code, echoes>>
    BY <1>1, <1>6 DEF ProcPacket, Incomplete, flagVars
  <2>2. CommandsInOrder'
    BY <1>1, <1>3, <2>1, CommandsKept
  <2>3. ASSUME m + L < z
        PROVE  InOrder'
    <3>1. L \in 0..(z - m - 1) /\ m + 1 + L = (m + L) + 1
      BY <1>2, <1>3, <2>3
    <3>2. Stream'[1] = Byte(c, "data", (m + L) + 1)
      BY <1>2, <1>4, <3>1
    <3>3. ~mReadCommandReady' /\ ~(mSzPacket' < 0) /\ Current' = c
      BY <1>1, <1>2, <2>1 DEF Types, Current
    <3>4. Expected' = Byte(c, "data", (m + L) + 1)
      <4>1. (m + L) + 1 <= lengths'[c]
        BY <1>1, <1>2, <1>3, <2>3
      <4> QED
        BY <2>1, <3>3, <4>1 DEF Expected, Data
    <3>5. \A k \in 1..EchoSize : k <= m + L => mRxBuffer'[k] = Byte(c, "data", k)
      <4>1. m + L <= z
        BY <1>2, <1>3, <2>3
      <4> QED
        BY <1>1, <4>1, BufferFilled
    <3>6. Received'
      BY <1>1, <1>2, <1>3, <2>1, <2>3, <3>3, <3>5 DEF Received
    <3> QED
      BY <1>1, <1>4, <2>1, <3>2, <3>4, <3>6 DEF InOrder, Chained
  <2>4. ASSUME m + L > z
        PROVE  Overrun' /\ Len(lengths) > c
    <3>1. z - m + 1 \in 1..L
      BY <1>2, <1>3, <1>6, <2>4
    <3>2. Stream[z - m + 1] \in SentBytes
      <4>1. z - m + 1 \in 1..(Len(line) + Len(wire))
        BY <3>1, StreamIs
      <4> QED
        BY <4>1, StreamIs
    <3>3. c + 1 \in 1..Len(lengths)
      BY <1>2, <3>2 DEF SentBytes, Byte
    <3> QED
      BY <1>2, <1>3, <2>1, <2>4, <3>3 DEF Overrun
  <2>5. m + L < z \/ m + L > z
    BY <1>2, <1>3, <1>6
  <2>6. Overrun' => m + L > z
    BY <2>1 DEF Overrun
  <2> QED
    BY <2>1, <2>2, <2>3, <2>4, <2>5, <2>6
<1> QED
  BY <1>5, <1>6

LEMMA OrderOfNoData ==
  ASSUME Types, Types', InOrder, CommandsInOrder, ProcEmptyPacket
  PROVE  InOrder' /\ CommandsInOrder' /\ ~Overrun' /\ Len(echoes') = Current
<1> DEFINE c == Current
<1>1. /\ mReadDataReady /\ mSzPacket = 0 /\ Complete
      /\ UNCHANGED <<lengths, types, wire, line, timedOut>>
  BY DEF ProcEmptyPacket, hostVars
<1>2. ~mReadCommandReady /\ mNumByteIn = 0 /\ lengths[c] = 0
  BY <1>1 DEF Types, InOrder, Received
<1>3. Stream[1] = Byte(c + 1, "code", 1)
  BY <1>1, <1>2 DEF InOrder, Chained, Expected, Data
<1>4. Linked' /\ Stream' = Stream
  BY <1>1 DEF InOrder, Chained, Linked, Stream
<1>5. InOrder'
  BY <1>1, <1>3, <1>4, OrderOfComplete
<1>6. CommandsInOrder'
  BY <1>1, <1>2, CommandsOfComplete DEF EchoSize
<1>7. ~Overrun' /\ Len(echoes') = c
  BY <1>1, AppendIsSequence DEF Complete, ReadyFor, Overrun, Types, Current
<1> QED
  BY <1>5, <1>6, <1>7

----------------------------------------------------------------------------
(* The invariant is inductive.                                             *)

LEMMA InvInit == Init => Inv
<1> SUFFICES ASSUME Init PROVE Inv
  OBVIOUS
<1>1. Types
  BY TypesInit
<1>2. \A S : Len(<<>>) = 0 /\ <<>> \in Seq(S)
  BY EmptySeq
<1>3. Len(lengths) = 0 /\ Len(echoes) = 0 /\ Len(line) = 0 /\ Len(wire) = 0
  BY <1>2 DEF Init
<1>4. ~mReadDataReady /\ mReadCommandReady /\ ~timedOut
  BY DEF Init
<1>5. InOrder
  <2>1. Stream[0 + 0 + 1] = Byte(0 + 1, "code", 1)
    BY <1>1, <1>3, StreamIs
  <2>2. Expected = Byte(1, "code", 1)
    BY <1>3, <1>4 DEF Expected, Current
  <2>3. Linked
    BY <1>3 DEF Linked
  <2> QED
    BY <1>3, <1>4, <2>1, <2>2, <2>3 DEF InOrder, Chained, Received
<1>6. CommandsInOrder
  BY DEF Init, CommandsInOrder
<1> QED
  BY <1>1, <1>3, <1>4, <1>5, <1>6 DEF Inv, Overrun

\* Steps of the host and of the line, a report, and no step at all.
LEMMA OutsideStep ==
  ASSUME Inv, Types',
         \/ \E length \in Lengths, type \in VarTypes : HostSends(length, type)
         \/ Arrives \/ (\E ctype \in CTypes : Report(ctype)) \/ UNCHANGED vars
  PROVE  Inv'
<1>1. Types /\ Len(lengths) \in Nat /\ Len(echoes) \in Nat
  BY CurrentType DEF Inv
<1>2. UNCHANGED <<waits, flagVars, packetVars, echoes, timedOut>> /\ Overrun' = Overrun
  BY DEF HostSends, Arrives, Report, vars, hostVars, flagVars, packetVars, outVars, Overrun
<1>3. /\ Len(lengths') \in Nat /\ Len(lengths) <= Len(lengths')
      /\ \A c \in 1..Len(lengths) : lengths'[c] = lengths[c] /\ types'[c] = types[c]
      /\ waits => Len(lengths') - Len(echoes) \in {0, 1}
  <2>1. ASSUME NEW length \in Lengths, NEW type \in VarTypes, HostSends(length, type)
        PROVE  /\ Len(lengths') \in Nat /\ Len(lengths) <= Len(lengths')
               /\ \A c \in 1..Len(lengths) : lengths'[c] = lengths[c] /\ types'[c] = types[c]
               /\ waits => Len(lengths') - Len(echoes) \in {0, 1}
    <3>1. lengths' = Append(lengths, length) /\ types' = Append(types, type)
          /\ (waits => Len(echoes) = Len(lengths))
      BY <2>1 DEF HostSends
    <3>2. lengths \in Seq(Lengths) /\ types \in Seq(VarTypes) /\ Len(types) = Len(lengths)
      BY <1>1 DEF Types
    <3>3. /\ Len(lengths') = Len(lengths) + 1
          /\ \A c \in 1..Len(lengths) : lengths'[c] = lengths[c]
      BY <3>1, <3>2, AppendProperties
    <3>4. \A c \in 1..Len(lengths) : types'[c] = types[c]
      BY <3>1, <3>2, AppendProperties
    <3>5. Len(lengths') \in Nat /\ Len(lengths) <= Len(lengths')
      BY <1>1, <3>3
    <3>6. ASSUME waits PROVE Len(lengths') - Len(echoes) \in {0, 1}
      <4>1. Len(echoes) = Len(lengths)
        BY <3>1, <3>6
      <4>2. Len(lengths') - Len(echoes) = 1
        BY <1>1, <3>3, <4>1
      <4> QED
        BY <4>2
    <3> QED
      BY <3>3, <3>4, <3>5, <3>6
  <2>2. CASE UNCHANGED <<waits, lengths, types>>
    BY <1>1, <2>2 DEF Inv
  <2> QED
    BY <2>1, <2>2 DEF Arrives, Report, vars, hostVars
<1>4. CommandsInOrder'
  BY <1>1, <1>2, <1>3, CommandsKept DEF Inv
<1>5. ASSUME InOrder
      PROVE  InOrder'
  <2>1. Linked' /\ Stream'[1] = Stream[1]
    <3>1. CASE UNCHANGED <<lengths, line, wire>>
      BY <1>5, <3>1 DEF InOrder, Chained, Linked, Stream
    <3> QED
      BY <1>1, <1>5, <3>1, LinkedSent, LinkedArrived DEF InOrder, Chained, Report, vars, hostVars
  <2> QED
    BY <1>1, <1>2, <1>3, <1>5, <2>1, InOrderKept
<1> QED
  BY <1>2, <1>3, <1>4, <1>5 DEF Inv

\* A host that waits has at most one command under way.
LEMMA DeviceStep ==
  ASSUME Inv, Types', Device
  PROVE  Inv'
<1>1. /\ Types /\ Len(lengths) \in Nat /\ Len(echoes) \in Nat /\ Current = Len(echoes) + 1
      /\ UNCHANGED <<waits, lengths, types>> /\ (timedOut => timedOut')
  <2>1. UNCHANGED <<waits, lengths, types>>
    BY DEF Device, GetCommandCode, ReadPacketSize, ProcPacket, ProcEmptyPacket, hostVars
  <2>2. CASE ReadPacketSize
    BY <2>1, <2>2, CurrentType DEF ReadPacketSize, Inv, Current
  <2>3. CASE GetCommandCode \/ ProcPacket \/ ProcEmptyPacket
    BY <2>1, <2>3, CurrentType DEF GetCommandCode, ProcPacket, ProcEmptyPacket, Inv, Current
  <2> QED
    BY <2>2, <2>3 DEF Device
<1>2. CASE Overrun
  <2>1. Overrun' /\ echoes' = echoes /\ timedOut' = timedOut
    BY <1>1, <1>2, OverrunStep DEF Next
  <2>2. CommandsInOrder'
    BY <1>1, <2>1, CommandsKept DEF Inv
  <2> QED
    BY <1>1, <1>2, <2>1, <2>2 DEF Inv
<1>3. CASE timedOut
  BY <1>1, <1>3 DEF Inv, CommandsInOrder
<1>4. CASE ~Overrun /\ ~timedOut
  <2>1. InOrder /\ CommandsInOrder
    BY <1>4 DEF Inv
  <2>2. CASE GetCommandCode
    <3>1. echoes' = echoes /\ timedOut' = timedOut /\ mSzPacket' = -1
      BY <2>2 DEF GetCommandCode, outVars
    <3>2. CommandsInOrder' /\ InOrder' /\ ~Overrun'
      BY <1>1, <2>1, <2>2, <3>1, CommandsKept, OrderOfCode DEF Overrun
    <3> QED
      BY <1>1, <1>4, <3>1, <3>2 DEF Inv
  <2>3. CASE ReadPacketSize
    <3>1. echoes' = echoes /\ (waits => timedOut' = timedOut)
      BY <1>4, <2>3 DEF ReadPacketSize, outVars, Inv, Types
    <3>2. CommandsInOrder' /\ (~timedOut' => InOrder')
      BY <1>1, <2>1, <2>3, <3>1, CommandsKept, OrderOfSize
    <3>3. ~Overrun'
      <4>1. mNumByteIn' = 0
        BY <1>1, <2>3, LengthsType DEF ReadPacketSize, Types
      <4> QED
        BY <1>1, <4>1, LengthsType DEF Overrun, Types
    <3> QED
      BY <1>1, <1>4, <3>1, <3>2, <3>3 DEF Inv
  <2>4. CASE ProcPacket
    <3>1. timedOut' = timedOut
      BY <2>4 DEF ProcPacket
    <3>2. /\ CommandsInOrder' /\ (~Overrun' => InOrder')
          /\ Overrun' => Len(lengths) > Current
          /\ echoes' = echoes \/ Len(echoes') = Current
      BY <1>1, <2>1, <2>4, OrderOfData
    <3>3. waits => ~Overrun'
      BY <1>1, <3>2 DEF Inv
    <3>4. Current <= Len(lengths)
      BY <2>1, <2>4 DEF ProcPacket, InOrder, Received
    <3> QED
      BY <1>1, <1>4, <3>1, <3>2, <3>3, <3>4 DEF Inv
  <2>5. CASE ProcEmptyPacket
    <3>1. timedOut' = timedOut
      BY <2>5 DEF ProcEmptyPacket
    <3>2. InOrder' /\ CommandsInOrder' /\ ~Overrun' /\ Len(echoes') = Current
      BY <1>1, <2>1, <2>5, OrderOfNoData
    <3>3. Current <= Len(lengths)
      BY <2>1, <2>5 DEF ProcEmptyPacket, InOrder, Received
    <3> QED
      BY <1>1, <1>4, <3>1, <3>2, <3>3 DEF Inv
  <2> QED
    BY <2>2, <2>3, <2>4, <2>5 DEF Device
<1> QED
  BY <1>2, <1>3, <1>4

\* The invariant holds of every run of the host, the line and the device.
THEOREM Inductive == Spec => []Inv
<1>1. Inv /\ [Next]_vars => Inv'
  <2> SUFFICES ASSUME Inv, [Next]_vars PROVE Inv'
    OBVIOUS
  <2>1. Types'
    BY TypesStep DEF Inv
  <2> QED
    BY <2>1, OutsideStep, DeviceStep DEF Next
<1> QED
  BY <1>1, InvInit, PTL DEF Spec

\* The flags are never both set, the counters fit each other, and a host that waits
\* has one command under way at most.
THEOREM TypeCorrect == Spec => []TypeOK
<1>1. Inv => TypeOK
  <2> SUFFICES ASSUME Inv PROVE TypeOK
    OBVIOUS
  <2>1. mReadCommandReady => mNumByteIn = 0
    BY DEF Inv, Types
  <2> QED
    BY <2>1 DEF Inv, Types, TypeOK
<1> QED
  BY <1>1, Inductive, PTL

\* Commands are taken in order, each with its own code, size and value, unless a
\* time-out cut a size in two.
THEOREM OrderOfCommands == Spec => []CommandsInOrder
<1>1. Inv => CommandsInOrder
  BY DEF Inv
<1> QED
  BY <1>1, Inductive, PTL

\* procPacket that has read beyond a packet never completes one again.
THEOREM NoneAfterOverrun == Spec => OverrunIsFatal
<1>1. Inv /\ [Next]_vars => (Overrun => Overrun' /\ echoes' = echoes)
  BY OverrunStep DEF Inv
<1>2. Spec => [][Overrun => Overrun' /\ echoes' = echoes]_vars
  BY <1>1, Inductive, PTL DEF Spec
<1> QED
  BY <1>2 DEF OverrunIsFatal
=============================================================================
