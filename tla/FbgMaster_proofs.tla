-------------------------- MODULE FbgMaster_proofs --------------------------
(***************************************************************************)
(* What one thread's procPacket and another one's getPeaks do to the peaks *)
(* of a CInterrogator object, for every number of channels, gratings and   *)
(* datagrams: averages are of the channel's own peaks, what getPeaks       *)
(* copies is regular, and no channel's average goes back.  Then the        *)
(* program of main.cpp: its one thread is one way for the two methods to   *)
(* interleave, in which what is printed is the last datagram as it is; and *)
(* it reads from its own sockets.                                          *)
(***************************************************************************)
EXTENDS FbgMaster, NaturalsInduction, WellFoundedInduction, TLAPS

----------------------------------------------------------------------------
(* Peaks, the running sum of the counts.  A statement about every channel  *)
(* is proved from the least channel it could be false of.                  *)

\* Every set of natural numbers with a member has a least one.
LEMMA LeastMember ==
  ASSUME NEW S, S \subseteq Nat, S # {}
  PROVE  \E n \in S : \A m \in S : n <= m
<1>1. PICK n \in S : \A m \in S : ~(<<m, n>> \in OpToRel(<, Nat))
  BY NatLessThanWellFounded, WFMin
<1>2. \A m \in S : ~(m < n)
  BY <1>1 DEF OpToRel
<1>3. \A m \in S : m \in Nat
  OBVIOUS
<1> QED
  BY <1>2, <1>3

\* The sums up to channel n, as a function f that is defined by its own values.
IsSum(f, num, n) == f = [i \in 0..n |-> IF i = 0 THEN 0 ELSE f[i - 1] + Turns(num[i])]

LEMMA SumExists ==
  ASSUME NEW num
  PROVE  \A n \in Nat : \E f : IsSum(f, num, n)
<1> DEFINE S == {n \in Nat : ~ \E f : IsSum(f, num, n)}
<1> SUFFICES ASSUME S # {} PROVE FALSE
  OBVIOUS
<1>1. PICK n \in S : \A m \in S : n <= m
  BY LeastMember
<1>2. n \in Nat /\ ~ \E f : IsSum(f, num, n)
  BY <1>1
<1>3. n # 0
  <2>1. IsSum([i \in 0..0 |-> 0], num, 0)
    BY DEF IsSum
  <2> QED
    BY <1>2, <2>1
<1>4. PICK g : IsSum(g, num, n - 1)
  <2>1. n - 1 \in Nat /\ ~(n <= n - 1)
    BY <1>2, <1>3
  <2>2. n - 1 \notin S
    BY <1>1, <2>1
  <2> QED
    BY <2>1, <2>2
<1> DEFINE f == [i \in 0..n |-> IF i = n THEN g[n - 1] + Turns(num[n]) ELSE g[i]]
<1>5. \A i \in 0..n : f[i] = IF i = 0 THEN 0 ELSE f[i - 1] + Turns(num[i])
  <2> TAKE i \in 0..n
  <2>1. CASE i = n
    BY <1>2, <1>3, <2>1
  <2>2. CASE i # n
    <3>1. i \in 0..(n - 1) /\ f[i] = g[i]
      BY <1>2, <2>2
    <3>2. g[i] = IF i = 0 THEN 0 ELSE g[i - 1] + Turns(num[i])
      BY <1>4, <3>1 DEF IsSum
    <3>3. i # 0 => f[i - 1] = g[i - 1]
      BY <1>2, <3>1
    <3> QED
      BY <3>1, <3>2, <3>3
  <2> QED
    BY <2>1, <2>2
<1>6. IsSum(f, num, n)
  <2>1. f = [i \in 0..n |-> f[i]]
    OBVIOUS
  <2> HIDE DEF f
  <2> QED
    BY <1>5, <2>1 DEF IsSum
<1> QED
  BY <1>2, <1>6

\* So the recursive function is what its definition says.
LEMMA PeaksRecursion ==
  ASSUME NEW num
  PROVE  /\ Peaks(num)[0] = 0
         /\ \A i \in Channels : Peaks(num)[i] = Peaks(num)[i - 1] + Turns(num[i])
<1>1. \E f : f = [i \in 0..PEAK_CH |-> IF i = 0 THEN 0 ELSE f[i - 1] + Turns(num[i])]
  BY SumExists, PeakAssumption DEF IsSum
<1>2. Peaks(num) = [i \in 0..PEAK_CH |-> IF i = 0 THEN 0 ELSE Peaks(num)[i - 1] + Turns(num[i])]
  BY <1>1, Zenon DEF Peaks
<1>3. 0 \in 0..PEAK_CH /\ \A i \in Channels : i \in 0..PEAK_CH /\ i # 0
  BY PeakAssumption DEF Channels
<1> QED
  BY <1>2, <1>3

LEMMA PeaksType ==
  ASSUME NEW num \in [Channels -> Int]
  PROVE  \A i \in 0..PEAK_CH : Peaks(num)[i] \in Nat
<1> DEFINE S == {i \in 0..PEAK_CH : Peaks(num)[i] \notin Nat}
<1> SUFFICES ASSUME S # {} PROVE FALSE
  OBVIOUS
<1>0. S \subseteq Nat
  BY PeakAssumption
<1>1. PICK n \in S : \A m \in S : n <= m
  BY <1>0, LeastMember
<1>2. n # 0
  BY PeaksRecursion
<1>3. n \in Channels /\ n - 1 \in 0..PEAK_CH /\ ~(n <= n - 1)
  BY <1>1, <1>2, PeakAssumption DEF Channels
<1>4. Peaks(num)[n - 1] \in Nat /\ Turns(num[n]) \in Nat
  BY <1>1, <1>3 DEF Turns
<1>5. Peaks(num)[n] = Peaks(num)[n - 1] + Turns(num[n])
  BY <1>3, PeaksRecursion
<1> QED
  BY <1>1, <1>4, <1>5

----------------------------------------------------------------------------
(* The inductive invariant.                                                *)

IsRecord(r) == r = [stamp |-> r.stamp, num |-> r.num, avg |-> r.avg]

OnChannels(f) == f = [i \in Channels |-> f[i]]

\* What the variables hold; a time stamp is absolute until the first one has
\* been subtracted.
Types ==
  /\ datagrams \in Nat /\ (decoding # "idle" => datagrams > 0)
  /\ timeStamp = [of |-> datagrams, absolute |-> (decoding = "relative")]
  /\ numPeaks \in [Channels -> Int] /\ carried \in 0..RecvPeaks
  /\ OnChannels(avgPeak)
  /\ decoding \in {"idle", "relative", "numPeaks", "waveLength", "average"}
  /\ decoding = "average" => channel \in Channels
  /\ copying \in {"idle", "numPeaks", "average"}
  /\ IsRecord(snapshot) /\ OnChannels(snapshot.avg)
  /\ copied \in 0..PEAK_CH /\ (copying = "average" => copied # PEAK_CH)
  /\ since \in Nat

\* procPacket at the channel it is about to average: the loop has passed the slots
\* of the channels before it, and these have their averages.
Averaged(i) == decoding = "average" => i < channel

OwnAverages ==
  /\ decoding = "average" =>
       /\ cntPeak = Peaks(numPeaks)[channel - 1]
       /\ waveLength = [k \in Slots |-> Received(k)]
  /\ (decoding \in {"idle", "average"} /\ datagrams > 0) =>
       \A i \in Channels :
         (Averaged(i) /\ numPeaks[i] > 0 /\ Peaks(numPeaks)[i] <= carried) =>
           avgPeak[i] = OwnAverage(i, datagrams)

\* getPeaks: as long as nothing has been decoded since it began, what has been
\* copied is what is there.
StampCopied == copying # "idle" \/ copied = PEAK_CH
NumCopied == copying = "average" \/ (copying = "idle" /\ copied = PEAK_CH)

Regular ==
  /\ since <= datagrams /\ (since = datagrams => decoding = "idle")
  /\ StampCopied => snapshot.stamp.of \in since..datagrams
  /\ since = datagrams =>
       /\ StampCopied => snapshot.stamp = timeStamp
       /\ NumCopied => /\ snapshot.num = numPeaks
                       /\ \A i \in 1..copied : snapshot.avg[i] = avgPeak[i]

\* No average of avg is of a datagram after one of that of newer.
NotAfter(avg, newer) == \A d \in Origins(avg), e \in Origins(newer) : d <= e

\* The averages of the object, and those the caller has, are each of one datagram,
\* and what the caller has is not ahead of the object.
Ordered ==
  /\ decoding = "average" => \A k \in Slots : waveLength[k] \in {Zero, Stray, datagrams}
  /\ \A i \in Channels :
       /\ Origins(avgPeak[i]) \subseteq 1..datagrams
       /\ Origins(snapshot.avg[i]) \subseteq 1..datagrams
       /\ NotAfter(avgPeak[i], avgPeak[i])
       /\ NotAfter(snapshot.avg[i], snapshot.avg[i])
       /\ NotAfter(snapshot.avg[i], avgPeak[i])
       /\ snapshot.avg[i] # NoAverage => avgPeak[i] # NoAverage

PeakInv == Types /\ OwnAverages /\ Regular /\ Ordered

----------------------------------------------------------------------------
(* The initial state, and steps that change nothing.                       *)

LEMMA PeakInvInit == PeakInit => PeakInv
<1> SUFFICES ASSUME PeakInit PROVE PeakInv
  OBVIOUS
<1>1. Types
  <2>1. /\ numPeaks \in [Channels -> Int] /\ OnChannels(avgPeak)
        /\ snapshot.avg = avgPeak /\ IsRecord(snapshot)
    BY DEF PeakInit, Stray, OnChannels, IsRecord
  <2>2. /\ copied \in 0..PEAK_CH /\ since \in Nat /\ datagrams \in Nat
        /\ carried \in 0..RecvPeaks
    BY PeakAssumption DEF PeakInit
  <2>3. timeStamp = [of |-> datagrams, absolute |-> (decoding = "relative")]
    BY DEF PeakInit
  <2> QED
    BY <2>1, <2>2, <2>3 DEF PeakInit, Types
<1>2. OwnAverages
  BY DEF PeakInit, OwnAverages
<1>3. Regular
  <2>1. copied # PEAK_CH /\ datagrams = 0 /\ since = 0 /\ decoding = "idle" /\ copying = "idle"
    BY PeakAssumption DEF PeakInit
  <2> QED
    BY <2>1 DEF Regular, StampCopied, NumCopied
<1>4. Ordered
  <2>1. Origins(NoAverage) = {}
    BY DEF Origins, NoAverage
  <2>2. \A i \in Channels : avgPeak[i] = NoAverage /\ snapshot.avg[i] = NoAverage
    BY DEF PeakInit
  <2>3. decoding # "average"
    BY DEF PeakInit
  <2> QED
    BY <2>1, <2>2, <2>3 DEF Ordered, NotAfter
<1> QED
  BY <1>1, <1>2, <1>3, <1>4 DEF PeakInv

LEMMA InvKept == PeakInv /\ UNCHANGED peakVars => PeakInv'
<1> SUFFICES ASSUME PeakInv, UNCHANGED peakVars PROVE PeakInv'
  OBVIOUS
<1> USE DEF peakVars, decodeVars, memberVars, copyVars
<1>1. Types'
  BY DEF PeakInv, Types, OnChannels, IsRecord
<1>2. OwnAverages'
  <2>1. OwnAverages
    BY DEF PeakInv
  <2> QED
    BY <2>1 DEF OwnAverages, Averaged, OwnAverage, Received
<1>3. Regular'
  BY DEF PeakInv, Regular, StampCopied, NumCopied
<1>4. Ordered'
  BY DEF PeakInv, Ordered, NotAfter
<1> QED
  BY <1>1, <1>2, <1>3, <1>4 DEF PeakInv

----------------------------------------------------------------------------
(* procPacket.                                                             *)

LEMMA TypesDecoded ==
  ASSUME Types, DecodeStamp \/ Decode, UNCHANGED copyVars
  PROVE  Types'
<1>0. datagrams \in Nat
  BY DEF Types
<1>1. CASE DecodeStamp
  <2>1. timeStamp' = [of |-> datagrams', absolute |-> (decoding' = "relative")]
    BY <1>1 DEF DecodeStamp
  <2>2. datagrams' \in Nat /\ datagrams' > 0
    BY <1>0, <1>1 DEF DecodeStamp
  <2> QED
    BY <1>1, <2>1, <2>2 DEF Types, DecodeStamp, copyVars, OnChannels, IsRecord
<1>2. CASE SubtractFirst
  BY <1>2 DEF Types, SubtractFirst, copyVars, OnChannels, IsRecord
<1>3. CASE CopyNumPeaks
  <2>1. numPeaks' \in [Channels -> Int]
    BY <1>3, PeakAssumption DEF CopyNumPeaks
  <2> QED
    BY <1>3, <2>1 DEF Types, CopyNumPeaks, copyVars, OnChannels, IsRecord
<1>4. CASE CopyWaveLength
  <2>1. channel' \in Channels
    BY <1>4, PeakAssumption DEF CopyWaveLength, Channels
  <2> QED
    BY <1>4, <2>1 DEF Types, CopyWaveLength, copyVars, OnChannels, IsRecord
<1>5. ASSUME NEW i \in Channels, Average(i)
      PROVE  Types'
  <2>1. PICK avg : AverageTo(i, avg)
    BY <1>5 DEF Average
  <2>2. decoding' = "average" => channel' \in Channels
    BY <2>1, PeakAssumption DEF AverageTo, Channels
  <2>3. OnChannels(avgPeak')
    BY <2>1 DEF AverageTo, Types, OnChannels
  <2> QED
    BY <2>1, <2>2, <2>3 DEF Types, AverageTo, copyVars, OnChannels, IsRecord
<1> QED
  BY <1>1, <1>2, <1>3, <1>4, <1>5 DEF Decode

\* The averages before the one that is computed stay, and this one is over the
\* slots of its own channel.
LEMMA OwnAveraged ==
  ASSUME Types, OwnAverages, NEW i \in Channels, Average(i)
  PROVE  OwnAverages'
<1>1. PICK avg :
        /\ AverageTo(i, avg)
        /\ avg = Summed(i) \/ {Summed(i)[k] : k \in DOMAIN Summed(i)} \subseteq {Zero, Stray}
  BY DEF Average
<1>2. decoding = "average" /\ channel = i /\ channel' = i + 1
  BY <1>1 DEF AverageTo
<1>3. /\ UNCHANGED <<datagrams, numPeaks, waveLength, carried>>
      /\ avgPeak' = [avgPeak EXCEPT ![i] = avg]
      /\ decoding' = IF i = PEAK_CH THEN "idle" ELSE "average"
  BY <1>1 DEF AverageTo
<1>4. cntPeak' = cntPeak + Turns(numPeaks[i])
  BY DEF Average
<1>5. cntPeak = Peaks(numPeaks)[i - 1] /\ waveLength = [k \in Slots |-> Received(k)]
  BY <1>2 DEF OwnAverages
<1>6. /\ numPeaks \in [Channels -> Int] /\ i \in 1..PEAK_CH /\ carried \in 0..RecvPeaks
      /\ datagrams \in Nat /\ datagrams > 0
  BY <1>2 DEF Types, Channels
<1>7. cntPeak' = Peaks(numPeaks)[i]
  BY <1>4, <1>5, PeaksRecursion
<1>8. [k \in Slots |-> Received(k)]' = [k \in Slots |-> Received(k)]
  BY <1>3 DEF Received
<1>9. ASSUME numPeaks[i] > 0, Peaks(numPeaks)[i] <= carried
      PROVE  avg = OwnAverage(i, datagrams)
  <2> DEFINE n == numPeaks[i]
             before == Peaks(numPeaks)[i - 1]
  <2>1. n \in Nat /\ before \in Nat
    BY <1>6, <1>9, PeaksType, PeakAssumption
  <2>2. before + n <= carried
    BY <1>6, <1>9, PeaksRecursion DEF Turns
  <2>3. ASSUME NEW k \in before + 1 .. before + n
        PROVE  Summed(i)[k] = datagrams
    <3>1. k \in Int /\ 1 <= k /\ k <= carried /\ k <= RecvPeaks
      BY <1>6, <2>1, <2>2, PeakAssumption
    <3>2. RecvPeaks \in Int /\ PEAK_CH * NUM_GRATING \in Int /\ RecvPeaks <= PEAK_CH * NUM_GRATING
      BY PeakAssumption
    <3>3. k \in Slots
      BY <3>1, <3>2 DEF Slots
    <3>4. Received(k) = datagrams
      BY <3>1, <3>2 DEF Received
    <3> QED
      BY <1>5, <3>3, <3>4 DEF Summed
  <2>4. Summed(i) = OwnAverage(i, datagrams)
    <3>1. before + 1 .. before + n = (before + 1) .. ((before + 1) + n - 1)
      BY <2>1
    <3>2. Summed(i) = [k \in before + 1 .. before + n |-> Summed(i)[k]]
      BY <1>5 DEF Summed
    <3>3. Summed(i) = [k \in before + 1 .. before + n |-> datagrams]
      BY <2>3, <3>2
    <3> QED
      BY <3>1, <3>3 DEF OwnAverage
  <2>5. ~({Summed(i)[k] : k \in DOMAIN Summed(i)} \subseteq {Zero, Stray})
    <3>1. before + 1 \in before + 1 .. before + n
      BY <1>9, <2>1
    <3>2. before + 1 \in DOMAIN Summed(i)
      BY <1>5, <3>1 DEF Summed
    <3>3. Summed(i)[before + 1] = datagrams
      BY <2>3, <3>1
    <3> QED
      BY <1>6, <3>2, <3>3 DEF Zero, Stray
  <2> QED
    BY <1>1, <2>4, <2>5
<1>10. ASSUME NEW j \in Channels, Averaged(j)', numPeaks[j] > 0,
              Peaks(numPeaks)[j] <= carried
       PROVE  avgPeak'[j] = OwnAverage(j, datagrams)
  <2>0. OnChannels(avgPeak)
    BY DEF Types
  <2>1. CASE j = i
    BY <1>3, <1>9, <1>10, <2>0, <2>1 DEF OnChannels
  <2>2. CASE j # i
    <3>1. j \in 1..PEAK_CH /\ (i # PEAK_CH => j < i + 1)
      BY <1>2, <1>3, <1>10 DEF Averaged, Channels
    <3>2. j < i
      BY <1>6, <2>2, <3>1
    <3>3. avgPeak[j] = OwnAverage(j, datagrams)
      BY <1>2, <1>6, <1>10, <3>2 DEF OwnAverages, Averaged
    <3> QED
      BY <1>3, <2>0, <2>2, <3>3 DEF OnChannels
  <2> QED
    BY <2>1, <2>2
<1>11. \A j \in Channels : OwnAverage(j, datagrams)' = OwnAverage(j, datagrams)
  BY <1>3 DEF OwnAverage
<1>12. Peaks(numPeaks)' = Peaks(numPeaks)
  BY <1>3
<1> QED
  BY <1>2, <1>3, <1>5, <1>6, <1>7, <1>8, <1>10, <1>11, <1>12 DEF OwnAverages

LEMMA OwnDecoded ==
  ASSUME Types, OwnAverages, DecodeStamp \/ Decode
  PROVE  OwnAverages'
<1>1. CASE DecodeStamp \/ SubtractFirst \/ CopyNumPeaks
  BY <1>1 DEF OwnAverages, DecodeStamp, SubtractFirst, CopyNumPeaks
<1>2. CASE CopyWaveLength
  <2>1. UNCHANGED <<datagrams, numPeaks, carried>> /\ decoding' = "average" /\ channel' = 1
        /\ cntPeak' = 0 /\ waveLength' = [k \in Slots |-> Received(k)]
    BY <1>2 DEF CopyWaveLength
  <2>2. [k \in Slots |-> Received(k)]' = [k \in Slots |-> Received(k)]
    BY <2>1 DEF Received
  <2>3. Peaks(numPeaks)[0] = 0
    BY PeaksRecursion
  <2>4. ~ \E i \in Channels : i < 1
    BY PeakAssumption DEF Channels
  <2> QED
    BY <2>1, <2>2, <2>3, <2>4 DEF OwnAverages, Averaged
<1>3. CASE \E i \in Channels : Average(i)
  BY <1>3, OwnAveraged
<1> QED
  BY <1>1, <1>2, <1>3 DEF Decode

\* While a datagram is decoded a copy that has begun before it is no longer of the
\* last one.
LEMMA RegularDecoded ==
  ASSUME Types, Regular, DecodeStamp \/ Decode, UNCHANGED copyVars
  PROVE  Regular'
<1>1. since' < datagrams'
  <2>1. CASE DecodeStamp
    BY <2>1 DEF DecodeStamp, Types, Regular, copyVars
  <2>2. CASE Decode
    BY <2>2
    DEF Decode, SubtractFirst, CopyNumPeaks, CopyWaveLength, Average, AverageTo, Types, Regular,
        copyVars
  <2> QED
    BY <2>1, <2>2
<1>2. datagrams' >= datagrams /\ datagrams' \in Nat
  BY DEF DecodeStamp, Decode, SubtractFirst, CopyNumPeaks, CopyWaveLength, Average, AverageTo,
         Types
<1>3. StampCopied' => snapshot'.stamp.of \in since'..datagrams'
  <2>1. UNCHANGED <<snapshot, since, StampCopied>>
    BY DEF copyVars, StampCopied
  <2>2. datagrams \in Nat /\ since \in Nat
    BY DEF Types
  <2> QED
    BY <1>2, <2>1, <2>2 DEF Regular
<1>4. since' \in Nat
  BY DEF Types, copyVars
<1> QED
  BY <1>1, <1>2, <1>3, <1>4 DEF Regular

\* The inner loop sums up what the datagram brought, and what was not in it.
LEMMA SummedOrigins ==
  ASSUME Types, Ordered, decoding = "average", NEW i \in Channels
  PROVE  Origins(Summed(i)) \subseteq {datagrams}
<1>1. \A k \in DOMAIN Summed(i) : Summed(i)[k] \in {Zero, Stray, datagrams}
  BY DEF Ordered, Summed
<1> QED
  BY <1>1 DEF Origins

LEMMA OrderedDecoded ==
  ASSUME Types, Ordered, DecodeStamp \/ Decode, UNCHANGED copyVars
  PROVE  Ordered'
<1>0. snapshot' = snapshot
  BY DEF copyVars
<1>1. CASE DecodeStamp \/ SubtractFirst \/ CopyNumPeaks \/ CopyWaveLength
  <2>1. avgPeak' = avgPeak
    BY <1>1 DEF DecodeStamp, SubtractFirst, CopyNumPeaks, CopyWaveLength
  <2>2. datagrams \in Nat /\ datagrams' \in Nat /\ datagrams <= datagrams'
    BY <1>1 DEF DecodeStamp, SubtractFirst, CopyNumPeaks, CopyWaveLength, Types
  <2>3. 1..datagrams \subseteq 1..datagrams'
    BY <2>2
  <2>4. decoding' = "average" => \A k \in Slots : waveLength'[k] \in {Zero, Stray, datagrams'}
    BY <1>1 DEF DecodeStamp, SubtractFirst, CopyNumPeaks, CopyWaveLength, Received
  <2> QED
    BY <1>0, <2>1, <2>3, <2>4 DEF Ordered, NotAfter
<1>2. ASSUME NEW i \in Channels, Average(i)
      PROVE  Ordered'
  <2>1. PICK avg :
          /\ AverageTo(i, avg)
          /\ \/ avg = avgPeak[i]
             \/ /\ avg = Summed(i)
                /\ {Summed(i)[k] : k \in DOMAIN Summed(i)} \notin SUBSET {Zero}
    BY <1>2 DEF Average
  <2>2. /\ decoding = "average" /\ UNCHANGED <<datagrams, waveLength>>
        /\ avgPeak' = [avgPeak EXCEPT ![i] = avg]
    BY <2>1 DEF AverageTo
  <2>3. datagrams \in Nat /\ datagrams > 0 /\ OnChannels(avgPeak)
    BY <2>2 DEF Types
  <2>4. avg = avgPeak[i] \/ (Origins(avg) \subseteq {datagrams} /\ avg # NoAverage)
    <3>1. CASE avg = Summed(i) /\ {Summed(i)[k] : k \in DOMAIN Summed(i)} \notin SUBSET {Zero}
      <4>1. DOMAIN Summed(i) # {}
        BY <3>1
      <4>2. DOMAIN NoAverage = {}
        BY DEF NoAverage
      <4> QED
        BY <2>2, <3>1, <4>1, <4>2, SummedOrigins
    <3> QED
      BY <2>1, <3>1
  <2>5. /\ Origins(avg) \subseteq 1..datagrams
        /\ NotAfter(avg, avg)
        /\ NotAfter(snapshot.avg[i], avg)
        /\ snapshot.avg[i] # NoAverage => avg # NoAverage
    <3>1. CASE avg = avgPeak[i]
      BY <3>1 DEF Ordered
    <3>2. CASE Origins(avg) \subseteq {datagrams} /\ avg # NoAverage
      <4>1. \A e \in Origins(avg) : e = datagrams
        BY <3>2
      <4>2. \A d \in Origins(snapshot.avg[i]) : d \in 1..datagrams
        BY DEF Ordered
      <4> QED
        BY <2>3, <3>2, <4>1, <4>2 DEF NotAfter
    <3> QED
      BY <2>4, <3>1, <3>2
  <2>6. \A j \in Channels : avgPeak'[j] = IF j = i THEN avg ELSE avgPeak[j]
    BY <2>2, <2>3 DEF OnChannels
  <2>7. ASSUME NEW j \in Channels
        PROVE  /\ Origins(avgPeak'[j]) \subseteq 1..datagrams
               /\ Origins(snapshot.avg[j]) \subseteq 1..datagrams
               /\ NotAfter(avgPeak'[j], avgPeak'[j])
               /\ NotAfter(snapshot.avg[j], snapshot.avg[j])
               /\ NotAfter(snapshot.avg[j], avgPeak'[j])
               /\ snapshot.avg[j] # NoAverage => avgPeak'[j] # NoAverage
    BY <2>5, <2>6 DEF Ordered
  <2>8. \A k \in Slots : waveLength'[k] \in {Zero, Stray, datagrams'}
    BY <2>2 DEF Ordered
  <2> QED
    BY <1>0, <2>2, <2>7, <2>8 DEF Ordered, NotAfter
<1> QED
  BY <1>1, <1>2 DEF Decode

LEMMA InvDecoded ==
  ASSUME PeakInv, DecodeStamp \/ Decode, UNCHANGED copyVars
  PROVE  PeakInv'
BY TypesDecoded, OwnDecoded, RegularDecoded, OrderedDecoded DEF PeakInv

----------------------------------------------------------------------------
(* getPeaks.                                                               *)

LEMMA TypesCopied ==
  ASSUME Types, GetPeaks, UNCHANGED decodeVars
  PROVE  Types'
<1>0. UNCHANGED <<datagrams, timeStamp, numPeaks, avgPeak, carried, decoding, channel>>
  BY DEF decodeVars, memberVars
<1>1. CASE CopyStamp
  <2>1. since' \in Nat
    BY <1>1 DEF CopyStamp, Types
  <2>2. IsRecord(snapshot') /\ snapshot'.avg = snapshot.avg
    BY <1>1 DEF CopyStamp, Types, IsRecord
  <2> QED
    BY <1>0, <1>1, <2>1, <2>2 DEF Types, CopyStamp, OnChannels
<1>2. CASE CopyNum
  <2>1. IsRecord(snapshot') /\ snapshot'.avg = snapshot.avg
    BY <1>2 DEF CopyNum, Types, IsRecord
  <2>2. 0 \in 0..PEAK_CH /\ 0 # PEAK_CH
    BY PeakAssumption
  <2> QED
    BY <1>0, <1>2, <2>1, <2>2 DEF Types, CopyNum, OnChannels
<1>3. CASE CopyAverage
  <2>1. /\ copied' \in 0..PEAK_CH
        /\ copying' = IF copied' = PEAK_CH THEN "idle" ELSE "average"
    BY <1>3, PeakAssumption DEF CopyAverage, Types
  <2>2. IsRecord(snapshot')
        /\ snapshot'.avg = [snapshot.avg EXCEPT ![copied + 1] = avgPeak[copied + 1]]
    BY <1>3 DEF CopyAverage, Types, IsRecord
  <2>3. OnChannels(snapshot'.avg)
    BY <2>2 DEF Types, OnChannels
  <2>4. since' = since
    BY <1>3 DEF CopyAverage
  <2> QED
    BY <1>0, <2>1, <2>2, <2>3, <2>4 DEF Types
<1> QED
  BY <1>1, <1>2, <1>3 DEF GetPeaks

LEMMA RegularCopied ==
  ASSUME Types, Regular, GetPeaks, UNCHANGED decodeVars
  PROVE  Regular'
<1>0. /\ UNCHANGED <<datagrams, timeStamp, numPeaks, avgPeak, decoding>>
      /\ datagrams \in Nat /\ since \in Nat /\ timeStamp.of = datagrams
  BY DEF decodeVars, memberVars, Types
<1>1. CASE CopyStamp
  <2>1. copying' = "numPeaks" /\ snapshot'.stamp = timeStamp
        /\ since' = IF decoding = "idle" THEN datagrams ELSE datagrams - 1
    BY <1>1 DEF CopyStamp, Types, IsRecord
  <2>2. since' <= datagrams /\ (since' = datagrams => decoding = "idle") /\ since' \in Int
    BY <1>0, <2>1
  <2>3. timeStamp.of \in since'..datagrams
    BY <1>0, <2>2
  <2> QED
    BY <1>0, <2>1, <2>2, <2>3 DEF Regular, StampCopied, NumCopied
<1>2. CASE CopyNum
  <2>1. copying = "numPeaks" /\ copying' = "average" /\ copied' = 0 /\ since' = since
        /\ snapshot'.stamp = snapshot.stamp /\ snapshot'.num = numPeaks
    BY <1>2 DEF CopyNum, Types, IsRecord
  <2>2. 1..0 = {}
    OBVIOUS
  <2> QED
    BY <1>0, <2>1, <2>2 DEF Regular, StampCopied, NumCopied
<1>3. CASE CopyAverage
  <2>1. /\ copying = "average" /\ copied' = copied + 1 /\ since' = since
        /\ copying' = IF copied' = PEAK_CH THEN "idle" ELSE "average"
        /\ snapshot'.stamp = snapshot.stamp /\ snapshot'.num = snapshot.num
        /\ snapshot'.avg = [snapshot.avg EXCEPT ![copied + 1] = avgPeak[copied + 1]]
    BY <1>3 DEF CopyAverage, Types, IsRecord
  <2>2. copied \in 0..PEAK_CH /\ copied # PEAK_CH /\ OnChannels(snapshot.avg)
    BY <2>1 DEF Types
  <2>3. since = datagrams => \A i \in 1..copied' : snapshot'.avg[i] = avgPeak[i]
    <3>1. \A i \in 1..copied' : i \in Channels /\ (i = copied + 1 \/ i \in 1..copied)
      BY <2>1, <2>2, PeakAssumption DEF Channels
    <3>2. since = datagrams => \A i \in 1..copied : snapshot.avg[i] = avgPeak[i]
      BY <2>1 DEF Regular, NumCopied
    <3> QED
      BY <2>1, <2>2, <3>1, <3>2 DEF OnChannels
  <2>4. StampCopied /\ NumCopied
    BY <2>1 DEF StampCopied, NumCopied
  <2> QED
    BY <1>0, <2>1, <2>3, <2>4 DEF Regular
<1> QED
  BY <1>1, <1>2, <1>3 DEF GetPeaks

LEMMA OrderedCopied ==
  ASSUME Types, Ordered, GetPeaks, UNCHANGED decodeVars
  PROVE  Ordered'
<1>0. UNCHANGED <<datagrams, waveLength, avgPeak, decoding>>
  BY DEF decodeVars, memberVars
<1>1. \A i \in Channels : snapshot'.avg[i] \in {snapshot.avg[i], avgPeak[i]}
  BY DEF GetPeaks, CopyStamp, CopyNum, CopyAverage, Types, IsRecord, OnChannels
<1>2. ASSUME NEW i \in Channels
      PROVE  /\ Origins(avgPeak[i]) \subseteq 1..datagrams
             /\ Origins(snapshot'.avg[i]) \subseteq 1..datagrams
             /\ NotAfter(avgPeak[i], avgPeak[i])
             /\ NotAfter(snapshot'.avg[i], snapshot'.avg[i])
             /\ NotAfter(snapshot'.avg[i], avgPeak[i])
             /\ snapshot'.avg[i] # NoAverage => avgPeak[i] # NoAverage
  BY <1>1 DEF Ordered
<1> QED
  BY <1>0, <1>2 DEF Ordered, NotAfter

LEMMA InvCopied ==
  ASSUME PeakInv, GetPeaks, UNCHANGED decodeVars
  PROVE  PeakInv'
<1>1. OwnAverages'
  <2>1. /\ OwnAverages
        /\ UNCHANGED <<datagrams, numPeaks, waveLength, avgPeak, carried, decoding, channel,
                       cntPeak>>
    BY DEF PeakInv, decodeVars, memberVars
  <2> QED
    BY <2>1 DEF OwnAverages, Averaged, OwnAverage, Received
<1> QED
  BY <1>1, TypesCopied, RegularCopied, OrderedCopied DEF PeakInv

----------------------------------------------------------------------------
(* The theorems.                                                           *)

\* The invariant holds of every state of two threads that decode and copy.
THEOREM PeakInvariant == PeakSpec => []PeakInv
<1>1. PeakInv /\ [PeakNext]_peakVars => PeakInv'
  BY InvKept, InvDecoded, InvCopied DEF PeakNext
<1> QED
  BY <1>1, PeakInvInit, PTL DEF PeakSpec

\* procPacket: when a datagram is decoded every channel with peaks has the average
\* of its own, if the datagram carries them.
THEOREM AveragesRight == PeakSpec => []AverageIsOfOwnPeaks
<1>1. PeakInv => AverageIsOfOwnPeaks
  BY DEF PeakInv, OwnAverages, Averaged, AverageIsOfOwnPeaks
<1> QED
  BY <1>1, PeakInvariant, PTL

LEMMA RegularCopy == PeakInv => SnapshotIsRegular
<1>1. ASSUME PeakInv, copying = "idle", copied = PEAK_CH
      PROVE  /\ snapshot.stamp.of \in since..datagrams
             /\ (datagrams > 0 /\ since = datagrams /\ decoding = "idle") =>
                  /\ snapshot.stamp = [of |-> datagrams, absolute |-> FALSE]
                  /\ snapshot.num = numPeaks
                  /\ snapshot.avg = avgPeak
  <2>1. Types /\ Regular /\ StampCopied /\ NumCopied
    BY <1>1 DEF PeakInv, StampCopied, NumCopied
  <2>2. snapshot.stamp.of \in since..datagrams
    BY <2>1 DEF Regular
  <2>3. ASSUME since = datagrams, decoding = "idle"
        PROVE  /\ snapshot.stamp = [of |-> datagrams, absolute |-> FALSE]
               /\ snapshot.num = numPeaks
               /\ snapshot.avg = avgPeak
    <3>1. snapshot.stamp = timeStamp /\ snapshot.num = numPeaks
      BY <2>1, <2>3 DEF Regular
    <3>2. timeStamp = [of |-> datagrams, absolute |-> FALSE]
      BY <2>1, <2>3 DEF Types
    <3>3. \A i \in Channels : snapshot.avg[i] = avgPeak[i]
      BY <1>1, <2>1, <2>3 DEF Regular, Channels
    <3>4. snapshot.avg = avgPeak
      BY <2>1, <3>3 DEF Types, OnChannels
    <3> QED
      BY <3>1, <3>2, <3>4
  <2> QED
    BY <2>2, <2>3
<1> QED
  BY <1>1 DEF SnapshotIsRegular

\* getPeaks copies no stamp of a datagram that was replaced before it began, nor a
\* half decoded one if nothing was decoded meanwhile.
THEOREM SnapshotRight == PeakSpec => []SnapshotIsRegular
  BY RegularCopy, PeakInvariant, PTL

\* What a caller has of a channel neither vanishes nor gets older.
THEOREM NeverBack == PeakSpec => PeaksNeverGoBack
<1> DEFINE Forward ==
      \A i \in Channels :
        /\ snapshot.avg[i] # NoAverage => snapshot'.avg[i] # NoAverage
        /\ \A d \in Origins(snapshot.avg[i]), e \in Origins(snapshot'.avg[i]) : d <= e
<1>1. ASSUME PeakInv, PeakNext \/ UNCHANGED peakVars, NEW i \in Channels
      PROVE  snapshot'.avg[i] \in {snapshot.avg[i], avgPeak[i]}
  <2>1. CASE UNCHANGED copyVars
    BY <2>1 DEF copyVars
  <2>2. CASE GetPeaks
    BY <1>1, <2>2
    DEF PeakInv, GetPeaks, CopyStamp, CopyNum, CopyAverage, Types, IsRecord, OnChannels
  <2> QED
    BY <1>1, <2>1, <2>2 DEF PeakNext, peakVars
<1>2. PeakInv /\ [PeakNext]_peakVars => Forward
  BY <1>1 DEF PeakInv, Ordered, NotAfter
<1>3. PeakSpec => [][Forward]_peakVars
  BY <1>2, PeakInvariant, PTL DEF PeakSpec
<1> QED
  BY <1>3 DEF PeaksNeverGoBack

----------------------------------------------------------------------------
(* The program of main.cpp: its peaks.                                     *)

\* One method runs at a time, and a copy that has begun is of the last datagram.
InTurn ==
  /\ at # "decode" => decoding = "idle"
  /\ at # "copy" => copying = "idle"
  /\ copying # "idle" => since = datagrams
  /\ at = "print" => since = datagrams /\ copied = PEAK_CH

\* Each step of the program is one of procPacket or of getPeaks, or of neither.
LEMMA StepOfPeaks == [Next]_vars => [PeakNext]_peakVars
BY DEF Next, Main, Surroundings, Ended, Start, ConnectDone, EnableDone, ReadFailed, ReadOk,
       DecodeRead, CopyPeaks, PrintPeaks, Begin, PeakNext, vars

LEMMA InTurnStep ==
  ASSUME PeakInv, InTurn, [Next]_vars
  PROVE  InTurn'
<1>1. Types
  BY DEF PeakInv
<1>2. CASE \/ Start \/ ConnectDone \/ EnableDone \/ ReadFailed \/ PrintPeaks
           \/ UNCHANGED <<at, peakVars>>
  <2>1. UNCHANGED <<decoding, copying, since, datagrams, copied>>
    BY <1>2
    DEF Start, ConnectDone, EnableDone, ReadFailed, PrintPeaks, Begin, peakVars, decodeVars,
        memberVars, copyVars
  <2>2. /\ at' = "print" => at = "print"
        /\ at' = "decode" <=> at = "decode"
        /\ at = "copy" => at' = "copy"
    BY <1>2 DEF Start, ConnectDone, EnableDone, ReadFailed, PrintPeaks, Begin
  <2> QED
    BY <2>1, <2>2 DEF InTurn
<1>3. CASE ReadOk
  BY <1>3 DEF ReadOk, InTurn, copyVars
<1>4. CASE DecodeRead
  BY <1>4 DEF DecodeRead, InTurn, copyVars
<1>5. CASE CopyPeaks
  BY <1>1, <1>5
  DEF CopyPeaks, InTurn, decodeVars, memberVars, GetPeaks, CopyStamp, CopyNum, CopyAverage, Types
<1> QED
  BY <1>2, <1>3, <1>4, <1>5
  DEF Next, Main, Surroundings, Ended, vars

\* The program is one of the ways in which the two methods may be called.
THEOREM ImplementsPeaks == Spec => PeakSpec
<1>1. Init => PeakInit
  BY DEF Init
<1> QED
  BY <1>1, StepOfPeaks, PTL DEF Spec, PeakSpec

THEOREM InTurnAlways == Spec => [](PeakInv /\ InTurn)
<1>1. Init => InTurn
  BY DEF Init, PeakInit, InTurn
<1>2. PeakInv /\ InTurn /\ [Next]_vars => InTurn'
  BY InTurnStep
<1> QED
  BY <1>1, <1>2, ImplementsPeaks, PeakInvariant, PTL DEF Spec

\* main prints the datagram decoded last, whole, once there is one.
THEOREM LastIsPrinted == Spec => []PrintsLastDecoded
<1>1. PeakInv /\ InTurn => PrintsLastDecoded
  <2> SUFFICES ASSUME PeakInv, InTurn, at = "print", datagrams > 0
               PROVE  /\ snapshot.stamp = [of |-> datagrams, absolute |-> FALSE]
                      /\ snapshot.num = numPeaks
                      /\ snapshot.avg = avgPeak
    BY DEF PrintsLastDecoded
  <2>1. copying = "idle" /\ copied = PEAK_CH /\ since = datagrams /\ decoding = "idle"
    BY DEF InTurn
  <2> QED
    BY <2>1, RegularCopy DEF SnapshotIsRegular
<1> QED
  BY <1>1, InTurnAlways, PTL

----------------------------------------------------------------------------
(* The program of main.cpp: its sockets.                                   *)

\* The method under way is one that main has called at this place.
CallsInPlace ==
  /\ at \in {"start", "connect", "enable"} \/ InLoop
  /\ at = "start" => call = "idle"
  /\ at = "connect" => call \in ConnectSteps \cup {"ok", "failed"}
  /\ at = "enable" => call \in {"enable", "ok"}
  /\ at = "read" => call \in {"recv", "ok", "failed"}
  /\ at \in {"decode", "copy", "print"} => call \in {"ok", "idle"}

\* Both sockets are set up and named by the members.
Ready == Kind(udpSockfd) = "bound" /\ Kind(tcpSockfd) \in Connected

\* connectUDP has not created a socket yet.
Before == at = "start" \/ call = "udpSocket"

\* What each step of connectUDP finds set up, and where the program's sockets are:
\* there is none before, and no other than those the members name from then on.
SetUp ==
  /\ Before => \A f \in Fds : fdTable[f] \notin SocketKinds
  /\ call \in {"tcpSocket", "tcpConnect", "udpBind"} => Kind(udpSockfd) = "udp"
  /\ call = "tcpSocket" => \A f \in Fds : fdTable[f] \in SocketKinds => f = udpSockfd
  /\ call = "tcpConnect" => Kind(tcpSockfd) = "tcp"
  /\ call = "udpBind" => Kind(tcpSockfd) \in Connected
  /\ call = "setTimeout" \/ (at = "connect" /\ call = "ok") \/ at = "enable" \/ InLoop => Ready
  /\ ~Before /\ call # "tcpSocket" /\ ~(at = "connect" /\ call = "failed") =>
       \A f \in Fds : fdTable[f] \in SocketKinds => f \in {tcpSockfd, udpSockfd}

MainInv == InterrogatorTypeOK /\ CallsInPlace /\ SetUp

LEMMA MainInvInit == Init => MainInv
<1> SUFFICES ASSUME Init PROVE MainInv
  OBVIOUS
<1> USE DEF Init, InterrogatorInit
<1>1. InterrogatorTypeOK
  BY DescriptorAssumption DEF InterrogatorTypeOK, FdKinds, SocketKinds, Calls
<1>2. \A f \in Fds : fdTable[f] \notin SocketKinds
  BY DEF SocketKinds, Connected
<1>3. CallsInPlace
  BY DEF CallsInPlace
<1>4. SetUp
  BY <1>2 DEF SetUp, Before, InLoop
<1> QED
  BY <1>1, <1>3, <1>4 DEF MainInv

\* The steps of connectUDP.
ConnectStep ==
  \/ UdpSocketOk \/ UdpSocketFails \/ TcpSocketOk \/ TcpSocketFails
  \/ TcpConnectOk \/ TcpConnectFails \/ UdpBindOk \/ UdpBindFails
  \/ SetTimeoutOk \/ SetTimeoutFails

\* connectUDP sets up one socket after the other.
LEMMA ConnectMainInv ==
  ASSUME MainInv, ConnectStep, UNCHANGED at
  PROVE  MainInv'
<1> USE DescriptorAssumption
    DEF MainInv, InterrogatorTypeOK, Ready, Before, InLoop, Kind, Fds, SocketKinds, Connected,
        ConnectSteps
<1>0. at = "connect" /\ ~InLoop
  BY DEF CallsInPlace, ConnectStep, UdpSocketOk, UdpSocketFails, TcpSocketOk, TcpSocketFails,
         TcpConnectOk, TcpConnectFails, UdpBindOk, UdpBindFails, SetTimeoutOk, SetTimeoutFails
<1>1. CASE UdpSocketOk
  BY <1>0, <1>1 DEF UdpSocketOk, LowestFree, CallsInPlace, SetUp, FdKinds, Calls
<1>2. CASE UdpSocketFails \/ SetTimeoutFails
  BY <1>0, <1>2 DEF UdpSocketFails, SetTimeoutFails, CallsInPlace, SetUp, Calls
<1>3. CASE TcpSocketOk
  BY <1>0, <1>3 DEF TcpSocketOk, LowestFree, CallsInPlace, SetUp, FdKinds, Calls
<1>4. CASE TcpSocketFails
  BY <1>0, <1>4 DEF TcpSocketFails, Closing, CallsInPlace, SetUp, FdKinds, Calls
<1>5. CASE TcpConnectOk
  BY <1>0, <1>5 DEF TcpConnectOk, CallsInPlace, SetUp, FdKinds, Calls
<1>6. CASE TcpConnectFails \/ UdpBindFails
  BY <1>0, <1>6
  DEF TcpConnectFails, UdpBindFails, CloseBothAndFail, Closing, CallsInPlace, SetUp, FdKinds, Calls
<1>7. CASE UdpBindOk
  BY <1>0, <1>7 DEF UdpBindOk, CallsInPlace, SetUp, FdKinds, Calls
<1>8. CASE SetTimeoutOk
  BY <1>0, <1>8 DEF SetTimeoutOk, CallsInPlace, SetUp, Calls
<1> QED
  BY <1>1, <1>2, <1>3, <1>4, <1>5, <1>6, <1>7, <1>8 DEF ConnectStep

\* The other methods main calls leave the sockets alone.
LEMMA OtherMainInv ==
  ASSUME MainInv, MethodStep, ~ConnectStep, UNCHANGED at
  PROVE  MainInv'
<1>1. /\ at \in {"enable", "read"} /\ UNCHANGED <<fdTable, tcpSockfd, udpSockfd>>
      /\ call' \in {"ok", "failed"} /\ (at = "enable" => call' = "ok")
  BY DEF MainInv, CallsInPlace, InLoop, ConnectSteps, MethodStep, ConnectStep, EnablePeakDatagrams,
         RecvOk, RecvFails, SendDisable, CloseTcp, CloseUdp
<1>2. InterrogatorTypeOK'
  <2>1. EnablePeakDatagrams \/ RecvOk \/ RecvFails
    BY <1>1 DEF MainInv, CallsInPlace, MethodStep, ConnectStep, SendDisable, CloseTcp, CloseUdp
  <2>2. /\ streaming' \in {"off", "on", "rest"} /\ process' \in {"running", "killed", "exited"}
        /\ udpState' \in {0, 1, 2, 3, 4, 5, 255}
    <3>1. CASE EnablePeakDatagrams
      <4>1. process' \in {"running", "killed", "exited"} /\ udpState' \in {0, 1, 2, 3, 4, 5, 255}
        BY <3>1 DEF MainInv, InterrogatorTypeOK, EnablePeakDatagrams, WriteCommand
      <4>2. streaming' = "on" \/ streaming' = streaming
        BY <3>1 DEF EnablePeakDatagrams, WriteCommand
      <4> QED
        BY <4>1, <4>2 DEF MainInv, InterrogatorTypeOK
    <3>2. CASE RecvOk \/ RecvFails
      BY <3>2 DEF MainInv, InterrogatorTypeOK, RecvOk, RecvFails
    <3> QED
      BY <2>1, <3>1, <3>2
  <2> QED
    BY <1>1, <2>2 DEF MainInv, InterrogatorTypeOK, Calls
<1>3. CallsInPlace'
  BY <1>1 DEF CallsInPlace, InLoop
<1>4. ~Before /\ call # "tcpSocket" /\ ~(at = "connect" /\ call = "failed")
  BY <1>1 DEF MainInv, CallsInPlace, Before
<1>5. SetUp'
  BY <1>1, <1>4 DEF MainInv, SetUp, Before, InLoop, Ready, Kind
<1> QED
  BY <1>2, <1>3, <1>5 DEF MainInv

LEMMA SurroundingsMainInv ==
  ASSUME MainInv, PeerCloses \/ ProcessEnds, UNCHANGED at
  PROVE  MainInv'
<1>1. CASE PeerCloses
  <2>1. PICK f \in Fds : fdTable[f] = "conn" /\ fdTable' = [fdTable EXCEPT ![f] = "dead"]
    BY <1>1 DEF PeerCloses
  <2>2. /\ UNCHANGED <<tcpSockfd, udpSockfd, udpState, call, process>>
        /\ streaming' \in {streaming, "rest"}
    BY <1>1 DEF PeerCloses, Ebbed
  <2>3. \A g \in Fds : /\ fdTable'[g] = fdTable[g] \/ (fdTable[g] = "conn" /\ fdTable'[g] = "dead")
                       /\ fdTable'[g] \in FdKinds
    BY <2>1 DEF MainInv, InterrogatorTypeOK, FdKinds, SocketKinds, Connected
  <2>4. InterrogatorTypeOK'
    BY <2>1, <2>2 DEF MainInv, InterrogatorTypeOK, FdKinds, SocketKinds, Connected
  <2>5. CallsInPlace'
    BY <2>2 DEF MainInv, CallsInPlace, InLoop
  <2>6. SetUp'
    BY <2>2, <2>3 DEF MainInv, SetUp, Before, InLoop, Ready, Kind, SocketKinds, Connected
  <2> QED
    BY <2>4, <2>5, <2>6 DEF MainInv
<1>2. CASE ProcessEnds
  BY <1>2
  DEF ProcessEnds, MainInv, InterrogatorTypeOK, CallsInPlace, SetUp, Before, InLoop, Ready, Kind
<1> QED
  BY <1>1, <1>2

\* main goes on to the next method.
LEMMA MainMainInv ==
  ASSUME MainInv,
         \/ Start \/ ConnectDone \/ EnableDone \/ ReadFailed
         \/ ReadOk \/ DecodeRead \/ CopyPeaks \/ PrintPeaks
  PROVE  MainInv'
<1> USE DEF MainInv, InterrogatorTypeOK, ivars
<1>1. CASE Start
  BY <1>1 DEF Start, Begin, CallsInPlace, SetUp, Before, InLoop, Ready, Kind, Calls, ConnectSteps
<1>2. CASE ConnectDone
  BY <1>2 DEF ConnectDone, Begin, CallsInPlace, SetUp, Before, InLoop, Ready, Kind, Calls,
              ConnectSteps
<1>3. CASE EnableDone \/ ReadFailed \/ PrintPeaks
  BY <1>3 DEF EnableDone, ReadFailed, PrintPeaks, Begin, CallsInPlace, SetUp, Before, InLoop, Ready,
              Kind, Calls
<1>4. CASE ReadOk \/ DecodeRead \/ CopyPeaks
  BY <1>4 DEF ReadOk, DecodeRead, CopyPeaks, CallsInPlace, SetUp, Before, InLoop, Ready, Kind, Calls
<1> QED
  BY <1>1, <1>2, <1>3, <1>4

LEMMA MainInvStep == MainInv /\ [Next]_vars => MainInv'
<1> SUFFICES ASSUME MainInv, [Next]_vars PROVE MainInv'
  OBVIOUS
<1>1. CASE Ended \/ UNCHANGED vars
  BY <1>1 DEF Ended, vars, ivars, MainInv, InterrogatorTypeOK, CallsInPlace, SetUp, Before, InLoop,
              Ready, Kind
<1>2. CASE Main
  BY <1>2, ConnectMainInv, OtherMainInv, MainMainInv DEF Main
<1>3. CASE Surroundings
  BY <1>3, SurroundingsMainInv DEF Surroundings
<1> QED
  BY <1>1, <1>2, <1>3 DEF Next

\* The sockets of the program at every place of main.
THEOREM MainInvariant == Spec => []MainInv
  BY MainInvInit, MainInvStep, PTL DEF Spec

\* From the enable command on main has its two sockets, and no other.
THEOREM SocketsAreOwn == Spec => []OwnSockets
<1>1. MainInv => OwnSockets
  BY DEF MainInv, SetUp, CallsInPlace, Before, InLoop, Ready, OwnSockets
<1> QED
  BY <1>1, MainInvariant, PTL

\* main hears no more of an interrogator that has stopped sending, once it has
\* received what was still there.
THEOREM SilentForGood == Spec => NoDatagramOnceSilent
<1>1. ASSUME MainInv, [Next]_vars, Silent
      PROVE  Silent' /\ datagrams' = datagrams
  <2>0. InLoop /\ streaming = "off" /\ ~(at = "read" /\ call = "ok") /\ CallsInPlace
    BY <1>1 DEF Silent, MainInv
  <2>1. CASE MethodStep /\ UNCHANGED <<at, peakVars>>
    <3>1. at = "read" /\ call = "recv"
      BY <2>0, <2>1
      DEF CallsInPlace, InLoop, MethodStep, UdpSocketOk, UdpSocketFails, TcpSocketOk,
          TcpSocketFails, TcpConnectOk, TcpConnectFails, UdpBindOk, UdpBindFails, SetTimeoutOk,
          SetTimeoutFails, EnablePeakDatagrams, RecvOk, RecvFails, SendDisable, CloseTcp, CloseUdp
    <3>2. RecvFails
      BY <2>0, <2>1, <3>1
      DEF MethodStep, UdpSocketOk, UdpSocketFails, TcpSocketOk,
          TcpSocketFails, TcpConnectOk, TcpConnectFails, UdpBindOk, UdpBindFails, SetTimeoutOk,
          SetTimeoutFails, EnablePeakDatagrams, RecvOk, SendDisable, CloseTcp, CloseUdp
    <3> QED
      BY <2>0, <2>1, <3>2 DEF RecvFails, Silent, InLoop, peakVars, decodeVars, memberVars
  <2>2. CASE ReadFailed \/ DecodeRead \/ CopyPeaks \/ PrintPeaks
    BY <2>0, <2>2
    DEF ReadFailed, DecodeRead, CopyPeaks, PrintPeaks, Begin, Silent, InLoop, CallsInPlace, ivars,
        peakVars, decodeVars, memberVars, Decode, SubtractFirst, CopyNumPeaks, CopyWaveLength,
        Average, AverageTo
  <2>3. CASE Surroundings
    <3>1. UNCHANGED <<at, call, datagrams>>
      BY <2>3
      DEF Surroundings, PeerCloses, ProcessEnds, peakVars, decodeVars, memberVars
    <3>2. streaming' = streaming
      BY <2>0, <2>3 DEF Surroundings, PeerCloses, ProcessEnds, Ebbed
    <3> QED
      BY <2>0, <3>1, <3>2 DEF Silent, InLoop
  <2>4. CASE UNCHANGED vars
    BY <2>0, <2>4 DEF vars, ivars, peakVars, decodeVars, memberVars, Silent, InLoop
  <2>5. ~Start /\ ~ConnectDone /\ ~EnableDone /\ ~ReadOk
    BY <2>0 DEF Start, ConnectDone, EnableDone, ReadOk, InLoop
  <2> QED
    BY <1>1, <2>1, <2>2, <2>3, <2>4, <2>5 DEF Next, Main, Ended
<1>2. MainInv /\ [Next]_vars => (Silent => Silent' /\ datagrams' = datagrams)
  BY <1>1
<1>3. Spec => [][Silent => Silent' /\ datagrams' = datagrams]_vars
  BY <1>2, MainInvariant, PTL DEF Spec
<1> QED
  BY <1>3 DEF NoDatagramOnceSilent
=============================================================================
