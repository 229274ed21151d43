---------------------------- MODULE PeakDatagram ----------------------------
(***************************************************************************)
(* The peaks a CInterrogator object holds: procPacket decodes a datagram   *)
(* into its members, getPeaks copies them out.  In FT_FBG.cpp and in the   *)
(* Teensy firmware (where both methods are the same) one thread decodes    *)
(* what it has received while another copies every period, without a lock: *)
(* that is what PeakSpec describes.                                        *)
(*                                                                         *)
(* Datagrams are numbered as they are decoded.  A slot of waveLength holds *)
(* the number of the datagram its peak is from, Zero where recvBuff had    *)
(* its initial zeros, or Stray, a value from elsewhere in memory.  An      *)
(* average is the function from the slots summed to what they held, a time *)
(* stamp the number of the datagram it was decoded from (none for 0) and   *)
(* whether it still is an absolute time.  A datagram is as long as it      *)
(* likes: how many peaks it carries has nothing to do with how many it     *)
(* reports, and one that ends within its header is decoded as one with     *)
(* zeros there.  getPeaks' copy of waveLength is left out: no caller reads *)
(* it.                                                                     *)
(*                                                                         *)
(* Bound: MaxDatagrams.                                                    *)
(***************************************************************************)
EXTENDS Integers

CONSTANTS
  PEAK_CH,      \* channels (4 in the source)
  NUM_GRATING,  \* gratings a channel may have (5)
  RecvPeaks,    \* peaks that fit into recvBuff (18, of the 20 of waveLength)
  PeakCounts,   \* what numPeaks, shorts, may hold for a channel
  MaxDatagrams

ASSUME PeakAssumption ==
  /\ PEAK_CH \in Nat \ {0}
  /\ NUM_GRATING \in Nat
  /\ RecvPeaks \in 0..(PEAK_CH * NUM_GRATING)
  /\ PeakCounts \subseteq Int
  /\ MaxDatagrams \in Nat

Zero == 0
Stray == -1

Channels == 1..PEAK_CH
Slots == 1..(PEAK_CH * NUM_GRATING)

VARIABLES
  datagrams,   \* the number of the datagram decoded last, or being decoded
  timeStamp,   \* [of, absolute]
  numPeaks, waveLength, avgPeak,
  carried,     \* how many peaks the datagram decoded last carries
  decoding,    \* "idle", or what procPacket does next
  channel,     \* i and cntPeak of procPacket
  cntPeak,
  copying,     \* "idle", or what getPeaks does next
  snapshot,    \* the caller's variables it copies to
  copied,      \* how many averages it has copied
  since        \* history: datagrams decoded completely when copying began

memberVars == <<datagrams, timeStamp, numPeaks, waveLength, avgPeak>>
decodeVars == <<memberVars, carried, decoding, channel, cntPeak>>
copyVars == <<copying, snapshot, copied, since>>
peakVars == <<decodeVars, copyVars>>

NoPeaks == [i \in Channels |-> 0]
NoAverage == <<>>

\* Of the members only avgPeak has an initialiser: of no datagram, timeStamp,
\* numPeaks and waveLength hold what is in memory.  The caller has no copy yet.
PeakInit ==
  /\ datagrams = 0
  /\ timeStamp = [of |-> 0, absolute |-> FALSE]
  /\ numPeaks = [i \in Channels |-> Stray]
  /\ waveLength = [k \in Slots |-> Stray]
  /\ avgPeak = [i \in Channels |-> NoAverage]
  /\ carried = 0
  /\ decoding = "idle" /\ channel = 1 /\ cntPeak = 0
  /\ copying = "idle" /\ copied = 0 /\ since = 0
  /\ snapshot = [stamp |-> timeStamp, num |-> NoPeaks, avg |-> avgPeak]

\* How often the inner loop runs for a channel that reports n peaks.
Turns(n) == IF n > 0 THEN n ELSE 0

\* Peaks(num)[i]: the slots the loop passes for the channels up to i.
Peaks(num) ==
  LET upTo[i \in 0..PEAK_CH] == IF i = 0 THEN 0 ELSE upTo[i - 1] + Turns(num[i])
  IN upTo

----------------------------------------------------------------------------
\* procPacket: the time stamp, at first as it was sent ...
DecodeStamp ==
  /\ decoding = "idle"
  /\ datagrams < MaxDatagrams
  /\ datagrams' = datagrams + 1
  /\ timeStamp' = [of |-> datagrams', absolute |-> TRUE]
  /\ decoding' = "relative"
  /\ UNCHANGED <<numPeaks, waveLength, avgPeak, carried, channel, cntPeak>>

\* ... then relative to that of the first datagram.  (Mutant: it stays absolute.)
SubtractNothing ==
  /\ decoding = "relative"
  /\ decoding' = "numPeaks"
  /\ UNCHANGED <<datagrams, timeStamp, numPeaks, waveLength, avgPeak, carried, channel, cntPeak>>

SubtractFirst ==
  /\ decoding = "relative"
  /\ timeStamp' = [timeStamp EXCEPT !.absolute = FALSE]
  /\ decoding' = "numPeaks"
  /\ UNCHANGED <<datagrams, numPeaks, waveLength, avgPeak, carried, channel, cntPeak>>

CopyNumPeaks ==
  /\ decoding = "numPeaks"
  /\ numPeaks' \in [Channels -> PeakCounts]
  /\ carried' \in 0..RecvPeaks
  /\ decoding' = "waveLength"
  /\ UNCHANGED <<datagrams, timeStamp, waveLength, avgPeak, channel, cntPeak>>

\* All of waveLength is copied, although recvBuff ends before its last slots, and
\* packetLength, which tells where the datagram ends, is not looked at.
Received(k) ==
  CASE k > RecvPeaks -> Stray
    [] k <= carried -> datagrams
    [] OTHER -> Zero

CopyWaveLength ==
  /\ decoding = "waveLength"
  /\ waveLength' = [k \in Slots |-> Received(k)]
  /\ decoding' = "average"
  /\ channel' = 1
  /\ cntPeak' = 0
  /\ UNCHANGED <<datagrams, timeStamp, numPeaks, avgPeak, carried>>

\* The slots the inner loop sums for channel i, from cntPeak on; there is no
\* test for the end of waveLength.
Summed(i) == [k \in cntPeak + 1 .. cntPeak + numPeaks[i] |->
                IF k \in Slots THEN waveLength[k] ELSE Stray]

AverageTo(i, avg) ==
  /\ decoding = "average"
  /\ i = channel
  /\ avgPeak' = [avgPeak EXCEPT ![i] = avg]
  /\ channel' = i + 1
  /\ decoding' = IF i = PEAK_CH THEN "idle" ELSE "average"
  /\ UNCHANGED <<datagrams, timeStamp, numPeaks, waveLength, carried>>

\* One channel: its average is replaced unless the sum is zero.
\* (Mutants: every channel starts at the first slot; the average is cleared
\* before it is computed.)
AverageFromStart(i) ==
  /\ AverageTo(i, Summed(i))
  /\ cntPeak' = 0

AverageClearedFirst(i) ==
  \/ /\ decoding = "average" /\ i = channel /\ avgPeak[i] # NoAverage
     /\ avgPeak' = [avgPeak EXCEPT ![i] = NoAverage]
     /\ UNCHANGED <<datagrams, timeStamp, numPeaks, waveLength, carried, decoding, channel, cntPeak>>
  \/ /\ avgPeak[i] = NoAverage
     /\ AverageTo(i, Summed(i))
     /\ cntPeak' = cntPeak + Turns(numPeaks[i])

Average(i) ==
  /\ LET held == {Summed(i)[k] : k \in DOMAIN Summed(i)}
     IN \/ held \notin SUBSET {Zero} /\ AverageTo(i, Summed(i))
        \/ held \subseteq {Zero, Stray} /\ AverageTo(i, avgPeak[i])
  /\ cntPeak' = cntPeak + Turns(numPeaks[i])

Decode == SubtractFirst \/ CopyNumPeaks \/ CopyWaveLength \/ \E i \in Channels : Average(i)

----------------------------------------------------------------------------
\* getPeaks: time stamp, numbers of peaks, averages one after the other.
CopyStamp ==
  /\ copying = "idle"
  /\ snapshot' = [snapshot EXCEPT !.stamp = timeStamp]
  /\ since' = IF decoding = "idle" THEN datagrams ELSE datagrams - 1
  /\ copying' = "numPeaks"
  /\ UNCHANGED copied

CopyNum ==
  /\ copying = "numPeaks"
  /\ snapshot' = [snapshot EXCEPT !.num = numPeaks]
  /\ copying' = "average"
  /\ copied' = 0
  /\ UNCHANGED since

CopyAverage ==
  /\ copying = "average"
  /\ snapshot' = [snapshot EXCEPT !.avg[copied + 1] = avgPeak[copied + 1]]
  /\ copied' = copied + 1
  /\ copying' = IF copied' = PEAK_CH THEN "idle" ELSE "average"
  /\ UNCHANGED since

GetPeaks == CopyStamp \/ CopyNum \/ CopyAverage

PeakNext ==
  \/ (DecodeStamp \/ Decode) /\ UNCHANGED copyVars
  \/ GetPeaks /\ UNCHANGED decodeVars

PeakSpec == PeakInit /\ [][PeakNext]_peakVars
----------------------------------------------------------------------------
\* The average of channel i as it should be: over the slots behind those of the
\* channels before it, of the peaks of datagram d.
OwnAverage(i, d) ==
  LET first == Peaks(numPeaks)[i - 1] + 1
  IN [k \in first .. first + numPeaks[i] - 1 |-> d]

\* procPacket: once a datagram is decoded every channel that reports peaks has the
\* average of its own peaks of that datagram, provided the datagram carries them.
\* (If it ends before, zeros count as peaks, or the old average stays.)
AverageIsOfOwnPeaks ==
  (decoding = "idle" /\ datagrams > 0) =>
    \A i \in Channels :
      (numPeaks[i] > 0 /\ Peaks(numPeaks)[i] <= carried) =>
        avgPeak[i] = OwnAverage(i, datagrams)

\* getPeaks against procPacket in another thread: the time stamp copied is one of
\* a datagram decoded before the copy ended and not replaced before it began;
\* and a copy during which nothing was decoded is the last datagram as it is.
SnapshotIsRegular ==
  (copying = "idle" /\ copied = PEAK_CH) =>
    /\ snapshot.stamp.of \in since..datagrams
    /\ (datagrams > 0 /\ since = datagrams /\ decoding = "idle") =>
         /\ snapshot.stamp = [of |-> datagrams, absolute |-> FALSE]
         /\ snapshot.num = numPeaks
         /\ snapshot.avg = avgPeak

\* The datagrams an average was computed from.
Origins(avg) == {avg[k] : k \in DOMAIN avg} \ {Stray, Zero}

\* However copies and datagrams interleave, and whatever channels stay without
\* peaks: an average once measured never vanishes from what the caller gets,
\* and never gives way to one of an older datagram.
PeaksNeverGoBack ==
  [][\A i \in Channels :
       /\ snapshot.avg[i] # NoAverage => snapshot'.avg[i] # NoAverage
       /\ \A d \in Origins(snapshot.avg[i]), e \in Origins(snapshot'.avg[i]) : d <= e]_peakVars
=============================================================================
