---------------------------- MODULE ControlRecord ----------------------------
(***************************************************************************)
(* What a pass of run() puts into its record: the time and status of the   *)
(* loop (LoopStauts), the force computed from the wavelengths              *)
(* (CCalibration) and the same force filtered (LPFx, LPFy, LPFz).  The     *)
(* sketch may call init() at any time, between the steps of a pass too;    *)
(* when a pass begins is left open (see TeensyControl).                    *)
(*                                                                         *)
(* millis() and micros() start again from 0 at Overflow.                   *)
(* Floating-point numbers are the integers modulo Modulus, which keeps the *)
(* algebra of the filter and loses its convergence.  Eigen is external: it *)
(* fills a matrix row by row, and a product that meets coefficients never  *)
(* set, or a vector shorter than the matrix is wide, may be any of Forces. *)
(* Its assertions, with which the program would stop, are taken to be off. *)
(*                                                                         *)
(* Bound: MaxTime, where the clock stops.                                  *)
(***************************************************************************)
EXTENDS Integers

CONSTANTS
  Overflow,  \* 2^32 in the source
  UsPerMs,   \* microseconds in a millisecond
  controlPeriod,
  LPFCoefA, LPFCoefB, Modulus,
  Forces,
  MaxTime

\* The filter lets a constant force pass as it is, as it does in the source to
\* seven digits.
ASSUME RecordAssumption ==
  /\ Overflow \in Nat \ {0} /\ UsPerMs \in Nat \ {0} /\ controlPeriod \in Nat /\ MaxTime \in Nat
  /\ Modulus \in Nat \ {0}
  /\ 0 \in Forces /\ Forces \subseteq 0..(Modulus - 1)
  /\ \A i \in 1..3 : LPFCoefA[i] \in Int /\ LPFCoefB[i] \in Int
  /\ LPFCoefA[1] = 1
  /\ LPFCoefA[1] + LPFCoefA[2] + LPFCoefA[3] = LPFCoefB[1] + LPFCoefB[2] + LPFCoefB[3]

VARIABLES
  now,          \* microseconds since power-on
  pass,         \* what run() does next, or "idle"
  looped,       \* rtStatus.loopCount # 0
  startTime, currentTime, elapsedTime, loopPeriod, rtInvalid,
  Reg,          \* axis -> FxReg, FyReg, FzReg
  mDataLog,     \* what a pass has put into the record so far; else NoRecord
  crossed,      \* history: the last init() came during a pass
  began,        \* history: when this pass and this run began, and whether it is the first
  lastPass,     \* history: how long the last pass took; whether its run is crossed
  settled       \* history: the axes whose filter this pass has left as it was

statusVars == <<looped, startTime, currentTime, elapsedTime, loopPeriod, rtInvalid>>
forceVars == <<Reg, mDataLog, settled>>
recordVars == <<now, pass, statusVars, forceVars, crossed, began, lastPass>>

Axes == 1..3
NoForce == [a \in Axes |-> 0]
NoRecord == [timeStamp |-> 0, loopPeriod |-> 0, statusFlag |-> FALSE,
             FBGForce |-> NoForce, LPFForce |-> NoForce]

Unsigned(n) == n % Overflow
Ms(t) == t \div UsPerMs
millis == Unsigned(Ms(now))
micros == Unsigned(now)

RecordInit ==
  /\ now = 0 /\ pass = "idle"
  /\ looped = FALSE /\ rtInvalid = FALSE
  /\ startTime = 0 /\ currentTime = 0 /\ elapsedTime = 0 /\ loopPeriod = 0
  /\ Reg = [a \in Axes |-> <<0, 0, 0>>]
  /\ mDataLog = NoRecord /\ settled = {}
  /\ crossed = FALSE
  /\ began = [run |-> 0, pass |-> 0, first |-> TRUE]
  /\ lastPass = [took |-> 0, crossed |-> FALSE]

Time ==
  /\ now < MaxTime
  /\ now' = now + 1
  /\ UNCHANGED <<pass, statusVars, forceVars, crossed, began, lastPass>>

Proceed(from, to) == pass = from /\ pass' = to /\ UNCHANGED now

----------------------------------------------------------------------------
\* setMainStartTimeTick: the first pass after an init() notes when it began.
SetMainStartTimeTick ==
  /\ Proceed("idle", "tick")
  /\ startTime' = IF looped THEN startTime ELSE millis
  /\ began' = [began EXCEPT !.run = IF looped THEN @ ELSE now, !.first = ~looped]
  /\ UNCHANGED <<looped, currentTime, elapsedTime, loopPeriod, rtInvalid, forceVars, crossed, lastPass>>

LoopTick ==
  /\ Proceed("tick", "job")
  /\ elapsedTime' = Unsigned(millis - startTime)
  /\ currentTime' = micros
  /\ began' = [began EXCEPT !.pass = now]
  /\ UNCHANGED <<looped, startTime, loopPeriod, rtInvalid, forceVars, crossed, lastPass>>

\* CCalibration: nine coefficients (of which the last three are not zero) for a
\* matrix of three rows and four columns.
Unset == "unset"
StiffMtx == [r \in Axes |-> [c \in 1..4 |->
  LET k == 4 * (r - 1) + c IN IF k > 9 THEN Unset ELSE IF k > 6 THEN "nonzero" ELSE "zero"]]

\* calCalib, getValue: a row of zeros gives no force, whatever it is multiplied by.
CalCalib(r) == IF \A c \in 1..4 : StiffMtx[r][c] = "zero" THEN {0} ELSE Forces

\* LPFx, LPFy, LPFz: Reg[2] is given Reg[1] when that already is Reg[0].
\* (Mutant: the registers are not shifted.)
LPFUnshifted(r, x) ==
  LET w == (LPFCoefA[1] * x - LPFCoefA[2] * r[2] - LPFCoefA[3] * r[3]) % Modulus
  IN [reg |-> <<w, r[2], r[3]>>,
      out |-> (LPFCoefB[1] * w + LPFCoefB[2] * r[2] + LPFCoefB[3] * r[3]) % Modulus]

LPF(r, x) ==
  LET w == (LPFCoefA[1] * x - LPFCoefA[2] * r[2] - LPFCoefA[3] * r[3]) % Modulus
  IN [reg |-> <<w, w, w>>,
      out |-> (LPFCoefB[1] * w + LPFCoefB[2] * r[2] + LPFCoefB[3] * r[3]) % Modulus]

\* mainJobControl, as far as the forces go.
Job ==
  /\ Proceed("job", "queue")
  /\ \E f \in [Axes -> Forces] :
       /\ \A a \in Axes : f[a] \in CalCalib(a)
       /\ Reg' = [a \in Axes |-> LPF(Reg[a], f[a]).reg]
       /\ settled' = {a \in Axes : Reg[a] = Reg'[a]}
       /\ mDataLog' = [NoRecord EXCEPT !.FBGForce = f,
                                       !.LPFForce = [a \in Axes |-> LPF(Reg[a], f[a]).out]]
  /\ UNCHANGED <<statusVars, crossed, began, lastPass>>

\* queueDataLog: the status is that of the pass before, the time that of this one.
\* (The other bit of the flags is a constant.)
QueueRecord ==
  /\ Proceed("queue", "update")
  /\ mDataLog' = [mDataLog EXCEPT !.timeStamp = elapsedTime, !.loopPeriod = loopPeriod,
                                  !.statusFlag = rtInvalid]
  /\ UNCHANGED <<statusVars, Reg, settled, crossed, began, lastPass>>

\* loopUpdate: the period is measured, and judged.
Update ==
  /\ Proceed("update", "judge")
  /\ looped' = TRUE
  /\ loopPeriod' = Unsigned(micros - currentTime)
  /\ lastPass' = [lastPass EXCEPT !.took = now - began.pass]
  /\ UNCHANGED <<startTime, currentTime, elapsedTime, rtInvalid, forceVars, crossed, began>>

Judge ==
  /\ Proceed("judge", "idle")
  /\ rtInvalid' = (loopPeriod > controlPeriod)
  /\ lastPass' = [lastPass EXCEPT !.crossed = crossed]
  /\ mDataLog' = NoRecord /\ settled' = {}
  /\ UNCHANGED <<looped, startTime, currentTime, elapsedTime, loopPeriod, Reg, crossed, began>>

Pass == SetMainStartTimeTick \/ LoopTick \/ Job \/ QueueRecord \/ Update \/ Judge

\* init(): rtStatus.reset(), which leaves rtInvalid and the filters as they are.
ResetStatus ==
  /\ looped' = FALSE
  /\ startTime' = 0 /\ currentTime' = 0 /\ elapsedTime' = 0 /\ loopPeriod' = 0
  /\ crossed' = (pass # "idle")
  /\ UNCHANGED <<now, pass, rtInvalid, forceVars, began, lastPass>>
----------------------------------------------------------------------------
RecordTypeOK ==
  /\ now \in 0..MaxTime
  /\ pass \in {"idle", "tick", "job", "queue", "update", "judge"}
  /\ {looped, rtInvalid, crossed} \subseteq BOOLEAN
  /\ {startTime, currentTime, elapsedTime, loopPeriod} \subseteq 0..(Overflow - 1)
  /\ Reg \in [Axes -> [1..3 -> 0..(Modulus - 1)]]
  /\ settled \subseteq Axes
  /\ mDataLog \in [timeStamp : 0..(Overflow - 1), loopPeriod : 0..(Overflow - 1),
                   statusFlag : BOOLEAN, FBGForce : [Axes -> Forces],
                   LPFForce : [Axes -> 0..(Modulus - 1)]]

\* The time is that of the pass, counted from the start of its own run, also
\* when millis() overflows in between.
TimeIsOfThisPass == mDataLog.timeStamp = Unsigned(Ms(began.pass) - Ms(began.run))

\* The status is that of the pass before; the first record of a run has no period,
\* and yet is flagged if the last pass of the run before took too long.
StatusIsOfLastPass ==
  /\ mDataLog.loopPeriod = IF began.first THEN 0 ELSE Unsigned(lastPass.took)
  /\ ~lastPass.crossed => (mDataLog.statusFlag <=> Unsigned(lastPass.took) > controlPeriod)

\* A filter that has settled shows the force itself, although it has lost the
\* second of its two delays.
FilterHasUnitGain == \A a \in settled : mDataLog.LPFForce[a] = mDataLog.FBGForce[a]

\* queueDataLog (CMainControl.cpp): what a record holds, when the init() of its run
\* did not come during a pass.
RecordHoldsItsPass ==
  (pass = "update" /\ ~crossed) => TimeIsOfThisPass /\ StatusIsOfLastPass /\ FilterHasUnitGain
=============================================================================
