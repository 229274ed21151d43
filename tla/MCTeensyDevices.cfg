SPECIFICATION Spec
CONSTANTS
  Lags <- MCLags
  MaxTransfers = 2
  Overflow <- MCOverflow
  UsPerMs = 2
  controlPeriod = 1
  LPFCoefA <- MCLPFCoefA
  LPFCoefB <- MCLPFCoefB
  Modulus = 3
  Forces <- MCForces
  MaxTime = 8
INVARIANTS TypeOK ValueIsOneReading FaultsAreMasked RecordHoldsItsPass
