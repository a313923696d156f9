SPECIFICATION MCFairSpec
CONSTANTS
  A = A
  B = B
  LUNC = LUNC
  Assets = {LUNC, A, B}
  Gain = 1
  MaxDrift = 2
  MaxOutside = 1
  NoBlock = NoBlock
  Fees = {1, 2}
  CacheTTL = 2
  NoSeq = NoSeq
  Cycles <- MCCycles
  Garuda <- MCGaruda
  Amounts = {3}
  Tolerance = 1
  Reserve = 3
  MaxJobs = 1
  StartWallets <- MCScarce
  NoJob = NoJob
PROPERTIES
  BroadcastIsCovered
  AtomicLossIsBounded
  StaleSequenceHeals
  ExecutionEnds
CHECK_DEADLOCK FALSE
