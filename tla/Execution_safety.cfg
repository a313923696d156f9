SPECIFICATION Spec
CONSTANTS
  A = A
  B = B
  LUNC = LUNC
  Assets = {LUNC, A, B}
  Gain = 1
  MaxDrift = 2
  MaxOutside = 1
  NoBlock = NoBlock
  Fees = {1}
  CacheTTL = 1
  NoSeq = NoSeq
  Cycles <- MCCycles
  Garuda <- MCGaruda
  Amounts = {3}
  Tolerance = 1
  Reserve = 3
  MaxJobs = 2
  StartWallets <- MCLean
  NoJob = NoJob
INVARIANTS
  TypeOK
  OneTxInFlight
  NoDoubleSend
  LegsInOrder
  DryRunIsSilent
PROPERTIES
  CompletionIsReal
  LegSpendsOnlyProceeds
  ImplementsTrader
CHECK_DEADLOCK FALSE
