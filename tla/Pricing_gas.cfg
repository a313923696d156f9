SPECIFICATION Spec
CONSTANTS
  LUNC = LUNC
  USTC = USTC
  T = T
  A = A
  B = B
  C = C
  Unit = 100
  PoolList <- MCPoolList
  Pair <- MCPair
  Garuda = {B}
  Commission <- MCCommission
  TaxRate <- MCTax
  Places = 100
  Scale = 100
  TolBps = 2
  NoParams = NoParams
  MinFraction = 15
  MaxFraction = 60
  EdgeLow = 2
  EdgeHigh = 15
  ProbeFraction = 1
  MinProbe = 20
  ProbeShare = 10
  PoolShare = 30
  SizeMultiplier = 2
  GasReserve = 10
  FloorShare = 5
  Cycles <- MCCycles
  Markets <- MCCheap
  Wallets <- MCWallets
  Trades = {30}
  MaxDrift = 1
  MaxOrders = 1
  Fees = {1, 3}
  GasPerHop = 1
  MinTripGas = 3
  Buffer = 1
  Ceiling = 45
  TargetLunc = 40
  TargetUusd = 40
  MinLunc = 2
  MinUusd = 2
  Margin = 15
  GasGuess = 4
  TripLimits = {1, 2}
  NoCycle = NoCycle
CHECK_DEADLOCK FALSE
INVARIANT
  ProfitIsNetOfGas
