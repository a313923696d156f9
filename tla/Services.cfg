SPECIFICATION MCSpec
CONSTANTS
  MaxFast = 3
  Window = 3
  Backoff = 5
  NormalDelay = 1
  Required = {Mnemonic, PoolOne, PoolTwo}
  FirstPool = PoolOne
  SecondPool = PoolTwo
  Envs <- MCEnvs
  Empty = Empty
  Mnemonic = Mnemonic
  PoolOne = PoolOne
  PoolTwo = PoolTwo
  X = X
  Y = Y
  P1 = P1
  P2 = P2
  P3 = P3
  G = G
  PoolList <- MCPoolList
  Pinned = {G, P3}
  Mislabelled = {G}
  Refreshers = 1
  TTL = 4
  Every = 1
  QueryLimit = 1
  Default = 200
  Rates = {30, 200}
  Misreads <- MCMisreads
  None = None
  Threads = {1, 2}
  Limit = 2
  HangLimit = 5
  Endpoints = 2
  QueueBound = 4
INVARIANTS
  TypeOK
  BurstIsBounded
  CommissionKeepsUp
  RecoversAfterOutage
