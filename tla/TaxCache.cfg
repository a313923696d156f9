SPECIFICATION MCSpec
CONSTANTS
  ULuna = ULuna
  UsdcAxl = UsdcAxl
  RateKey = RateKey
  Denoms = {ULuna, UsdcAxl}
  CapZeroConfirmed = {UsdcAxl}
  RateZeroConfirmed = FALSE
  Rates = {1, 3}
  Caps = {0, 2}
  Unit = 4
  FailsafeRate = 2
  FailsafeCap = 5
  TTL = 3
  Retry = 2
  MaxVotes = 1
  Unknown = Unknown
INVARIANTS
  TypeOK
  NeverUnderstated
  RealBeatsGuess
PROPERTIES
  RequestsAreSpaced
  StaleOnlyWhileFailing
  FollowsGovernance
