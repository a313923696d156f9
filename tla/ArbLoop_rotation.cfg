SPECIFICATION Spec
CONSTANTS
  LUNC = LUNC
  USTC = USTC
  T = T
  R1 = R1
  R2 = R2
  N1 = N1
  N2 = N2
  Edges <- MCEdges
  Natives = {LUNC, USTC}
  StartAssets = {LUNC, T}
  MaxHops = 3
  Flaky = {R1}
  Periodic = {N2}
  Interval = 2
  Viable <- MCThree
  Steady <- MCNone
  Doomed <- MCNone
  MaxTried = 2
  Cooldown = 2
  Slow = 1
  MaxArms = 2
  NoCycle = NoCycle
INVARIANTS
  CooldownSurvivesRotation
