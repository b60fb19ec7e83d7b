CONSTANTS
  e1 = e1
  e2 = e2
  f1 = f1
  s1 = s1
  s2 = s2
  s3 = s3
  wethE = wethE
  usdcE = usdcE
  wethF = wethF
  usdcF = usdcF
  sol = sol
  usdcS = usdcS
  None = None
  Q = 512
  PScale = 100
  Sizes <- MCSizes
  MinProfit = 2
  MinConfidence = 35
  Gas <- MCGas
  Bridges <- MCBridges
  Liquidity = 5000
  Trust <- MCTrust
  Scenes <- MCCrossScene
  Attr <- MCAttr
  Snaps <- MCSnaps
  Canonical <- MCCanonical
  Stable <- MCStable
  ListedUsd <- MCListed
  MinSpread = 1000
  Window = 1
  MaxMoves = 2
  MaxTicks = 2
  MaxCands = 1
  MaxFaults = 0
SPECIFICATION Spec
PROPERTIES
  BridgedRanked
CHECK_DEADLOCK FALSE
