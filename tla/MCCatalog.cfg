CONSTANTS
  a = a
  k = k
  w = w
  eth = eth
  sol = sol
  usdc = usdc
  weth = weth
  wsol = wsol
  cat = cat
  p1 = p1
  p2 = p2
  s1 = s1
  None = None
  Loops <- MCLoops
  Watchers <- MCWatchers
  Trackers <- MCTrackers
  Networks <- MCNetworks
  Evm = eth
  Solana = sol
  Pools <- MCPools
  ChainOf <- MCChainOf
  Pair <- MCPair
  Tokens <- MCTokens
  Dec <- MCDec
  Program <- MCProgram
  MaxListed = 2
  MaxTx = 2
  MaxFaults = 1
SPECIFICATION FairSpec
INVARIANTS
  TypeOK
  LocksOrdered
  CorrectionKept
PROPERTIES
  TransactionsEnd
CHECK_DEADLOCK FALSE
