SPECIFICATION Spec
CONSTANTS
  GasReserve = 2
  Headroom = 5
  BudgetBps = 8000
  SafetyBps = 9500
  MinPosition = 3
  MinBalance = 0
  Grain = 2
  Mode <- MCMode
  RegimeAware = TRUE
  BaseTarget <- MCBase
  MaxSwapBps = 3500
  MinSwap = 10
  MaxSwap = 25
  Cooldown = 2
  Wallets <- MCWallets
  Prices <- MCPrices
  MaxMoves = 1
  MaxRounds = 2
  Gate <- MCGate
  MaxNative = 40
  Whole = 2
  Extras <- MCExtras
  Scales <- MCScales
INVARIANT SwapIsFunded
CHECK_DEADLOCK FALSE
