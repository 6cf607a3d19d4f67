SPECIFICATION Spec
CONSTANTS
  Requests = {r1, r2}
  Viewers = {}
  Symbols = {"BTC/ETH", "LTC/ETH"}
  FetchSymbol = "BTC/ETH"
  Types = {"Limit"}
  Prices = {1, 2, 3}
  Sizes = {1, 3}
  Unit = 1
  Dust = {0}
  BookLimit = 100
  TradedSymbols = {"BTC/ETH", "LTC/ETH"}
  RestingTables <- SequentialTables
  MaxInFlight = 1
  MaxPerSymbol = 1
  MaxFaults = 0
SYMMETRY Permuted
INVARIANTS
  SettledInv
  UncrossedInv
  SettledUnlessCaught
  UncrossedUnlessCaught
PROPERTY ImplementsExchange
CHECK_DEADLOCK FALSE
