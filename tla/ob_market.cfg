SPECIFICATION Spec
CONSTANTS
  Requests = {r1, r2}
  Viewers = {v1}
  Symbols = {"BTC/ETH", "LTC/ETH"}
  FetchSymbol = "BTC/ETH"
  Types = {"Market"}
  Prices = {1, 2}
  Sizes = {16}
  Unit = 8
  Dust <- Rounding
  BookLimit = 100
  TradedSymbols = {"BTC/ETH", "LTC/ETH"}
  RestingTables <- MarketTables
  MaxInFlight = 2
  MaxPerSymbol = 1
  MaxFaults = 0
SYMMETRY Permuted
INVARIANTS
  SettledUnlessCaught
  TradesWithinPair
CHECK_DEADLOCK FALSE
