SPECIFICATION FairSpec
CONSTANTS
  Requests = {r1}
  Viewers = {v1}
  Symbols = {"BTC/ETH", "LTC/ETH"}
  FetchSymbol = "BTC/ETH"
  Types = {"Limit", "Market"}
  Prices = {1, 2, 3}
  Sizes = {1, 3}
  Unit = 1
  Dust = {0}
  BookLimit = 2
  TradedSymbols = {"BTC/ETH"}
  RestingTables <- SequentialTables
  MaxInFlight = 1
  MaxPerSymbol = 1
  MaxFaults = 1
INVARIANT UncrossedUnlessCaught
PROPERTY EveryRequestAnswered
CHECK_DEADLOCK FALSE
