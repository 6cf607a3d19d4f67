SPECIFICATION Spec
CONSTANTS
  Requests = {r1, r2}
  Viewers = {}
  Symbols = {"BTC/ETH", "LTC/ETH"}
  FetchSymbol = "BTC/ETH"
  Types = {"Limit", "Market"}
  Prices = {1, 2}
  Sizes = {2}
  Unit = 1
  Dust = {0}
  BookLimit = 2
  TradedSymbols = {"BTC/ETH"}
  RestingTables <- ConcurrentTables
  MaxInFlight = 2
  MaxPerSymbol = 2
  MaxFaults = 1
SYMMETRY Permuted
INVARIANTS
  TypeOK
  RequestsOK
  TradePriceAcceptable
  EveryTradeClosesAnOrder
  NoFirstTrade
PROPERTY FilledIsFinal
CHECK_DEADLOCK FALSE
