---------------------------- MODULE MCOrderBook ----------------------------
EXTENDS OrderBookProps, TLC

Permuted == Permutations(Requests)

\* A subtraction is off by one unit of memory at most.
Rounding == {-1, 0, 1}

\* Rows that earlier requests left open.
Rest(side, symbol, price, size, second) ==
  [side |-> side, symbol |-> symbol, type |-> IF price = NoPrice THEN "Market" ELSE "Limit",
   price |-> price, size |-> size, orgSize |-> size, filled |-> 0, isFilled |-> FALSE,
   created |-> second]

\* Two rows of one second at one price below a third, with a row of the other
\* pair; a spread; no rows.
SequentialTables ==
  {<<Rest("SELL", "BTC/ETH", 1, 1, 0), Rest("SELL", "BTC/ETH", 1, 2, 0),
     Rest("SELL", "BTC/ETH", 2, 1, 1), Rest("SELL", "LTC/ETH", 1, 1, 1)>>,
   <<Rest("BUY", "BTC/ETH", 1, 1, 0), Rest("BUY", "BTC/ETH", 2, 1, 0),
     Rest("SELL", "BTC/ETH", 3, 2, 1)>>,
   <<>>}

\* Orders of two pairs for market orders to eat into, in eighths of a unit.
MarketTables ==
  {<<Rest("SELL", "BTC/ETH", 1, 16, 0), Rest("SELL", "BTC/ETH", 2, 24, 0),
     Rest("BUY", "LTC/ETH", 2, 8, 0), Rest("BUY", "LTC/ETH", 1, 8, 1)>>}

\* One resting order that several requests can reach, or a market remainder.
ConcurrentTables ==
  {<<Rest("SELL", "BTC/ETH", 1, 2, 0)>>,
   <<Rest("SELL", "BTC/ETH", NoPrice, 1, 0), Rest("BUY", "LTC/ETH", 2, 1, 0)>>}
=============================================================================
