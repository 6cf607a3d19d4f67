--------------------------- MODULE OrderBookProps ---------------------------
(***************************************************************************)
(* What the matching engine is checked for.  OrderBookProofs proves the    *)
(* properties that hold however requests interleave and fail; the others   *)
(* are stated for the environments the runs choose.                        *)
(***************************************************************************)
EXTENDS OrderBookInv, Functions

\* What order i has traded, in all the trades saved.
Share(i, t) == IF i \in {t.buy, t.sell} THEN t.size ELSE 0
TradedSize(i) == SumFunction([k \in DOMAIN trades |-> Share(i, trades[k])])

Answered(answers) == {a \in Requests : req[a].answer \in answers}
Quiescent == InFlight = {}

TradesOf(i) == {t \in DOMAIN trades : i \in {trades[t].buy, trades[t].sell}}

\* A subtraction is inexact, and one of its operands comes from an earlier turn
\* of the same match: the order, or the one it traded with, traded before.
MayHoldDust(i) ==
  /\ Dust # {0}
  /\ \E t \in TradesOf(i) : \E j \in {trades[t].buy, trades[t].sell} :
       \E u \in TradesOf(j) : u < t

\* The orders are settled: what is left of each is what it has not traded, its
\* fills add up to what it has traded, and it is closed when nothing is left,
\* except that dust, which the column does not show, leaves it open.
Settled ==
  \A i \in DOMAIN orders :
    /\ orders[i].size + TradedSize(i) = orders[i].orgSize
    /\ Stored(orders[i].filled) = TradedSize(i)
    /\ orders[i].isFilled => orders[i].size = 0
    /\ orders[i].size = 0 => orders[i].isFilled \/ MayHoldDust(i)

\* handleOrder writes the two orders and the trade of a fill in three separate
\* statements, each rounded by itself.  When all requests have been answered and
\* none of them stopped in the middle of a match, the three tell the same story
\* for every order, and only a match of several turns leaves one open with
\* nothing to trade.
SettledUnlessCaught == Quiescent /\ Answered({"failed", "lost"}) = {} => Settled

\* Order i may have been left out of the list that order j was matched with: as
\* many others as findOrders takes sort before it, and they are the worse ones.
BeyondLimit(i, j) ==
  BookLimit <= Cardinality({n \in 1 .. j - 1 : /\ n # i
                                                /\ orders[n].side = orders[i].side
                                                /\ orders[n].symbol = orders[i].symbol
                                                /\ SortsBefore(orders[i].side, n, i)})

\* The match loops stop only when nothing crosses: after requests that all
\* ended normally, no open limit BUY reaches the price of an open limit SELL
\* of the same pair, unless the newer of them never saw the older one.
UncrossedUnlessCaught ==
  Quiescent /\ Answered({"failed", "lost", "error"}) = {} =>
    \A symbol \in Symbols : \A b \in Open("BUY", symbol), s \in Open("SELL", symbol) :
      \/ orders[b].type = "Market" \/ orders[s].type = "Market"
      \/ orders[b].price < orders[s].price
      \/ IF b < s THEN BeyondLimit(b, s) ELSE BeyondLimit(s, b)

\* With limit orders, one request at a time, the engine is the Exchange.
Offers(table) ==
  [i \in DOMAIN table |-> [side |-> table[i].side, symbol |-> table[i].symbol,
     price |-> table[i].price, size |-> table[i].orgSize, created |-> table[i].created]]

Ideal == INSTANCE Exchange WITH
  Books <- {Offers(t) : t \in RestingTables},
  placed <- Offers(orders),
  left <- [i \in DOMAIN orders |-> orders[i].orgSize - TradedSize(i)],
  deals <- trades

\* Every insert of a limit order is a Place and every saved trade is a Deal:
\* best price first, at the resting order's price, for all that both have
\* left, and never stopping while something crosses.
ImplementsExchange == Ideal!Spec

\* A request that was sent is answered, whatever fails on the way.
EveryRequestAnswered ==
  \A a \in Actors : Running(a) ~> req[a].pc = "done"
=============================================================================
