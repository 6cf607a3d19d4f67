---------------------------- MODULE OrderBookInv ----------------------------
(***************************************************************************)
(* The inductive invariant behind the properties of OrderBook.  The tables *)
(* and the heap are parameters of its parts, so that a part can be stated  *)
(* of the state before and of the state after a step.                      *)
(***************************************************************************)
EXTENDS OrderBook

MatchSteps == {"takerClosed", "fullTraded", "makerUpdated",
               "makerClosed", "partTraded", "takerUpdated"}
PostSteps == MatchSteps \cup {"saved", "placed"}

\* An entry of a list loaded for `side` shows a row of that side at its price.
ListOK(side, list, table) ==
  \A i \in DOMAIN list :
    /\ list[i].id \in DOMAIN table
    /\ table[list[i].id].side = side
    /\ table[list[i].id].price = list[i].price

HeapOK(mem, table) == \A f \in Refs, s \in Sides : ListOK(s, mem[f][s], table)

\* The request's order is the row it inserted.
OwnRowOK(r, table) ==
  /\ r.ord.id \in DOMAIN table
  /\ table[r.ord.id].side = r.ord.side
  /\ table[r.ord.id].type = r.ord.type
  /\ table[r.ord.id].price = r.ord.price

\* A limit order accepts the price of the resting order it looks at.
Accepts(o, price) ==
  o.type = "Limit" => IF o.side = "BUY" THEN price <= o.price ELSE price >= o.price

\* The place in the captured list is within it, at an acceptable price.
RestingOK(r, mem) ==
  LET list == mem[r.ref][Opposite(r.ord.side)] IN
  /\ r.ref \in Refs
  /\ r.idx \in DOMAIN list
  /\ Accepts(r.ord, list[r.idx].price)

\* An update or a trade on its way belongs to the step the match is in, and
\* once the closing update has been written, the row is closed.
WriteOK(r, mem, table) ==
  LET restingId == mem[r.ref][Opposite(r.ord.side)][r.idx].id IN
  /\ r.pc = "update" =>
       /\ r.step \in {"takerClosed", "makerUpdated", "makerClosed", "takerUpdated"}
       /\ r.upd.id \in DOMAIN table
       /\ r.step = "takerClosed" => r.upd.id = r.ord.id /\ r.upd.close
       /\ r.step = "makerClosed" => r.upd.id = restingId /\ r.upd.close
  /\ r.pc = "trade" => r.step \in {"fullTraded", "partTraded"} /\ r.ord.symbol \in TradedSymbols
  /\ r.step = "takerClosed" /\ r.pc # "update" => table[r.ord.id].isFilled
  /\ r.step = "fullTraded" => table[r.ord.id].isFilled
  /\ r.step = "makerClosed" /\ r.pc # "update" => table[restingId].isFilled
  /\ r.step = "partTraded" => table[restingId].isFilled

RequestOK(a, r, mem, table) ==
  /\ ListOK("BUY", r.buys, table)
  /\ ListOK("SELL", r.sells, table)
  /\ r.step \in PostSteps => a \in Requests
  /\ r.pc = "insert" => r.step = "saved"
  /\ r.pc \in {"idle", "done"} => r.step = "none"
  /\ r.pc \in {"update", "trade"} => r.step \in MatchSteps
  /\ r.pc # "insert" /\ r.step \in PostSteps => OwnRowOK(r, table)
  /\ r.step \in MatchSteps => RestingOK(r, mem) /\ WriteOK(r, mem, table)

\* However the service's lists are replaced and shrunk meanwhile, a match goes
\* on in the arrays it began with: its resting order is in them, is a row of
\* the other side that it accepts, and what it is about to write is about its
\* own order or that one.
RequestsOK == \A a \in Actors : RequestOK(a, req[a], heap, orders)

IInv ==
  /\ TypeOK
  /\ HeapOK(heap, orders)
  /\ RequestsOK
  /\ TradePriceAcceptable
  /\ EveryTradeClosesAnOrder
  /\ NoFirstTrade
=============================================================================
