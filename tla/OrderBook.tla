----------------------------- MODULE OrderBook -----------------------------
(***************************************************************************)
(* The matching engine: POST orderbooks/create/Limit and create/Market     *)
(* (OrderBookService.handleOrder), GET orderbooks (fillOrderBookAndReturn) *)
(* and the tables they use.  A request runs on the event loop from one     *)
(* `await` to the next.  A database statement takes effect in a step of    *)
(* its own; the code after the await runs in a later step whenever it      *)
(* reads or writes memory that requests share, and in the same step        *)
(* otherwise.                                                              *)
(***************************************************************************)
EXTENDS Integers, Sequences, FiniteSets

CONSTANTS
  Requests,       \* one POST request each
  Viewers,        \* one GET orderbooks request each
  Symbols,        \* trading pairs
  FetchSymbol,    \* the pair that GET orderbooks always loads, 'BTC/ETH'
  Types,          \* the order types clients send
  Prices, Sizes,  \* limit prices and sizes, in units of memory
  Unit,           \* units of memory in one unit of the last decimal of a table
  Dust,           \* errors of one subtraction in memory, in units of memory
  BookLimit,      \* `take` of fillOrderBook: 100
  TradedSymbols,  \* pairs that have a row in tbl_trades at the start
  RestingTables,  \* possible contents of tbl_order_books at the start
  MaxInFlight,    \* bound: POST requests running at once
  MaxPerSymbol,   \* bound: of these, requests for the same pair
  MaxFaults       \* bound: failed statements and crashes

Sides == {"BUY", "SELL"}
Opposite(side) == IF side = "BUY" THEN "SELL" ELSE "BUY"

\* SQL NULL.  JavaScript compares null as 0 and MySQL sorts NULL below every
\* number, so 0, which is below every limit price, behaves as both.
NoPrice == 0

\* A row of tbl_order_books; its id is its place in the table.  `filled` is
\* the total of the sizes in the JSON column `fills`.
Row == [side: Sides, symbol: Symbols, type: {"Limit", "Market"},
        price: Prices \cup {NoPrice}, size: Int, orgSize: Int, filled: Int,
        isFilled: BOOLEAN, created: Nat]

\* What the match loop uses of a row that fillOrderBook loaded.
Entry == [id: Nat, price: Prices \cup {NoPrice}, size: Int, filled: Int]

\* A row of tbl_trades, naming the two orders where the code names their users.
Trade == [buy: Nat, sell: Nat, price: Prices, size: Int, symbol: Symbols]

\* The order object of a request: what the DTO carries, and the id, remaining
\* size and fills it gets on the way.
Order == [id: Nat, side: Sides, symbol: Symbols, type: {"Limit", "Market"},
          price: Prices \cup {NoPrice}, size: Int, filled: Int]

\* A pending updateOrder.
Update == [id: Nat, size: Int, filled: Int, close: BOOLEAN]

Actors == Requests \cup Viewers

ASSUME OrderBookAssumption ==
  /\ IsFiniteSet(Requests)
  /\ Requests \cap Viewers = {}
  /\ FetchSymbol \in Symbols
  /\ Types \subseteq {"Limit", "Market"}
  /\ Prices \subseteq Nat \ {0}
  /\ Sizes \subseteq Nat \ {0}
  /\ Unit \in Nat \ {0}
  /\ \A size \in Sizes : size % Unit = 0
  /\ Dust \subseteq Int /\ 0 \in Dust
  /\ BookLimit \in Nat \ {0}
  /\ TradedSymbols \subseteq Symbols
  /\ \A t \in RestingTables :
       t \in Seq(Row) /\ \A i \in DOMAIN t : t[i].price = NoPrice <=> t[i].type = "Market"
  /\ MaxInFlight \in Nat /\ MaxPerSymbol \in Nat
  /\ MaxFaults \in Nat

VARIABLES
  orders,   \* tbl_order_books
  trades,   \* tbl_trades, without the rows that TradedSymbols stands for
  heap,     \* the pairs of arrays fillOrderBook made that are still in use
  bookRef,  \* this.order_books, by reference
  req,      \* where each HTTP request is
  faults    \* failed statements and crashes so far

vars == <<orders, trades, heap, bookRef, req, faults>>

\* Every request can hold one pair of arrays while the service holds another.
Refs == 1 .. Cardinality(Requests) + 1
NoRef == 0
EmptyBook == [s \in Sides |-> <<>>]

NoOrder == [id |-> 0, side |-> "BUY", symbol |-> FetchSymbol, type |-> "Limit",
            price |-> NoPrice, size |-> 0, filled |-> 0]
NoUpdate == [id |-> 0, size |-> 0, filled |-> 0, close |-> FALSE]
NewRequest == [pc |-> "idle", step |-> "none", ord |-> NoOrder, buys |-> <<>>, sells |-> <<>>,
               ref |-> NoRef, idx |-> 0, qty |-> 0, upd |-> NoUpdate, answer |-> "none"]

Init ==
  /\ orders \in RestingTables
  /\ trades = <<>>
  /\ heap = [f \in Refs |-> EmptyBook]
  /\ bookRef = 1
  /\ req = [a \in Actors |-> NewRequest]
  /\ faults = 0
-----------------------------------------------------------------------------
(* Numbers: binary floating point in memory, decimal(17, 8) in the tables. *)

\* The differences -= may compute.  Only equal numbers have the difference 0.
Minus(x, y) ==
  {d \in {x - y + e : e \in Dust} : (d > 0 <=> x > y) /\ (d < 0 <=> x < y)}

\* A column keeps the nearest decimal.
Stored(x) == ((x + Unit \div 2) \div Unit) * Unit
-----------------------------------------------------------------------------
(* Tables.                                                                 *)

HasTrades(symbol) ==
  symbol \in TradedSymbols \/ \E i \in DOMAIN trades : trades[i].symbol = symbol

Open(side, symbol) ==
  {i \in DOMAIN orders : /\ orders[i].side = side
                         /\ orders[i].symbol = symbol
                         /\ ~orders[i].isFilled}

\* Slip: the same ORDER BY for both sides.
SortsBeforeAscending(side, i, j) ==
  \/ orders[i].price < orders[j].price
  \/ orders[i].price = orders[j].price /\ orders[i].created <= orders[j].created

\* ORDER BY price, created_at ASC: ascending prices for BUY, descending for
\* SELL.  created_at counts seconds, so rows can tie.
SortsBefore(side, i, j) ==
  \/ IF side = "BUY" THEN orders[i].price < orders[j].price
                     ELSE orders[i].price > orders[j].price
  \/ orders[i].price = orders[j].price /\ orders[i].created <= orders[j].created

EntryOf(i) == [id |-> i, price |-> orders[i].price, size |-> orders[i].size,
               filled |-> orders[i].filled]

\* Slip: one row less is asked for.
FindOrdersOneShort(side, symbol) ==
  LET open == Open(side, symbol)
      n == IF Cardinality(open) < BookLimit THEN Cardinality(open) ELSE BookLimit - 1
      listings == {l \in [1 .. n -> open] :
                     /\ \A i, j \in 1 .. n : i < j => l[i] # l[j] /\ SortsBefore(side, l[i], l[j])
                     /\ \A o \in open : (\A i \in 1 .. n : l[i] # o) => SortsBefore(side, l[n], o)}
  IN {[i \in 1 .. n |-> EntryOf(l[i])] : l \in listings}

\* The results the query may return: the first BookLimit open rows, ties in
\* any order.
FindOrders(side, symbol) ==
  LET open == Open(side, symbol)
      n == IF Cardinality(open) < BookLimit THEN Cardinality(open) ELSE BookLimit
      listings == {l \in [1 .. n -> open] :
                     /\ \A i, j \in 1 .. n : i < j => l[i] # l[j] /\ SortsBefore(side, l[i], l[j])
                     /\ \A o \in open : (\A i \in 1 .. n : l[i] # o) => SortsBefore(side, l[n], o)}
  IN {[i \in 1 .. n |-> EntryOf(l[i])] : l \in listings}
-----------------------------------------------------------------------------
(* The request object and the match loop.                                  *)

\* The handler returns: memory is dropped, the answer and the id remain.
Finish(r, answer) ==
  [NewRequest EXCEPT !.pc = "done", !.ord = [NoOrder EXCEPT !.id = r.ord.id],
                     !.answer = answer]

\* An exception.  The match functions catch it and handleOrder answers 'Failed
\* to place Order'; before them nothing does, and the answer is HTTP 500.
Reject(r) ==
  Finish(r, IF r.step \in {"saved", "placed", "fetched"} THEN "error" ELSE "failed")

\* updateOrder is called; `step` says where the function goes on afterwards.
CallUpdate(r, step, upd) == [r EXCEPT !.pc = "update", !.step = step, !.upd = upd]
CallSaveTrade(r, step, qty) == [r EXCEPT !.pc = "trade", !.step = step, !.qty = qty]

\* Slip: the trade is saved before the order is closed.
TurnTradesFirst(r, list, crossing) ==
  IF r.idx \notin crossing THEN Finish(r, "ok") ELSE CallSaveTrade(r, "fullTraded", r.ord.size)

\* One turn of a match loop at index r.idx: leave it, fill the order from the
\* resting one, or fill the resting one and go on.
Turn(r, list, crossing) ==
  LET resting == list[r.idx] IN
  IF r.idx \notin crossing THEN Finish(r, "ok")
  ELSE IF resting.size >= r.ord.size
       THEN CallUpdate(r, "takerClosed",
              [id |-> r.ord.id, size |-> 0, filled |-> r.ord.filled + r.ord.size, close |-> TRUE])
       ELSE CallUpdate(r, "makerClosed",
              [id |-> resting.id, size |-> 0, filled |-> resting.filled + resting.size,
               close |-> TRUE])

\* Slip: the walk never breaks at a price below the limit.
MatchSellOrderNoBreak(r, list) == Turn(r, list, DOMAIN list)

MatchBuyOrder(r, list) == Turn(r, list, {i \in DOMAIN list : list[i].price <= r.ord.price})
MatchSellOrder(r, list) == Turn(r, list, {i \in DOMAIN list : list[i].price >= r.ord.price})
MatchMarketBuyOrder(r, list) == Turn(r, list, DOMAIN list)
MatchMarketSellOrder(r, list) == Turn(r, list, DOMAIN list)

\* matchLimitOrder and matchMarketOrder.
Match(r, list) ==
  IF r.ord.type = "Limit"
  THEN IF r.ord.side = "BUY" THEN MatchBuyOrder(r, list) ELSE MatchSellOrder(r, list)
  ELSE IF r.ord.side = "BUY" THEN MatchMarketBuyOrder(r, list) ELSE MatchMarketSellOrder(r, list)

\* The match function starts on the arrays this.order_books holds now, which
\* some other request may have loaded, and walks them from the end.
StartMatch(r, ref, book) ==
  LET list == book[Opposite(r.ord.side)] IN
  IF r.ord.type = "Market" /\ list = <<>>
  THEN Finish(r, "empty")
  ELSE Match([r EXCEPT !.ref = ref, !.idx = Len(list)], list)

\* The resting order a matching request is looking at.
RestingList(r) == heap[r.ref][Opposite(r.ord.side)]
Resting(r) == RestingList(r)[r.idx]

\* sellOrder.size -= order.size, in an array that other requests may share.
Shrink(r, left) ==
  [heap EXCEPT ![r.ref][Opposite(r.ord.side)][r.idx].size = left]
-----------------------------------------------------------------------------
(* The steps of an actor a.                                                *)

Running(a) == req[a].pc \notin {"idle", "done"}
InFlight == {a \in Requests : Running(a)}

\* A client posts an order.  A market order's price is set to null.
Posted(side, symbol, type, price, size) ==
  [id |-> 0, side |-> side, symbol |-> symbol, type |-> type,
   price |-> IF type = "Limit" THEN price ELSE NoPrice, size |-> size, filled |-> 0]

Submit(a) ==
  /\ req[a].pc = "idle"
  /\ Cardinality(InFlight) < MaxInFlight
  /\ \E side \in Sides, symbol \in Symbols, type \in Types, price \in Prices, size \in Sizes :
       /\ Cardinality({b \in InFlight : req[b].ord.symbol = symbol}) < MaxPerSymbol
       /\ req' = [req EXCEPT ![a] = [@ EXCEPT !.pc = "insert", !.step = "saved",
                    !.ord = Posted(side, symbol, type, price, size)]]
  /\ UNCHANGED <<orders, trades, heap, bookRef, faults>>

\* saveOrderBook inserts the row, at the same second as the last one or later,
\* and fillOrderBook begins.  save() inserts, as the body of a post has no id.
Insert(a) ==
  LET o == req[a].ord IN
  /\ req[a].pc = "insert"
  /\ \E second \in {0, 1} :
       orders' = Append(orders,
         [side |-> o.side, symbol |-> o.symbol, type |-> o.type, price |-> o.price,
          size |-> o.size, orgSize |-> o.size, filled |-> 0, isFilled |-> FALSE,
          created |-> second + IF orders = <<>> THEN 0 ELSE orders[Len(orders)].created])
  /\ req' = [req EXCEPT ![a] = [@ EXCEPT !.pc = "buys", !.ord.id = Len(orders) + 1]]
  /\ UNCHANGED <<trades, heap, bookRef, faults>>

\* GET orderbooks calls fillOrderBookAndReturn and does not wait for it.
FetchOrders(a) ==
  /\ req[a].pc = "idle"
  /\ req' = [req EXCEPT ![a] = [@ EXCEPT !.pc = "buys", !.step = "fetched"]]
  /\ UNCHANGED <<orders, trades, heap, bookRef, faults>>

\* fillOrderBook: the two queries, and then the assignment.
ReadBuys(a) ==
  /\ req[a].pc = "buys"
  /\ \E list \in FindOrders("BUY", req[a].ord.symbol) :
       req' = [req EXCEPT ![a] = [@ EXCEPT !.pc = "sells", !.buys = list]]
  /\ UNCHANGED <<orders, trades, heap, bookRef, faults>>

ReadSells(a) ==
  /\ req[a].pc = "sells"
  /\ \E list \in FindOrders("SELL", req[a].ord.symbol) :
       req' = [req EXCEPT ![a] = [@ EXCEPT !.pc = "assign", !.sells = list]]
  /\ UNCHANGED <<orders, trades, heap, bookRef, faults>>

\* The arrays that running matches walk, and a place for new ones.
Captured == {req[a].ref : a \in Requests}
FreshRef == CHOOSE f \in Refs : f \notin Captured
Loaded(r) == [s \in Sides |-> IF s = "BUY" THEN r.buys ELSE r.sells]

\* Slip: the arrays of the service are refilled in place.
FillInPlace(r) ==
  /\ bookRef' = bookRef
  /\ heap' = [heap EXCEPT ![bookRef] = Loaded(r)]

\* The new arrays get a place nobody else points to; those that nobody points
\* to any more are gone.
FillOrderBook(r) ==
  /\ bookRef' = FreshRef
  /\ heap' = [f \in Refs |-> IF f = FreshRef THEN Loaded(r)
                             ELSE IF f \in Captured THEN heap[f] ELSE EmptyBook]

\* Slip: saveMarketOrder emits like saveOrder, and the match starts later.
AfterFillEmits(r) ==
  IF r.step = "fetched" THEN Finish(r, "ok")
  ELSE [r EXCEPT !.pc = IF r.step = "saved" THEN "buys" ELSE "emit",
                 !.step = IF r.step = "saved" THEN "placed" ELSE r.step]

\* What runs after the assignment: nothing (GET), the emit of saveOrder, whose
\* first act is to fill the book again, the match function (saveMarketOrder
\* does not emit), or the rest of emitSocketData.
AfterFill(r) ==
  IF r.step = "fetched" THEN Finish(r, "ok")
  ELSE IF r.step = "saved" /\ r.ord.type = "Market" THEN StartMatch(r, FreshRef, Loaded(r))
  ELSE IF r.step = "saved" THEN [r EXCEPT !.pc = "buys", !.step = "placed"]
  ELSE [r EXCEPT !.pc = "emit"]

Assign(a) ==
  /\ req[a].pc = "assign"
  /\ FillOrderBook(req[a])
  /\ req' = [req EXCEPT ![a] = [AfterFill(@) EXCEPT !.buys = <<>>, !.sells = <<>>]]
  /\ UNCHANGED <<orders, trades, faults>>

\* Slip: the exception is lost and the promise never settles.
EmitHangs(a) ==
  /\ req[a].pc = "emit"
  /\ ~HasTrades(req[a].ord.symbol)
  /\ UNCHANGED vars

\* emitSocketData reads trades[0].price: with no trade of the pair it throws.
EmitThrows(a) ==
  /\ req[a].pc = "emit"
  /\ ~HasTrades(req[a].ord.symbol)
  /\ req' = [req EXCEPT ![a] = Reject(@)]
  /\ UNCHANGED <<orders, trades, heap, bookRef, faults>>

\* Slip: the emit copes with a pair that has no trade.
ResumeAlways(a, step) ==
  /\ req[a].pc = "emit"
  /\ req[a].step = step
  /\ UNCHANGED <<orders, trades, bookRef, faults>>

\* The code after an updateOrder or saveTrade at `step` runs once its emit is done.
Resume(a, step) ==
  /\ req[a].pc = "emit"
  /\ req[a].step = step
  /\ HasTrades(req[a].ord.symbol)
  /\ UNCHANGED <<orders, trades, bookRef, faults>>

\* saveOrder returns and the match function starts.
Placed(a) ==
  /\ Resume(a, "placed")
  /\ req' = [req EXCEPT ![a] = StartMatch(@, bookRef, heap[bookRef])]
  /\ UNCHANGED heap

\* Full fill: own order closed, so save the trade.
TakerClosed(a) ==
  /\ Resume(a, "takerClosed")
  /\ req' = [req EXCEPT ![a] = CallSaveTrade(@, "fullTraded", @.ord.size)]
  /\ UNCHANGED heap

\* Slip: the remainder is written without being compared with 0.
FullTradedLeavesOpen(a) ==
  LET r == req[a] IN
  /\ Resume(a, "fullTraded")
  /\ \E left \in Minus(Resting(r).size, r.ord.size) :
       /\ heap' = Shrink(r, left)
       /\ req' = [req EXCEPT ![a] = CallUpdate(r, "makerUpdated",
                    [id |-> Resting(r).id, size |-> left,
                     filled |-> Resting(r).filled + r.ord.size, close |-> FALSE])]

\* Full fill: trade saved, so shrink the resting order in memory and in the table.
FullTraded(a) ==
  LET r == req[a] IN
  /\ Resume(a, "fullTraded")
  /\ \E left \in Minus(Resting(r).size, r.ord.size) :
       /\ heap' = Shrink(r, left)
       /\ req' = [req EXCEPT ![a] = CallUpdate(r, "makerUpdated",
                    [id |-> Resting(r).id, size |-> left,
                     filled |-> Resting(r).filled + r.ord.size, close |-> left = 0])]

\* Full fill: done.
MakerUpdated(a) ==
  /\ Resume(a, "makerUpdated")
  /\ req' = [req EXCEPT ![a] = Finish(@, "ok")]
  /\ UNCHANGED heap

\* Partial fill: resting order closed, so save the trade, with the size the
\* shared array holds by now.
MakerClosed(a) ==
  /\ Resume(a, "makerClosed")
  /\ req' = [req EXCEPT ![a] = CallSaveTrade(@, "partTraded", Resting(@).size)]
  /\ UNCHANGED heap

\* Slip: the fills of earlier turns are not kept in order.fills.
PartTradedForgetsFills(a) ==
  LET r == req[a] IN
  /\ Resume(a, "partTraded")
  /\ \E left \in Minus(r.ord.size, Resting(r).size) :
       req' = [req EXCEPT ![a] =
                 CallUpdate([r EXCEPT !.ord.size = left], "takerUpdated",
                   [id |-> r.ord.id, size |-> left, filled |-> Resting(r).size, close |-> FALSE])]
  /\ UNCHANGED heap

\* Partial fill: trade saved, so shrink the own order.
PartTraded(a) ==
  LET r == req[a]
      filled == r.ord.filled + Resting(r).size IN
  /\ Resume(a, "partTraded")
  /\ \E left \in Minus(r.ord.size, Resting(r).size) :
       req' = [req EXCEPT ![a] =
                 CallUpdate([r EXCEPT !.ord.size = left, !.ord.filled = filled], "takerUpdated",
                   [id |-> r.ord.id, size |-> left, filled |-> filled, close |-> FALSE])]
  /\ UNCHANGED heap

\* Slip: break where the loop continues.
TakerUpdatedBreaks(a) ==
  /\ Resume(a, "takerUpdated")
  /\ req' = [req EXCEPT ![a] = Finish(@, "ok")]
  /\ UNCHANGED heap

\* Partial fill: own order updated, so go on with the next resting order.
TakerUpdated(a) ==
  LET r == req[a] IN
  /\ Resume(a, "takerUpdated")
  /\ req' = [req EXCEPT ![a] = Match([r EXCEPT !.idx = r.idx - 1], RestingList(r))]
  /\ UNCHANGED heap

\* Slip: every updateOrder writes is_filled.
UpdateOrderReopens(a) ==
  LET u == req[a].upd IN
  /\ req[a].pc = "update"
  /\ orders' = [orders EXCEPT ![u.id] = [@ EXCEPT !.size = Stored(u.size), !.filled = u.filled,
                                                  !.isFilled = u.close]]
  /\ req' = [req EXCEPT ![a] = [@ EXCEPT !.pc = "buys", !.upd = NoUpdate]]
  /\ UNCHANGED <<trades, heap, bookRef, faults>>

\* updateOrder reaches the table, and its emit starts with fillOrderBook.
UpdateOrder(a) ==
  LET u == req[a].upd
      row == orders[u.id] IN
  /\ req[a].pc = "update"
  /\ orders' = [orders EXCEPT ![u.id] = [row EXCEPT !.size = Stored(u.size), !.filled = u.filled,
                                                    !.isFilled = row.isFilled \/ u.close]]
  /\ req' = [req EXCEPT ![a] = [@ EXCEPT !.pc = "buys", !.upd = NoUpdate]]
  /\ UNCHANGED <<trades, heap, bookRef, faults>>

\* saveTrade reaches the table, and its emit starts.  The price column is NOT
\* NULL, so the price of a resting market order is refused.
TradeOf(r) ==
  LET own == r.ord.id
      other == Resting(r).id IN
  [buy |-> IF r.ord.side = "BUY" THEN own ELSE other,
   sell |-> IF r.ord.side = "BUY" THEN other ELSE own,
   price |-> Resting(r).price, size |-> Stored(r.qty), symbol |-> r.ord.symbol]

\* Slip: the price column of tbl_trades is nullable.
SaveTradeNullable(a) ==
  LET r == req[a] IN
  /\ r.pc = "trade"
  /\ trades' = Append(trades, TradeOf(r))
  /\ req' = [req EXCEPT ![a] = [r EXCEPT !.pc = "buys", !.qty = 0]]
  /\ UNCHANGED <<orders, heap, bookRef, faults>>

SaveTrade(a) ==
  LET r == req[a] IN
  /\ r.pc = "trade"
  /\ IF Resting(r).price = NoPrice
     THEN /\ req' = [req EXCEPT ![a] = Reject(r)]
          /\ UNCHANGED trades
     ELSE /\ trades' = Append(trades, TradeOf(r))
          /\ req' = [req EXCEPT ![a] = [r EXCEPT !.pc = "buys", !.qty = 0]]
  /\ UNCHANGED <<orders, heap, bookRef, faults>>

\* The database refuses the statement a waits for, or the connection drops.
Fail(a) ==
  /\ faults < MaxFaults
  /\ req[a].pc \in {"insert", "buys", "sells", "emit", "update", "trade"}
  /\ req' = [req EXCEPT ![a] = Reject(@)]
  /\ faults' = faults + 1
  /\ UNCHANGED <<orders, trades, heap, bookRef>>

\* The process dies and starts again: the constructor makes empty lists, the
\* tables stay as they are, and nothing resumes what was half done.
Crash ==
  /\ faults < MaxFaults
  /\ \E a \in Actors : Running(a)
  /\ req' = [a \in Actors |-> IF Running(a) THEN Finish(req[a], "lost") ELSE req[a]]
  /\ heap' = [f \in Refs |-> EmptyBook]
  /\ bookRef' = 1
  /\ faults' = faults + 1
  /\ UNCHANGED <<orders, trades>>

\* The steps an actor takes by itself once its request is in.
Progress(a) ==
  \/ Insert(a) \/ ReadBuys(a) \/ ReadSells(a) \/ Assign(a)
  \/ EmitThrows(a) \/ Placed(a) \/ TakerClosed(a) \/ FullTraded(a) \/ MakerUpdated(a)
  \/ MakerClosed(a) \/ PartTraded(a) \/ TakerUpdated(a)
  \/ UpdateOrder(a) \/ SaveTrade(a)

Next ==
  \/ \E a \in Requests : Submit(a)
  \/ \E a \in Viewers : FetchOrders(a)
  \/ \E a \in Actors : Progress(a) \/ Fail(a)
  \/ Crash

Spec == Init /\ [][Next]_vars

\* The event loop runs every continuation and the database answers every
\* statement, with a result or an error.
Fairness == \A a \in Actors : WF_vars(Progress(a))
FairSpec == Spec /\ Fairness
-----------------------------------------------------------------------------
(* Properties that hold however requests interleave and fail.              *)

Request ==
  [pc: {"idle", "insert", "buys", "sells", "assign", "emit", "update", "trade", "done"},
   step: {"none", "fetched", "saved", "placed", "takerClosed", "fullTraded", "makerUpdated",
          "makerClosed", "partTraded", "takerUpdated"},
   ord: Order, buys: Seq(Entry), sells: Seq(Entry), ref: Refs \cup {NoRef}, idx: Nat,
   qty: Int, upd: Update, answer: {"none", "ok", "empty", "failed", "error", "lost"}]

\* The variables have the types the tables and objects give them.
TypeOK ==
  /\ orders \in Seq(Row)
  /\ trades \in Seq(Trade)
  /\ heap \in [Refs -> [Sides -> Seq(Entry)]]
  /\ bookRef \in Refs
  /\ req \in [Actors -> Request]
  /\ faults \in Nat

\* Whatever stale lists a match walked, a trade has a BUY and a SELL order, and
\* its price is within the limits of both.
TradePriceAcceptable ==
  \A i \in DOMAIN trades :
    LET t == trades[i]
        b == orders[t.buy]
        s == orders[t.sell] IN
    /\ t.buy \in DOMAIN orders /\ t.sell \in DOMAIN orders
    /\ b.side = "BUY" /\ s.side = "SELL"
    /\ b.type = "Limit" => t.price <= b.price
    /\ s.type = "Limit" => t.price >= s.price

\* An order is closed in the table before the trade that fills it is saved, so
\* a request that stops between the two never leaves a trade whose orders are
\* both open to be matched for the same size again.
EveryTradeClosesAnOrder ==
  \A i \in DOMAIN trades :
    orders[trades[i].buy].isFilled \/ orders[trades[i].sell].isFilled

\* The emit before the first trade of a pair throws, in saveOrder before the
\* match and in the first updateOrder after it has begun: a pair without a
\* trade never gets one.
NoFirstTrade ==
  \A i \in DOMAIN trades : trades[i].symbol \in TradedSymbols

\* The lists in memory are shared by all pairs, and any request may replace them
\* at any await.  Still a trade with a market order in it is between two orders
\* of the pair it is saved under: saveMarketOrder starts to match in the step
\* that assigned its own lists, which saveOrder does not.
TradesWithinPair ==
  \A i \in DOMAIN trades :
    LET b == orders[trades[i].buy]
        s == orders[trades[i].sell] IN
    "Market" \in {b.type, s.type} => b.symbol = trades[i].symbol /\ s.symbol = trades[i].symbol

\* No late updateOrder opens a closed order again or moves an order, and no
\* trade disappears.
NothingReopened ==
  /\ \A i \in DOMAIN orders :
       /\ i \in DOMAIN orders'
       /\ orders[i].isFilled => orders'[i].isFilled
       /\ orders'[i].price = orders[i].price
  /\ \A i \in DOMAIN trades : i \in DOMAIN trades' /\ trades'[i] = trades[i]
FilledIsFinal == [][NothingReopened]_vars
=============================================================================
