----------------------------- MODULE OneAtATime -----------------------------
(***************************************************************************)
(* The matching engine when POST requests come one at a time and nothing   *)
(* is rounded.  Orders of any type, failing statements and kills of the    *)
(* process are allowed; GET orderbooks is not, as it puts lists it read    *)
(* earlier in the place of those a limit order is about to walk.           *)
(*                                                                         *)
(* The parts of the invariants are stated of a table `table` and of what   *)
(* each of its orders has traded, `traded`.                                *)
(***************************************************************************)
EXTENDS OrderBookProps

\* A number that a column can hold.
Whole(x) == x % Unit = 0

\* A row no request has traded with.
Untraded(row) ==
  /\ row.size = row.orgSize /\ row.size \in Nat /\ Whole(row.size)
  /\ row.filled = 0
  /\ row.isFilled <=> row.size = 0

Environment ==
  /\ MaxInFlight <= 1
  /\ Viewers = {}
  /\ Dust = {0}
  /\ \A t \in RestingTables : \A i \in DOMAIN t : Untraded(t[i])

\* Where a failing match leaves its orders is not followed up.
Calm == Answered({"failed", "lost"}) = {}

Traded == [i \in DOMAIN orders |-> TradedSize(i)]
-----------------------------------------------------------------------------
(* Rows.                                                                   *)

\* What order i still has to trade.
Left(i, table, traded) == table[i].orgSize - traded[i]

\* Amounts are whole, and no order trades more than its size.
AmountsOK(table, traded) ==
  \A i \in DOMAIN table :
    Left(i, table, traded) \in Nat /\ Whole(Left(i, table, traded)) /\ Whole(traded[i])

\* The columns of a row.
Shows(row, size, filled, closed) ==
  row.size = size /\ row.filled = filled /\ row.isFilled = closed

\* The row tells what order i has traded.
RowOK(i, table, traded) ==
  Shows(table[i], Left(i, table, traded), traded[i], Left(i, table, traded) = 0)

RowsOK(except, table, traded) == \A i \in DOMAIN table \ except : RowOK(i, table, traded)

\* SortsBefore and BeyondLimit, of rows of `table`.
Precedes(i, j, table) ==
  \/ IF table[i].side = "BUY" THEN table[i].price < table[j].price
                              ELSE table[i].price > table[j].price
  \/ table[i].price = table[j].price /\ table[i].created <= table[j].created

OutOfReach(i, j, table) ==
  BookLimit <= Cardinality({n \in 1 .. j - 1 : /\ n # i
                                                /\ table[n].side = table[i].side
                                                /\ table[n].symbol = table[i].symbol
                                                /\ Precedes(n, i, table)})
-----------------------------------------------------------------------------
(* A request.                                                              *)

\* What a match may still meet, the first n entries of the list: orders of its
\* pair, worst first, and all open ones of the other side that the query was not
\* too short for.
WalkOK(r, list, n, table) ==
  /\ \A k \in 1 .. n : /\ list[k].id \in DOMAIN table
                       /\ table[list[k].id].symbol = r.ord.symbol
                       /\ table[list[k].id].side = Opposite(r.ord.side)
                       /\ table[list[k].id].price = list[k].price
  /\ \A j, k \in 1 .. n : j < k => /\ list[j].id # list[k].id
                                   /\ Precedes(list[j].id, list[k].id, table)
  /\ \A o \in DOMAIN table :
       /\ table[o].side = Opposite(r.ord.side)
       /\ table[o].symbol = r.ord.symbol
       /\ ~table[o].isFilled
       => (\E k \in 1 .. n : list[k].id = o) \/ OutOfReach(o, r.ord.id, table)

\* An entry that shows its row.
EntryOK(e, table, traded) ==
  LET left == Left(e.id, table, traded) IN
  e.size = left /\ e.filled = traded[e.id] /\ left > 0

EntriesOK(list, n, table, traded) == \A k \in 1 .. n : EntryOK(list[k], table, traded)

\* The order object knows what its order has traded.
OrderOK(r, table, traded) == EntryOK(r.ord, table, traded)

\* The list of the other side shows the table as it is.
FreshOK(r, list, table, traded) ==
  WalkOK(r, list, Len(list), table) /\ EntriesOK(list, Len(list), table, traded)

\* The two orders of a fill, its two updates and its trade, between any two steps.
StageOK(r, e, table, traded) ==
  LET own == r.ord.id
      size == r.ord.size
      filled == r.ord.filled
      ownOK == RowOK(own, table, traded)
      otherOK == RowOK(e.id, table, traded)
      left == Left(own, table, traded)
      otherLeft == Left(e.id, table, traded)
      before == OrderOK(r, table, traded) /\ EntryOK(e, table, traded) IN
  \/ /\ r.step = "takerClosed"
     /\ before /\ size <= e.size /\ otherOK
     /\ IF r.pc = "update"
        THEN ownOK /\ r.upd = [id |-> own, size |-> 0, filled |-> filled + size, close |-> TRUE]
        ELSE Shows(table[own], 0, filled + size, TRUE)
  \/ /\ r.step = "fullTraded" /\ r.pc = "trade"
     /\ before /\ size <= e.size /\ otherOK
     /\ r.qty = size
     /\ Shows(table[own], 0, filled + size, TRUE)
  \/ /\ r.step = "fullTraded" /\ r.pc # "trade"
     /\ left = 0 /\ ownOK
     /\ otherLeft = e.size - size /\ traded[e.id] = e.filled + size
     /\ Shows(table[e.id], e.size, e.filled, FALSE)
  \/ /\ r.step = "makerUpdated"
     /\ left = 0 /\ ownOK
     /\ IF r.pc = "update"
        THEN /\ ~table[e.id].isFilled
             /\ r.upd = [id |-> e.id, size |-> otherLeft, filled |-> traded[e.id],
                         close |-> otherLeft = 0]
        ELSE otherOK
  \/ /\ r.step = "makerClosed"
     /\ before /\ e.size < size /\ ownOK
     /\ IF r.pc = "update"
        THEN /\ otherOK
             /\ r.upd = [id |-> e.id, size |-> 0, filled |-> e.filled + e.size, close |-> TRUE]
        ELSE Shows(table[e.id], 0, e.filled + e.size, TRUE)
  \/ /\ r.step = "partTraded" /\ r.pc = "trade"
     /\ before /\ e.size < size /\ ownOK
     /\ r.qty = e.size
     /\ Shows(table[e.id], 0, e.filled + e.size, TRUE)
  \/ /\ r.step = "partTraded" /\ r.pc # "trade"
     /\ otherLeft = 0 /\ otherOK
     /\ left = size - e.size /\ traded[own] = filled + e.size /\ left > 0
     /\ Shows(table[own], size, filled, FALSE)
  \/ /\ r.step = "takerUpdated"
     /\ OrderOK(r, table, traded) /\ otherLeft = 0 /\ otherOK
     /\ IF r.pc = "update"
        THEN /\ ~table[own].isFilled
             /\ r.upd = [id |-> own, size |-> size, filled |-> filled, close |-> FALSE]
        ELSE ownOK

\* A match: all rows but the two of the fill are settled.
MatchOK(r, list, table, traded) ==
  LET e == list[r.idx] IN
  /\ WalkOK(r, list, r.idx, table)
  /\ EntriesOK(list, r.idx - 1, table, traded)
  /\ StageOK(r, e, table, traded)
  /\ e.id # r.ord.id
  /\ RowsOK({r.ord.id, e.id}, table, traded)

\* A request that has not begun to match.
PlacingOK(r, book, table, traded) ==
  /\ RowsOK({}, table, traded)
  /\ r.pc = "insert" => r.ord.size \in Sizes /\ r.ord.filled = 0
  /\ r.pc # "insert" => OrderOK(r, table, traded)
  /\ r.pc \in {"sells", "assign"} /\ r.ord.side = "SELL" => FreshOK(r, r.buys, table, traded)
  /\ r.pc = "assign" /\ r.ord.side = "BUY" => FreshOK(r, r.sells, table, traded)
  /\ r.pc = "emit" => FreshOK(r, book[Opposite(r.ord.side)], table, traded)

\* The order of a request that has inserted it is the newest one.
NewestOK(r, table) ==
  r.pc # "insert" => r.ord.id = Len(table) /\ table[r.ord.id].symbol = r.ord.symbol

RunOK(r, mem, book, table, traded) ==
  /\ NewestOK(r, table)
  /\ r.step \in {"saved", "placed"} => PlacingOK(r, mem[book], table, traded)
  /\ r.step \in MatchSteps => MatchOK(r, mem[r.ref][Opposite(r.ord.side)], table, traded)

\* One request runs, and only those that are done have an answer.
Alone ==
  /\ \A a, b \in Requests : Running(a) /\ Running(b) => a = b
  /\ \A a \in Requests : Running(a) => req[a].step \in PostSteps
  /\ \A a \in Requests : req[a].pc # "done" => req[a].answer = "none"

\* The inductive invariant behind SettledUnlessCaught.
SettledInv ==
  /\ Alone
  /\ Calm => /\ AmountsOK(orders, Traded)
             /\ Quiescent => RowsOK({}, orders, Traded)
             /\ \A a \in Requests : Running(a) => RunOK(req[a], heap, bookRef, orders, Traded)
-----------------------------------------------------------------------------
(* Orders that cross.                                                      *)

\* A BUY and a SELL that should have been matched.
Missed(b, s, table) ==
  /\ table[b].side = "BUY" /\ table[s].side = "SELL" /\ table[b].symbol = table[s].symbol
  /\ table[b].type = "Limit" /\ table[s].type = "Limit"
  /\ ~table[b].isFilled /\ ~table[s].isFilled
  /\ table[b].price >= table[s].price
  /\ IF b < s THEN ~OutOfReach(b, s, table) ELSE ~OutOfReach(s, b, table)

UncrossedTables ==
  \A t \in RestingTables : \A b, s \in DOMAIN t : ~Missed(b, s, t)

\* No request ended early.
Smooth == Answered({"failed", "lost", "error"}) = {}

\* Only the order that is being matched crosses others.
UncrossedInv ==
  Smooth =>
    \A b, s \in DOMAIN orders : Missed(b, s, orders) =>
      \E a \in Requests : Running(a) /\ req[a].pc # "insert" /\ req[a].ord.id \in {b, s}
-----------------------------------------------------------------------------
(* Limit orders that nothing stops.                                        *)

\* The environment in which the engine is the Exchange: clients send limit
\* orders, every pair has traded, no statement fails, and there are never more
\* orders than the query takes.
LimitEnvironment ==
  /\ Environment /\ UncrossedTables
  /\ Types \subseteq {"Limit"}
  /\ TradedSymbols = Symbols
  /\ MaxFaults = 0
  /\ \A t \in RestingTables : /\ Len(t) + Cardinality(Requests) <= BookLimit
                              /\ \A i \in DOMAIN t : t[i].type = "Limit"

Unplaced == {a \in Requests : req[a].pc \in {"idle", "insert"}}

\* What such an environment adds: all orders are limit orders, requests end
\* normally, and there is room for the orders still to come.
LimitInv ==
  /\ \A i \in DOMAIN orders : orders[i].type = "Limit" /\ orders[i].price \in Prices
  /\ \A a \in Requests : /\ req[a].pc = "insert" => /\ req[a].ord.type = "Limit"
                                                    /\ req[a].ord.price \in Prices
                         /\ req[a].answer \in {"none", "ok"}
  /\ Len(orders) + Cardinality(Unplaced) <= BookLimit
=============================================================================
