---------------------------- MODULE MarketProofs ----------------------------
(***************************************************************************)
(* Proof, for every number of requests, pairs, prices, sizes and faults,   *)
(* that the trades of market orders stay within their pair, although limit *)
(* orders, market orders of other pairs and GET requests replace the lists *)
(* that all of them share.                                                 *)
(***************************************************************************)
EXTENDS OrderBookProofs

\* The list shows rows of the pair.
OfPair(list, symbol, table) ==
  \A i \in DOMAIN list : table[list[i].id].symbol = symbol

\* A request is about one pair: so are its order, what it has read, and, if the
\* order is a market order, the list it walks.  Only limit orders wait between
\* the assignment of their lists and the match.
PairOK(r, mem, table) ==
  /\ r.pc \in {"sells", "assign"} => OfPair(r.buys, r.ord.symbol, table)
  /\ r.pc = "assign" => OfPair(r.sells, r.ord.symbol, table)
  /\ r.step \in PostSteps /\ r.pc # "insert" => table[r.ord.id].symbol = r.ord.symbol
  /\ r.step = "placed" => r.ord.type = "Limit"
  /\ r.step \in MatchSteps /\ r.ord.type = "Market" =>
       OfPair(mem[r.ref][Opposite(r.ord.side)], r.ord.symbol, table)

\* Exactly the rows of market orders have no price.
PricesOK(table) == \A i \in DOMAIN table : table[i].price = NoPrice <=> table[i].type = "Market"

\* An order that is about to be inserted has a price unless it is a market order.
PostedOK(r) == r.pc = "insert" => (r.ord.price = NoPrice <=> r.ord.type = "Market")

MInv ==
  /\ \A a \in Actors : PairOK(req[a], heap, orders) /\ PostedOK(req[a])
  /\ PricesOK(orders)
  /\ TradesWithinPair
-----------------------------------------------------------------------------
(* What a step of one actor leaves true of the others.                     *)

\* Rows that are there stay in their pair.
KeepPairs(table, next) ==
  \A i \in DOMAIN table :
    i \in DOMAIN next /\ next[i].symbol = table[i].symbol /\ next[i].type = table[i].type
                      /\ next[i].price = table[i].price

LEMMA PairStable ==
  ASSUME NEW a, NEW r \in Request, NEW mem, NEW table, NEW mem2, NEW table2,
         RequestOK(a, r, mem, table), HeapOK(mem, table), PairOK(r, mem, table),
         KeepPairs(table, table2),
         r.step \in MatchSteps => SameArrays(mem, mem2, r.ref)
  PROVE  PairOK(r, mem2, table2)
<1>1. /\ ListOK("BUY", r.buys, table) /\ ListOK("SELL", r.sells, table)
      /\ r.step \in PostSteps /\ r.pc # "insert" => r.ord.id \in DOMAIN table
  BY DEF RequestOK, OwnRowOK
<1>2. ASSUME NEW side, NEW list, ListOK(side, list, table), OfPair(list, r.ord.symbol, table)
      PROVE  OfPair(list, r.ord.symbol, table2)
  BY <1>2 DEF ListOK, OfPair, KeepPairs
<1>3. /\ r.pc \in {"sells", "assign"} => OfPair(r.buys, r.ord.symbol, table2)
      /\ r.pc = "assign" => OfPair(r.sells, r.ord.symbol, table2)
  BY <1>1, <1>2 DEF PairOK
<1>4. r.step \in PostSteps /\ r.pc # "insert" => table2[r.ord.id].symbol = r.ord.symbol
  BY <1>1 DEF PairOK, KeepPairs
<1>5. ASSUME r.step \in MatchSteps, r.ord.type = "Market"
      PROVE  OfPair(mem2[r.ref][Opposite(r.ord.side)], r.ord.symbol, table2)
  <2> DEFINE side == Opposite(r.ord.side)
  <2>1. r.ref \in Refs /\ side \in Sides
    BY <1>5, ConstantFacts DEF RequestOK, RestingOK, Request, Order
  <2>2. ListOK(side, mem[r.ref][side], table) /\ OfPair(mem[r.ref][side], r.ord.symbol, table)
    BY <1>5, <2>1 DEF HeapOK, PairOK
  <2>3. OfPair(mem[r.ref][side], r.ord.symbol, table2)
    BY <1>2, <2>2
  <2>4. SameArrays(mem, mem2, r.ref)
    BY <1>5
  <2> HIDE DEF side
  <2> QED BY <2>1, <2>3, <2>4 DEF SameArrays, OfPair, side
<1> QED BY <1>3, <1>4, <1>5 DEF PairOK

\* A step of one actor keeps what is said of all requests if it keeps it of that
\* actor's, the rows in their pairs and the arrays that others walk.
LEMMA PairsStep ==
  ASSUME IInv, MInv, NEW a \in Actors, NEW r, req' = [req EXCEPT ![a] = r],
         KeepPairs(orders, orders'),
         \A b \in Actors \ {a} : req[b].step \in MatchSteps => SameArrays(heap, heap', req[b].ref),
         PairOK(r, heap', orders'), PostedOK(r)
  PROVE  \A b \in Actors : PairOK(req'[b], heap', orders') /\ PostedOK(req'[b])
<1> SUFFICES ASSUME NEW b \in Actors
             PROVE  PairOK(req'[b], heap', orders') /\ PostedOK(req'[b])
  OBVIOUS
<1>1. CASE b = a
  BY <1>1 DEF IInv, TypeOK
<1>2. CASE b # a
  <2>1. req'[b] = req[b]
    BY <1>2 DEF IInv, TypeOK
  <2>2. PairOK(req[b], heap, orders) /\ PostedOK(req[b]) /\ HeapOK(heap, orders)
    BY DEF MInv, IInv
  <2>3. req[b] \in Request /\ RequestOK(b, req[b], heap, orders)
    BY ActorFacts
  <2> QED BY <1>2, <2>1, <2>2, <2>3, PairStable
<1> QED BY <1>1, <1>2

\* The trades that are there stay within their pairs.
LEMMA OldTrades ==
  ASSUME IInv, MInv, KeepPairs(orders, orders'), NEW i \in DOMAIN trades
  PROVE  LET b == orders'[trades[i].buy]
             s == orders'[trades[i].sell] IN
         "Market" \in {b.type, s.type} => b.symbol = trades[i].symbol /\ s.symbol = trades[i].symbol
<1>1. trades[i].buy \in DOMAIN orders /\ trades[i].sell \in DOMAIN orders
  BY DEF IInv, TradePriceAcceptable
<1> QED BY <1>1 DEF MInv, TradesWithinPair, KeepPairs

\* A step that touches no table and changes a request.
LEMMA QuietPairs ==
  ASSUME IInv, MInv, NEW a \in Actors, NEW r, req' = [req EXCEPT ![a] = r],
         UNCHANGED <<orders, trades>>,
         \A b \in Actors \ {a} : req[b].step \in MatchSteps => SameArrays(heap, heap', req[b].ref),
         PairOK(r, heap', orders'), PostedOK(r)
  PROVE  MInv'
<1>1. KeepPairs(orders, orders')
  BY DEF KeepPairs
<1>2. \A b \in Actors : PairOK(req'[b], heap', orders') /\ PostedOK(req'[b])
  BY <1>1, PairsStep
<1>3. PricesOK(orders') /\ TradesWithinPair'
  BY DEF MInv, PricesOK, TradesWithinPair
<1> QED BY <1>2, <1>3 DEF MInv

\* And one that leaves the arrays alone as well.
LEMMA QuieterPairs ==
  ASSUME IInv, MInv, NEW a \in Actors, NEW r, req' = [req EXCEPT ![a] = r],
         UNCHANGED <<orders, trades, heap>>, PairOK(r, heap, orders), PostedOK(r)
  PROVE  MInv'
<1>1. \A b \in Actors : SameArrays(heap, heap', req[b].ref)
  BY DEF SameArrays
<1>2. PairOK(r, heap', orders')
  OBVIOUS
<1> QED BY <1>1, <1>2, QuietPairs

\* A request that has ended is about nothing.
LEMMA EndedPairs ==
  ASSUME NEW r \in Request, NEW answer \in Answers, NEW mem, NEW table
  PROVE  PairOK(Finish(r, answer), mem, table) /\ PostedOK(Finish(r, answer))
<1>1. Finish(r, answer).pc = "done" /\ Finish(r, answer).step = "none"
  <2>1. NewRequest \in Request
    BY ConstantFacts
  <2> QED BY ZenonT(90) DEF Finish, NewRequest
<1> QED BY <1>1 DEF PairOK, PostedOK, PostSteps, MatchSteps

LEMMA RejectedPairs ==
  ASSUME NEW r \in Request, NEW mem, NEW table
  PROVE  PairOK(Reject(r), mem, table) /\ PostedOK(Reject(r))
BY EndedPairs DEF Reject, Answers

LEMMA CallFacts ==
  ASSUME NEW r \in Request, NEW step, NEW upd
  PROVE  LET t == CallUpdate(r, step, upd) IN
         t.pc = "update" /\ t.step = step /\ t.ord = r.ord /\ t.ref = r.ref
BY ZenonT(90) DEF CallUpdate, Request

\* A request that goes on in the match it is in stays in its pair.
LEMMA MovedPairs ==
  ASSUME NEW r, NEW t, NEW mem, NEW table, PairOK(r, mem, table),
         r.step \in MatchSteps, t.step \in MatchSteps, r.pc # "insert",
         t.pc \notin {"insert", "sells", "assign"}, t.ref = r.ref,
         t.ord.id = r.ord.id, t.ord.side = r.ord.side, t.ord.type = r.ord.type,
         t.ord.symbol = r.ord.symbol
  PROVE  PairOK(t, mem, table) /\ PostedOK(t)
<1>1. t.step \in PostSteps /\ r.step \in PostSteps /\ t.step # "placed"
  BY DEF MatchSteps, PostSteps
<1> QED BY <1>1 DEF PairOK, PostedOK

\* A turn of the loop ends the request or goes on in the list it was given.
LEMMA TurnPairs ==
  ASSUME NEW r \in Request, NEW mem, NEW table, NEW crossing,
         table[r.ord.id].symbol = r.ord.symbol,
         r.ord.type = "Market" => OfPair(mem[r.ref][Opposite(r.ord.side)], r.ord.symbol, table)
  PROVE  LET t == Turn(r, mem[r.ref][Opposite(r.ord.side)], crossing) IN
         PairOK(t, mem, table) /\ PostedOK(t)
<1> DEFINE list == mem[r.ref][Opposite(r.ord.side)]
           t == Turn(r, list, crossing)
<1>1. ASSUME NEW step \in MatchSteps, NEW upd
      PROVE  PairOK(CallUpdate(r, step, upd), mem, table) /\ PostedOK(CallUpdate(r, step, upd))
  <2> DEFINE u == CallUpdate(r, step, upd)
  <2>1. u.pc = "update" /\ u.step = step /\ u.ord = r.ord /\ u.ref = r.ref
    BY CallFacts
  <2> HIDE DEF u
  <2>2. PairOK(u, mem, table) /\ PostedOK(u)
    BY <2>1 DEF PairOK, PostedOK, MatchSteps
  <2> QED BY <2>2 DEF u
<1>2. CASE r.idx \notin crossing
  BY <1>2, EndedPairs DEF Turn, Answers
<1>3. CASE r.idx \in crossing
  <2>1. \E step \in MatchSteps : \E upd : t = CallUpdate(r, step, upd)
    BY <1>3, ZenonT(90) DEF Turn, MatchSteps
  <2> QED BY <1>1, <2>1
<1> QED BY <1>2, <1>3

LEMMA MatchPairs ==
  ASSUME NEW r \in Request, NEW mem, NEW table,
         table[r.ord.id].symbol = r.ord.symbol,
         r.ord.type = "Market" => OfPair(mem[r.ref][Opposite(r.ord.side)], r.ord.symbol, table)
  PROVE  LET t == Match(r, mem[r.ref][Opposite(r.ord.side)]) IN
         PairOK(t, mem, table) /\ PostedOK(t)
BY TurnPairs DEF Match, MatchBuyOrder, MatchSellOrder, MatchMarketBuyOrder, MatchMarketSellOrder

\* A market order starts to match on a list of its pair.
LEMMA StartPairs ==
  ASSUME NEW r \in Request, NEW mem \in Heaps, NEW table, NEW ref \in Refs,
         table[r.ord.id].symbol = r.ord.symbol,
         r.ord.type = "Market" => OfPair(mem[ref][Opposite(r.ord.side)], r.ord.symbol, table)
  PROVE  LET t == StartMatch(r, ref, mem[ref]) IN
         PairOK(t, mem, table) /\ PostedOK(t)
<1> DEFINE list == mem[ref][Opposite(r.ord.side)]
           r1 == [r EXCEPT !.ref = ref, !.idx = Len(list)]
<1>1. Opposite(r.ord.side) \in Sides
  BY ConstantFacts DEF Request, Order
<1>2. Len(list) \in Nat
  <2>1. list \in Seq(Entry)
    BY <1>1 DEF Heaps
  <2> QED BY <2>1, LenProperties
<1>3. r1 \in Request
  BY <1>2, ZenonT(90) DEF Request
<1>4. r1.ord = r.ord /\ r1.ref = ref
  BY ZenonT(90) DEF Request
<1> HIDE DEF r1
<1>5. PairOK(Match(r1, list), mem, table) /\ PostedOK(Match(r1, list))
  BY <1>3, <1>4, MatchPairs
<1>6. PairOK(Finish(r, "empty"), mem, table) /\ PostedOK(Finish(r, "empty"))
  BY EndedPairs DEF Answers
<1> QED BY <1>5, <1>6 DEF StartMatch, r1

\* A match that has started waits for its first update, or has ended.
LEMMA StartedFacts ==
  ASSUME NEW r \in Request, NEW ref, NEW book
  PROVE  StartMatch(r, ref, book).pc \in {"update", "done"}
<1> DEFINE list == book[Opposite(r.ord.side)]
           r1 == [r EXCEPT !.ref = ref, !.idx = Len(list)]
<1>1. ASSUME NEW q, NEW answer
      PROVE  Finish(q, answer).pc = "done"
  <2>1. NewRequest \in Request
    BY ConstantFacts
  <2> QED BY <2>1, ZenonT(90) DEF Finish, NewRequest
<1>2. ASSUME NEW step, NEW upd
      PROVE  CallUpdate(r1, step, upd).pc = "update"
  BY ZenonT(90) DEF CallUpdate, Request
<1> HIDE DEF r1
<1>3. ASSUME NEW crossing
      PROVE  Turn(r1, list, crossing).pc \in {"update", "done"}
  BY <1>1, <1>2 DEF Turn
<1>4. Match(r1, list).pc \in {"update", "done"}
  BY <1>3 DEF Match, MatchBuyOrder, MatchSellOrder, MatchMarketBuyOrder, MatchMarketSellOrder
<1> QED BY <1>1, <1>4 DEF StartMatch, r1
-----------------------------------------------------------------------------
(* The steps, up to the match.                                             *)

LEMMA InitPairs == Init => MInv
<1> SUFFICES ASSUME Init PROVE MInv
  OBVIOUS
<1>1. PricesOK(orders)
  BY OrderBookAssumption DEF Init, PricesOK
<1>2. TradesWithinPair
  BY DEF Init, TradesWithinPair
<1>3. ASSUME NEW a \in Actors
      PROVE  PairOK(req[a], heap, orders) /\ PostedOK(req[a])
  <2>1. req[a].pc = "idle" /\ req[a].step = "none"
    BY DEF Init, NewRequest
  <2> QED BY <2>1 DEF PairOK, PostedOK, PostSteps, MatchSteps
<1> QED BY <1>1, <1>2, <1>3 DEF MInv

LEMMA SubmitPairs ==
  ASSUME IInv, MInv, NEW a \in Requests, Submit(a)
  PROVE  MInv'
<1>1. PICK side \in Sides, symbol \in Symbols, type \in Types, price \in Prices, size \in Sizes :
        /\ Cardinality({b \in InFlight : req[b].ord.symbol = symbol}) < MaxPerSymbol
        /\ req' = [req EXCEPT ![a] = [@ EXCEPT !.pc = "insert", !.step = "saved",
                     !.ord = Posted(side, symbol, type, price, size)]]
  BY DEF Submit
<1> DEFINE o == Posted(side, symbol, type, price, size)
           r == [req[a] EXCEPT !.pc = "insert", !.step = "saved", !.ord = o]
<1>2. a \in Actors
  BY DEF Actors
<1>3. req' = [req EXCEPT ![a] = r]
  BY <1>1, <1>2 DEF IInv, TypeOK
<1>4. r.pc = "insert" /\ r.step = "saved" /\ r.ord = o
  BY <1>2, ActorFacts, ZenonT(90) DEF Request
<1>5. o.price = NoPrice <=> o.type = "Market"
  BY OrderBookAssumption, ConstantFacts DEF Posted
<1> HIDE DEF r, o
<1>6. PairOK(r, heap, orders) /\ PostedOK(r)
  BY <1>4, <1>5 DEF PairOK, PostedOK, MatchSteps
<1>7. UNCHANGED <<orders, trades, heap>>
  BY DEF Submit
<1> QED BY <1>2, <1>3, <1>6, <1>7, QuieterPairs

LEMMA FetchOrdersPairs ==
  ASSUME IInv, MInv, NEW a \in Viewers, FetchOrders(a)
  PROVE  MInv'
<1> DEFINE r == [req[a] EXCEPT !.pc = "buys", !.step = "fetched"]
<1>1. a \in Actors
  BY DEF Actors
<1>2. req' = [req EXCEPT ![a] = r] /\ UNCHANGED <<orders, trades, heap>>
  BY <1>1 DEF FetchOrders, IInv, TypeOK
<1>3. r.pc = "buys" /\ r.step = "fetched"
  BY <1>1, ActorFacts, ZenonT(90) DEF Request
<1> HIDE DEF r
<1>4. PairOK(r, heap, orders) /\ PostedOK(r)
  BY <1>3 DEF PairOK, PostedOK, PostSteps, MatchSteps
<1> QED BY <1>1, <1>2, <1>4, QuieterPairs

\* findOrders returns rows of the pair it was asked for.
LEMMA FoundPairs ==
  ASSUME TypeOK, NEW side, NEW symbol, NEW list \in FindOrders(side, symbol)
  PROVE  OfPair(list, symbol, orders)
<1> DEFINE open == Open(side, symbol)
           n == IF Cardinality(open) < BookLimit THEN Cardinality(open) ELSE BookLimit
<1>1. PICK l \in [1 .. n -> open] : list = [i \in 1 .. n |-> EntryOf(l[i])]
  BY DEF FindOrders
<1>2. ASSUME NEW i \in DOMAIN list
      PROVE  orders[list[i].id].symbol = symbol
  <2>1. i \in 1 .. n /\ list[i] = EntryOf(l[i]) /\ l[i] \in open
    <3> HIDE DEF n, open
    <3> QED BY <1>1
  <2>2. list[i].id = l[i]
    BY <2>1 DEF EntryOf
  <2> QED BY <2>1, <2>2 DEF Open
<1> QED BY <1>2 DEF OfPair

LEMMA ReadBuysPairs ==
  ASSUME IInv, MInv, NEW a \in Actors, ReadBuys(a)
  PROVE  MInv'
<1>1. PICK list \in FindOrders("BUY", req[a].ord.symbol) :
        req' = [req EXCEPT ![a] = [@ EXCEPT !.pc = "sells", !.buys = list]]
  BY ZenonT(90) DEF ReadBuys
<1> DEFINE q == req[a]
           r == [q EXCEPT !.pc = "sells", !.buys = list]
<1>2. q.pc = "buys" /\ UNCHANGED <<orders, trades, heap>>
  BY DEF ReadBuys
<1>3. req' = [req EXCEPT ![a] = r]
  BY <1>1 DEF IInv, TypeOK
<1>4. r.pc = "sells" /\ r.buys = list /\ r.step = q.step /\ r.ord = q.ord /\ r.ref = q.ref
  BY ActorFacts, ZenonT(90) DEF Request
<1>5. OfPair(list, q.ord.symbol, orders)
  BY FoundPairs DEF IInv
<1>6. PairOK(q, heap, orders)
  BY DEF MInv
<1> HIDE DEF r, q
<1>7. PairOK(r, heap, orders) /\ PostedOK(r)
  BY <1>2, <1>4, <1>5, <1>6 DEF PairOK, PostedOK
<1> QED BY <1>2, <1>3, <1>7, QuieterPairs

LEMMA ReadSellsPairs ==
  ASSUME IInv, MInv, NEW a \in Actors, ReadSells(a)
  PROVE  MInv'
<1>1. PICK list \in FindOrders("SELL", req[a].ord.symbol) :
        req' = [req EXCEPT ![a] = [@ EXCEPT !.pc = "assign", !.sells = list]]
  BY ZenonT(90) DEF ReadSells
<1> DEFINE q == req[a]
           r == [q EXCEPT !.pc = "assign", !.sells = list]
<1>2. q.pc = "sells" /\ UNCHANGED <<orders, trades, heap>>
  BY DEF ReadSells
<1>3. req' = [req EXCEPT ![a] = r]
  BY <1>1 DEF IInv, TypeOK
<1>4. /\ r.pc = "assign" /\ r.sells = list /\ r.buys = q.buys /\ r.step = q.step
      /\ r.ord = q.ord /\ r.ref = q.ref
  BY ActorFacts, ZenonT(90) DEF Request
<1>5. OfPair(list, q.ord.symbol, orders)
  BY FoundPairs DEF IInv
<1>6. PairOK(q, heap, orders)
  BY DEF MInv
<1> HIDE DEF r, q
<1>7. PairOK(r, heap, orders) /\ PostedOK(r)
  BY <1>2, <1>4, <1>5, <1>6 DEF PairOK, PostedOK
<1> QED BY <1>2, <1>3, <1>7, QuieterPairs

LEMMA InsertPairs ==
  ASSUME IInv, MInv, NEW a \in Actors, Insert(a)
  PROVE  MInv'
<1> DEFINE o == req[a].ord
           id == Len(orders) + 1
           r == [req[a] EXCEPT !.pc = "buys", !.ord = [o EXCEPT !.id = id]]
<1>1. PICK second :
        orders' = Append(orders,
          [side |-> o.side, symbol |-> o.symbol, type |-> o.type, price |-> o.price,
           size |-> o.size, orgSize |-> o.size, filled |-> 0, isFilled |-> FALSE,
           created |-> second])
  BY DEF Insert
<1> DEFINE row == [side |-> o.side, symbol |-> o.symbol, type |-> o.type, price |-> o.price,
                   size |-> o.size, orgSize |-> o.size, filled |-> 0, isFilled |-> FALSE,
                   created |-> second]
<1>2. row.symbol = o.symbol /\ row.type = o.type /\ row.price = o.price
  OBVIOUS
<1>3. orders' = Append(orders, row)
  BY <1>1
<1> HIDE DEF row
<1>4. orders \in Seq(Row) /\ Len(orders) \in Nat /\ DOMAIN orders = 1 .. Len(orders)
  BY ActorFacts, LenProperties
<1>5. /\ DOMAIN orders' = 1 .. id /\ orders'[id] = row /\ id \notin DOMAIN orders
      /\ \A i \in DOMAIN orders : orders'[i] = orders[i] /\ i \in DOMAIN orders'
      /\ \A i \in DOMAIN orders' : i \in DOMAIN orders \/ i = id
  BY <1>3, <1>4
<1>6. KeepPairs(orders, orders')
  BY <1>5 DEF KeepPairs
<1>7. req' = [req EXCEPT ![a] = r]
  <2>1. req' = [req EXCEPT ![a] = [req[a] EXCEPT !.pc = "buys", !.ord.id = Len(orders) + 1]]
    BY DEF Insert, IInv, TypeOK
  <2> QED BY <2>1
<1>8. r.pc = "buys" /\ r.step = req[a].step /\ r.ord = [o EXCEPT !.id = id]
  BY ActorFacts, ZenonT(90) DEF Request
<1>9. r.ord.id = id /\ r.ord.symbol = o.symbol /\ r.ord.type = o.type
  BY <1>8, ActorFacts DEF Order
<1>10. req[a].pc = "insert" /\ req[a].step = "saved"
  BY ActorFacts DEF Insert, RequestOK
<1>11. o.price = NoPrice <=> o.type = "Market"
  BY <1>10 DEF MInv, PostedOK
<1>12. UNCHANGED <<trades, heap>>
  BY DEF Insert
<1> HIDE DEF r, o, id
<1>13. PairOK(r, heap', orders') /\ PostedOK(r)
  BY <1>2, <1>5, <1>8, <1>9, <1>10 DEF PairOK, PostedOK, MatchSteps
<1>14. \A b \in Actors : PairOK(req'[b], heap', orders') /\ PostedOK(req'[b])
  BY <1>6, <1>7, <1>12, <1>13, PairsStep DEF SameArrays
<1>15. PricesOK(orders')
  BY <1>2, <1>5, <1>11 DEF MInv, PricesOK
<1>16. TradesWithinPair'
  BY <1>6, <1>12, OldTrades DEF TradesWithinPair
<1> QED BY <1>14, <1>15, <1>16 DEF MInv

\* The step that assigns the lists starts the match of a market order on them;
\* a limit order goes on to its emit instead.
LEMMA AssignPairs ==
  ASSUME IInv, MInv, NEW a \in Actors, Assign(a)
  PROVE  MInv'
<1> DEFINE r == req[a]
           t == AfterFill(r)
           u == [t EXCEPT !.buys = <<>>, !.sells = <<>>]
<1>1. FreshRef \in Refs /\ FreshRef \notin Captured
  BY FreshRefExists DEF IInv
<1>2. /\ orders' = orders /\ trades' = trades
      /\ heap' = [f \in Refs |-> IF f = FreshRef THEN Loaded(r)
                                 ELSE IF f \in Captured THEN heap[f] ELSE EmptyBook]
  BY DEF Assign, FillOrderBook
<1>3. \A b \in Requests : req[b].ref \in Refs => heap'[req[b].ref] = heap[req[b].ref]
  BY <1>1, <1>2 DEF Captured
<1>4. \A b \in Actors : req[b].step \in MatchSteps => SameArrays(heap, heap', req[b].ref)
  <2> SUFFICES ASSUME NEW b \in Actors, req[b].step \in MatchSteps
               PROVE  SameArrays(heap, heap', req[b].ref)
    OBVIOUS
  <2>1. heap'[req[b].ref] = heap[req[b].ref]
    BY <1>3, MatchStepFacts
  <2> QED BY <2>1 DEF SameArrays
<1>5. r \in Request /\ r.pc = "assign" /\ r.ord \in Order /\ PairOK(r, heap, orders)
  BY ActorFacts DEF Assign, MInv
<1>6. heap' \in Heaps
  <2>1. r.buys \in Seq(Entry) /\ r.sells \in Seq(Entry)
    BY <1>5, ZenonT(90) DEF Request
  <2>2. Loaded(r) \in [Sides -> Seq(Entry)]
    BY <2>1 DEF Loaded
  <2> QED BY <1>2, <2>2, ConstantFacts, ActorFacts DEF Heaps
<1>7. t \in Request /\ PairOK(t, heap', orders) /\ PostedOK(t) /\ t.pc \notin {"sells", "assign"}
  <2>1. CASE r.step = "fetched"
    <3>1. t = Finish(r, "ok") /\ "ok" \in Answers
      BY <2>1 DEF AfterFill, Answers
    <3>2. t.pc = "done"
      <4>1. NewRequest \in Request
        BY ConstantFacts
      <4> QED BY <3>1, ZenonT(90) DEF Finish, NewRequest
    <3> QED BY <1>5, <3>1, <3>2, EndedPairs, FinishFacts
  <2>2. CASE r.step = "saved" /\ r.ord.type = "Market"
    <3>1. t = StartMatch(r, FreshRef, heap'[FreshRef])
      BY <1>1, <1>2, <2>2 DEF AfterFill
    <3>2. orders[r.ord.id].symbol = r.ord.symbol
      BY <1>5, <2>2 DEF PairOK, PostSteps
    <3>3. heap'[FreshRef] = Loaded(r)
      BY <1>1, <1>2
    <3>4. OfPair(heap'[FreshRef][Opposite(r.ord.side)], r.ord.symbol, orders)
      <4>1. Loaded(r)[Opposite(r.ord.side)] \in {r.buys, r.sells}
        BY <1>5, ConstantFacts DEF Loaded, Order
      <4> QED BY <1>5, <3>3, <4>1 DEF PairOK
    <3>5. PairOK(t, heap', orders) /\ PostedOK(t)
      BY <1>1, <1>5, <1>6, <3>1, <3>2, <3>4, StartPairs
    <3>6. a \in Requests /\ OwnRowOK(r, orders)
      BY <1>5, <2>2, ActorFacts DEF RequestOK, PostSteps
    <3>7. t \in Request
      <4>1. HeapOK(heap', orders)
        BY <1>2, AssignStep DEF IInv
      <4>2. ListOK("BUY", r.buys, orders) /\ ListOK("SELL", r.sells, orders)
        BY ActorFacts DEF RequestOK
      <4> QED BY <1>1, <1>5, <1>6, <3>1, <3>6, <4>1, <4>2, ActorFacts, StartMatchFacts
    <3>8. t.pc \notin {"sells", "assign"}
      BY <1>5, <3>1, StartedFacts
    <3> QED BY <3>5, <3>7, <3>8
  <2>3. CASE r.step = "saved" /\ r.ord.type # "Market"
    <3>1. t = [r EXCEPT !.pc = "buys", !.step = "placed"]
      BY <2>3 DEF AfterFill
    <3>2. t \in Request /\ t.pc = "buys" /\ t.step = "placed" /\ t.ord = r.ord
      BY <1>5, <3>1, ZenonT(90) DEF Request
    <3>3. r.ord.type = "Limit" /\ orders[r.ord.id].symbol = r.ord.symbol
      BY <1>5, <2>3 DEF PairOK, PostSteps, Order
    <3> HIDE DEF t, r
    <3> QED BY <3>2, <3>3 DEF PairOK, PostedOK, MatchSteps
  <2>4. CASE r.step \notin {"fetched", "saved"}
    <3>1. t = [r EXCEPT !.pc = "emit"]
      BY <2>4 DEF AfterFill
    <3>2. t \in Request /\ t.pc = "emit" /\ t.step = r.step /\ t.ord = r.ord /\ t.ref = r.ref
      BY <1>5, <3>1, ZenonT(90) DEF Request
    <3>3. PairOK(r, heap', orders)
      <4>1. KeepPairs(orders, orders) /\ HeapOK(heap, orders)
        BY DEF KeepPairs, IInv
      <4>2. RequestOK(a, r, heap, orders)
        BY ActorFacts
      <4> QED BY <1>4, <1>5, <4>1, <4>2, PairStable
    <3> HIDE DEF t, r
    <3> QED BY <1>5, <3>2, <3>3 DEF PairOK, PostedOK
  <2> QED BY <2>1, <2>2, <2>3, <2>4
<1>8. u.pc = t.pc /\ u.step = t.step /\ u.ord = t.ord /\ u.ref = t.ref
  <2> HIDE DEF t
  <2> QED BY <1>7, ZenonT(90) DEF Request
<1>9. req' = [req EXCEPT ![a] = u]
  BY DEF Assign, IInv, TypeOK
<1> HIDE DEF u, t
<1>10. PairOK(u, heap', orders') /\ PostedOK(u)
  BY <1>2, <1>7, <1>8 DEF PairOK, PostedOK
<1> QED BY <1>2, <1>4, <1>9, <1>10, QuietPairs
-----------------------------------------------------------------------------
(* The steps of a match.                                                   *)

LEMMA RejectPairs ==
  ASSUME IInv, MInv, NEW a \in Actors, req' = [req EXCEPT ![a] = Reject(@)],
         UNCHANGED <<orders, trades, heap>>
  PROVE  MInv'
<1>1. req' = [req EXCEPT ![a] = Reject(req[a])]
  BY DEF IInv, TypeOK
<1> QED BY <1>1, ActorFacts, RejectedPairs, QuieterPairs

LEMMA CrashPairs ==
  ASSUME IInv, MInv, Crash
  PROVE  MInv'
<1>1. UNCHANGED <<orders, trades>>
  BY DEF Crash
<1>2. ASSUME NEW a \in Actors
      PROVE  PairOK(req'[a], heap', orders') /\ PostedOK(req'[a])
  <2>1. CASE Running(a)
    <3>1. req'[a] = Finish(req[a], "lost")
      BY <2>1 DEF Crash
    <3> QED BY <3>1, ActorFacts, EndedPairs DEF Answers
  <2>2. CASE ~Running(a)
    <3>1. req'[a] = req[a]
      BY <2>2 DEF Crash
    <3>2. req[a].pc \in {"idle", "done"} /\ req[a].step = "none"
      BY <2>2, ActorFacts DEF Running, RequestOK
    <3> QED BY <3>1, <3>2 DEF PairOK, PostedOK, PostSteps, MatchSteps
  <2> QED BY <2>1, <2>2
<1>3. PricesOK(orders') /\ TradesWithinPair'
  BY <1>1 DEF MInv, PricesOK, TradesWithinPair
<1> QED BY <1>2, <1>3 DEF MInv

\* A limit order may start on the lists of another pair; a market order has
\* started before.
LEMMA PlacedPairs ==
  ASSUME IInv, MInv, NEW a \in Actors, Placed(a)
  PROVE  MInv'
<1> DEFINE r == req[a]
           t == StartMatch(r, bookRef, heap[bookRef])
<1>1. r.pc = "emit" /\ r.step = "placed" /\ UNCHANGED <<orders, trades, heap>>
  BY DEF Placed, Resume
<1>2. PairOK(r, heap, orders)
  BY DEF MInv
<1>3. r.ord.type # "Market" /\ orders[r.ord.id].symbol = r.ord.symbol
  BY <1>1, <1>2 DEF PairOK, PostSteps
<1>4. PairOK(t, heap, orders) /\ PostedOK(t)
  BY <1>3, ActorFacts, StartPairs
<1>5. req' = [req EXCEPT ![a] = t]
  BY DEF Placed, IInv, TypeOK
<1> HIDE DEF t, r
<1> QED BY <1>1, <1>4, <1>5, QuieterPairs

LEMMA SavingPairs ==
  ASSUME IInv, MInv, NEW a \in Actors, NEW step \in MatchSteps, NEW qty,
         req[a].step \in MatchSteps, req[a].pc = "emit",
         req' = [req EXCEPT ![a] = CallSaveTrade(req[a], step, qty)],
         UNCHANGED <<orders, trades, heap>>
  PROVE  MInv'
<1> DEFINE r == req[a]
           t == CallSaveTrade(r, step, qty)
<1>1. t.pc = "trade" /\ t.step = step /\ t.ord = r.ord /\ t.ref = r.ref
  BY ActorFacts, ZenonT(90) DEF CallSaveTrade, Request
<1>2. PairOK(r, heap, orders) /\ r.step \in MatchSteps /\ r.pc = "emit"
  BY DEF MInv
<1>3. req' = [req EXCEPT ![a] = t]
  OBVIOUS
<1> HIDE DEF t, r
<1>4. PairOK(t, heap, orders) /\ PostedOK(t)
  BY <1>1, <1>2, MovedPairs
<1> QED BY <1>3, <1>4, QuieterPairs

LEMMA TakerClosedPairs ==
  ASSUME IInv, MInv, NEW a \in Actors, TakerClosed(a)
  PROVE  MInv'
<1>1. /\ req[a].step \in MatchSteps /\ req[a].pc = "emit" /\ "fullTraded" \in MatchSteps
      /\ UNCHANGED <<orders, trades, heap>>
  BY DEF TakerClosed, Resume, MatchSteps
<1>2. req' = [req EXCEPT ![a] = CallSaveTrade(req[a], "fullTraded", req[a].ord.size)]
  BY DEF TakerClosed, IInv, TypeOK
<1> QED BY <1>1, <1>2, SavingPairs

LEMMA MakerClosedPairs ==
  ASSUME IInv, MInv, NEW a \in Actors, MakerClosed(a)
  PROVE  MInv'
<1>1. /\ req[a].step \in MatchSteps /\ req[a].pc = "emit" /\ "partTraded" \in MatchSteps
      /\ UNCHANGED <<orders, trades, heap>>
  BY DEF MakerClosed, Resume, MatchSteps
<1>2. req' = [req EXCEPT ![a] = CallSaveTrade(req[a], "partTraded", Resting(req[a]).size)]
  BY DEF MakerClosed, IInv, TypeOK
<1> QED BY <1>1, <1>2, SavingPairs

LEMMA MakerUpdatedPairs ==
  ASSUME IInv, MInv, NEW a \in Actors, MakerUpdated(a)
  PROVE  MInv'
<1>1. UNCHANGED <<orders, trades, heap>>
  BY DEF MakerUpdated, Resume
<1>2. req' = [req EXCEPT ![a] = Finish(req[a], "ok")]
  BY DEF MakerUpdated, IInv, TypeOK
<1> QED BY <1>1, <1>2, ActorFacts, EndedPairs, QuieterPairs DEF Answers

LEMMA FullTradedPairs ==
  ASSUME IInv, MInv, NEW a \in Actors, FullTraded(a)
  PROVE  MInv'
<1> DEFINE r == req[a]
<1>0. PICK left \in Minus(Resting(r).size, r.ord.size) :
        /\ heap' = Shrink(r, left)
        /\ \E upd : req' = [req EXCEPT ![a] = CallUpdate(r, "makerUpdated", upd)]
  BY DEF FullTraded
<1>1. PICK upd :
        /\ heap' = Shrink(r, left)
        /\ req' = [req EXCEPT ![a] = CallUpdate(r, "makerUpdated", upd)]
  BY <1>0
<1>2. r.pc = "emit" /\ r.step = "fullTraded" /\ UNCHANGED <<orders, trades>>
  BY DEF FullTraded, Resume
<1>3. r.step \in MatchSteps
  BY <1>2 DEF MatchSteps
<1>4. left \in Int
  <2>1. r.ord.size \in Int
    BY ActorFacts DEF Order
  <2>2. Resting(r).size \in Int
    BY <1>3, MatchStepFacts DEF Entry
  <2> QED BY <1>0, <2>1, <2>2, MinusFacts
<1>5. \A f \in Refs : SameArrays(heap, heap', f)
  BY <1>1, <1>3, <1>4, ShrinkFacts
<1>6. \A b \in Actors : req[b].step \in MatchSteps => SameArrays(heap, heap', req[b].ref)
  BY <1>5, MatchStepFacts
<1> DEFINE t == CallUpdate(r, "makerUpdated", upd)
<1>7. t.pc = "update" /\ t.step = "makerUpdated" /\ t.ord = r.ord /\ t.ref = r.ref
  BY ActorFacts, CallFacts
<1>8. PairOK(r, heap', orders')
  <2>1. KeepPairs(orders, orders') /\ HeapOK(heap, orders) /\ PairOK(r, heap, orders)
    BY <1>2 DEF KeepPairs, IInv, MInv
  <2> QED BY <1>6, <2>1, ActorFacts, PairStable
<1>9. req' = [req EXCEPT ![a] = t]
  BY <1>1
<1> HIDE DEF t, r
<1>10. PairOK(t, heap', orders') /\ PostedOK(t)
  BY <1>2, <1>3, <1>7, <1>8, MovedPairs DEF MatchSteps
<1> QED BY <1>2, <1>6, <1>9, <1>10, QuietPairs DEF r

LEMMA PartTradedPairs ==
  ASSUME IInv, MInv, NEW a \in Actors, PartTraded(a)
  PROVE  MInv'
<1> DEFINE r == req[a]
<1>1. PICK left, filled, upd :
        req' = [req EXCEPT ![a] =
          CallUpdate([r EXCEPT !.ord.size = left, !.ord.filled = filled], "takerUpdated", upd)]
  BY DEF PartTraded
<1> DEFINE ord == [r.ord EXCEPT !.size = left, !.filled = filled]
           t == [r EXCEPT !.ord = ord, !.pc = "update", !.step = "takerUpdated", !.upd = upd]
<1>2. r.pc = "emit" /\ r.step = "partTraded" /\ UNCHANGED <<orders, trades, heap>>
  BY DEF PartTraded, Resume
<1>3. t.pc = "update" /\ t.step = "takerUpdated" /\ t.ord = ord /\ t.ref = r.ref
  BY ActorFacts, ZenonT(90) DEF Request
<1>4. /\ ord.id = r.ord.id /\ ord.side = r.ord.side /\ ord.type = r.ord.type
      /\ ord.symbol = r.ord.symbol
  BY ActorFacts DEF Order
<1>5. req' = [req EXCEPT ![a] = t]
  <2>1. CallUpdate([r EXCEPT !.ord.size = left, !.ord.filled = filled], "takerUpdated", upd) = t
    BY ActorFacts, ZenonT(90) DEF CallUpdate, Request, Order
  <2> QED BY <1>1, <2>1
<1>6. PairOK(r, heap, orders)
  BY DEF MInv
<1> HIDE DEF t, ord, r
<1>7. PairOK(t, heap, orders) /\ PostedOK(t)
  BY <1>2, <1>3, <1>4, <1>6, MovedPairs DEF MatchSteps
<1> QED BY <1>2, <1>5, <1>7, QuieterPairs

LEMMA TakerUpdatedPairs ==
  ASSUME IInv, MInv, NEW a \in Actors, TakerUpdated(a)
  PROVE  MInv'
<1> DEFINE r == req[a]
           r1 == [r EXCEPT !.idx = r.idx - 1]
           t == Match(r1, RestingList(r))
<1>1. r.pc = "emit" /\ r.step = "takerUpdated" /\ UNCHANGED <<orders, trades, heap>>
  BY DEF TakerUpdated, Resume
<1>2. r.step \in MatchSteps
  BY <1>1 DEF MatchSteps
<1>3. r1 \in Request
  <2>1. r.idx \in 1 .. Len(RestingList(r))
    BY <1>2, MatchStepFacts, LenProperties
  <2>2. r.idx - 1 \in Nat
    BY <2>1
  <2> QED BY <2>2, ActorFacts, ZenonT(90) DEF Request
<1>4. r1.ref = r.ref /\ r1.ord = r.ord
  BY ActorFacts, ZenonT(90) DEF Request
<1>5. RestingList(r) = heap[r1.ref][Opposite(r1.ord.side)]
  BY <1>4 DEF RestingList
<1>6. req' = [req EXCEPT ![a] = t]
  BY DEF TakerUpdated
<1>7. PairOK(r, heap, orders)
  BY DEF MInv
<1> HIDE DEF r1
<1>8. /\ orders[r1.ord.id].symbol = r1.ord.symbol
      /\ r1.ord.type = "Market" =>
           OfPair(heap[r1.ref][Opposite(r1.ord.side)], r1.ord.symbol, orders)
  BY <1>1, <1>2, <1>4, <1>7 DEF PairOK, PostSteps
<1>9. PairOK(t, heap, orders) /\ PostedOK(t)
  BY <1>3, <1>5, <1>8, MatchPairs
<1> HIDE DEF t
<1> QED BY <1>1, <1>6, <1>9, QuieterPairs

LEMMA UpdateOrderPairs ==
  ASSUME IInv, MInv, NEW a \in Actors, UpdateOrder(a)
  PROVE  MInv'
<1> DEFINE r == req[a]
           id == r.upd.id
           t == [r EXCEPT !.pc = "buys", !.upd = NoUpdate]
<1>1. PICK size, filled, isFilled :
        orders' = [orders EXCEPT ![id] = [orders[id] EXCEPT !.size = size, !.filled = filled,
                                                            !.isFilled = isFilled]]
  BY DEF UpdateOrder
<1>2. r.pc = "update" /\ UNCHANGED <<trades, heap>>
  BY DEF UpdateOrder
<1>3. r.step \in MatchSteps
  BY <1>2, ActorFacts DEF RequestOK
<1>4. DOMAIN orders' = DOMAIN orders /\ KeepPairs(orders, orders')
  <2>1. \A i \in DOMAIN orders : orders[i] \in Row
    BY ActorFacts
  <2> HIDE DEF id
  <2>2. \A i \in DOMAIN orders :
          orders'[i] = orders[i] \/ orders'[i] = [orders[i] EXCEPT !.size = size, !.filled = filled,
                                                                   !.isFilled = isFilled]
    BY <1>1
  <2>3. DOMAIN orders' = DOMAIN orders
    BY <1>1
  <2> QED BY <2>1, <2>2, <2>3 DEF KeepPairs, Row
<1>5. t.pc = "buys" /\ t.step = r.step /\ t.ord = r.ord /\ t.ref = r.ref
  BY ActorFacts, ZenonT(90) DEF Request
<1>6. req' = [req EXCEPT ![a] = t]
  BY DEF UpdateOrder, IInv, TypeOK
<1>7. \A b \in Actors : SameArrays(heap, heap', req[b].ref)
  BY <1>2 DEF SameArrays
<1>8. PairOK(r, heap', orders')
  <2>1. HeapOK(heap, orders) /\ PairOK(r, heap, orders)
    BY DEF IInv, MInv
  <2> QED BY <1>4, <1>7, <2>1, ActorFacts, PairStable
<1> HIDE DEF t
<1>9. PairOK(t, heap', orders') /\ PostedOK(t)
  BY <1>2, <1>3, <1>5, <1>8, MovedPairs
<1>10. \A b \in Actors : PairOK(req'[b], heap', orders') /\ PostedOK(req'[b])
  BY <1>4, <1>6, <1>7, <1>9, PairsStep
<1>11. PricesOK(orders')
  BY <1>4 DEF MInv, PricesOK, KeepPairs
<1>12. TradesWithinPair'
  BY <1>2, <1>4, OldTrades DEF TradesWithinPair
<1> QED BY <1>10, <1>11, <1>12 DEF MInv

\* The trade that is saved has a price, so it is the request's own order that is
\* the market order, and the resting one is in a list of its pair.
LEMMA SaveTradePairs ==
  ASSUME IInv, MInv, NEW a \in Actors, SaveTrade(a)
  PROVE  MInv'
<1> DEFINE r == req[a]
           new == TradeOf(r)
           t == [r EXCEPT !.pc = "buys", !.qty = 0]
<1>1. r.pc = "trade" /\ UNCHANGED <<orders, heap>>
  BY DEF SaveTrade
<1>2. r.step \in MatchSteps
  BY <1>1, ActorFacts DEF RequestOK
<1>3. CASE Resting(r).price = NoPrice
  <2>1. req' = [req EXCEPT ![a] = Reject(r)] /\ trades' = trades
    BY <1>3 DEF SaveTrade
  <2> QED BY <1>1, <2>1, ActorFacts, RejectedPairs, QuieterPairs
<1>4. CASE Resting(r).price # NoPrice
  <2>1. trades' = Append(trades, new) /\ req' = [req EXCEPT ![a] = t]
    BY <1>4 DEF SaveTrade
  <2>2. /\ Resting(r).id \in DOMAIN orders /\ orders[Resting(r).id].price = Resting(r).price
        /\ OwnRowOK(r, orders) /\ RestingList(r) = heap[r.ref][Opposite(r.ord.side)]
        /\ r.idx \in DOMAIN RestingList(r) /\ Resting(r) = RestingList(r)[r.idx]
    BY <1>2, MatchStepFacts DEF RestingList, Resting
  <2>3. PairOK(r, heap, orders)
    BY DEF MInv
  <2>4. orders[Resting(r).id].type # "Market"
    BY <1>4, <2>2 DEF MInv, PricesOK
  <2>5. orders[r.ord.id].type = r.ord.type /\ orders[r.ord.id].symbol = r.ord.symbol
    BY <1>1, <1>2, <2>2, <2>3 DEF OwnRowOK, PairOK, PostSteps
  <2>6. ASSUME r.ord.type = "Market"
        PROVE  orders[Resting(r).id].symbol = r.ord.symbol
    <3>1. OfPair(RestingList(r), r.ord.symbol, orders)
      BY <1>2, <2>2, <2>3, <2>6 DEF PairOK
    <3>2. r.idx \in DOMAIN RestingList(r) /\ Resting(r) = RestingList(r)[r.idx]
      BY <2>2
    <3> QED BY <3>1, <3>2, ZenonT(90) DEF OfPair
  <2>7. /\ new.symbol = r.ord.symbol
        /\ \/ new.buy = r.ord.id /\ new.sell = Resting(r).id
           \/ new.buy = Resting(r).id /\ new.sell = r.ord.id
    BY DEF TradeOf
  <2> HIDE DEF new
  <2>8. LET b == orders[new.buy]
            s == orders[new.sell] IN
        "Market" \in {b.type, s.type} => b.symbol = new.symbol /\ s.symbol = new.symbol
    BY <2>4, <2>5, <2>6, <2>7
  <2>9. \A i \in DOMAIN trades' : trades'[i] = new \/ (i \in DOMAIN trades /\ trades'[i] = trades[i])
    BY <2>1, ActorFacts, AppendProperties, LenProperties
  <2>10. TradesWithinPair'
    BY <1>1, <2>8, <2>9 DEF MInv, TradesWithinPair
  <2>11. t.pc = "buys" /\ t.step = r.step /\ t.ord = r.ord /\ t.ref = r.ref
    BY ActorFacts, ZenonT(90) DEF Request
  <2> HIDE DEF t
  <2>12. PairOK(t, heap, orders) /\ PostedOK(t)
    BY <1>1, <1>2, <2>3, <2>11, MovedPairs
  <2>13. \A b \in Actors : PairOK(req'[b], heap', orders') /\ PostedOK(req'[b])
    BY <1>1, <2>1, <2>12, PairsStep DEF KeepPairs, SameArrays
  <2>14. PricesOK(orders')
    BY <1>1 DEF MInv
  <2> QED BY <2>10, <2>13, <2>14 DEF MInv
<1> QED BY <1>3, <1>4
-----------------------------------------------------------------------------
LEMMA ProgressPairs ==
  ASSUME IInv, MInv, NEW a \in Actors, Progress(a)
  PROVE  MInv'
<1>1. ASSUME EmitThrows(a)
      PROVE  MInv'
  BY <1>1, RejectPairs DEF EmitThrows
<1> QED BY <1>1, InsertPairs, ReadBuysPairs, ReadSellsPairs, AssignPairs, PlacedPairs,
           TakerClosedPairs, FullTradedPairs, MakerUpdatedPairs, MakerClosedPairs,
           PartTradedPairs, TakerUpdatedPairs, UpdateOrderPairs, SaveTradePairs DEF Progress

LEMMA NextPairs ==
  ASSUME IInv, MInv, [Next]_vars
  PROVE  MInv'
<1>1. ASSUME NEW a \in Actors, Fail(a)
      PROVE  MInv'
  BY <1>1, RejectPairs DEF Fail
<1>2. CASE UNCHANGED vars
  BY <1>2 DEF vars, MInv, TradesWithinPair
<1> QED BY <1>1, <1>2, SubmitPairs, FetchOrdersPairs, ProgressPairs, CrashPairs DEF Next

\* A trade with a market order in it is between two orders of the pair it is
\* saved under, whatever other requests load and match meanwhile.
THEOREM MarketTradesWithinPair == Spec => []TradesWithinPair
<1>1. MInv => TradesWithinPair
  BY DEF MInv
<1> QED BY <1>1, Invariant, InitPairs, NextPairs, PTL DEF Spec
=============================================================================
