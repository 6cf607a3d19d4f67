-------------------------- MODULE OrderBookProofs --------------------------
(***************************************************************************)
(* Proofs, for every number of requests, pairs, prices and faults, that    *)
(* OrderBook has its types, and that however requests interleave, fail and *)
(* crash a trade keeps both limits, has closed an order, and needs a trade *)
(* of its pair before it.                                                  *)
(***************************************************************************)
EXTENDS OrderBookInv, FiniteSetTheorems, SequenceTheorems, TLAPS

LEMMA ConstantFacts ==
  /\ FetchSymbol \in Symbols
  /\ NoOrder \in Order
  /\ NoUpdate \in Update
  /\ NewRequest \in Request
  /\ EmptyBook \in [Sides -> Seq(Entry)]
  /\ Prices \subseteq Nat /\ NoPrice \notin Prices
  /\ \A s \in Sides : Opposite(s) \in Sides
<1>1. /\ FetchSymbol \in Symbols /\ Prices \subseteq Nat /\ NoPrice \notin Prices
      /\ NoOrder \in Order /\ NoUpdate \in Update
  BY OrderBookAssumption DEF NoOrder, Order, NoUpdate, Update, NoPrice, Sides
<1>2. NewRequest \in Request
  BY <1>1 DEF NewRequest, Request, NoRef
<1>3. EmptyBook \in [Sides -> Seq(Entry)] /\ \A s \in Sides : Opposite(s) \in Sides
  BY DEF EmptyBook, Opposite, Sides
<1> QED BY <1>1, <1>2, <1>3

LEMMA RefsFacts ==
  /\ Cardinality(Requests) \in Nat
  /\ IsFiniteSet(Refs) /\ Cardinality(Refs) = Cardinality(Requests) + 1
  /\ 1 \in Refs
<1>1. Cardinality(Requests) \in Nat
  BY OrderBookAssumption, FS_CardinalityType
<1>2. IsFiniteSet(Refs) /\ Cardinality(Refs) = Cardinality(Requests) + 1
  BY <1>1, FS_Interval DEF Refs
<1> QED BY <1>1, <1>2 DEF Refs

\* There is always a place for new arrays: fewer are captured than there are places.
LEMMA FreshRefExists ==
  ASSUME TypeOK
  PROVE  FreshRef \in Refs /\ FreshRef \notin Captured
<1> DEFINE refOf == [a \in Requests |-> req[a].ref]
<1>1. refOf \in Surjection(Requests, Captured)
  BY DEF Surjection, Captured
<1>2. IsFiniteSet(Captured) /\ Cardinality(Captured) <= Cardinality(Requests)
  BY <1>1, OrderBookAssumption, FS_Surjection
<1>3. Cardinality(Captured) \in Nat
  BY <1>2, FS_CardinalityType
<1>4. ~(Refs \subseteq Captured)
  BY <1>2, <1>3, RefsFacts, FS_Subset
<1> QED BY <1>4 DEF FreshRef

\* What the query returns is typed, and shows rows of the side that was asked for.
LEMMA FindOrdersFacts ==
  ASSUME TypeOK, NEW side \in Sides, NEW symbol \in Symbols,
         NEW list \in FindOrders(side, symbol)
  PROVE  list \in Seq(Entry) /\ ListOK(side, list, orders)
<1> DEFINE open == Open(side, symbol)
           n == IF Cardinality(open) < BookLimit THEN Cardinality(open) ELSE BookLimit
<1>1. Len(orders) \in Nat /\ DOMAIN orders = 1 .. Len(orders)
  BY DEF TypeOK
<1>2. IsFiniteSet(DOMAIN orders)
  BY <1>1, FS_Interval
<1>3. n \in Nat
  BY <1>2, FS_Subset, FS_CardinalityType, OrderBookAssumption DEF Open
<1>4. PICK l \in [1 .. n -> open] : list = [i \in 1 .. n |-> EntryOf(l[i])]
  BY DEF FindOrders
<1>5. \A i \in 1 .. n : /\ l[i] \in DOMAIN orders
                        /\ orders[l[i]].side = side
                        /\ orders[l[i]] \in Row
  <2> SUFFICES ASSUME NEW i \in 1 .. n
               PROVE  /\ l[i] \in DOMAIN orders
                      /\ orders[l[i]].side = side
                      /\ orders[l[i]] \in Row
    OBVIOUS
  <2>1. l[i] \in Open(side, symbol)
    BY <1>4
  <2>2. \A j \in DOMAIN orders : orders[j] \in Row
    BY <1>1 DEF TypeOK
  <2> QED BY <2>1, <2>2 DEF Open
<1>6. \A i \in 1 .. n : EntryOf(l[i]) \in Entry
  BY <1>5, <1>1 DEF EntryOf, Entry, Row
<1>7. list \in Seq(Entry)
  BY <1>3, <1>4, <1>6
<1>8. ListOK(side, list, orders)
  BY <1>4, <1>5 DEF ListOK, EntryOf
<1> QED BY <1>7, <1>8
-----------------------------------------------------------------------------
(* The operators that make the next state of a request.                    *)

Answers == {"none", "ok", "empty", "failed", "error", "lost"}
Heaps == [Refs -> [Sides -> Seq(Entry)]]

LEMMA FinishFacts ==
  ASSUME NEW a, NEW r \in Request, NEW answer \in Answers, NEW mem, NEW table
  PROVE  /\ Finish(r, answer) \in Request
         /\ RequestOK(a, Finish(r, answer), mem, table)
         /\ Finish(r, answer).ref = NoRef
<1>1. r.ord.id \in Nat
  BY DEF Request, Order
<1>2. [NoOrder EXCEPT !.id = r.ord.id] \in Order
  BY <1>1, ConstantFacts DEF Order
<1>3. Finish(r, answer) \in Request
  BY <1>2, ConstantFacts, ZenonT(90) DEF Finish, Request, Answers
<1>4. /\ Finish(r, answer).pc = "done" /\ Finish(r, answer).step = "none"
      /\ Finish(r, answer).buys = <<>> /\ Finish(r, answer).sells = <<>>
      /\ Finish(r, answer).ref = NoRef
  BY DEF Finish, NewRequest
<1>5. RequestOK(a, Finish(r, answer), mem, table)
  BY <1>4 DEF RequestOK, ListOK, PostSteps, MatchSteps
<1> QED BY <1>3, <1>4, <1>5

LEMMA RejectFacts ==
  ASSUME NEW a, NEW r \in Request, NEW mem, NEW table
  PROVE  /\ Reject(r) \in Request
         /\ RequestOK(a, Reject(r), mem, table)
         /\ Reject(r).ref = NoRef
BY FinishFacts DEF Reject, Answers

\* A turn of the loop looks at a place it may fill from, or ends the request.
LEMMA TurnFacts ==
  ASSUME NEW a \in Requests, NEW r \in Request, NEW mem \in Heaps, NEW table \in Seq(Row),
         HeapOK(mem, table), OwnRowOK(r, table), r.ref \in Refs,
         ListOK("BUY", r.buys, table), ListOK("SELL", r.sells, table),
         NEW crossing \in SUBSET DOMAIN mem[r.ref][Opposite(r.ord.side)],
         \A i \in crossing : Accepts(r.ord, mem[r.ref][Opposite(r.ord.side)][i].price)
  PROVE  LET t == Turn(r, mem[r.ref][Opposite(r.ord.side)], crossing) IN
         t \in Request /\ RequestOK(a, t, mem, table) /\ t.ref \in {NoRef, r.ref}
<1> DEFINE list == mem[r.ref][Opposite(r.ord.side)]
           t == Turn(r, list, crossing)
<1>1. CASE r.idx \notin crossing
  <2>1. t = Finish(r, "ok")
    BY <1>1 DEF Turn
  <2>2. /\ Finish(r, "ok") \in Request /\ RequestOK(a, Finish(r, "ok"), mem, table)
        /\ Finish(r, "ok").ref = NoRef
    BY FinishFacts DEF Answers
  <2> QED BY <2>1, <2>2
<1>2. CASE r.idx \in crossing
  <2> DEFINE resting == list[r.idx]
             own == [id |-> r.ord.id, size |-> 0, filled |-> r.ord.filled + r.ord.size,
                     close |-> TRUE]
             other == [id |-> resting.id, size |-> 0, filled |-> resting.filled + resting.size,
                       close |-> TRUE]
  <2>1. r.ord \in Order /\ r.ord.id \in Nat /\ r.ord.filled \in Int /\ r.ord.size \in Int
        /\ r.ord.side \in Sides
    BY DEF Request, Order
  <2>2. Opposite(r.ord.side) \in Sides /\ list \in Seq(Entry) /\ r.idx \in DOMAIN list
    BY <1>2, <2>1, ConstantFacts DEF Heaps
  <2>3. resting \in Entry
    BY <2>2
  <2>4. own \in Update /\ other \in Update
    <3>1. own \in Update
      BY <2>1 DEF Update
    <3>2. other \in Update
      <4>1. resting.id \in Nat /\ resting.filled + resting.size \in Int
        <5> HIDE DEF resting
        <5> QED BY <2>3 DEF Entry
      <4> HIDE DEF resting
      <4> QED BY <4>1 DEF Update
    <3> QED BY <3>1, <3>2
  <2>5. resting.id \in DOMAIN table
    BY <2>2 DEF HeapOK, ListOK
  <2>6. Accepts(r.ord, resting.price)
    BY <1>2
  <2>7. own.id = r.ord.id /\ own.close
    OBVIOUS
  <2>8. other.id = resting.id /\ other.close
    OBVIOUS
  <2>9. CASE resting.size >= r.ord.size
    <3>1. t = [r EXCEPT !.pc = "update", !.step = "takerClosed", !.upd = own]
      BY <1>2, <2>9 DEF Turn, CallUpdate
    <3>2. t \in Request
      BY <3>1, <2>4, ZenonT(90) DEF Request
    <3>3. /\ t.pc = "update" /\ t.step = "takerClosed" /\ t.upd = own /\ t.ref = r.ref
          /\ t.idx = r.idx /\ t.ord = r.ord /\ t.buys = r.buys /\ t.sells = r.sells
      BY <3>1 DEF Request
    <3>4. OwnRowOK(t, table) /\ RestingOK(t, mem)
      BY <3>3, <2>2, <2>6 DEF OwnRowOK, RestingOK
    <3>5. WriteOK(t, mem, table)
      <4>1. t.upd.id = t.ord.id /\ t.upd.close
        <5> HIDE DEF t, own, other, resting
        <5> QED BY <3>3, <2>7
      <4> HIDE DEF t, own, other, resting
      <4> QED BY <4>1, <3>3 DEF WriteOK, OwnRowOK
    <3> QED BY <3>2, <3>3, <3>4, <3>5 DEF RequestOK, PostSteps, MatchSteps
  <2>10. CASE ~(resting.size >= r.ord.size)
    <3>1. t = [r EXCEPT !.pc = "update", !.step = "makerClosed", !.upd = other]
      BY <1>2, <2>10 DEF Turn, CallUpdate
    <3>2. t \in Request
      BY <3>1, <2>4, ZenonT(90) DEF Request
    <3>3. /\ t.pc = "update" /\ t.step = "makerClosed" /\ t.upd = other /\ t.ref = r.ref
          /\ t.idx = r.idx /\ t.ord = r.ord /\ t.buys = r.buys /\ t.sells = r.sells
      BY <3>1 DEF Request
    <3>4. OwnRowOK(t, table) /\ RestingOK(t, mem)
      BY <3>3, <2>2, <2>6, ZenonT(90) DEF OwnRowOK, RestingOK
    <3>5. WriteOK(t, mem, table)
      <4>1. mem[t.ref][Opposite(t.ord.side)][t.idx].id = resting.id
        BY <3>3
      <4>2. t.upd.id = resting.id /\ t.upd.close
        <5> HIDE DEF t, own, other, resting
        <5> QED BY <3>3, <2>8
      <4> QED BY <4>1, <4>2, <3>3, <2>5, ZenonT(90) DEF WriteOK
    <3> QED BY <3>2, <3>3, <3>4, <3>5 DEF RequestOK, PostSteps, MatchSteps
  <2> QED BY <2>9, <2>10
<1> QED BY <1>1, <1>2

LEMMA MatchFacts ==
  ASSUME NEW a \in Requests, NEW r \in Request, NEW mem \in Heaps, NEW table \in Seq(Row),
         HeapOK(mem, table), OwnRowOK(r, table), r.ref \in Refs,
         ListOK("BUY", r.buys, table), ListOK("SELL", r.sells, table)
  PROVE  LET t == Match(r, mem[r.ref][Opposite(r.ord.side)]) IN
         t \in Request /\ RequestOK(a, t, mem, table) /\ t.ref \in {NoRef, r.ref}
<1> DEFINE list == mem[r.ref][Opposite(r.ord.side)]
           cheap == {i \in DOMAIN list : list[i].price <= r.ord.price}
           dear == {i \in DOMAIN list : list[i].price >= r.ord.price}
<1>1. CASE r.ord.type # "Limit"
  <2>1. Match(r, list) = Turn(r, list, DOMAIN list)
    BY <1>1 DEF Match, MatchMarketBuyOrder, MatchMarketSellOrder
  <2>2. \A i \in DOMAIN list : Accepts(r.ord, list[i].price)
    BY <1>1 DEF Accepts
  <2>3. DOMAIN list \in SUBSET DOMAIN list
    OBVIOUS
  <2>4. LET t == Turn(r, list, DOMAIN list) IN
        t \in Request /\ RequestOK(a, t, mem, table) /\ t.ref \in {NoRef, r.ref}
    BY <2>2, <2>3, TurnFacts
  <2> QED BY <2>1, <2>4
<1>2. CASE r.ord.type = "Limit" /\ r.ord.side = "BUY"
  <2>1. Match(r, list) = Turn(r, list, cheap)
    BY <1>2 DEF Match, MatchBuyOrder
  <2>2. \A i \in cheap : Accepts(r.ord, list[i].price)
    BY <1>2 DEF Accepts
  <2>3. cheap \in SUBSET DOMAIN list
    OBVIOUS
  <2> HIDE DEF cheap
  <2> QED BY <2>1, <2>2, <2>3, TurnFacts, ZenonT(90)
<1>3. CASE r.ord.type = "Limit" /\ r.ord.side # "BUY"
  <2>1. Match(r, list) = Turn(r, list, dear)
    BY <1>3 DEF Match, MatchSellOrder
  <2>2. \A i \in dear : Accepts(r.ord, list[i].price)
    BY <1>3 DEF Accepts
  <2>3. dear \in SUBSET DOMAIN list
    OBVIOUS
  <2> HIDE DEF dear
  <2> QED BY <2>1, <2>2, <2>3, TurnFacts, ZenonT(90)
<1> QED BY <1>1, <1>2, <1>3

\* A match that starts captures the arrays it is given, or ends the request.
LEMMA StartMatchFacts ==
  ASSUME NEW a \in Requests, NEW r \in Request, NEW mem \in Heaps, NEW table \in Seq(Row),
         NEW ref \in Refs, HeapOK(mem, table), OwnRowOK(r, table),
         ListOK("BUY", r.buys, table), ListOK("SELL", r.sells, table)
  PROVE  LET t == StartMatch(r, ref, mem[ref]) IN
         t \in Request /\ RequestOK(a, t, mem, table) /\ t.ref \in {NoRef, ref}
<1> DEFINE list == mem[ref][Opposite(r.ord.side)]
           r1 == [r EXCEPT !.ref = ref, !.idx = Len(list)]
<1>1. r.ord.side \in Sides
  BY DEF Request, Order
<1>2. list \in Seq(Entry)
  BY <1>1, ConstantFacts DEF Heaps
<1>3. r1 \in Request
  BY <1>2, LenProperties DEF Request
<1>4. r1.ref = ref /\ r1.ord = r.ord /\ r1.buys = r.buys /\ r1.sells = r.sells
  BY DEF Request
<1>5. OwnRowOK(r1, table)
  BY <1>4 DEF OwnRowOK
<1> HIDE DEF r1
<1>6. LET t == Match(r1, list) IN
      t \in Request /\ RequestOK(a, t, mem, table) /\ t.ref \in {NoRef, ref}
  BY <1>3, <1>4, <1>5, MatchFacts
<1>7. Finish(r, "empty") \in Request /\ RequestOK(a, Finish(r, "empty"), mem, table)
      /\ Finish(r, "empty").ref = NoRef
  BY FinishFacts DEF Answers
<1> QED BY <1>6, <1>7 DEF StartMatch, r1
-----------------------------------------------------------------------------
(* What a step of one actor leaves true of the others.                     *)

\* Rows are added, and those there are keep what lists and trades rely on.
Extends(table, next) ==
  \A i \in DOMAIN table :
    /\ i \in DOMAIN next
    /\ next[i].side = table[i].side
    /\ next[i].type = table[i].type
    /\ next[i].price = table[i].price
    /\ table[i].isFilled => next[i].isFilled

\* The arrays at f are the same, but for the sizes in them.
SameArrays(mem, next, f) ==
  \A s \in Sides :
    /\ DOMAIN next[f][s] = DOMAIN mem[f][s]
    /\ \A i \in DOMAIN mem[f][s] : /\ next[f][s][i].id = mem[f][s][i].id
                                   /\ next[f][s][i].price = mem[f][s][i].price

LEMMA ListStable ==
  ASSUME NEW table, NEW next, Extends(table, next), NEW side, NEW list, ListOK(side, list, table)
  PROVE  ListOK(side, list, next)
BY DEF Extends, ListOK

LEMMA HeapStable ==
  ASSUME NEW table, NEW next, Extends(table, next), NEW mem, HeapOK(mem, table)
  PROVE  HeapOK(mem, next)
BY ListStable DEF HeapOK

LEMMA RequestStable ==
  ASSUME NEW a, NEW r \in Request, NEW mem, NEW table, NEW mem2, NEW table2,
         HeapOK(mem, table), RequestOK(a, r, mem, table), Extends(table, table2),
         r.step \in MatchSteps => SameArrays(mem, mem2, r.ref)
  PROVE  RequestOK(a, r, mem2, table2)
<1>1. ListOK("BUY", r.buys, table2) /\ ListOK("SELL", r.sells, table2)
  BY ListStable DEF RequestOK
<1>2. r.pc # "insert" /\ r.step \in PostSteps => OwnRowOK(r, table2)
  BY DEF RequestOK, OwnRowOK, Extends
<1>3. ASSUME r.step \in MatchSteps
      PROVE  RestingOK(r, mem2) /\ WriteOK(r, mem2, table2)
  <2> DEFINE side == Opposite(r.ord.side)
  <2>1. side \in Sides
    BY ConstantFacts DEF Request, Order
  <2>2. RestingOK(r, mem) /\ WriteOK(r, mem, table)
    BY <1>3 DEF RequestOK
  <2>3. /\ DOMAIN mem2[r.ref][side] = DOMAIN mem[r.ref][side]
        /\ mem2[r.ref][side][r.idx].id = mem[r.ref][side][r.idx].id
        /\ mem2[r.ref][side][r.idx].price = mem[r.ref][side][r.idx].price
    BY <1>3, <2>1, <2>2 DEF SameArrays, RestingOK
  <2>4. mem[r.ref][side][r.idx].id \in DOMAIN table
    BY <2>1, <2>2 DEF RestingOK, HeapOK, ListOK
  <2>5. RestingOK(r, mem2)
    BY <2>2, <2>3 DEF RestingOK
  <2>6. r.pc # "insert" => r.ord.id \in DOMAIN table
    BY <1>3 DEF RequestOK, PostSteps, OwnRowOK
  <2>7. r.pc # "insert"
    BY <1>3 DEF RequestOK, MatchSteps
  <2>8. WriteOK(r, mem2, table2)
    BY <2>2, <2>3, <2>4, <2>6, <2>7 DEF WriteOK, Extends
  <2> QED BY <2>5, <2>8
<1> QED BY <1>1, <1>2, <1>3 DEF RequestOK

LEMMA TradesStable ==
  ASSUME TypeOK, TradePriceAcceptable, EveryTradeClosesAnOrder, NoFirstTrade,
         Extends(orders, orders'), trades' = trades
  PROVE  TradePriceAcceptable' /\ EveryTradeClosesAnOrder' /\ NoFirstTrade'
<1>1. TradePriceAcceptable'
  BY DEF TradePriceAcceptable, Extends
<1>2. EveryTradeClosesAnOrder'
  BY DEF TradePriceAcceptable, EveryTradeClosesAnOrder, Extends
<1> QED BY <1>1, <1>2 DEF NoFirstTrade

\* A step that gives actor a the request r keeps the invariant if it keeps the
\* tables growing, the arrays others walk, and what is said of r.
LEMMA StepOfOne ==
  ASSUME IInv, NEW a \in Actors, NEW r, r \in Request,
         req' = [req EXCEPT ![a] = r],
         orders' \in Seq(Row), heap' \in Heaps, bookRef' \in Refs, faults' \in Nat,
         trades' \in Seq(Trade),
         Extends(orders, orders'), HeapOK(heap', orders'),
         \A b \in Actors \ {a} : req[b].step \in MatchSteps => SameArrays(heap, heap', req[b].ref),
         RequestOK(a, r, heap', orders'),
         TradePriceAcceptable', EveryTradeClosesAnOrder', NoFirstTrade'
  PROVE  IInv'
<1>1. TypeOK'
  BY DEF IInv, TypeOK, Heaps
<1>2. ASSUME NEW b \in Actors PROVE RequestOK(b, req'[b], heap', orders')
  <2>1. CASE b = a
    BY <2>1 DEF IInv, TypeOK
  <2>2. CASE b # a
    <3>1. req'[b] = req[b] /\ req[b] \in Request
      BY <2>2 DEF IInv, TypeOK
    <3>2. RequestOK(b, req[b], heap, orders) /\ HeapOK(heap, orders)
      BY DEF IInv, RequestsOK
    <3> QED BY <2>2, <3>1, <3>2, RequestStable
  <2> QED BY <2>1, <2>2
<1> QED BY <1>1, <1>2 DEF IInv, RequestsOK

\* The common case: only the request itself changes.
LEMMA QuietStep ==
  ASSUME IInv, NEW a \in Actors, NEW r, r \in Request,
         req' = [req EXCEPT ![a] = r], UNCHANGED <<orders, trades, heap, bookRef>>,
         faults' \in Nat, RequestOK(a, r, heap, orders)
  PROVE  IInv'
<1>1. Extends(orders, orders') /\ \A b \in Actors : SameArrays(heap, heap', req[b].ref)
  BY DEF Extends, SameArrays
<1>2. TradePriceAcceptable' /\ EveryTradeClosesAnOrder' /\ NoFirstTrade'
  BY <1>1, TradesStable DEF IInv
<1>3. /\ orders' \in Seq(Row) /\ heap' \in Heaps /\ bookRef' \in Refs /\ trades' \in Seq(Trade)
      /\ HeapOK(heap', orders')
  BY DEF IInv, TypeOK, Heaps
<1> QED BY <1>1, <1>2, <1>3, StepOfOne
-----------------------------------------------------------------------------
(* The actions, one by one.                                                *)

LEMMA ActorFacts ==
  ASSUME IInv, NEW a \in Actors
  PROVE  /\ req[a] \in Request /\ req[a].ord \in Order
         /\ RequestOK(a, req[a], heap, orders)
         /\ faults \in Nat /\ bookRef \in Refs /\ heap \in Heaps
         /\ orders \in Seq(Row) /\ trades \in Seq(Trade)
BY DEF IInv, RequestsOK, TypeOK, Heaps, Request

LEMMA InitStep == Init => IInv
<1> SUFFICES ASSUME Init PROVE IInv
  OBVIOUS
<1>1. TypeOK
  <2>1. orders \in Seq(Row)
    BY OrderBookAssumption DEF Init
  <2>2. trades \in Seq(Trade)
    BY DEF Init
  <2> QED BY <2>1, <2>2, ConstantFacts, RefsFacts DEF Init, TypeOK
<1>2. HeapOK(heap, orders)
  BY DEF Init, HeapOK, ListOK, EmptyBook
<1>3. RequestsOK
  BY DEF Init, RequestsOK, RequestOK, ListOK, NewRequest, PostSteps, MatchSteps
<1> QED BY <1>1, <1>2, <1>3 DEF Init, IInv, TradePriceAcceptable, EveryTradeClosesAnOrder, NoFirstTrade

LEMMA SubmitStep ==
  ASSUME IInv, NEW a \in Requests, Submit(a)
  PROVE  IInv'
<1>1. a \in Actors
  BY DEF Actors
<1>2. PICK side \in Sides, symbol \in Symbols, type \in Types, price \in Prices, size \in Sizes :
        /\ Cardinality({b \in InFlight : req[b].ord.symbol = symbol}) < MaxPerSymbol
        /\ req' = [req EXCEPT ![a] = [@ EXCEPT !.pc = "insert", !.step = "saved",
                     !.ord = Posted(side, symbol, type, price, size)]]
  BY ZenonT(90) DEF Submit
<1> DEFINE ord == Posted(side, symbol, type, price, size)
           r == [req[a] EXCEPT !.pc = "insert", !.step = "saved", !.ord = ord]
<1>3. ord \in Order
  <2>1. type \in {"Limit", "Market"} /\ size \in Int
    BY OrderBookAssumption
  <2> QED BY <2>1 DEF Posted, Order
<1>4. r \in Request
  BY <1>1, <1>3, ActorFacts, ZenonT(90) DEF Request
<1>5. req' = [req EXCEPT ![a] = r]
  BY <1>1, <1>2 DEF IInv, TypeOK
<1>6. r.pc = "insert" /\ r.step = "saved" /\ r.buys = req[a].buys /\ r.sells = req[a].sells
  BY <1>1, ActorFacts, ZenonT(90) DEF Request
<1>7. RequestOK(a, r, heap, orders)
  BY <1>1, <1>6, ActorFacts DEF RequestOK, PostSteps, MatchSteps
<1> QED BY <1>1, <1>4, <1>5, <1>7, ActorFacts, QuietStep DEF Submit

LEMMA FetchOrdersStep ==
  ASSUME IInv, NEW a \in Viewers, FetchOrders(a)
  PROVE  IInv'
<1> DEFINE r == [req[a] EXCEPT !.pc = "buys", !.step = "fetched"]
<1>1. a \in Actors
  BY DEF Actors
<1>2. r \in Request
  BY <1>1, ActorFacts, ZenonT(90) DEF Request
<1>3. req' = [req EXCEPT ![a] = r]
  BY <1>1 DEF FetchOrders, IInv, TypeOK
<1>4. r.pc = "buys" /\ r.step = "fetched" /\ r.buys = req[a].buys /\ r.sells = req[a].sells
  BY <1>1, ActorFacts, ZenonT(90) DEF Request
<1>5. RequestOK(a, r, heap, orders)
  BY <1>1, <1>4, ActorFacts DEF RequestOK, PostSteps, MatchSteps
<1> QED BY <1>1, <1>2, <1>3, <1>5, ActorFacts, QuietStep DEF FetchOrders

\* Where a request goes on reading, what it is about to write does not change.
LEMMA ReadingStep ==
  ASSUME NEW a, NEW r \in Request, NEW t \in Request, NEW mem, NEW table,
         RequestOK(a, r, mem, table),
         r.pc \in {"buys", "sells", "assign"}, t.pc \in {"buys", "sells", "assign", "emit"},
         t.ord = r.ord, t.step = r.step, t.ref = r.ref, t.idx = r.idx,
         ListOK("BUY", t.buys, table), ListOK("SELL", t.sells, table)
  PROVE  RequestOK(a, t, mem, table)
<1>1. r.pc \notin {"insert", "update", "trade"} /\ t.pc \notin {"insert", "update", "trade"}
  OBVIOUS
<1>2. OwnRowOK(r, table) => OwnRowOK(t, table)
  BY DEF OwnRowOK
<1>3. RestingOK(r, mem) => RestingOK(t, mem)
  BY DEF RestingOK
<1>4. WriteOK(r, mem, table) => WriteOK(t, mem, table)
  BY <1>1 DEF WriteOK
<1> QED BY <1>1, <1>2, <1>3, <1>4 DEF RequestOK

LEMMA ReadBuysStep ==
  ASSUME IInv, NEW a \in Actors, ReadBuys(a)
  PROVE  IInv'
<1>1. PICK list \in FindOrders("BUY", req[a].ord.symbol) :
        req' = [req EXCEPT ![a] = [@ EXCEPT !.pc = "sells", !.buys = list]]
  BY ZenonT(90) DEF ReadBuys
<1> DEFINE r == [req[a] EXCEPT !.pc = "sells", !.buys = list]
<1>2. list \in Seq(Entry) /\ ListOK("BUY", list, orders)
  <2>1. "BUY" \in Sides /\ req[a].ord.symbol \in Symbols
    BY ActorFacts DEF Sides, Order
  <2> QED BY <2>1, FindOrdersFacts DEF IInv
<1>3. r \in Request
  BY <1>2, ActorFacts, ZenonT(90) DEF Request
<1>4. req' = [req EXCEPT ![a] = r]
  BY <1>1 DEF IInv, TypeOK
<1>5. /\ r.pc = "sells" /\ r.ord = req[a].ord /\ r.step = req[a].step /\ r.ref = req[a].ref
      /\ r.idx = req[a].idx /\ r.buys = list /\ r.sells = req[a].sells
  BY ActorFacts, ZenonT(90) DEF Request
<1>6. req[a].pc = "buys" /\ ListOK("SELL", r.sells, orders)
  BY <1>5, ActorFacts DEF ReadBuys, RequestOK
<1> HIDE DEF r
<1>7. RequestOK(a, r, heap, orders)
  BY <1>2, <1>3, <1>5, <1>6, ActorFacts, ReadingStep
<1> QED BY <1>3, <1>4, <1>7, ActorFacts, QuietStep DEF ReadBuys

LEMMA ReadSellsStep ==
  ASSUME IInv, NEW a \in Actors, ReadSells(a)
  PROVE  IInv'
<1>1. PICK list \in FindOrders("SELL", req[a].ord.symbol) :
        req' = [req EXCEPT ![a] = [@ EXCEPT !.pc = "assign", !.sells = list]]
  BY ZenonT(90) DEF ReadSells
<1> DEFINE r == [req[a] EXCEPT !.pc = "assign", !.sells = list]
<1>2. list \in Seq(Entry) /\ ListOK("SELL", list, orders)
  <2>1. "SELL" \in Sides /\ req[a].ord.symbol \in Symbols
    BY ActorFacts DEF Sides, Order
  <2> QED BY <2>1, FindOrdersFacts DEF IInv
<1>3. r \in Request
  BY <1>2, ActorFacts, ZenonT(90) DEF Request
<1>4. req' = [req EXCEPT ![a] = r]
  BY <1>1 DEF IInv, TypeOK
<1>5. /\ r.pc = "assign" /\ r.ord = req[a].ord /\ r.step = req[a].step /\ r.ref = req[a].ref
      /\ r.idx = req[a].idx /\ r.sells = list /\ r.buys = req[a].buys
  BY ActorFacts, ZenonT(90) DEF Request
<1>6. req[a].pc = "sells" /\ ListOK("BUY", r.buys, orders)
  BY <1>5, ActorFacts DEF ReadSells, RequestOK
<1> HIDE DEF r
<1>7. RequestOK(a, r, heap, orders)
  BY <1>2, <1>3, <1>5, <1>6, ActorFacts, ReadingStep
<1> QED BY <1>3, <1>4, <1>7, ActorFacts, QuietStep DEF ReadSells

LEMMA RejectStep ==
  ASSUME IInv, NEW a \in Actors, req' = [req EXCEPT ![a] = Reject(@)],
         UNCHANGED <<orders, trades, heap, bookRef>>, faults' \in Nat
  PROVE  IInv'
<1>1. req' = [req EXCEPT ![a] = Reject(req[a])]
  BY DEF IInv, TypeOK
<1> QED BY <1>1, ActorFacts, RejectFacts, QuietStep

LEMMA CrashStep ==
  ASSUME IInv, Crash
  PROVE  IInv'
<1>1. \A a \in Actors : /\ req'[a] \in Request
                        /\ RequestOK(a, req'[a], heap', orders')
  <2> SUFFICES ASSUME NEW a \in Actors
               PROVE  req'[a] \in Request /\ RequestOK(a, req'[a], heap', orders')
    OBVIOUS
  <2>1. CASE Running(a)
    <3>1. req'[a] = Finish(req[a], "lost")
      BY <2>1 DEF Crash
    <3>2. "lost" \in Answers /\ req[a] \in Request
      BY ActorFacts DEF Answers
    <3>3. /\ Finish(req[a], "lost") \in Request
          /\ RequestOK(a, Finish(req[a], "lost"), heap', orders')
      BY <3>2, FinishFacts
    <3> QED BY <3>1, <3>3
  <2>2. CASE ~Running(a)
    <3>1. req'[a] = req[a] /\ orders' = orders
      BY <2>2 DEF Crash
    <3>2. req[a].step \notin MatchSteps
      BY <2>2, ActorFacts DEF Running, RequestOK, MatchSteps
    <3>3. Extends(orders, orders') /\ HeapOK(heap, orders)
      BY <3>1 DEF Extends, IInv
    <3> QED BY <3>1, <3>2, <3>3, ActorFacts, RequestStable
  <2> QED BY <2>1, <2>2
<1>2. TypeOK'
  BY <1>1, ConstantFacts, RefsFacts DEF Crash, IInv, TypeOK
<1>3. HeapOK(heap', orders')
  BY DEF Crash, HeapOK, ListOK, EmptyBook
<1>4. TradePriceAcceptable' /\ EveryTradeClosesAnOrder' /\ NoFirstTrade'
  BY TradesStable DEF Crash, IInv, Extends
<1> QED BY <1>1, <1>2, <1>3, <1>4 DEF IInv, RequestsOK

LEMMA InsertStep ==
  ASSUME IInv, NEW a \in Actors, Insert(a)
  PROVE  IInv'
<1> DEFINE o == req[a].ord
           id == Len(orders) + 1
           r == [req[a] EXCEPT !.pc = "buys", !.ord = [o EXCEPT !.id = id]]
           last == IF orders = <<>> THEN 0 ELSE orders[Len(orders)].created
<1>1. PICK second \in {0, 1} :
        orders' = Append(orders,
          [side |-> o.side, symbol |-> o.symbol, type |-> o.type, price |-> o.price,
           size |-> o.size, orgSize |-> o.size, filled |-> 0, isFilled |-> FALSE,
           created |-> second + last])
  BY DEF Insert
<1> DEFINE row == [side |-> o.side, symbol |-> o.symbol, type |-> o.type, price |-> o.price,
                   size |-> o.size, orgSize |-> o.size, filled |-> 0, isFilled |-> FALSE,
                   created |-> second + last]
<1>2. orders \in Seq(Row) /\ Len(orders) \in Nat /\ DOMAIN orders = 1 .. Len(orders)
  BY ActorFacts, LenProperties
<1>3. last \in Nat
  <2>1. CASE orders = <<>>
    BY <2>1
  <2>2. CASE orders # <<>>
    <3>1. Len(orders) \in DOMAIN orders
      BY <1>2, <2>2, EmptySeq
    <3>2. orders[Len(orders)] \in Row
      BY <1>2, <3>1
    <3> QED BY <2>2, <3>2 DEF Row
  <2> QED BY <2>1, <2>2
<1>4. row \in Row
  <2> HIDE DEF last
  <2> QED BY <1>3, ActorFacts DEF Row, Order
<1>5. orders' = Append(orders, row)
  BY <1>1
<1> HIDE DEF row, last
<1>6. /\ orders' \in Seq(Row) /\ DOMAIN orders' = 1 .. id /\ orders'[id] = row
      /\ \A i \in DOMAIN orders : orders'[i] = orders[i] /\ i \in DOMAIN orders'
  BY <1>2, <1>4, <1>5, AppendProperties, LenProperties
<1>7. r \in Request
  <2>1. [o EXCEPT !.id = id] \in Order
    <3>1. o \in Order
      BY ActorFacts, ZenonT(90) DEF Request
    <3> HIDE DEF o
    <3> QED BY <3>1, <1>2 DEF Order
  <2> QED BY <2>1, ActorFacts, ZenonT(90) DEF Request
<1>8. req' = [req EXCEPT ![a] = r]
  <2>1. req' = [req EXCEPT ![a] = [req[a] EXCEPT !.pc = "buys", !.ord.id = Len(orders) + 1]]
    BY DEF Insert, IInv, TypeOK
  <2> QED BY <2>1
<1>9. Extends(orders, orders')
  BY <1>6 DEF Extends
<1>10. /\ r.pc = "buys" /\ r.step = req[a].step /\ r.ord = [o EXCEPT !.id = id]
       /\ r.buys = req[a].buys /\ r.sells = req[a].sells
  BY ActorFacts, ZenonT(90) DEF Request
<1>11. req[a].step = "saved"
  BY ActorFacts DEF Insert, RequestOK
<1>12. OwnRowOK(r, orders')
  <2>1. r.ord.id = id /\ r.ord.side = o.side /\ r.ord.type = o.type /\ r.ord.price = o.price
    BY <1>10, ActorFacts DEF Order
  <2>2. row.side = o.side /\ row.type = o.type /\ row.price = o.price
    BY DEF row
  <2>3. id \in DOMAIN orders'
    BY <1>2, <1>6
  <2> QED BY <1>6, <2>1, <2>2, <2>3 DEF OwnRowOK
<1>13. RequestOK(a, r, heap, orders')
  <2>1. ListOK("BUY", r.buys, orders') /\ ListOK("SELL", r.sells, orders')
    BY <1>9, <1>10, ActorFacts, ListStable DEF RequestOK
  <2>2. a \in Requests
    BY <1>11, ActorFacts DEF RequestOK, PostSteps
  <2> QED BY <1>10, <1>11, <1>12, <2>1, <2>2 DEF RequestOK, MatchSteps
<1>14. UNCHANGED <<trades, heap, bookRef, faults>>
  BY DEF Insert
<1>15. HeapOK(heap', orders') /\ \A b \in Actors : SameArrays(heap, heap', req[b].ref)
  BY <1>9, <1>14, HeapStable DEF IInv, SameArrays
<1>16. TradePriceAcceptable' /\ EveryTradeClosesAnOrder' /\ NoFirstTrade'
  BY <1>9, <1>14, TradesStable DEF IInv
<1> HIDE DEF r
<1> QED BY <1>6, <1>7, <1>8, <1>9, <1>13, <1>14, <1>15, <1>16, ActorFacts, StepOfOne

\* New arrays replace none that a match walks.
LEMMA AssignStep ==
  ASSUME IInv, NEW a \in Actors, Assign(a)
  PROVE  IInv'
<1> DEFINE r == req[a]
           t == AfterFill(r)
           u == [t EXCEPT !.buys = <<>>, !.sells = <<>>]
<1>1. FreshRef \in Refs /\ FreshRef \notin Captured
  BY FreshRefExists DEF IInv
<1>2. /\ bookRef' = FreshRef /\ orders' = orders /\ trades' = trades /\ faults' = faults
      /\ heap' = [f \in Refs |-> IF f = FreshRef THEN Loaded(r)
                                 ELSE IF f \in Captured THEN heap[f] ELSE EmptyBook]
  BY DEF Assign, FillOrderBook
<1>3. Loaded(r) \in [Sides -> Seq(Entry)]
  <2>1. r.buys \in Seq(Entry) /\ r.sells \in Seq(Entry)
    BY ActorFacts, ZenonT(90) DEF Request
  <2> QED BY <2>1 DEF Loaded
<1>4. heap' \in Heaps
  BY <1>2, <1>3, ConstantFacts, ActorFacts DEF Heaps
<1>5. ListOK("BUY", r.buys, orders) /\ ListOK("SELL", r.sells, orders)
  BY ActorFacts DEF RequestOK
<1>6. \A f \in Refs, s \in Sides : ListOK(s, heap'[f][s], orders)
  <2> SUFFICES ASSUME NEW f \in Refs, NEW s \in Sides
               PROVE  ListOK(s, heap'[f][s], orders)
    OBVIOUS
  <2>1. CASE f = FreshRef
    BY <1>2, <1>5, <2>1 DEF Loaded, Sides
  <2>2. CASE f # FreshRef /\ f \in Captured
    BY <1>2, <2>2 DEF IInv, HeapOK
  <2>3. CASE f # FreshRef /\ f \notin Captured
    BY <1>2, <2>3 DEF EmptyBook, ListOK
  <2> QED BY <2>1, <2>2, <2>3
<1>7. HeapOK(heap', orders')
  BY <1>2, <1>6 DEF HeapOK
<1>8. \A b \in Actors : req[b].step \in MatchSteps => SameArrays(heap, heap', req[b].ref)
  <2> SUFFICES ASSUME NEW b \in Actors, req[b].step \in MatchSteps
               PROVE  SameArrays(heap, heap', req[b].ref)
    OBVIOUS
  <2>1. b \in Requests /\ req[b].ref \in Refs
    BY ActorFacts DEF RequestOK, PostSteps, RestingOK
  <2>2. req[b].ref \in Captured
    BY <2>1 DEF Captured
  <2>3. heap'[req[b].ref] = heap[req[b].ref]
    BY <1>1, <1>2, <2>1, <2>2
  <2> QED BY <2>3 DEF SameArrays
<1>9. t \in Request /\ RequestOK(a, t, heap', orders')
  <2>1. CASE r.step = "fetched"
    <3>1. t = Finish(r, "ok") /\ "ok" \in Answers
      BY <2>1 DEF AfterFill, Answers
    <3> QED BY <3>1, ActorFacts, FinishFacts
  <2>2. CASE r.step = "saved" /\ r.ord.type = "Market"
    <3>1. t = StartMatch(r, FreshRef, heap'[FreshRef])
      BY <1>1, <1>2, <2>2 DEF AfterFill
    <3>2. a \in Requests /\ OwnRowOK(r, orders)
      BY <2>2, ActorFacts DEF Assign, RequestOK, PostSteps
    <3> QED BY <1>1, <1>2, <1>4, <1>5, <1>7, <3>1, <3>2, ActorFacts, StartMatchFacts
  <2>3. CASE r.step = "saved" /\ r.ord.type # "Market"
    <3>1. t = [r EXCEPT !.pc = "buys", !.step = "placed"]
      BY <2>3 DEF AfterFill
    <3>2. /\ t \in Request /\ t.pc = "buys" /\ t.step = "placed" /\ t.ord = r.ord
          /\ t.buys = r.buys /\ t.sells = r.sells
      BY <3>1, ActorFacts, ZenonT(90) DEF Request
    <3>3. a \in Requests /\ OwnRowOK(r, orders)
      BY <2>3, ActorFacts DEF Assign, RequestOK, PostSteps
    <3>4. OwnRowOK(t, orders)
      BY <3>2, <3>3 DEF OwnRowOK
    <3> HIDE DEF t
    <3> QED BY <1>2, <1>5, <3>2, <3>3, <3>4 DEF RequestOK, PostSteps, MatchSteps
  <2>4. CASE r.step \notin {"fetched", "saved"}
    <3>1. t = [r EXCEPT !.pc = "emit"]
      BY <2>4 DEF AfterFill
    <3>2. /\ t \in Request /\ t.pc = "emit" /\ t.step = r.step /\ t.ord = r.ord /\ t.ref = r.ref
          /\ t.idx = r.idx /\ t.buys = r.buys /\ t.sells = r.sells
      BY <3>1, ActorFacts, ZenonT(90) DEF Request
    <3>3. r \in Request /\ r.pc = "assign" /\ RequestOK(a, r, heap, orders)
      BY ActorFacts DEF Assign
    <3> HIDE DEF t, r
    <3>4. RequestOK(a, t, heap, orders)
      BY <1>5, <3>2, <3>3, ReadingStep
    <3>5. t.step \in MatchSteps => SameArrays(heap, heap', t.ref)
      BY <1>8, <3>2 DEF r
    <3>6. Extends(orders, orders') /\ HeapOK(heap, orders)
      BY <1>2 DEF Extends, IInv
    <3> QED BY <3>2, <3>4, <3>5, <3>6, RequestStable
  <2> QED BY <2>1, <2>2, <2>3, <2>4
<1>10. u \in Request /\ RequestOK(a, u, heap', orders')
  <2> HIDE DEF t
  <2>1. t \in Request /\ <<>> \in Seq(Entry)
    BY <1>9
  <2>2. u \in Request
    BY <2>1, ZenonT(90) DEF Request
  <2>3. /\ u.pc = t.pc /\ u.step = t.step /\ u.ord = t.ord /\ u.ref = t.ref
        /\ u.idx = t.idx /\ u.upd = t.upd /\ u.buys = <<>> /\ u.sells = <<>>
    BY <2>1 DEF Request
  <2> HIDE DEF u
  <2>4. /\ OwnRowOK(t, orders') => OwnRowOK(u, orders')
        /\ RestingOK(t, heap') => RestingOK(u, heap')
        /\ WriteOK(t, heap', orders') => WriteOK(u, heap', orders')
    BY <2>3, ZenonT(90) DEF OwnRowOK, RestingOK, WriteOK
  <2>5. ListOK("BUY", u.buys, orders') /\ ListOK("SELL", u.sells, orders')
    BY <2>3 DEF ListOK
  <2> QED BY <1>9, <2>2, <2>3, <2>4, <2>5 DEF RequestOK
<1>11. req' = [req EXCEPT ![a] = u]
  BY DEF Assign, IInv, TypeOK
<1>12. Extends(orders, orders')
  BY <1>2 DEF Extends
<1>13. TradePriceAcceptable' /\ EveryTradeClosesAnOrder' /\ NoFirstTrade'
  BY <1>2, <1>12, TradesStable DEF IInv
<1>14. orders' \in Seq(Row) /\ trades' \in Seq(Trade) /\ faults' \in Nat /\ bookRef' \in Refs
  BY <1>1, <1>2, ActorFacts
<1> HIDE DEF u, r
<1> QED BY <1>4, <1>7, <1>8, <1>10, <1>11, <1>12, <1>13, <1>14, StepOfOne
-----------------------------------------------------------------------------
(* The steps of a match.                                                   *)

LEMMA MatchStepFacts ==
  ASSUME IInv, NEW a \in Actors, req[a].step \in MatchSteps
  PROVE  LET r == req[a] IN
         /\ a \in Requests /\ r.ref \in Refs /\ r.idx \in Nat /\ r.pc # "insert"
         /\ RestingList(r) \in Seq(Entry) /\ r.idx \in DOMAIN RestingList(r)
         /\ Resting(r) \in Entry /\ Resting(r).id \in DOMAIN orders
         /\ orders[Resting(r).id].side = Opposite(r.ord.side)
         /\ orders[Resting(r).id].price = Resting(r).price
         /\ Accepts(r.ord, Resting(r).price)
         /\ OwnRowOK(r, orders) /\ RestingOK(r, heap) /\ WriteOK(r, heap, orders)
<1> DEFINE r == req[a]
           side == Opposite(r.ord.side)
<1>1. r \in Request /\ side \in Sides
  BY ActorFacts, ConstantFacts DEF Order
<1>2. a \in Requests /\ r.pc # "insert" /\ RestingOK(r, heap) /\ WriteOK(r, heap, orders)
      /\ OwnRowOK(r, orders)
  BY ActorFacts DEF RequestOK, PostSteps, MatchSteps
<1>3. RestingList(r) = heap[r.ref][side]
  BY DEF RestingList
<1>4. r.ref \in Refs /\ r.idx \in DOMAIN RestingList(r) /\ Accepts(r.ord, Resting(r).price)
  BY <1>2, <1>3, ZenonT(90) DEF RestingOK, Resting
<1>5. RestingList(r) \in Seq(Entry)
  BY <1>1, <1>3, <1>4, ActorFacts DEF Heaps
<1>6. Resting(r) \in Entry
  BY <1>4, <1>5 DEF Resting
<1>7. ListOK(side, RestingList(r), orders)
  BY <1>1, <1>3, <1>4 DEF IInv, HeapOK
<1>8. /\ Resting(r).id \in DOMAIN orders
      /\ orders[Resting(r).id].side = side
      /\ orders[Resting(r).id].price = Resting(r).price
  BY <1>4, <1>7 DEF ListOK, Resting
<1>9. r.idx \in Nat
  BY <1>1 DEF Request
<1> QED BY <1>2, <1>4, <1>5, <1>6, <1>8, <1>9

\* A pair whose emit went through is one that traded before the system started.
LEMMA TradedFacts ==
  ASSUME IInv, NEW symbol, HasTrades(symbol)
  PROVE  symbol \in TradedSymbols
BY DEF IInv, HasTrades, NoFirstTrade

\* The request goes from one step of a match to another at the same place.
LEMMA MatchStep ==
  ASSUME NEW a \in Requests, NEW r, NEW t, NEW mem, NEW table,
         RequestOK(a, r, mem, table), r.step \in MatchSteps, t.step \in MatchSteps,
         t.pc \notin {"insert", "idle", "done"},
         t.ref = r.ref, t.idx = r.idx, t.buys = r.buys, t.sells = r.sells,
         t.ord.id = r.ord.id, t.ord.side = r.ord.side, t.ord.type = r.ord.type,
         t.ord.price = r.ord.price,
         WriteOK(t, mem, table)
  PROVE  RequestOK(a, t, mem, table)
<1>1. OwnRowOK(r, table) /\ RestingOK(r, mem)
  BY DEF RequestOK, PostSteps, MatchSteps
<1>2. OwnRowOK(t, table)
  BY <1>1 DEF OwnRowOK
<1>3. RestingOK(t, mem)
  BY <1>1 DEF RestingOK, Accepts
<1> QED BY <1>2, <1>3 DEF RequestOK, PostSteps

LEMMA PlacedStep ==
  ASSUME IInv, NEW a \in Actors, Placed(a)
  PROVE  IInv'
<1> DEFINE r == req[a]
           t == StartMatch(r, bookRef, heap[bookRef])
<1>1. r.pc = "emit" /\ r.step = "placed" /\ UNCHANGED <<orders, trades, heap, bookRef, faults>>
  BY DEF Placed, Resume
<1>2. a \in Requests /\ OwnRowOK(r, orders)
  BY <1>1, ActorFacts DEF RequestOK, PostSteps
<1>3. ListOK("BUY", r.buys, orders) /\ ListOK("SELL", r.sells, orders) /\ HeapOK(heap, orders)
  BY ActorFacts DEF RequestOK, IInv
<1>4. t \in Request /\ RequestOK(a, t, heap, orders)
  BY <1>2, <1>3, ActorFacts, StartMatchFacts
<1>5. req' = [req EXCEPT ![a] = t]
  BY DEF Placed, IInv, TypeOK
<1> HIDE DEF t
<1> QED BY <1>1, <1>4, <1>5, ActorFacts, QuietStep

LEMMA TakerClosedStep ==
  ASSUME IInv, NEW a \in Actors, TakerClosed(a)
  PROVE  IInv'
<1> DEFINE r == req[a]
           t == CallSaveTrade(r, "fullTraded", r.ord.size)
<1>1. /\ r.pc = "emit" /\ r.step = "takerClosed" /\ HasTrades(r.ord.symbol)
      /\ UNCHANGED <<orders, trades, heap, bookRef, faults>>
  BY DEF TakerClosed, Resume
<1>2. t \in Request
  <2>1. r.ord.size \in Int
    BY ActorFacts DEF Order
  <2> QED BY <2>1, ActorFacts, ZenonT(90) DEF CallSaveTrade, Request
<1>3. /\ t.pc = "trade" /\ t.step = "fullTraded" /\ t.ord = r.ord /\ t.ref = r.ref
      /\ t.idx = r.idx /\ t.buys = r.buys /\ t.sells = r.sells
  BY ActorFacts, ZenonT(90) DEF CallSaveTrade, Request
<1>4. r.step \in MatchSteps /\ r.ord.symbol \in TradedSymbols
  BY <1>1, TradedFacts DEF MatchSteps
<1>5. req' = [req EXCEPT ![a] = t]
  BY DEF TakerClosed, IInv, TypeOK
<1> HIDE DEF t
<1>6. WriteOK(t, heap, orders)
  BY <1>1, <1>3, <1>4, MatchStepFacts, ZenonT(90) DEF WriteOK
<1>7. RequestOK(a, t, heap, orders)
  BY <1>3, <1>4, <1>6, ActorFacts, MatchStepFacts, MatchStep DEF MatchSteps
<1> QED BY <1>1, <1>2, <1>5, <1>7, ActorFacts, QuietStep

LEMMA MakerUpdatedStep ==
  ASSUME IInv, NEW a \in Actors, MakerUpdated(a)
  PROVE  IInv'
<1>1. UNCHANGED <<orders, trades, heap, bookRef, faults>>
  BY DEF MakerUpdated, Resume
<1>2. req' = [req EXCEPT ![a] = Finish(req[a], "ok")]
  BY DEF MakerUpdated, IInv, TypeOK
<1>3. Finish(req[a], "ok") \in Request /\ RequestOK(a, Finish(req[a], "ok"), heap, orders)
  BY ActorFacts, FinishFacts DEF Answers
<1> QED BY <1>1, <1>2, <1>3, ActorFacts, QuietStep

LEMMA MakerClosedStep ==
  ASSUME IInv, NEW a \in Actors, MakerClosed(a)
  PROVE  IInv'
<1> DEFINE r == req[a]
           t == CallSaveTrade(r, "partTraded", Resting(r).size)
<1>1. /\ r.pc = "emit" /\ r.step = "makerClosed" /\ HasTrades(r.ord.symbol)
      /\ UNCHANGED <<orders, trades, heap, bookRef, faults>>
  BY DEF MakerClosed, Resume
<1>2. r.step \in MatchSteps /\ r.ord.symbol \in TradedSymbols
  BY <1>1, TradedFacts DEF MatchSteps
<1>3. Resting(r).size \in Int
  BY <1>2, MatchStepFacts DEF Entry
<1>4. t \in Request
  <2> DEFINE qty == Resting(r).size
  <2>1. t = [r EXCEPT !.pc = "trade", !.step = "partTraded", !.qty = qty]
    BY DEF CallSaveTrade
  <2> HIDE DEF qty, t
  <2>2. qty \in Int
    BY <1>3 DEF qty
  <2> QED BY <2>1, <2>2, ActorFacts, ZenonT(90) DEF Request
<1>5. /\ t.pc = "trade" /\ t.step = "partTraded" /\ t.ord = r.ord /\ t.ref = r.ref
      /\ t.idx = r.idx /\ t.buys = r.buys /\ t.sells = r.sells
  BY ActorFacts, ZenonT(90) DEF CallSaveTrade, Request
<1>6. req' = [req EXCEPT ![a] = t]
  BY DEF MakerClosed, IInv, TypeOK
<1> HIDE DEF t
<1>7. WriteOK(t, heap, orders)
  BY <1>1, <1>2, <1>5, MatchStepFacts, ZenonT(90) DEF WriteOK
<1>8. RequestOK(a, t, heap, orders)
  BY <1>2, <1>5, <1>7, ActorFacts, MatchStepFacts, MatchStep DEF MatchSteps
<1> QED BY <1>1, <1>4, <1>6, <1>8, ActorFacts, QuietStep

\* The arithmetic of sizes stays within the integers, whatever the rounding.
LEMMA MinusFacts ==
  ASSUME NEW x \in Int, NEW y \in Int, NEW d \in Minus(x, y)
  PROVE  d \in Int
BY OrderBookAssumption DEF Minus

LEMMA StoredFacts ==
  ASSUME NEW x \in Int
  PROVE  Stored(x) \in Int
<1>1. Unit \in Int /\ Unit > 0
  BY OrderBookAssumption
<1>2. x + Unit \div 2 \in Int
  BY <1>1
<1>3. (x + Unit \div 2) \div Unit \in Int
  BY <1>1, <1>2
<1> QED BY <1>1, <1>3 DEF Stored

LEMMA PartTradedStep ==
  ASSUME IInv, NEW a \in Actors, PartTraded(a)
  PROVE  IInv'
<1> DEFINE r == req[a]
           filled == r.ord.filled + Resting(r).size
<1>0. PICK left \in Minus(r.ord.size, Resting(r).size) :
        req' = [req EXCEPT ![a] =
                  CallUpdate([r EXCEPT !.ord.size = left, !.ord.filled = filled], "takerUpdated",
                    [id |-> r.ord.id, size |-> left, filled |-> filled, close |-> FALSE])]
  BY DEF PartTraded
<1> DEFINE upd == [id |-> r.ord.id, size |-> left, filled |-> filled, close |-> FALSE]
           ord == [r.ord EXCEPT !.size = left, !.filled = filled]
           t == [r EXCEPT !.ord = ord, !.pc = "update", !.step = "takerUpdated", !.upd = upd]
<1>1. r.pc = "emit" /\ r.step = "partTraded" /\ UNCHANGED <<orders, trades, heap, bookRef, faults>>
  BY DEF PartTraded, Resume
<1>2. r.step \in MatchSteps
  BY <1>1 DEF MatchSteps
<1>3. left \in Int /\ filled \in Int /\ r.ord.id \in Nat
  <2>1. r.ord.size \in Int /\ r.ord.filled \in Int /\ r.ord.id \in Nat
    BY ActorFacts DEF Order
  <2>2. Resting(r).size \in Int
    BY <1>2, MatchStepFacts DEF Entry
  <2> QED BY <1>0, <2>1, <2>2, MinusFacts
<1>4. upd \in Update /\ ord \in Order
  BY <1>3, ActorFacts DEF Update, Order
<1>5. t \in Request
  BY <1>4, ActorFacts, ZenonT(90) DEF Request
<1>6. /\ t.pc = "update" /\ t.step = "takerUpdated" /\ t.ord = ord /\ t.ref = r.ref
      /\ t.idx = r.idx /\ t.buys = r.buys /\ t.sells = r.sells /\ t.upd.id = r.ord.id
  BY ActorFacts, ZenonT(90) DEF Request
<1>7. /\ ord.id = r.ord.id /\ ord.side = r.ord.side /\ ord.type = r.ord.type
      /\ ord.price = r.ord.price
  BY ActorFacts DEF Order
<1>8. req' = [req EXCEPT ![a] = t]
  <2>1. CallUpdate([r EXCEPT !.ord.size = left, !.ord.filled = filled], "takerUpdated", upd) = t
    BY ActorFacts, ZenonT(90) DEF CallUpdate, Request, Order
  <2> QED BY <1>0, <2>1
<1> HIDE DEF t, ord
<1>9. WriteOK(t, heap, orders)
  BY <1>2, <1>6, MatchStepFacts, ZenonT(90) DEF WriteOK, OwnRowOK
<1>10. RequestOK(a, t, heap, orders)
  BY <1>2, <1>6, <1>7, <1>9, ActorFacts, MatchStepFacts, MatchStep DEF MatchSteps
<1> QED BY <1>1, <1>5, <1>8, <1>10, ActorFacts, QuietStep

LEMMA TakerUpdatedStep ==
  ASSUME IInv, NEW a \in Actors, TakerUpdated(a)
  PROVE  IInv'
<1> DEFINE r == req[a]
           r1 == [r EXCEPT !.idx = r.idx - 1]
           t == Match(r1, RestingList(r))
<1>1. r.pc = "emit" /\ r.step = "takerUpdated" /\ UNCHANGED <<orders, trades, heap, bookRef, faults>>
  BY DEF TakerUpdated, Resume
<1>2. r.step \in MatchSteps
  BY <1>1 DEF MatchSteps
<1>3. r.idx - 1 \in Nat
  <2>1. r.idx \in 1 .. Len(RestingList(r))
    BY <1>2, MatchStepFacts, LenProperties
  <2> QED BY <2>1
<1>4. r1 \in Request
  BY <1>3, ActorFacts, ZenonT(90) DEF Request
<1>5. r1.ref = r.ref /\ r1.ord = r.ord /\ r1.buys = r.buys /\ r1.sells = r.sells
  BY ActorFacts, ZenonT(90) DEF Request
<1>6. req' = [req EXCEPT ![a] = t]
  BY DEF TakerUpdated
<1>7. RestingList(r) = heap[r1.ref][Opposite(r1.ord.side)]
  BY <1>5 DEF RestingList
<1> HIDE DEF r1
<1>8. OwnRowOK(r1, orders) /\ r1.ref \in Refs
  BY <1>2, <1>5, MatchStepFacts DEF OwnRowOK
<1>9. ListOK("BUY", r1.buys, orders) /\ ListOK("SELL", r1.sells, orders) /\ HeapOK(heap, orders)
  BY <1>5, ActorFacts DEF RequestOK, IInv
<1>10. a \in Requests
  BY <1>2, MatchStepFacts
<1>11. t \in Request /\ RequestOK(a, t, heap, orders)
  BY <1>4, <1>7, <1>8, <1>9, <1>10, ActorFacts, MatchFacts
<1> HIDE DEF t
<1> QED BY <1>1, <1>6, <1>11, ActorFacts, QuietStep

\* Shrinking a resting order in memory changes nothing but its size.
LEMMA ShrinkFacts ==
  ASSUME IInv, NEW a \in Actors, req[a].step \in MatchSteps, NEW left \in Int
  PROVE  /\ Shrink(req[a], left) \in Heaps
         /\ \A f \in Refs : SameArrays(heap, Shrink(req[a], left), f)
         /\ HeapOK(Shrink(req[a], left), orders)
<1> DEFINE r == req[a]
           side == Opposite(r.ord.side)
           old == heap[r.ref][side][r.idx]
           new == [old EXCEPT !.size = left]
           list == [heap[r.ref][side] EXCEPT ![r.idx] = new]
           arrays == [heap[r.ref] EXCEPT ![side] = list]
           mem == [heap EXCEPT ![r.ref] = arrays]
<1>1. r.ref \in Refs /\ side \in Sides /\ heap \in Heaps
  BY ActorFacts, ConstantFacts, MatchStepFacts DEF Order
<1>2. heap[r.ref] \in [Sides -> Seq(Entry)] /\ heap[r.ref][side] \in Seq(Entry)
  BY <1>1 DEF Heaps
<1>3. r.idx \in DOMAIN heap[r.ref][side]
  BY MatchStepFacts DEF RestingList
<1>4. Shrink(r, left) = mem
  BY <1>1, <1>2, <1>3 DEF Shrink
<1>5. old \in Entry
  BY <1>2, <1>3
<1>6. new \in Entry /\ new.id = old.id /\ new.price = old.price
  <2> HIDE DEF old
  <2> QED BY <1>5 DEF Entry
<1> HIDE DEF new
<1>7. /\ list \in Seq(Entry) /\ DOMAIN list = DOMAIN heap[r.ref][side]
      /\ \A i \in DOMAIN heap[r.ref][side] : /\ list[i].id = heap[r.ref][side][i].id
                                            /\ list[i].price = heap[r.ref][side][i].price
  <2> DEFINE before == heap[r.ref][side]
             place == r.idx
  <2>1. /\ before \in Seq(Entry) /\ place \in DOMAIN before /\ new \in Entry
        /\ new.id = before[place].id /\ new.price = before[place].price
    BY <1>2, <1>3, <1>6
  <2> HIDE DEF before, place
  <2>2. LET after == [before EXCEPT ![place] = new] IN
        /\ after \in Seq(Entry) /\ DOMAIN after = DOMAIN before
        /\ \A i \in DOMAIN before : after[i].id = before[i].id /\ after[i].price = before[i].price
    BY <2>1
  <2> QED BY <2>2, ZenonT(90) DEF before, place
<1> HIDE DEF list
<1>8. arrays \in [Sides -> Seq(Entry)]
  BY <1>2, <1>7
<1>9. mem \in Heaps
  BY <1>1, <1>8 DEF Heaps
<1>10. \A f \in Refs, s \in Sides :
         mem[f][s] = IF f = r.ref /\ s = side THEN list ELSE heap[f][s]
  BY <1>1, <1>2 DEF Heaps
<1> HIDE DEF mem
<1>11. \A f \in Refs : SameArrays(heap, mem, f)
  <2> SUFFICES ASSUME NEW f \in Refs, NEW s \in Sides
               PROVE  /\ DOMAIN mem[f][s] = DOMAIN heap[f][s]
                      /\ \A i \in DOMAIN heap[f][s] : /\ mem[f][s][i].id = heap[f][s][i].id
                                                     /\ mem[f][s][i].price = heap[f][s][i].price
    BY DEF SameArrays
  <2>1. CASE f = r.ref /\ s = side
    <3>1. mem[f][s] = list
      BY <1>10, <2>1
    <3>2. heap[f][s] = heap[r.ref][side]
      BY <2>1
    <3> QED BY <1>7, <3>1, <3>2, ZenonT(90)
  <2>2. CASE ~(f = r.ref /\ s = side)
    BY <1>10, <2>2
  <2> QED BY <2>1, <2>2
<1>12. HeapOK(heap, orders)
  BY DEF IInv
<1>13. HeapOK(mem, orders)
  BY <1>11, <1>12 DEF HeapOK, ListOK, SameArrays
<1> QED BY <1>4, <1>9, <1>11, <1>13

LEMMA FullTradedStep ==
  ASSUME IInv, NEW a \in Actors, FullTraded(a)
  PROVE  IInv'
<1> DEFINE r == req[a]
<1>0. PICK left \in Minus(Resting(r).size, r.ord.size) :
        /\ heap' = Shrink(r, left)
        /\ req' = [req EXCEPT ![a] = CallUpdate(r, "makerUpdated",
                     [id |-> Resting(r).id, size |-> left,
                      filled |-> Resting(r).filled + r.ord.size, close |-> left = 0])]
  BY DEF FullTraded
<1> DEFINE upd == [id |-> Resting(r).id, size |-> left, filled |-> Resting(r).filled + r.ord.size,
                   close |-> left = 0]
           t == CallUpdate(r, "makerUpdated", upd)
<1>1. /\ r.pc = "emit" /\ r.step = "fullTraded" /\ UNCHANGED <<orders, trades, bookRef, faults>>
  BY DEF FullTraded, Resume
<1>2. r.step \in MatchSteps
  BY <1>1 DEF MatchSteps
<1>3. upd \in Update /\ left \in Int
  <2>1. r.ord.size \in Int
    BY ActorFacts DEF Order
  <2>2. Resting(r).id \in Nat /\ Resting(r).size \in Int /\ Resting(r).filled \in Int
    BY <1>2, MatchStepFacts DEF Entry
  <2>3. left \in Int
    BY <1>0, <2>1, <2>2, MinusFacts
  <2> HIDE DEF r
  <2> QED BY <2>1, <2>2, <2>3 DEF Update
<1>4. upd.id = Resting(r).id
  OBVIOUS
<1> HIDE DEF upd
<1>5. t \in Request
  BY <1>3, ActorFacts, ZenonT(90) DEF CallUpdate, Request
<1>6. /\ t.pc = "update" /\ t.step = "makerUpdated" /\ t.ord = r.ord /\ t.ref = r.ref
      /\ t.idx = r.idx /\ t.buys = r.buys /\ t.sells = r.sells /\ t.upd = upd
  BY ActorFacts, ZenonT(90) DEF CallUpdate, Request
<1>7. req' = [req EXCEPT ![a] = t]
  BY <1>0 DEF upd
<1> HIDE DEF t
<1>8. WriteOK(t, heap, orders)
  BY <1>2, <1>4, <1>6, MatchStepFacts, ZenonT(90) DEF WriteOK
<1>9. RequestOK(a, t, heap, orders)
  BY <1>2, <1>6, <1>8, ActorFacts, MatchStepFacts, MatchStep DEF MatchSteps
<1>10. Extends(orders, orders') /\ heap' \in Heaps /\ HeapOK(heap', orders')
       /\ \A f \in Refs : SameArrays(heap, heap', f)
  BY <1>0, <1>1, <1>2, <1>3, ShrinkFacts DEF Extends
<1>11. \A b \in Actors : req[b].step \in MatchSteps => SameArrays(heap, heap', req[b].ref)
  BY <1>10, MatchStepFacts
<1>12. RequestOK(a, t, heap', orders')
  <2>1. t.ref \in Refs /\ HeapOK(heap, orders)
    BY <1>2, <1>6, MatchStepFacts DEF IInv
  <2> QED BY <1>5, <1>9, <1>10, <2>1, RequestStable
<1>13. TradePriceAcceptable' /\ EveryTradeClosesAnOrder' /\ NoFirstTrade'
  BY <1>1, <1>10, TradesStable DEF IInv
<1>14. orders' \in Seq(Row) /\ trades' \in Seq(Trade) /\ faults' \in Nat /\ bookRef' \in Refs
  BY <1>1, ActorFacts
<1> QED BY <1>5, <1>7, <1>10, <1>11, <1>12, <1>13, <1>14, StepOfOne

LEMMA UpdateOrderStep ==
  ASSUME IInv, NEW a \in Actors, UpdateOrder(a)
  PROVE  IInv'
<1> DEFINE r == req[a]
           u == r.upd
           row == [orders[u.id] EXCEPT !.size = Stored(u.size), !.filled = u.filled,
                                       !.isFilled = orders[u.id].isFilled \/ u.close]
           t == [r EXCEPT !.pc = "buys", !.upd = NoUpdate]
<1>1. r.pc = "update" /\ UNCHANGED <<trades, heap, bookRef, faults>>
  BY DEF UpdateOrder
<1>2. r.step \in MatchSteps
  BY <1>1, ActorFacts DEF RequestOK
<1>3. u \in Update /\ u.id \in DOMAIN orders /\ orders[u.id] \in Row
  <2>1. u \in Update
    BY ActorFacts, ZenonT(90) DEF Request
  <2>2. u.id \in DOMAIN orders
    BY <1>1, <1>2, MatchStepFacts, ZenonT(90) DEF WriteOK
  <2> QED BY <2>1, <2>2, ActorFacts
<1>4. orders' = [orders EXCEPT ![u.id] = row]
  BY DEF UpdateOrder
<1>5. /\ row \in Row /\ row.side = orders[u.id].side /\ row.type = orders[u.id].type
      /\ row.price = orders[u.id].price /\ (orders[u.id].isFilled \/ u.close => row.isFilled)
  <2>1. Stored(u.size) \in Int /\ u.filled \in Int /\ u.close \in BOOLEAN
    BY <1>3, StoredFacts DEF Update
  <2> DEFINE size == Stored(u.size)
  <2> HIDE DEF size
  <2> QED BY <1>3, <2>1 DEF Row, size
<1> HIDE DEF row
<1>6. orders' \in Seq(Row) /\ DOMAIN orders' = DOMAIN orders
      /\ \A i \in DOMAIN orders : orders'[i] = IF i = u.id THEN row ELSE orders[i]
  BY <1>3, <1>4, <1>5, ActorFacts
<1>7. Extends(orders, orders')
  BY <1>5, <1>6 DEF Extends
<1>8. t \in Request
  BY ActorFacts, ConstantFacts, ZenonT(90) DEF Request
<1>9. /\ t.pc = "buys" /\ t.step = r.step /\ t.ord = r.ord /\ t.ref = r.ref
      /\ t.idx = r.idx /\ t.buys = r.buys /\ t.sells = r.sells
  BY ActorFacts, ZenonT(90) DEF Request
<1>10. req' = [req EXCEPT ![a] = t]
  BY DEF UpdateOrder, IInv, TypeOK
<1>11. \A b \in Actors : SameArrays(heap, heap', req[b].ref)
  BY <1>1 DEF SameArrays
<1>12. HeapOK(heap, orders) /\ HeapOK(heap', orders')
  BY <1>1, <1>7, HeapStable DEF IInv
<1>13. RequestOK(a, r, heap', orders')
  BY <1>7, <1>11, <1>12, ActorFacts, RequestStable
<1> HIDE DEF t
<1>14. WriteOK(t, heap', orders')
  <2> DEFINE restingId == heap'[r.ref][Opposite(r.ord.side)][r.idx].id
  <2>1. WriteOK(r, heap', orders')
    BY <1>2, <1>13 DEF RequestOK
  <2>2. u.close => orders'[u.id].isFilled
    BY <1>3, <1>5, <1>6
  <2>3. r.step = "takerClosed" => orders'[r.ord.id].isFilled
    BY <1>1, <2>1, <2>2 DEF WriteOK
  <2>4. r.step = "makerClosed" => orders'[restingId].isFilled
    BY <1>1, <2>1, <2>2, ZenonT(90) DEF WriteOK
  <2> QED BY <1>1, <1>9, <2>1, <2>3, <2>4, ZenonT(90) DEF WriteOK
<1>15. RequestOK(a, t, heap', orders')
  BY <1>2, <1>9, <1>13, <1>14, MatchStepFacts, MatchStep
<1>16. TradePriceAcceptable' /\ EveryTradeClosesAnOrder' /\ NoFirstTrade'
  BY <1>1, <1>7, TradesStable DEF IInv
<1>17. heap' \in Heaps /\ trades' \in Seq(Trade) /\ faults' \in Nat /\ bookRef' \in Refs
  BY <1>1, ActorFacts
<1> QED BY <1>6, <1>7, <1>8, <1>10, <1>11, <1>12, <1>15, <1>16, <1>17, StepOfOne, ZenonT(90)

\* The trade that is saved: two orders of the two sides, at a price both
\* accept, one of them closed, of a pair that has traded before.
LEMMA SaveTradeStep ==
  ASSUME IInv, NEW a \in Actors, SaveTrade(a)
  PROVE  IInv'
<1> DEFINE r == req[a]
           new == TradeOf(r)
           t == [r EXCEPT !.pc = "buys", !.qty = 0]
<1>1. r.pc = "trade" /\ UNCHANGED <<orders, heap, bookRef, faults>>
  BY DEF SaveTrade
<1>2. r.step \in MatchSteps
  BY <1>1, ActorFacts DEF RequestOK
<1>3. CASE Resting(r).price = NoPrice
  <2>1. req' = [req EXCEPT ![a] = Reject(r)] /\ trades' = trades
    BY <1>3 DEF SaveTrade
  <2> QED BY <1>1, <2>1, ActorFacts, RejectFacts, QuietStep
<1>4. CASE Resting(r).price # NoPrice
  <2>1. trades' = Append(trades, new) /\ req' = [req EXCEPT ![a] = t]
    BY <1>4 DEF SaveTrade
  <2>2. /\ Resting(r) \in Entry /\ Resting(r).id \in DOMAIN orders
        /\ orders[Resting(r).id].side = Opposite(r.ord.side)
        /\ orders[Resting(r).id].price = Resting(r).price
        /\ Accepts(r.ord, Resting(r).price) /\ OwnRowOK(r, orders) /\ WriteOK(r, heap, orders)
    BY <1>2, MatchStepFacts
  <2>3. Resting(r).price \in Prices /\ Resting(r).id \in Nat
    BY <1>4, <2>2 DEF Entry
  <2>4. r.ord.side \in Sides /\ r.ord.id \in Nat /\ Stored(r.qty) \in Int
    BY ActorFacts, StoredFacts DEF Order, Request
  <2>5. r.ord.symbol \in TradedSymbols /\ r.ord.symbol \in Symbols
    BY <1>1, <2>2, OrderBookAssumption, ZenonT(90) DEF WriteOK
  <2>6. orders[r.ord.id].isFilled \/ orders[Resting(r).id].isFilled
    BY <1>1, <2>2, ZenonT(90) DEF WriteOK, Resting, RestingList
  <2>7. /\ new \in Trade /\ new.symbol = r.ord.symbol /\ new.price = Resting(r).price
        /\ new.buy = IF r.ord.side = "BUY" THEN r.ord.id ELSE Resting(r).id
        /\ new.sell = IF r.ord.side = "BUY" THEN Resting(r).id ELSE r.ord.id
    <3> DEFINE id == Resting(r).id
               price == Resting(r).price
    <3>1. new = [buy |-> IF r.ord.side = "BUY" THEN r.ord.id ELSE id,
                 sell |-> IF r.ord.side = "BUY" THEN id ELSE r.ord.id,
                 price |-> price, size |-> Stored(r.qty), symbol |-> r.ord.symbol]
      BY DEF TradeOf
    <3>2. id \in Nat /\ price \in Prices
      BY <2>3
    <3> HIDE DEF id, price, r, new
    <3>3. new \in Trade
      BY <2>4, <2>5, <3>1, <3>2 DEF Trade
    <3> QED BY <3>1, <3>3 DEF id, price
  <2> HIDE DEF new
  <2>8. /\ trades' \in Seq(Trade) /\ trades \in Seq(Trade)
        /\ \A i \in DOMAIN trades' : trades'[i] = new \/ (i \in DOMAIN trades /\ trades'[i] = trades[i])
    BY <2>1, <2>7, ActorFacts, AppendProperties, LenProperties
  <2>9. /\ new.buy \in DOMAIN orders /\ new.sell \in DOMAIN orders
        /\ orders[new.buy].side = "BUY" /\ orders[new.sell].side = "SELL"
        /\ orders[new.buy].type = "Limit" => new.price <= orders[new.buy].price
        /\ orders[new.sell].type = "Limit" => new.price >= orders[new.sell].price
    <3>0. new.price \in Nat
      BY <2>3, <2>7, ConstantFacts
    <3>1. CASE r.ord.side = "BUY"
      BY <2>2, <2>7, <3>0, <3>1 DEF Opposite, OwnRowOK, Accepts
    <3>2. CASE r.ord.side = "SELL"
      BY <2>2, <2>7, <3>0, <3>2 DEF Opposite, OwnRowOK, Accepts
    <3> QED BY <2>4, <3>1, <3>2 DEF Sides
  <2>10. orders' = orders
    BY <1>1
  <2>11. TradePriceAcceptable'
    BY <2>8, <2>9, <2>10 DEF IInv, TradePriceAcceptable
  <2>12. EveryTradeClosesAnOrder'
    BY <2>6, <2>7, <2>8, <2>10 DEF IInv, EveryTradeClosesAnOrder
  <2>13. NoFirstTrade'
    BY <2>5, <2>7, <2>8 DEF IInv, NoFirstTrade
  <2>14. t \in Request
    <3>1. r \in Request /\ 0 \in Int
      BY ActorFacts
    <3> HIDE DEF r
    <3> QED BY <3>1 DEF Request
  <2>15. /\ t.pc = "buys" /\ t.step = r.step /\ t.ord = r.ord /\ t.ref = r.ref
         /\ t.idx = r.idx /\ t.buys = r.buys /\ t.sells = r.sells
    BY ActorFacts, ZenonT(90) DEF Request
  <2> HIDE DEF t
  <2>16. WriteOK(t, heap, orders)
    BY <1>1, <2>2, <2>15, ZenonT(90) DEF WriteOK
  <2>17. RequestOK(a, t, heap', orders')
    BY <1>1, <1>2, <2>15, <2>16, ActorFacts, MatchStepFacts, MatchStep
  <2>18. Extends(orders, orders') /\ \A b \in Actors : SameArrays(heap, heap', req[b].ref)
    BY <1>1 DEF Extends, SameArrays
  <2>19. /\ orders' \in Seq(Row) /\ heap' \in Heaps /\ faults' \in Nat /\ bookRef' \in Refs
         /\ HeapOK(heap', orders')
    BY <1>1, ActorFacts DEF IInv
  <2> QED BY <2>1, <2>8, <2>11, <2>12, <2>13, <2>14, <2>17, <2>18, <2>19, StepOfOne
<1> QED BY <1>3, <1>4
-----------------------------------------------------------------------------
(* The theorems.                                                           *)

LEMMA NextStep == IInv /\ [Next]_vars => IInv'
<1> SUFFICES ASSUME IInv, [Next]_vars PROVE IInv'
  OBVIOUS
<1>1. CASE UNCHANGED vars
  BY <1>1 DEF vars, IInv, TypeOK, RequestsOK, TradePriceAcceptable, EveryTradeClosesAnOrder,
              NoFirstTrade
<1>2. ASSUME NEW a \in Requests, Submit(a) PROVE IInv'
  BY <1>2, SubmitStep
<1>3. ASSUME NEW a \in Viewers, FetchOrders(a) PROVE IInv'
  BY <1>3, FetchOrdersStep
<1>4. ASSUME NEW a \in Actors, Progress(a) PROVE IInv'
  <2>1. CASE EmitThrows(a)
    <3>1. req' = [req EXCEPT ![a] = Reject(@)] /\ UNCHANGED <<orders, trades, heap, bookRef, faults>>
      BY <2>1 DEF EmitThrows
    <3> QED BY <3>1, ActorFacts, RejectStep
  <2> QED BY <1>4, <2>1, InsertStep, ReadBuysStep, ReadSellsStep, AssignStep, PlacedStep,
             TakerClosedStep, FullTradedStep, MakerUpdatedStep, MakerClosedStep, PartTradedStep,
             TakerUpdatedStep, UpdateOrderStep, SaveTradeStep DEF Progress
<1>5. ASSUME NEW a \in Actors, Fail(a) PROVE IInv'
  <2>1. /\ req' = [req EXCEPT ![a] = Reject(@)] /\ UNCHANGED <<orders, trades, heap, bookRef>>
        /\ faults' = faults + 1
    BY <1>5 DEF Fail
  <2>2. faults' \in Nat
    BY <2>1, ActorFacts
  <2> QED BY <2>1, <2>2, RejectStep
<1>6. CASE Crash
  BY <1>6, CrashStep
<1> QED BY <1>1, <1>2, <1>3, <1>4, <1>5, <1>6 DEF Next

\* The invariant of OrderBookInv holds in every reachable state.
THEOREM Invariant == Spec => []IInv
BY InitStep, NextStep, PTL DEF Spec

\* Tables, arrays and request objects keep their types.
THEOREM TypeCorrect == Spec => []TypeOK
<1>1. IInv => TypeOK
  BY DEF IInv
<1> QED BY <1>1, Invariant, PTL

\* A match goes on in the arrays it began with, whoever replaces or shrinks the
\* service's lists meanwhile, and writes only about its own order and the one
\* it is looking at there.
THEOREM MatchesKeepTheirPlace == Spec => []RequestsOK
<1>1. IInv => RequestsOK
  BY DEF IInv
<1> QED BY <1>1, Invariant, PTL

\* Whatever lists matches walk, no trade is at a price one of its orders refuses.
THEOREM PricesAcceptable == Spec => []TradePriceAcceptable
<1>1. IInv => TradePriceAcceptable
  BY DEF IInv
<1> QED BY <1>1, Invariant, PTL

\* No failure or crash leaves a trade whose two orders are both still open.
THEOREM TradesCloseOrders == Spec => []EveryTradeClosesAnOrder
<1>1. IInv => EveryTradeClosesAnOrder
  BY DEF IInv
<1> QED BY <1>1, Invariant, PTL

\* A pair that has never traded never trades.
THEOREM ColdPairsStayCold == Spec => []NoFirstTrade
<1>1. IInv => NoFirstTrade
  BY DEF IInv
<1> QED BY <1>1, Invariant, PTL

\* What any step does to the two tables.
LEMMA TablesGrow ==
  ASSUME IInv, [Next]_vars
  PROVE  NothingReopened
<1>1. CASE UNCHANGED <<orders, trades>>
  BY <1>1 DEF NothingReopened
<1>2. ASSUME NEW a \in Actors, Insert(a) PROVE NothingReopened
  <2>1. PICK row : orders' = Append(orders, row) /\ trades' = trades
    BY <1>2 DEF Insert
  <2>2. \A i \in DOMAIN orders : i \in DOMAIN orders' /\ orders'[i] = orders[i]
    BY <2>1, ActorFacts
  <2> QED BY <2>1, <2>2 DEF NothingReopened
<1>3. ASSUME NEW a \in Actors, UpdateOrder(a) PROVE NothingReopened
  <2> DEFINE u == req[a].upd
             row == orders[u.id]
  <2>1. req[a].pc = "update"
    BY <1>3 DEF UpdateOrder
  <2>2. req[a].step \in MatchSteps
    BY <2>1, ActorFacts DEF RequestOK
  <2>3. u.id \in DOMAIN orders
    BY <2>1, <2>2, MatchStepFacts, ZenonT(90) DEF WriteOK
  <2>4. row \in Row
    BY <2>3, ActorFacts
  <2>5. PICK new : /\ orders' = [orders EXCEPT ![u.id] = new]
                   /\ new = [row EXCEPT !.size = Stored(u.size), !.filled = u.filled,
                                        !.isFilled = row.isFilled \/ u.close]
    BY <1>3 DEF UpdateOrder
  <2>6. new.price = row.price /\ (row.isFilled => new.isFilled)
    <3> HIDE DEF row, u
    <3> QED BY <2>4, <2>5 DEF Row
  <2>7. trades' = trades
    BY <1>3 DEF UpdateOrder
  <2> QED BY <2>3, <2>5, <2>6, <2>7 DEF NothingReopened
<1>4. ASSUME NEW a \in Actors, SaveTrade(a) PROVE NothingReopened
  <2> DEFINE new == TradeOf(req[a])
  <2>1. orders' = orders /\ (trades' = trades \/ trades' = Append(trades, new))
    BY <1>4 DEF SaveTrade
  <2> HIDE DEF new
  <2>2. \A i \in DOMAIN trades : i \in DOMAIN trades' /\ trades'[i] = trades[i]
    <3>1. trades \in Seq(Trade)
      BY ActorFacts
    <3>2. CASE trades' = trades
      BY <3>2
    <3>3. CASE trades' = Append(trades, new)
      BY <3>1, <3>3
    <3> QED BY <2>1, <3>2, <3>3
  <2> QED BY <2>1, <2>2 DEF NothingReopened
<1>5. ASSUME NEW a \in Actors, Progress(a), ~Insert(a), ~UpdateOrder(a), ~SaveTrade(a)
      PROVE  UNCHANGED <<orders, trades>>
  BY <1>5, ZenonT(90) DEF Progress, ReadBuys, ReadSells, Assign, EmitThrows, Placed, TakerClosed, FullTraded,
              MakerUpdated, MakerClosed, PartTraded, TakerUpdated, Resume
<1>6. ASSUME NEW a, Submit(a) \/ FetchOrders(a) \/ Fail(a) PROVE UNCHANGED <<orders, trades>>
  BY <1>6, ZenonT(90) DEF Submit, FetchOrders, Fail
<1>7. CASE Crash
  BY <1>7, <1>1 DEF Crash
<1>8. CASE UNCHANGED vars
  BY <1>8, <1>1 DEF vars
<1>9. NothingReopened
  BY <1>2, <1>3, <1>4, <1>5, <1>6, <1>1, <1>7, <1>8 DEF Next
<1> QED BY <1>9

\* No step opens a closed order again, changes an order's price or removes a
\* trade: a late updateOrder of one request cannot undo what another closed.
THEOREM ClosedOrdersStayClosed == Spec => FilledIsFinal
<1>1. IInv /\ [Next]_vars => [NothingReopened]_vars
  BY TablesGrow
<1> QED BY <1>1, Invariant, PTL DEF Spec, FilledIsFinal
=============================================================================
