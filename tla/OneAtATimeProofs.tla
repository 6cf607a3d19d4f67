-------------------------- MODULE OneAtATimeProofs --------------------------
(***************************************************************************)
(* Proofs, for one POST request at a time and exact numbers, that the      *)
(* orders are settled and uncrossed between requests that were not caught  *)
(* in the middle of a match, and that the engine implements the Exchange   *)
(* for limit orders.                                                       *)
(***************************************************************************)
EXTENDS OneAtATime, OrderBookProofs, SumProofs
-----------------------------------------------------------------------------
(* Numbers.                                                                *)

LEMMA WholeMultiple ==
  ASSUME NEW x \in Int
  PROVE  Whole(x) <=> \E k \in Int : x = k * Unit
<1>1. Unit \in Nat \ {0}
  BY OrderBookAssumption
<1>2. ASSUME Whole(x)
      PROVE  \E k \in Int : x = k * Unit
  <2>1. x % Unit = 0
    BY <1>2 DEF Whole
  <2>2. x \div Unit \in Int
    BY <1>1
  <2>3. x = (x \div Unit) * Unit
    BY <1>1, <2>1
  <2> QED BY <2>2, <2>3
<1>3. ASSUME NEW k \in Int
      PROVE  (k * Unit) % Unit = 0
  BY <1>1
<1> QED BY <1>2, <1>3 DEF Whole

LEMMA WholeFacts ==
  ASSUME NEW x \in Int, NEW y \in Int, Whole(x), Whole(y)
  PROVE  Whole(x + y) /\ Whole(x - y)
<1>1. Unit \in Int
  BY OrderBookAssumption
<1>2. PICK j \in Int : x = j * Unit
  BY WholeMultiple
<1>3. PICK k \in Int : y = k * Unit
  BY WholeMultiple
<1>4. x + y = (j + k) * Unit /\ x - y = (j - k) * Unit
  BY <1>1, <1>2, <1>3
<1>5. j + k \in Int /\ j - k \in Int /\ x + y \in Int /\ x - y \in Int
  OBVIOUS
<1> QED BY <1>4, <1>5, WholeMultiple

LEMMA WholeZero == Whole(0)
BY OrderBookAssumption DEF Whole

LEMMA SizeFacts ==
  ASSUME NEW size \in Sizes
  PROVE  size \in Nat /\ size > 0 /\ Whole(size)
<1>1. size \in Nat \ {0} /\ size % Unit = 0
  BY OrderBookAssumption
<1> QED BY <1>1 DEF Whole

\* The tables keep what is whole.
LEMMA WholeStored ==
  ASSUME NEW x \in Int, Whole(x)
  PROVE  Stored(x) = x
<1>1. Unit \in Nat \ {0}
  BY OrderBookAssumption
<1>2. PICK k \in Int : x = k * Unit
  BY WholeMultiple
<1>3. Unit \div 2 \in 0 .. Unit - 1
  BY <1>1
<1>4. (k * Unit + Unit \div 2) \div Unit = k
  BY <1>1, <1>3
<1> QED BY <1>2, <1>4 DEF Stored

\* Without dust a difference is a difference.
LEMMA ExactMinus ==
  ASSUME Environment, NEW x \in Int, NEW y \in Int
  PROVE  Minus(x, y) = {x - y}
<1>1. Minus(x, y) \subseteq {x - y}
  BY DEF Minus, Environment
<1>2. x - y \in Minus(x, y)
  <2>1. x - y = x - y + 0
    OBVIOUS
  <2>2. x - y \in {x - y + e : e \in Dust}
    BY <2>1, Zenon DEF Environment
  <2> QED BY <2>2 DEF Minus
<1> QED BY <1>1, <1>2
-----------------------------------------------------------------------------
(* What an order has traded.                                               *)

SharesIn(ts, i) == [k \in DOMAIN ts |-> Share(i, ts[k])]
SumIn(ts, i) == SumFunctionOnSet(SharesIn(ts, i), DOMAIN ts)

LEMMA TradedIs ==
  /\ \A i : TradedSize(i) = SumIn(trades, i)
  /\ Traded = [i \in DOMAIN orders |-> SumIn(trades, i)]
BY DEF Traded, TradedSize, SumFunction, SumIn, SharesIn

LEMMA TradedIsNext ==
  Traded' = [i \in DOMAIN orders' |-> SumIn(trades', i)]
BY DEF Traded, TradedSize, SumFunction, SumIn, SharesIn

LEMMA SharesType ==
  ASSUME NEW ts \in Seq(Trade), NEW i
  PROVE  /\ IsFiniteSet(DOMAIN ts)
         /\ \A k \in DOMAIN ts : SharesIn(ts, i)[k] \in Int
<1>1. Len(ts) \in Nat /\ DOMAIN ts = 1 .. Len(ts)
  BY LenProperties
<1>2. IsFiniteSet(DOMAIN ts)
  BY <1>1, FS_Interval
<1>3. \A k \in DOMAIN ts : ts[k] \in Trade
  BY ElementOfSeq
<1> QED BY <1>2, <1>3 DEF SharesIn, Share, Trade

LEMMA SumInType ==
  ASSUME NEW ts \in Seq(Trade), NEW i
  PROVE  SumIn(ts, i) \in Int
BY SharesType, SumType DEF SumIn

LEMMA SumInNone ==
  ASSUME NEW ts \in Seq(Trade), NEW i,
         \A k \in DOMAIN ts : i \notin {ts[k].buy, ts[k].sell}
  PROVE  SumIn(ts, i) = 0
<1>1. \A k \in DOMAIN ts : SharesIn(ts, i)[k] = 0
  BY DEF SharesIn, Share
<1> QED BY <1>1, SharesType, SumZero DEF SumIn

\* A trade adds its size to what its two orders have traded.
LEMMA SumInAppend ==
  ASSUME NEW ts \in Seq(Trade), NEW t \in Trade, NEW i
  PROVE  SumIn(Append(ts, t), i) = SumIn(ts, i) + Share(i, t)
<1> DEFINE us == Append(ts, t)
           n == Len(ts) + 1
           old == SharesIn(ts, i)
           new == SharesIn(us, i)
<1>1. Len(ts) \in Nat /\ DOMAIN ts = 1 .. Len(ts)
  BY LenProperties
<1>2. /\ us \in Seq(Trade) /\ DOMAIN us = 1 .. n
      /\ us[n] = t /\ \A k \in 1 .. Len(ts) : us[k] = ts[k]
  BY <1>1, AppendProperties
<1> HIDE DEF us
<1>3. n \in DOMAIN us /\ DOMAIN us \ {n} = DOMAIN ts
  BY <1>1, <1>2
<1>4. new[n] = Share(i, t) /\ \A k \in DOMAIN ts : new[k] = old[k]
  BY <1>1, <1>2, <1>3 DEF SharesIn
<1>5. IsFiniteSet(DOMAIN us) /\ (\A k \in DOMAIN us : new[k] \in Int) /\ IsFiniteSet(DOMAIN ts)
  BY <1>2, SharesType
<1> HIDE DEF new, old, n
<1>6. SumFunctionOnSet(new, DOMAIN us) = new[n] + SumFunctionOnSet(new, DOMAIN us \ {n})
  BY <1>3, <1>5, SumRemove
<1>7. SumFunctionOnSet(new, DOMAIN ts) = SumFunctionOnSet(old, DOMAIN ts)
  BY <1>4, <1>5, SumEqual
<1>8. new[n] \in Int /\ SumIn(ts, i) \in Int
  BY <1>3, <1>5, SumInType
<1> QED BY <1>3, <1>4, <1>6, <1>7, <1>8 DEF SumIn, new, old, us
-----------------------------------------------------------------------------
(* Tables.                                                                 *)

\* A step leaves the rows, what was ordered, and what is closed.
Keeps(table, next) ==
  \A i \in DOMAIN table :
    /\ i \in DOMAIN next
    /\ next[i].side = table[i].side /\ next[i].symbol = table[i].symbol
    /\ next[i].type = table[i].type /\ next[i].price = table[i].price
    /\ next[i].orgSize = table[i].orgSize /\ next[i].created = table[i].created
    /\ table[i].isFilled => next[i].isFilled

LEMMA RowsFacts ==
  ASSUME NEW table \in Seq(Row)
  PROVE  /\ Len(table) \in Nat /\ DOMAIN table = 1 .. Len(table)
         /\ \A i \in DOMAIN table :
              /\ i \in Nat /\ table[i] \in Row /\ table[i].side \in Sides
              /\ table[i].price \in Nat /\ table[i].created \in Nat
              /\ table[i].size \in Int /\ table[i].orgSize \in Int /\ table[i].filled \in Int
              /\ table[i].isFilled \in BOOLEAN /\ table[i].type \in {"Limit", "Market"}
<1>1. Len(table) \in Nat /\ DOMAIN table = 1 .. Len(table)
  BY LenProperties
<1>2. \A i \in DOMAIN table : table[i] \in Row /\ i \in Nat
  BY <1>1, ElementOfSeq
<1>3. Prices \cup {NoPrice} \subseteq Nat
  BY ConstantFacts DEF NoPrice
<1> QED BY <1>1, <1>2, <1>3 DEF Row

LEMMA PrecedesStable ==
  ASSUME NEW table, NEW next, Keeps(table, next), NEW i \in DOMAIN table, NEW j \in DOMAIN table
  PROVE  Precedes(i, j, next) <=> Precedes(i, j, table)
BY DEF Keeps, Precedes

LEMMA PrecedesTransitive ==
  ASSUME NEW table \in Seq(Row), NEW i \in DOMAIN table, NEW j \in DOMAIN table,
         NEW k \in DOMAIN table, table[i].side = table[j].side,
         Precedes(i, j, table), Precedes(j, k, table)
  PROVE  Precedes(i, k, table)
<1>1. \A n \in {i, j, k} : table[n].price \in Nat /\ table[n].created \in Nat
  BY RowsFacts
<1> QED BY <1>1, SMTT(40) DEF Precedes

LEMMA ReachStable ==
  ASSUME NEW table \in Seq(Row), NEW next, Keeps(table, next),
         NEW i \in DOMAIN table, NEW j \in DOMAIN table
  PROVE  OutOfReach(i, j, next) <=> OutOfReach(i, j, table)
<1> DEFINE Better(t, n) == /\ n # i /\ t[n].side = t[i].side /\ t[n].symbol = t[i].symbol
                           /\ Precedes(n, i, t)
<1>1. 1 .. j - 1 \subseteq DOMAIN table
  BY RowsFacts
<1>2. \A n \in 1 .. j - 1 : Better(next, n) <=> Better(table, n)
  BY <1>1, PrecedesStable DEF Keeps
<1>3. {n \in 1 .. j - 1 : Better(next, n)} = {n \in 1 .. j - 1 : Better(table, n)}
  BY <1>2
<1> QED BY <1>3 DEF OutOfReach

\* The state's operators are these.
LEMMA ReachIs ==
  ASSUME NEW i, NEW j
  PROVE  BeyondLimit(i, j) <=> OutOfReach(i, j, orders)
<1>1. \A n : orders[n].side = orders[i].side =>
              (SortsBefore(orders[i].side, n, i) <=> Precedes(n, i, orders))
  BY DEF SortsBefore, Precedes
<1> DEFINE S == {n \in 1 .. j - 1 : /\ n # i
                                    /\ orders[n].side = orders[i].side
                                    /\ orders[n].symbol = orders[i].symbol
                                    /\ SortsBefore(orders[i].side, n, i)}
           T == {n \in 1 .. j - 1 : /\ n # i
                                    /\ orders[n].side = orders[i].side
                                    /\ orders[n].symbol = orders[i].symbol
                                    /\ Precedes(n, i, orders)}
<1>2. S = T
  BY <1>1
<1> QED BY <1>2 DEF BeyondLimit, OutOfReach
-----------------------------------------------------------------------------
(* The walk through a list.                                                *)

\* What a match may still meet stays what it was when sizes change, in the table
\* or in the list, and orders close.
LEMMA WalkStable ==
  ASSUME NEW table \in Seq(Row), NEW next, Keeps(table, next), DOMAIN next = DOMAIN table,
         NEW r, NEW t, r.ord.id \in DOMAIN table,
         t.ord.id = r.ord.id, t.ord.side = r.ord.side, t.ord.symbol = r.ord.symbol,
         NEW list, NEW list2, NEW n,
         \A k \in 1 .. n : list2[k].id = list[k].id /\ list2[k].price = list[k].price,
         WalkOK(r, list, n, table)
  PROVE  WalkOK(t, list2, n, next)
<1>1. \A k \in 1 .. n : /\ list2[k].id = list[k].id /\ list2[k].id \in DOMAIN table
                         /\ table[list2[k].id].symbol = t.ord.symbol
                         /\ table[list2[k].id].side = Opposite(t.ord.side)
                         /\ table[list2[k].id].price = list2[k].price
  BY DEF WalkOK
<1>2. \A k \in 1 .. n : /\ list2[k].id \in DOMAIN next
                         /\ next[list2[k].id].symbol = t.ord.symbol
                         /\ next[list2[k].id].side = Opposite(t.ord.side)
                         /\ next[list2[k].id].price = list2[k].price
  BY <1>1 DEF Keeps
<1>3. \A j, k \in 1 .. n : j < k => /\ list2[j].id # list2[k].id
                                     /\ Precedes(list2[j].id, list2[k].id, next)
  BY <1>1, PrecedesStable DEF WalkOK
<1>4. ASSUME NEW o \in DOMAIN next, next[o].side = Opposite(t.ord.side),
             next[o].symbol = t.ord.symbol, ~next[o].isFilled
      PROVE  (\E k \in 1 .. n : list2[k].id = o) \/ OutOfReach(o, t.ord.id, next)
  <2>1. /\ o \in DOMAIN table /\ table[o].side = Opposite(r.ord.side)
        /\ table[o].symbol = r.ord.symbol /\ ~table[o].isFilled
    BY <1>4 DEF Keeps
  <2>2. (\E k \in 1 .. n : list[k].id = o) \/ OutOfReach(o, r.ord.id, table)
    BY <2>1 DEF WalkOK
  <2> QED BY <1>1, <2>1, <2>2, ReachStable
<1> QED BY <1>2, <1>3, <1>4 DEF WalkOK

\* The walk leaves out an entry whose order is closed.
LEMMA WalkDown ==
  ASSUME NEW r, NEW list, NEW table, NEW n \in Nat \ {0}, WalkOK(r, list, n, table),
         table[list[n].id].isFilled
  PROVE  WalkOK(r, list, n - 1, table)
<1>1. \A k : k \in 1 .. n <=> k \in 1 .. n - 1 \/ k = n
  OBVIOUS
<1> QED BY <1>1 DEF WalkOK

\* Of an empty table row nothing is left; an open row has something left.
LEMMA OpenRow ==
  ASSUME NEW table, NEW traded, AmountsOK(table, traded), NEW i \in DOMAIN table,
         RowOK(i, table, traded)
  PROVE  IF table[i].isFilled THEN Left(i, table, traded) = 0 ELSE Left(i, table, traded) > 0
<1>1. Left(i, table, traded) \in Nat
  BY DEF AmountsOK
<1>2. table[i].isFilled <=> Left(i, table, traded) = 0
  BY DEF RowOK, Shows
<1> QED BY <1>1, <1>2

\* What the query returns for the other side is all that the newest order can meet.
LEMMA FreshList ==
  ASSUME IInv, NEW r \in Request, r.ord.id = Len(orders), OwnRowOK(r, orders),
         AmountsOK(orders, Traded), RowsOK({}, orders, Traded),
         NEW list \in FindOrders(Opposite(r.ord.side), r.ord.symbol)
  PROVE  FreshOK(r, list, orders, Traded)
<1> DEFINE side == Opposite(r.ord.side)
           open == Open(side, r.ord.symbol)
           n == IF Cardinality(open) < BookLimit THEN Cardinality(open) ELSE BookLimit
<1>1. /\ orders \in Seq(Row) /\ Len(orders) \in Nat /\ DOMAIN orders = 1 .. Len(orders)
      /\ IsFiniteSet(DOMAIN orders) /\ r.ord.id \in DOMAIN orders
  BY RowsFacts, FS_Interval DEF IInv, TypeOK, OwnRowOK
<1>2. /\ open \subseteq DOMAIN orders /\ IsFiniteSet(open) /\ Cardinality(open) \in Nat
      /\ BookLimit \in Nat \ {0}
  <2>1. open \subseteq DOMAIN orders
    BY DEF Open
  <2> HIDE DEF open
  <2> QED BY <1>1, <2>1, FS_Subset, FS_CardinalityType, OrderBookAssumption
<1>3. n \in Nat
  BY <1>2
<1>4. PICK l \in [1 .. n -> open] :
        /\ \A i, j \in 1 .. n : i < j => l[i] # l[j] /\ SortsBefore(side, l[i], l[j])
        /\ \A o \in open : (\A i \in 1 .. n : l[i] # o) => SortsBefore(side, l[n], o)
        /\ list = [i \in 1 .. n |-> EntryOf(l[i])]
  BY DEF FindOrders
<1>5. \A o \in open : /\ o \in DOMAIN orders /\ orders[o].side = side
                      /\ orders[o].symbol = r.ord.symbol /\ ~orders[o].isFilled
  BY DEF Open
<1>6. \A o, p \in open : SortsBefore(side, o, p) <=> Precedes(o, p, orders)
  BY <1>5 DEF SortsBefore, Precedes
<1> HIDE DEF open, n
<1>7. /\ DOMAIN list = 1 .. n /\ Len(list) = n
      /\ \A k \in 1 .. n : list[k] = EntryOf(l[k]) /\ l[k] \in open
  <2>1. list \in Seq(Entry)
    <3>1. side \in Sides /\ r.ord.symbol \in Symbols
      BY ConstantFacts DEF Request, Order
    <3> QED BY <3>1, FindOrdersFacts DEF IInv
  <2>2. DOMAIN list = 1 .. n /\ \A k \in 1 .. n : list[k] = EntryOf(l[k]) /\ l[k] \in open
    BY <1>4
  <2>3. Len(list) \in Nat /\ 1 .. Len(list) = 1 .. n
    BY <2>1, <2>2, LenProperties
  <2> QED BY <1>3, <2>2, <2>3
<1>8. \A k \in 1 .. n : /\ list[k].id = l[k] /\ list[k].price = orders[l[k]].price
                        /\ list[k].size = orders[l[k]].size
                        /\ list[k].filled = orders[l[k]].filled
  BY <1>7 DEF EntryOf
<1>9. EntriesOK(list, n, orders, Traded)
  <2> SUFFICES ASSUME NEW k \in 1 .. n PROVE EntryOK(list[k], orders, Traded)
    BY DEF EntriesOK
  <2>1. l[k] \in DOMAIN orders /\ ~orders[l[k]].isFilled
    BY <1>5, <1>7
  <2>2. RowOK(l[k], orders, Traded)
    BY <2>1 DEF RowsOK
  <2>3. Left(l[k], orders, Traded) > 0
    BY <2>1, <2>2, OpenRow
  <2> QED BY <1>8, <2>2, <2>3 DEF EntryOK, RowOK, Shows
<1>10. ASSUME NEW o \in open, \A k \in 1 .. n : list[k].id # o
       PROVE  OutOfReach(o, r.ord.id, orders)
  <2>1. \A k \in 1 .. n : l[k] # o
    BY <1>8, <1>10
  <2>2. n = BookLimit
    <3> SUFFICES ASSUME n # BookLimit PROVE FALSE
      OBVIOUS
    <3>1. n = Cardinality(open)
      BY DEF n
    <3>2. l \in Injection(1 .. n, open)
      <4>1. \A i, j \in 1 .. n : l[i] = l[j] => i = j
        BY <1>3, <1>4
      <4> QED BY <1>4, <4>1 DEF Injection, IsInjective
    <3>3. Cardinality(1 .. n) = Cardinality(open)
      BY <1>3, <3>1, FS_Interval
    <3>4. l \in Surjection(1 .. n, open)
      BY <1>2, <3>2, <3>3, FS_Injection
    <3> QED BY <2>1, <3>4 DEF Surjection
  <2> DEFINE better == {m \in 1 .. r.ord.id - 1 : /\ m # o
                                                 /\ orders[m].side = orders[o].side
                                                 /\ orders[m].symbol = orders[o].symbol
                                                 /\ Precedes(m, o, orders)}
  <2>3. \A k \in 1 .. n : Precedes(l[k], o, orders)
    <3> SUFFICES ASSUME NEW k \in 1 .. n PROVE Precedes(l[k], o, orders)
      OBVIOUS
    <3>1. n \in 1 .. n /\ l[n] \in open
      BY <1>3, <1>7
    <3>2. Precedes(l[n], o, orders)
      BY <1>4, <1>6, <2>1, <3>1
    <3>3. CASE k = n
      BY <3>2, <3>3
    <3>4. CASE k # n
      <4>1. k < n
        BY <1>3, <3>4
      <4>2. Precedes(l[k], l[n], orders)
        BY <1>4, <1>6, <1>7, <3>1, <4>1
      <4> QED BY <1>1, <1>5, <1>7, <3>1, <3>2, <4>2, PrecedesTransitive
    <3> QED BY <3>3, <3>4
  <2>4. \A k \in 1 .. n : l[k] \in better
    <3> SUFFICES ASSUME NEW k \in 1 .. n PROVE l[k] \in better
      OBVIOUS
    <3>1. l[k] \in open /\ l[k] # o
      BY <1>7, <2>1
    <3>2. l[k] # r.ord.id
      <4>1. orders[l[k]].side = side /\ orders[r.ord.id].side = r.ord.side
        BY <1>5, <3>1 DEF OwnRowOK
      <4>2. r.ord.side \in Sides
        BY DEF Request, Order
      <4> QED BY <4>1, <4>2 DEF Opposite, Sides
    <3>3. l[k] \in 1 .. r.ord.id - 1
      BY <1>1, <1>5, <3>1, <3>2
    <3> QED BY <1>5, <2>3, <3>1, <3>3
  <2>5. IsFiniteSet(better)
    <3>1. better \subseteq DOMAIN orders
      BY <1>1
    <3> HIDE DEF better
    <3> QED BY <1>1, <3>1, FS_Subset
  <2> HIDE DEF better
  <2>6. l \in Injection(1 .. n, better)
    <3>1. \A i, j \in 1 .. n : l[i] = l[j] => i = j
      BY <1>3, <1>4
    <3>2. l \in [1 .. n -> better]
      BY <1>4, <2>4
    <3> QED BY <3>1, <3>2 DEF Injection, IsInjective
  <2>7. n <= Cardinality(better)
    <3>1. Cardinality(1 .. n) = n
      BY <1>3, FS_Interval
    <3>2. Cardinality(1 .. n) <= Cardinality(better)
      BY <2>5, <2>6, FS_Injection
    <3> QED BY <3>1, <3>2
  <2> QED BY <2>2, <2>7 DEF OutOfReach, better
<1>11. \A o \in DOMAIN orders :
         orders[o].side = side /\ orders[o].symbol = r.ord.symbol /\ ~orders[o].isFilled
         => o \in open
  BY DEF open, Open
<1>12. WalkOK(r, list, n, orders)
  <2>1. \A k \in 1 .. n : /\ list[k].id \in DOMAIN orders
                          /\ orders[list[k].id].symbol = r.ord.symbol
                          /\ orders[list[k].id].side = side
                          /\ orders[list[k].id].price = list[k].price
    BY <1>5, <1>7, <1>8
  <2>2. \A j, k \in 1 .. n : j < k => /\ list[j].id # list[k].id
                                      /\ Precedes(list[j].id, list[k].id, orders)
    BY <1>4, <1>6, <1>7, <1>8
  <2> QED BY <1>10, <1>11, <2>1, <2>2 DEF WalkOK
<1> QED BY <1>7, <1>9, <1>12 DEF FreshOK
-----------------------------------------------------------------------------
(* A turn of the match loop.                                               *)

Crossing(r, list) == {i \in DOMAIN list : Accepts(r.ord, list[i].price)}

LEMMA MatchIsTurn ==
  ASSUME NEW r \in Request, NEW list
  PROVE  Match(r, list) = Turn(r, list, Crossing(r, list))
<1>1. r.ord.type \in {"Limit", "Market"} /\ r.ord.side \in {"BUY", "SELL"}
  BY DEF Request, Order, Sides
<1>2. CASE r.ord.type # "Limit"
  <2>1. Crossing(r, list) = DOMAIN list
    BY <1>2 DEF Crossing, Accepts
  <2> QED BY <1>2, <2>1 DEF Match, MatchMarketBuyOrder, MatchMarketSellOrder
<1>3. CASE r.ord.type = "Limit" /\ r.ord.side = "BUY"
  <2>1. Crossing(r, list) = {i \in DOMAIN list : list[i].price <= r.ord.price}
    BY <1>3 DEF Crossing, Accepts
  <2> QED BY <1>3, <2>1 DEF Match, MatchBuyOrder
<1>4. CASE r.ord.type = "Limit" /\ r.ord.side = "SELL"
  <2>1. Crossing(r, list) = {i \in DOMAIN list : list[i].price >= r.ord.price}
    BY <1>4 DEF Crossing, Accepts
  <2> QED BY <1>4, <2>1 DEF Match, MatchSellOrder
<1> QED BY <1>1, <1>2, <1>3, <1>4

\* With all rows settled, a turn ends the request or begins a fill.
LEMMA TurnSettled ==
  ASSUME NEW r \in Request, NEW list, NEW table \in Seq(Row), NEW traded,
         AmountsOK(table, traded), RowsOK({}, table, traded), OrderOK(r, table, traded),
         r.ord.id \in DOMAIN table, table[r.ord.id].side = r.ord.side,
         WalkOK(r, list, r.idx, table), EntriesOK(list, r.idx, table, traded),
         r.idx \in DOMAIN list => r.idx \in 1 .. r.idx
  PROVE  LET t == Match(r, list) IN
         \/ r.idx \notin Crossing(r, list) /\ t = Finish(r, "ok")
         \/ /\ t.pc = "update" /\ t.step \in MatchSteps /\ t.ord = r.ord /\ t.ref = r.ref
            /\ t.idx = r.idx /\ t.answer = r.answer
            /\ MatchOK(t, list, table, traded)
<1> DEFINE t == Turn(r, list, Crossing(r, list))
           e == list[r.idx]
           own == [id |-> r.ord.id, size |-> 0, filled |-> r.ord.filled + r.ord.size, close |-> TRUE]
           other == [id |-> e.id, size |-> 0, filled |-> e.filled + e.size, close |-> TRUE]
<1>1. Match(r, list) = t
  BY MatchIsTurn
<1>2. CASE r.idx \notin Crossing(r, list)
  BY <1>1, <1>2 DEF Turn
<1>3. CASE r.idx \in Crossing(r, list)
  <2>1. r.idx \in DOMAIN list /\ r.idx \in 1 .. r.idx /\ r.idx \in Nat
    BY <1>3 DEF Crossing, Request
  <2>2. EntryOK(e, table, traded) /\ EntriesOK(list, r.idx - 1, table, traded)
    <3>1. \A k \in 1 .. r.idx - 1 : k \in 1 .. r.idx
      BY <2>1
    <3> QED BY <2>1, <3>1 DEF EntriesOK
  <2>3. e.id \in DOMAIN table /\ e.id # r.ord.id
    <3>1. e.id \in DOMAIN table /\ table[e.id].side = Opposite(r.ord.side)
      BY <2>1 DEF WalkOK
    <3>2. Opposite(r.ord.side) # r.ord.side
      BY DEF Request, Order, Sides, Opposite
    <3> QED BY <3>1, <3>2
  <2>4. /\ RowOK(r.ord.id, table, traded) /\ RowOK(e.id, table, traded)
        /\ RowsOK({r.ord.id, e.id}, table, traded)
    BY <2>3 DEF RowsOK
  <2>5. r.ord.size \in Int /\ e.size \in Int
    <3>1. e.size = Left(e.id, table, traded)
      BY <2>2 DEF EntryOK
    <3> QED BY <2>3, <3>1 DEF Request, Order, AmountsOK
  <2>6. CASE e.size >= r.ord.size
    <3>1. t = [r EXCEPT !.pc = "update", !.step = "takerClosed", !.upd = own]
      BY <1>3, <2>6 DEF Turn, CallUpdate
    <3>2. /\ t.pc = "update" /\ t.step = "takerClosed" /\ t.upd = own /\ t.ref = r.ref
          /\ t.idx = r.idx /\ t.ord = r.ord /\ t.answer = r.answer
      BY <3>1 DEF Request
    <3> HIDE DEF t, e
    <3>3. StageOK(t, e, table, traded)
      BY <2>2, <2>4, <2>5, <2>6, <3>2 DEF StageOK, OrderOK
    <3>4. WalkOK(t, list, t.idx, table)
      BY <3>2 DEF WalkOK
    <3>5. MatchOK(t, list, table, traded)
      BY <2>2, <2>3, <2>4, <3>2, <3>3, <3>4 DEF MatchOK, e
    <3> QED BY <1>1, <3>2, <3>5 DEF MatchSteps
  <2>7. CASE ~(e.size >= r.ord.size)
    <3>1. t = [r EXCEPT !.pc = "update", !.step = "makerClosed", !.upd = other]
      BY <1>3, <2>7 DEF Turn, CallUpdate
    <3>2. /\ t.pc = "update" /\ t.step = "makerClosed" /\ t.upd = other /\ t.ref = r.ref
          /\ t.idx = r.idx /\ t.ord = r.ord /\ t.answer = r.answer
      BY <3>1 DEF Request
    <3> HIDE DEF t, e
    <3>3. StageOK(t, e, table, traded)
      BY <2>2, <2>4, <2>5, <2>7, <3>2 DEF StageOK, OrderOK
    <3>4. WalkOK(t, list, t.idx, table)
      BY <3>2 DEF WalkOK
    <3>5. MatchOK(t, list, table, traded)
      BY <2>2, <2>3, <2>4, <3>2, <3>3, <3>4 DEF MatchOK, e
    <3> QED BY <1>1, <3>2, <3>5 DEF MatchSteps
  <2> QED BY <2>6, <2>7
<1> QED BY <1>2, <1>3

\* When the loop breaks, what is left of the list is beyond the limit price.
LEMMA BreakUncrossed ==
  ASSUME NEW r \in Request, NEW list \in Seq(Entry), NEW table \in Seq(Row),
         OwnRowOK(r, table), table[r.ord.id].symbol = r.ord.symbol, r.ord.id = Len(table),
         WalkOK(r, list, r.idx, table), r.idx <= Len(list), r.idx \notin Crossing(r, list)
  PROVE  \A b, s \in DOMAIN table : r.ord.id \in {b, s} => ~Missed(b, s, table)
<1> DEFINE own == r.ord.id
<1>1. SUFFICES ASSUME NEW b \in DOMAIN table, NEW s \in DOMAIN table, own \in {b, s},
                      Missed(b, s, table)
               PROVE  FALSE
  OBVIOUS
<1> DEFINE o == IF b = own THEN s ELSE b
<1>2. /\ r.ord.side \in {"BUY", "SELL"} /\ r.ord.price \in Nat /\ r.idx \in Nat
      /\ table[own].side = r.ord.side /\ table[own].type = r.ord.type
      /\ table[own].price = r.ord.price /\ own \in DOMAIN table
  <2>1. Prices \cup {NoPrice} \subseteq Nat
    BY ConstantFacts DEF NoPrice
  <2> QED BY <2>1 DEF Request, Order, Sides, OwnRowOK
<1>3. /\ o \in DOMAIN table /\ o # own /\ table[o].side = Opposite(r.ord.side)
      /\ table[o].symbol = r.ord.symbol /\ ~table[o].isFilled /\ r.ord.type = "Limit"
  BY <1>1, <1>2 DEF Missed, Opposite
<1>4. IF r.ord.side = "BUY" THEN table[o].price <= r.ord.price ELSE table[o].price >= r.ord.price
  BY <1>1, <1>2, RowsFacts DEF Missed
<1>5. ~OutOfReach(o, own, table)
  <2>1. o < own
    BY <1>2, <1>3, RowsFacts
  <2> QED BY <1>1, <1>3, <2>1, RowsFacts DEF Missed
<1>6. PICK k \in 1 .. r.idx : list[k].id = o
  BY <1>3, <1>5 DEF WalkOK
<1>7. /\ r.idx \in 1 .. r.idx /\ r.idx \in DOMAIN list
      /\ list[r.idx].id \in DOMAIN table /\ table[list[r.idx].id].price = list[r.idx].price
  <2>1. r.idx \in 1 .. r.idx
    BY <1>2, <1>6
  <2>2. Len(list) \in Nat /\ DOMAIN list = 1 .. Len(list)
    BY LenProperties
  <2> QED BY <1>2, <2>1, <2>2 DEF WalkOK
<1>8. ~Accepts(r.ord, list[r.idx].price)
  BY <1>7 DEF Crossing
<1>9. IF r.ord.side = "BUY" THEN ~(list[r.idx].price <= r.ord.price)
                            ELSE ~(list[r.idx].price >= r.ord.price)
  BY <1>3, <1>8 DEF Accepts
<1>10. CASE k = r.idx
  BY <1>4, <1>6, <1>7, <1>9, <1>10
<1>11. CASE k # r.idx
  <2>1. k < r.idx
    BY <1>2, <1>11
  <2>2. Precedes(o, list[r.idx].id, table)
    BY <1>6, <1>7, <2>1 DEF WalkOK
  <2>3. table[o].price \in Nat /\ list[r.idx].price \in Nat
    BY <1>3, <1>7, RowsFacts
  <2>4. IF r.ord.side = "SELL" THEN table[o].price <= list[r.idx].price
                               ELSE table[o].price >= list[r.idx].price
    <3> DEFINE x == table[o].price
               y == list[r.idx].price
    <3>1. IF table[o].side = "BUY" THEN x < y \/ x = y ELSE x > y \/ x = y
      BY <1>7, <2>2 DEF Precedes
    <3>2. r.ord.side = "SELL" <=> table[o].side = "BUY"
      BY <1>2, <1>3 DEF Opposite
    <3>3. x \in Nat /\ y \in Nat
      BY <2>3
    <3> HIDE DEF o, x, y
    <3>4. IF r.ord.side = "SELL" THEN x <= y ELSE x >= y
      BY <3>1, <3>2, <3>3
    <3> QED BY <3>4 DEF x, y
  <2> DEFINE x == table[o].price
             y == list[r.idx].price
             z == r.ord.price
  <2>5. x \in Nat /\ y \in Nat /\ z \in Nat
    BY <1>2, <2>3
  <2>6. IF r.ord.side = "BUY" THEN x <= z /\ ~(y <= z) /\ x >= y
                             ELSE x >= z /\ ~(y >= z) /\ x <= y
    BY <1>2, <1>4, <1>9, <2>4, Zenon
  <2> HIDE DEF x, y, z
  <2> QED BY <2>5, <2>6
<1> QED BY <1>10, <1>11
-----------------------------------------------------------------------------
(* One request at a time.                                                  *)

LEMMA FinishFields ==
  ASSUME NEW r, NEW answer
  PROVE  /\ Finish(r, answer).pc = "done" /\ Finish(r, answer).step = "none"
         /\ Finish(r, answer).answer = answer /\ Finish(r, answer).ord.id = r.ord.id
BY DEF Finish, NewRequest, NoOrder

LEMMA TradedSame ==
  ASSUME UNCHANGED trades, DOMAIN orders' = DOMAIN orders
  PROVE  Traded' = Traded
BY TradedIs, TradedIsNext

LEMMA AloneFacts ==
  ASSUME Environment, IInv, Alone, NEW a \in Requests, Running(a)
  PROVE  /\ Actors = Requests /\ a \in Actors
         /\ \A b \in Requests : Running(b) => b = a
         /\ req[a].step \in PostSteps /\ req[a].answer = "none"
         /\ req[a].pc \notin {"idle", "done"} /\ req \in [Requests -> Request]
BY DEF Environment, Alone, Running, Actors, IInv, TypeOK

LEMMA RunFacts ==
  ASSUME SettledInv, Calm, NEW a \in Requests, Running(a)
  PROVE  AmountsOK(orders, Traded) /\ RunOK(req[a], heap, bookRef, orders, Traded)
BY DEF SettledInv

\* The request that runs goes on, or leaves the rows settled, or was caught.
LEMMA SettledStep ==
  ASSUME Environment, IInv, SettledInv, NEW a \in Requests, Running(a),
         NEW t, req' = [req EXCEPT ![a] = t],
         t.pc # "done" => t.pc # "idle" /\ t.step \in PostSteps /\ t.answer = "none",
         Calm /\ t.answer \notin {"failed", "lost"} =>
           /\ AmountsOK(orders', Traded')
           /\ IF t.pc = "done" THEN RowsOK({}, orders', Traded')
                               ELSE RunOK(t, heap', bookRef', orders', Traded')
  PROVE  SettledInv'
<1>1. /\ \A b \in Requests : b # a => ~Running(b)
      /\ req[a].answer = "none" /\ req \in [Requests -> Request]
  BY AloneFacts DEF SettledInv
<1>2. req'[a] = t /\ \A b \in Requests : b # a => req'[b] = req[b]
  BY <1>1
<1>3. \A b \in Requests : b # a => ~Running(b)'
  BY <1>1, <1>2 DEF Running
<1>4. Running(a)' <=> t.pc \notin {"idle", "done"}
  BY <1>2 DEF Running
<1>5. Alone'
  <2>1. \A b, c \in Requests : Running(b)' /\ Running(c)' => b = c
    BY <1>3
  <2>2. \A b \in Requests : Running(b)' => req'[b].step \in PostSteps
    BY <1>2, <1>3, <1>4
  <2>3. \A b \in Requests : req'[b].pc # "done" => req'[b].answer = "none"
    BY <1>2 DEF SettledInv, Alone
  <2> QED BY <2>1, <2>2, <2>3 DEF Alone
<1>6. ASSUME Calm'
      PROVE  /\ AmountsOK(orders, Traded)'
             /\ Quiescent' => RowsOK({}, orders, Traded)'
             /\ \A b \in Requests : Running(b)' => RunOK(req[b], heap, bookRef, orders, Traded)'
  <2>1. \A b \in Requests : req'[b].answer \notin {"failed", "lost"}
    BY <1>6 DEF Calm, Answered
  <2>2. Calm
    BY <1>1, <1>2, <2>1 DEF Calm, Answered
  <2>3. /\ AmountsOK(orders', Traded')
        /\ IF t.pc = "done" THEN RowsOK({}, orders', Traded')
                            ELSE RunOK(t, heap', bookRef', orders', Traded')
    BY <1>2, <2>1, <2>2
  <2>4. Quiescent' => t.pc = "done"
    BY <1>4 DEF Quiescent, InFlight
  <2>5. \A b \in Requests : Running(b)' => b = a /\ t.pc # "done"
    BY <1>3, <1>4
  <2>6. \A b \in Requests : Running(b)' => RunOK(req'[b], heap', bookRef', orders', Traded')
    BY <1>2, <2>3, <2>5
  <2> QED BY <2>3, <2>4, <2>6
<1> QED BY <1>5, <1>6 DEF SettledInv

LEMMA RejectSettled ==
  ASSUME Environment, IInv, SettledInv, NEW a \in Requests, Running(a),
         req' = [req EXCEPT ![a] = Reject(@)], UNCHANGED <<orders, trades>>
  PROVE  SettledInv'
<1> DEFINE r == req[a]
           t == Reject(r)
<1>1. r.step \in PostSteps /\ req \in [Requests -> Request]
  BY AloneFacts DEF SettledInv
<1>2. req' = [req EXCEPT ![a] = t]
  BY <1>1
<1>3. t.pc = "done" /\ (t.answer = "failed" \/ r.step \in {"saved", "placed"})
  BY <1>1, FinishFields DEF Reject, PostSteps, MatchSteps
<1>4. ASSUME Calm, t.answer \notin {"failed", "lost"}
      PROVE  AmountsOK(orders', Traded') /\ RowsOK({}, orders', Traded')
  <2>1. AmountsOK(orders, Traded) /\ PlacingOK(r, heap[bookRef], orders, Traded)
    BY <1>3, <1>4, RunFacts DEF RunOK
  <2>2. orders' = orders /\ Traded' = Traded
    BY TradedSame
  <2> QED BY <2>1, <2>2 DEF PlacingOK
<1> HIDE DEF t
<1> QED BY <1>2, <1>3, <1>4, SettledStep

LEMMA CrashSettled ==
  ASSUME Environment, IInv, SettledInv, Crash
  PROVE  SettledInv'
<1>1. Actors = Requests
  BY DEF Environment, Actors
<1>2. PICK a \in Requests : Running(a)
  BY <1>1 DEF Crash
<1>3. \A b \in Requests :
        req'[b] = IF Running(b) THEN Finish(req[b], "lost") ELSE req[b]
  BY <1>1 DEF Crash
<1>4. \A b \in Requests : Running(b) => req'[b].pc = "done" /\ req'[b].answer = "lost"
  BY <1>3, FinishFields
<1>5. \A b \in Requests : ~Running(b)'
  BY <1>3, <1>4 DEF Running
<1>6. Alone'
  BY <1>3, <1>4, <1>5 DEF Alone, SettledInv
<1>7. ~Calm'
  BY <1>2, <1>4 DEF Calm, Answered
<1> QED BY <1>6, <1>7 DEF SettledInv

\* What is said of a match does not depend on where a query or an emit is.
LEMMA MatchSame ==
  ASSUME NEW r, NEW t, NEW list, NEW table, NEW traded, MatchOK(r, list, table, traded),
         t.ord = r.ord, t.step = r.step, t.idx = r.idx,
         \/ r.pc \notin {"update", "trade"} /\ t.pc \notin {"update", "trade"}
         \/ t.pc = r.pc /\ t.upd = r.upd /\ t.qty = r.qty
  PROVE  MatchOK(t, list, table, traded)
<1>1. WalkOK(t, list, t.idx, table)
  BY DEF MatchOK, WalkOK
<1>2. ASSUME NEW e, StageOK(r, e, table, traded)
      PROVE  StageOK(t, e, table, traded)
  <2>1. t.ord.id = r.ord.id /\ t.ord.size = r.ord.size /\ t.ord.filled = r.ord.filled
    OBVIOUS
  <2>2. OrderOK(t, table, traded) <=> OrderOK(r, table, traded)
    BY DEF OrderOK
  <2>3. /\ t.pc = "update" <=> r.pc = "update"
        /\ t.pc = "trade" <=> r.pc = "trade"
        /\ r.pc = "update" => t.upd = r.upd
        /\ r.pc = "trade" => t.qty = r.qty
    OBVIOUS
  <2>4. CASE r.step = "takerClosed"
    BY <1>2, <2>1, <2>2, <2>3, <2>4 DEF StageOK
  <2>5. CASE r.step = "fullTraded"
    BY <1>2, <2>1, <2>2, <2>3, <2>5 DEF StageOK
  <2>6. CASE r.step = "makerUpdated"
    BY <1>2, <2>1, <2>2, <2>3, <2>6 DEF StageOK
  <2>7. CASE r.step = "makerClosed"
    BY <1>2, <2>1, <2>2, <2>3, <2>7 DEF StageOK
  <2>8. CASE r.step = "partTraded"
    BY <1>2, <2>1, <2>2, <2>3, <2>8 DEF StageOK
  <2>9. CASE r.step = "takerUpdated"
    BY <1>2, <2>1, <2>2, <2>3, <2>9 DEF StageOK
  <2>10. r.step \in {"takerClosed", "fullTraded", "makerUpdated", "makerClosed", "partTraded",
                     "takerUpdated"}
    BY <1>2, Zenon DEF StageOK
  <2> QED BY <2>4, <2>5, <2>6, <2>7, <2>8, <2>9, <2>10
<1> QED BY <1>1, <1>2 DEF MatchOK

LEMMA FreshSame ==
  ASSUME NEW r, NEW t, NEW list, NEW table, NEW traded, FreshOK(r, list, table, traded),
         t.ord = r.ord
  PROVE  FreshOK(t, list, table, traded)
BY DEF FreshOK, WalkOK

\* What a turn keeps of a request that goes on.
LEMMA MatchFields ==
  ASSUME NEW r \in Request, NEW list, r.answer = "none"
  PROVE  LET t == Match(r, list) IN
         \/ t.pc = "done" /\ t.answer = "ok"
         \/ t.pc = "update" /\ t.step \in MatchSteps /\ t.answer = "none"
<1> DEFINE t == Turn(r, list, Crossing(r, list))
<1>1. \A step, upd : LET u == CallUpdate(r, step, upd) IN
                    u.pc = "update" /\ u.step = step /\ u.answer = "none"
  BY DEF CallUpdate, Request
<1>2. t = Finish(r, "ok") \/ \E step \in MatchSteps : \E upd : t = CallUpdate(r, step, upd)
  BY DEF Turn, MatchSteps
<1> HIDE DEF t
<1>3. (t.pc = "done" /\ t.answer = "ok") \/ (t.pc = "update" /\ t.step \in MatchSteps /\ t.answer = "none")
  BY <1>1, <1>2, FinishFields
<1> QED BY <1>3, MatchIsTurn DEF t

LEMMA StartFields ==
  ASSUME NEW r \in Request, NEW ref \in Refs, NEW book \in [Sides -> Seq(Entry)], r.answer = "none"
  PROVE  LET t == StartMatch(r, ref, book) IN
         \/ t.pc = "done" /\ (r.ord.type # "Market" => t.answer = "ok")
         \/ t.pc = "update" /\ t.step \in MatchSteps /\ t.answer = "none"
<1> DEFINE list == book[Opposite(r.ord.side)]
           r1 == [r EXCEPT !.ref = ref, !.idx = Len(list)]
<1>1. Len(list) \in Nat
  <2>1. Opposite(r.ord.side) \in Sides
    BY ConstantFacts DEF Request, Order
  <2> QED BY <2>1, LenProperties
<1>2. r1 \in Request /\ r1.answer = "none"
  BY <1>1 DEF Request
<1> HIDE DEF r1
<1>3. LET t == Match(r1, list) IN
      (t.pc = "done" /\ t.answer = "ok") \/ (t.pc = "update" /\ t.step \in MatchSteps /\ t.answer = "none")
  BY <1>2, MatchFields
<1> QED BY <1>3, FinishFields DEF StartMatch, r1

\* A match that starts begins a fill, or ends where nothing crosses.
LEMMA StartSettled ==
  ASSUME NEW r \in Request, NEW ref \in Refs, NEW book \in [Sides -> Seq(Entry)],
         NEW table \in Seq(Row), NEW traded,
         AmountsOK(table, traded), RowsOK({}, table, traded), OrderOK(r, table, traded),
         OwnRowOK(r, table), r.ord.id = Len(table), table[r.ord.id].symbol = r.ord.symbol,
         FreshOK(r, book[Opposite(r.ord.side)], table, traded)
  PROVE  LET t == StartMatch(r, ref, book) IN
         \/ /\ t.pc = "done" /\ t.answer \in {"ok", "empty"} /\ t.ord.id = r.ord.id
            /\ \A b, s \in DOMAIN table : r.ord.id \in {b, s} => ~Missed(b, s, table)
         \/ /\ t.pc = "update" /\ t.step \in MatchSteps /\ t.ord = r.ord /\ t.ref = ref
            /\ t.answer = r.answer
            /\ MatchOK(t, book[Opposite(r.ord.side)], table, traded)
<1> DEFINE list == book[Opposite(r.ord.side)]
           r1 == [r EXCEPT !.ref = ref, !.idx = Len(list)]
           t == StartMatch(r, ref, book)
<1>1. list \in Seq(Entry) /\ Len(list) \in Nat /\ DOMAIN list = 1 .. Len(list)
  <2>1. Opposite(r.ord.side) \in Sides
    BY ConstantFacts DEF Request, Order
  <2> QED BY <2>1, LenProperties
<1>2. /\ r1 \in Request /\ r1.ord = r.ord /\ r1.ref = ref /\ r1.idx = Len(list)
      /\ r1.answer = r.answer
  BY <1>1 DEF Request
<1> HIDE DEF r1, list
<1>3. CASE r.ord.type = "Market" /\ list = <<>>
  <2>1. t = Finish(r, "empty")
    BY <1>3 DEF StartMatch, list
  <2>2. \A b, s \in DOMAIN table : r.ord.id \in {b, s} => ~Missed(b, s, table)
    BY <1>3 DEF Missed, OwnRowOK
  <2> QED BY <2>1, <2>2, FinishFields
<1>4. CASE ~(r.ord.type = "Market" /\ list = <<>>)
  <2>1. t = Match(r1, list)
    BY <1>4 DEF StartMatch, list, r1
  <2>2. WalkOK(r1, list, r1.idx, table) /\ EntriesOK(list, r1.idx, table, traded)
    BY <1>2, Zenon DEF FreshOK, list, WalkOK
  <2>3. /\ OwnRowOK(r1, table) /\ OrderOK(r1, table, traded) /\ r1.ord.id \in DOMAIN table
        /\ table[r1.ord.id].side = r1.ord.side
    BY <1>2 DEF OwnRowOK, OrderOK
  <2>4. r1.idx \in DOMAIN list => r1.idx \in 1 .. r1.idx
    BY <1>1, <1>2
  <2> HIDE DEF t
  <2>5. \/ r1.idx \notin Crossing(r1, list) /\ t = Finish(r1, "ok")
        \/ /\ t.pc = "update" /\ t.step \in MatchSteps /\ t.ord = r1.ord /\ t.ref = r1.ref
           /\ t.idx = r1.idx /\ t.answer = r1.answer
           /\ MatchOK(t, list, table, traded)
    BY <1>2, <2>1, <2>2, <2>3, <2>4, TurnSettled
  <2>6. CASE r1.idx \notin Crossing(r1, list) /\ t = Finish(r1, "ok")
    <3>1. r1.idx <= Len(list) /\ r1.ord.id = Len(table) /\ table[r1.ord.id].symbol = r1.ord.symbol
      BY <1>1, <1>2
    <3>2. \A b, s \in DOMAIN table : r1.ord.id \in {b, s} => ~Missed(b, s, table)
      BY <1>1, <1>2, <2>2, <2>3, <2>6, <3>1, BreakUncrossed
    <3> QED BY <1>2, <2>6, <3>2, FinishFields DEF t
  <2> QED BY <1>2, <2>5, <2>6 DEF list, t
<1> QED BY <1>3, <1>4
-----------------------------------------------------------------------------
(* SettledInv, before the match begins.                                    *)

LEMMA InitSettled ==
  ASSUME Environment, Init
  PROVE  SettledInv
<1>1. orders \in RestingTables /\ orders \in Seq(Row)
  BY OrderBookAssumption DEF Init
<1>2. trades \in Seq(Trade) /\ DOMAIN trades = {}
  BY DEF Init
<1>3. \A i \in DOMAIN orders : Traded[i] = 0
  BY <1>2, TradedIs, SumInNone
<1>4. \A i \in DOMAIN orders :
        /\ Untraded(orders[i]) /\ orders[i].isFilled \in BOOLEAN
        /\ Left(i, orders, Traded) = orders[i].size
  <2> SUFFICES ASSUME NEW i \in DOMAIN orders
               PROVE  /\ Untraded(orders[i]) /\ orders[i].isFilled \in BOOLEAN
                      /\ Left(i, orders, Traded) = orders[i].size
    OBVIOUS
  <2>1. Untraded(orders[i]) /\ orders[i].isFilled \in BOOLEAN
    BY <1>1, RowsFacts DEF Environment
  <2> QED BY <1>3, <2>1 DEF Left, Untraded
<1>5. Whole(0)
  BY OrderBookAssumption DEF Whole
<1>6. AmountsOK(orders, Traded)
  BY <1>3, <1>4, <1>5 DEF AmountsOK, Untraded
<1>7. RowsOK({}, orders, Traded)
  <2> SUFFICES ASSUME NEW i \in DOMAIN orders PROVE RowOK(i, orders, Traded)
    BY DEF RowsOK
  <2> QED BY <1>3, <1>4 DEF RowOK, Shows, Untraded
<1>8. \A a \in Requests : ~Running(a) /\ req[a].answer = "none"
  BY DEF Init, Running, Actors, NewRequest
<1> QED BY <1>6, <1>7, <1>8 DEF SettledInv, Alone

LEMMA NobodyRuns ==
  ASSUME Environment, NEW a \in Requests, Submit(a)
  PROVE  \A b \in Requests : ~Running(b)
<1>1. InFlight \subseteq Requests
  BY DEF InFlight
<1>2. IsFiniteSet(InFlight) /\ Cardinality(InFlight) \in Nat
  BY <1>1, OrderBookAssumption, FS_Subset, FS_CardinalityType
<1>3. Cardinality(InFlight) < MaxInFlight /\ MaxInFlight <= 1 /\ MaxInFlight \in Nat
  BY OrderBookAssumption DEF Submit, Environment
<1>4. Cardinality(InFlight) = 0
  BY <1>2, <1>3
<1>5. InFlight = {}
  BY <1>2, <1>4, FS_EmptySet
<1> QED BY <1>5 DEF InFlight

LEMMA SubmitSettled ==
  ASSUME Environment, IInv, SettledInv, NEW a \in Requests, Submit(a)
  PROVE  SettledInv'
<1>1. \A b \in Requests : ~Running(b)
  BY NobodyRuns
<1>2. req \in [Requests -> Request] /\ req[a].pc = "idle" /\ req[a].answer = "none"
  BY DEF IInv, TypeOK, Submit, Environment, Actors, SettledInv, Alone
<1>3. PICK side \in Sides, symbol \in Symbols, type \in Types, price \in Prices, size \in Sizes :
        req' = [req EXCEPT ![a] = [@ EXCEPT !.pc = "insert", !.step = "saved",
                  !.ord = Posted(side, symbol, type, price, size)]]
  BY ZenonT(90) DEF Submit
<1> DEFINE t == [req[a] EXCEPT !.pc = "insert", !.step = "saved",
                   !.ord = Posted(side, symbol, type, price, size)]
<1>4. req'[a] = t /\ \A b \in Requests : b # a => req'[b] = req[b]
  BY <1>2, <1>3
<1>5. /\ t.pc = "insert" /\ t.step = "saved" /\ t.answer = "none"
      /\ t.ord.size \in Sizes /\ t.ord.filled = 0
  BY <1>2 DEF Request, Posted
<1> HIDE DEF t
<1>6. \A b \in Requests : b # a => ~Running(b)'
  BY <1>1, <1>4 DEF Running
<1>7. Alone'
  BY <1>4, <1>5, <1>6 DEF Alone, SettledInv, PostSteps
<1>8. orders' = orders /\ Traded' = Traded /\ heap' = heap /\ bookRef' = bookRef
  BY TradedSame DEF Submit
<1>9. ASSUME Calm'
      PROVE  /\ AmountsOK(orders, Traded)'
             /\ Quiescent' => RowsOK({}, orders, Traded)'
             /\ \A b \in Requests : Running(b)' => RunOK(req[b], heap, bookRef, orders, Traded)'
  <2>1. Calm
    BY <1>2, <1>4, <1>9 DEF Calm, Answered
  <2>2. AmountsOK(orders, Traded) /\ RowsOK({}, orders, Traded)
    BY <1>1, <2>1 DEF SettledInv, Quiescent, InFlight
  <2>3. RunOK(t, heap, bookRef, orders, Traded)
    BY <1>5, <2>2 DEF RunOK, NewestOK, PlacingOK, MatchSteps
  <2>4. \A b \in Requests : Running(b)' => RunOK(req'[b], heap', bookRef', orders', Traded')
    BY <1>4, <1>6, <1>8, <2>3
  <2> QED BY <1>8, <2>2, <2>4
<1> QED BY <1>7, <1>9 DEF SettledInv

\* The rows are settled with a new one that nobody has traded with.
LEMMA InsertedRow ==
  ASSUME IInv, AmountsOK(orders, Traded), RowsOK({}, orders, Traded), UNCHANGED trades,
         NEW row, orders' = Append(orders, row), row.size = row.orgSize, row.size \in Sizes,
         row.filled = 0, row.isFilled = FALSE
  PROVE  LET n == Len(orders) + 1 IN
         /\ Keeps(orders, orders') /\ Len(orders') = n /\ n \in DOMAIN orders' /\ orders'[n] = row
         /\ \A i \in DOMAIN orders : orders'[i] = orders[i]
         /\ DOMAIN orders' = DOMAIN orders \cup {n}
         /\ AmountsOK(orders', Traded') /\ RowsOK({}, orders', Traded')
         /\ Traded'[n] = 0 /\ Left(n, orders', Traded') = row.size /\ row.size > 0
<1> DEFINE n == Len(orders) + 1
<1>1. /\ orders \in Seq(Row) /\ trades \in Seq(Trade)
      /\ Len(orders) \in Nat /\ DOMAIN orders = 1 .. Len(orders)
  BY RowsFacts DEF IInv, TypeOK
<1>2. /\ Len(orders') = n /\ DOMAIN orders' = 1 .. n
      /\ orders'[n] = row /\ \A i \in 1 .. Len(orders) : orders'[i] = orders[i]
  BY <1>1, AppendProperties
<1>3. n \in DOMAIN orders' /\ n \notin DOMAIN orders /\ DOMAIN orders' = DOMAIN orders \cup {n}
  BY <1>1, <1>2
<1>4. Keeps(orders, orders')
  BY <1>1, <1>2 DEF Keeps
<1>5. \A k \in DOMAIN trades : n \notin {trades[k].buy, trades[k].sell}
  BY <1>3 DEF IInv, TradePriceAcceptable
<1>6. SumIn(trades, n) = 0
  BY <1>1, <1>5, SumInNone
<1>7. Traded'[n] = 0 /\ \A i \in DOMAIN orders : Traded'[i] = Traded[i]
  BY <1>3, <1>6, TradedIs, TradedIsNext
<1>8. row.size \in Nat /\ row.size > 0 /\ Whole(row.size) /\ Whole(0)
  BY SizeFacts, WholeZero
<1>9. Left(n, orders', Traded') = row.size
  BY <1>2, <1>7, <1>8 DEF Left
<1>10. \A i \in DOMAIN orders : Left(i, orders', Traded') = Left(i, orders, Traded)
  BY <1>1, <1>2, <1>7 DEF Left
<1> HIDE DEF n
<1>11. AmountsOK(orders', Traded')
  BY <1>3, <1>7, <1>8, <1>9, <1>10 DEF AmountsOK
<1>12. RowsOK({}, orders', Traded')
  <2> SUFFICES ASSUME NEW i \in DOMAIN orders' PROVE RowOK(i, orders', Traded')
    BY DEF RowsOK
  <2>1. CASE i = n
    <3>1. (Left(n, orders', Traded') = 0) = FALSE
      BY <1>8, <1>9
    <3>2. row.size = Left(n, orders', Traded') /\ row.filled = Traded'[n]
      BY <1>7, <1>9
    <3> QED BY <1>2, <2>1, <3>1, <3>2, Zenon DEF RowOK, Shows
  <2>2. CASE i \in DOMAIN orders
    <3>1. RowOK(i, orders, Traded)
      BY <2>2 DEF RowsOK
    <3>2. orders'[i] = orders[i]
      BY <1>1, <1>2, <2>2
    <3> QED BY <1>7, <1>10, <2>2, <3>1, <3>2 DEF RowOK
  <2> QED BY <1>3, <2>1, <2>2
<1> QED BY <1>1, <1>2, <1>3, <1>4, <1>7, <1>8, <1>9, <1>11, <1>12 DEF n

LEMMA InsertSettled ==
  ASSUME Environment, IInv, SettledInv, NEW a \in Requests, Insert(a)
  PROVE  SettledInv'
<1> DEFINE r == req[a]
           t == [r EXCEPT !.pc = "buys", !.ord.id = Len(orders) + 1]
<1>1. r.pc = "insert" /\ Running(a)
  BY DEF Insert, Running
<1>2. /\ a \in Actors /\ r \in Request /\ r.answer = "none" /\ req \in [Requests -> Request]
  BY <1>1, AloneFacts, ActorFacts DEF SettledInv
<1>3. r.step = "saved"
  BY <1>1, <1>2, ActorFacts DEF RequestOK
<1>4. PICK second \in {0, 1} :
        orders' = Append(orders,
          [side |-> r.ord.side, symbol |-> r.ord.symbol, type |-> r.ord.type,
           price |-> r.ord.price, size |-> r.ord.size, orgSize |-> r.ord.size, filled |-> 0,
           isFilled |-> FALSE,
           created |-> second + IF orders = <<>> THEN 0 ELSE orders[Len(orders)].created])
  BY DEF Insert
<1> DEFINE row == [side |-> r.ord.side, symbol |-> r.ord.symbol, type |-> r.ord.type,
                   price |-> r.ord.price, size |-> r.ord.size, orgSize |-> r.ord.size,
                   filled |-> 0, isFilled |-> FALSE,
                   created |-> second + IF orders = <<>> THEN 0 ELSE orders[Len(orders)].created]
<1>5. /\ row.size = r.ord.size /\ row.orgSize = r.ord.size /\ row.filled = 0
      /\ row.isFilled = FALSE /\ row.symbol = r.ord.symbol
  OBVIOUS
<1>6. /\ t.pc = "buys" /\ t.step = "saved" /\ t.answer = "none" /\ t.ord.id = Len(orders) + 1
      /\ t.ord.size = r.ord.size /\ t.ord.filled = r.ord.filled /\ t.ord.symbol = r.ord.symbol
  BY <1>2, <1>3 DEF Request, Order
<1>7. req' = [req EXCEPT ![a] = t]
  BY <1>2 DEF Insert
<1> HIDE DEF row, t
<1>8. ASSUME Calm
      PROVE  AmountsOK(orders', Traded') /\ RunOK(t, heap', bookRef', orders', Traded')
  <2>1. AmountsOK(orders, Traded) /\ PlacingOK(r, heap[bookRef], orders, Traded)
    BY <1>1, <1>3, <1>8, RunFacts DEF RunOK
  <2>2. RowsOK({}, orders, Traded) /\ r.ord.size \in Sizes /\ r.ord.filled = 0
    BY <1>1, <2>1 DEF PlacingOK
  <2> DEFINE n == Len(orders) + 1
  <2>3. /\ Len(orders') = n /\ orders'[n] = row
        /\ AmountsOK(orders', Traded') /\ RowsOK({}, orders', Traded')
        /\ Traded'[n] = 0 /\ Left(n, orders', Traded') = row.size /\ row.size > 0
    BY <1>4, <1>5, <2>1, <2>2, InsertedRow DEF row, Insert
  <2>4. OrderOK(t, orders', Traded')
    BY <1>5, <1>6, <2>2, <2>3 DEF OrderOK, EntryOK
  <2>5. NewestOK(t, orders')
    BY <1>5, <1>6, <2>3 DEF NewestOK
  <2>6. PlacingOK(t, heap'[bookRef'], orders', Traded')
    BY <1>6, <2>3, <2>4 DEF PlacingOK
  <2> QED BY <1>6, <2>3, <2>5, <2>6 DEF RunOK, MatchSteps
<1> QED BY <1>1, <1>6, <1>7, <1>8, SettledStep DEF PostSteps

\* What is known of a request after it has inserted its order.
LEMMA InsertedFacts ==
  ASSUME Environment, IInv, SettledInv, NEW a \in Requests, Running(a), req[a].pc # "insert"
  PROVE  LET r == req[a] IN
         /\ a \in Actors /\ Actors = Requests /\ r \in Request /\ r.step \in PostSteps
         /\ r.answer = "none" /\ req \in [Requests -> Request]
         /\ r.ord.side \in {"BUY", "SELL"} /\ r.ord.symbol \in Symbols
         /\ OwnRowOK(r, orders) /\ RequestOK(a, r, heap, orders)
         /\ Calm => /\ AmountsOK(orders, Traded)
                    /\ r.ord.id = Len(orders) /\ orders[r.ord.id].symbol = r.ord.symbol
                    /\ NewestOK(r, orders)
                    /\ r.step \in {"saved", "placed"} =>
                         /\ PlacingOK(r, heap[bookRef], orders, Traded)
                         /\ RowsOK({}, orders, Traded) /\ OrderOK(r, orders, Traded)
                    /\ r.step \in MatchSteps =>
                         MatchOK(r, heap[r.ref][Opposite(r.ord.side)], orders, Traded)
<1> DEFINE r == req[a]
<1>1. /\ a \in Actors /\ Actors = Requests /\ r.step \in PostSteps
      /\ r.answer = "none" /\ req \in [Requests -> Request]
  BY AloneFacts DEF SettledInv
<1>2. r \in Request /\ r.ord \in Order /\ RequestOK(a, r, heap, orders)
  BY <1>1, ActorFacts
<1>3. OwnRowOK(r, orders) /\ r.ord.side \in {"BUY", "SELL"} /\ r.ord.symbol \in Symbols
  BY <1>1, <1>2 DEF RequestOK, Order, Sides
<1>4. Calm => AmountsOK(orders, Traded) /\ RunOK(r, heap, bookRef, orders, Traded)
  BY RunFacts
<1>5. RunOK(r, heap, bookRef, orders, Traded) =>
        /\ r.ord.id = Len(orders) /\ orders[r.ord.id].symbol = r.ord.symbol
        /\ NewestOK(r, orders)
        /\ r.step \in {"saved", "placed"} =>
             /\ PlacingOK(r, heap[bookRef], orders, Traded)
             /\ RowsOK({}, orders, Traded) /\ OrderOK(r, orders, Traded)
        /\ r.step \in MatchSteps =>
             MatchOK(r, heap[r.ref][Opposite(r.ord.side)], orders, Traded)
  BY DEF RunOK, NewestOK, PlacingOK
<1> QED BY <1>1, <1>2, <1>3, <1>4, <1>5

LEMMA ReadBuysSettled ==
  ASSUME Environment, IInv, SettledInv, NEW a \in Requests, ReadBuys(a)
  PROVE  SettledInv'
<1> DEFINE r == req[a]
<1>1. r.pc = "buys" /\ Running(a)
  BY DEF ReadBuys, Running
<1>2. PICK list \in FindOrders("BUY", r.ord.symbol) :
        req' = [req EXCEPT ![a] = [@ EXCEPT !.pc = "sells", !.buys = list]]
  BY ZenonT(90) DEF ReadBuys
<1> DEFINE t == [r EXCEPT !.pc = "sells", !.buys = list]
<1>3. /\ r \in Request /\ r.step \in PostSteps /\ r.answer = "none" /\ OwnRowOK(r, orders)
      /\ req \in [Requests -> Request]
  BY <1>1, InsertedFacts
<1>4. /\ t.pc = "sells" /\ t.step = r.step /\ t.answer = r.answer /\ t.ord = r.ord
      /\ t.ref = r.ref /\ t.idx = r.idx /\ t.buys = list
  BY <1>3 DEF Request
<1>5. req' = [req EXCEPT ![a] = t]
  BY <1>2, <1>3
<1>6. orders' = orders /\ Traded' = Traded /\ heap' = heap /\ bookRef' = bookRef
  BY TradedSame DEF ReadBuys
<1> HIDE DEF t
<1>7. ASSUME Calm
      PROVE  AmountsOK(orders, Traded) /\ RunOK(t, heap, bookRef, orders, Traded)
  <2>1. /\ AmountsOK(orders, Traded) /\ NewestOK(r, orders) /\ r.ord.id = Len(orders)
        /\ r.step \in {"saved", "placed"} =>
             RowsOK({}, orders, Traded) /\ OrderOK(r, orders, Traded)
        /\ r.step \in MatchSteps => MatchOK(r, heap[r.ref][Opposite(r.ord.side)], orders, Traded)
    BY <1>1, <1>7, InsertedFacts
  <2>2. r.step \in MatchSteps => MatchOK(t, heap[t.ref][Opposite(t.ord.side)], orders, Traded)
    BY <1>1, <1>4, <2>1, MatchSame
  <2>3. NewestOK(t, orders)
    BY <1>1, <1>4, <2>1 DEF NewestOK
  <2>4. ASSUME r.step \in {"saved", "placed"}
        PROVE  PlacingOK(t, heap[bookRef], orders, Traded)
    <3>1. r.ord.side = "SELL" => FreshOK(r, list, orders, Traded)
      BY <1>3, <2>1, <2>4, FreshList DEF Opposite
    <3>2. t.ord.side = "SELL" => FreshOK(t, t.buys, orders, Traded)
      BY <1>4, <3>1, FreshSame
    <3>3. OrderOK(t, orders, Traded)
      BY <1>4, <2>1, <2>4 DEF OrderOK
    <3> QED BY <1>4, <2>1, <2>4, <3>2, <3>3 DEF PlacingOK
  <2> QED BY <1>4, <2>1, <2>2, <2>3, <2>4 DEF RunOK
<1> QED BY <1>1, <1>3, <1>4, <1>5, <1>6, <1>7, SettledStep

LEMMA ReadSellsSettled ==
  ASSUME Environment, IInv, SettledInv, NEW a \in Requests, ReadSells(a)
  PROVE  SettledInv'
<1> DEFINE r == req[a]
<1>1. r.pc = "sells" /\ Running(a)
  BY DEF ReadSells, Running
<1>2. PICK list \in FindOrders("SELL", r.ord.symbol) :
        req' = [req EXCEPT ![a] = [@ EXCEPT !.pc = "assign", !.sells = list]]
  BY ZenonT(90) DEF ReadSells
<1> DEFINE t == [r EXCEPT !.pc = "assign", !.sells = list]
<1>3. /\ r \in Request /\ r.step \in PostSteps /\ r.answer = "none" /\ OwnRowOK(r, orders)
      /\ req \in [Requests -> Request]
  BY <1>1, InsertedFacts
<1>4. /\ t.pc = "assign" /\ t.step = r.step /\ t.answer = r.answer /\ t.ord = r.ord
      /\ t.ref = r.ref /\ t.idx = r.idx /\ t.sells = list /\ t.buys = r.buys
  BY <1>3 DEF Request
<1>5. req' = [req EXCEPT ![a] = t]
  BY <1>2, <1>3
<1>6. orders' = orders /\ Traded' = Traded /\ heap' = heap /\ bookRef' = bookRef
  BY TradedSame DEF ReadSells
<1> HIDE DEF t
<1>7. ASSUME Calm
      PROVE  AmountsOK(orders, Traded) /\ RunOK(t, heap, bookRef, orders, Traded)
  <2>1. /\ AmountsOK(orders, Traded) /\ NewestOK(r, orders) /\ r.ord.id = Len(orders)
        /\ r.step \in {"saved", "placed"} =>
             /\ PlacingOK(r, heap[bookRef], orders, Traded)
             /\ RowsOK({}, orders, Traded) /\ OrderOK(r, orders, Traded)
        /\ r.step \in MatchSteps => MatchOK(r, heap[r.ref][Opposite(r.ord.side)], orders, Traded)
    BY <1>1, <1>7, InsertedFacts
  <2>2. r.step \in MatchSteps => MatchOK(t, heap[t.ref][Opposite(t.ord.side)], orders, Traded)
    BY <1>1, <1>4, <2>1, MatchSame
  <2>3. NewestOK(t, orders)
    BY <1>1, <1>4, <2>1 DEF NewestOK
  <2>4. ASSUME r.step \in {"saved", "placed"}
        PROVE  PlacingOK(t, heap[bookRef], orders, Traded)
    <3>1. r.ord.side = "BUY" => FreshOK(r, list, orders, Traded)
      BY <1>3, <2>1, <2>4, FreshList DEF Opposite
    <3>2. r.ord.side = "SELL" => FreshOK(r, r.buys, orders, Traded)
      BY <1>1, <2>1, <2>4 DEF PlacingOK
    <3>3. /\ t.ord.side = "BUY" => FreshOK(t, t.sells, orders, Traded)
          /\ t.ord.side = "SELL" => FreshOK(t, t.buys, orders, Traded)
      BY <1>4, <3>1, <3>2, FreshSame
    <3>4. OrderOK(t, orders, Traded)
      BY <1>4, <2>1, <2>4 DEF OrderOK
    <3> QED BY <1>4, <2>1, <2>4, <3>3, <3>4 DEF PlacingOK
  <2> QED BY <1>4, <2>1, <2>2, <2>3, <2>4 DEF RunOK
<1> QED BY <1>1, <1>3, <1>4, <1>5, <1>6, <1>7, SettledStep

\* The arrays that a running match walks stay in the heap.
LEMMA AssignHeap ==
  ASSUME IInv, NEW a \in Requests, Assign(a)
  PROVE  /\ FreshRef \in Refs /\ bookRef' = FreshRef /\ heap'[FreshRef] = Loaded(req[a])
         /\ Loaded(req[a]) \in [Sides -> Seq(Entry)]
         /\ req[a].ref \in Refs => heap'[req[a].ref] = heap[req[a].ref]
         /\ orders' = orders /\ Traded' = Traded
<1>1. FreshRef \in Refs /\ FreshRef \notin Captured
  BY FreshRefExists DEF IInv
<1>2. /\ bookRef' = FreshRef /\ orders' = orders /\ trades' = trades
      /\ heap' = [f \in Refs |-> IF f = FreshRef THEN Loaded(req[a])
                                 ELSE IF f \in Captured THEN heap[f] ELSE EmptyBook]
  BY DEF Assign, FillOrderBook
<1>3. req[a].ref \in Captured
  BY DEF Captured
<1>4. Loaded(req[a]) \in [Sides -> Seq(Entry)]
  <2>1. req[a].buys \in Seq(Entry) /\ req[a].sells \in Seq(Entry)
    BY ActorFacts DEF Request, Actors
  <2> QED BY <2>1 DEF Loaded
<1> QED BY <1>1, <1>2, <1>3, <1>4, TradedSame

LEMMA AssignSettled ==
  ASSUME Environment, IInv, SettledInv, NEW a \in Requests, Assign(a)
  PROVE  SettledInv'
<1> DEFINE r == req[a]
           u == AfterFill(r)
           t == [u EXCEPT !.buys = <<>>, !.sells = <<>>]
           side == Opposite(r.ord.side)
<1>1. r.pc = "assign" /\ Running(a)
  BY DEF Assign, Running
<1>2. /\ r \in Request /\ r.step \in PostSteps /\ r.answer = "none" /\ OwnRowOK(r, orders)
      /\ req \in [Requests -> Request] /\ RequestOK(a, r, heap, orders)
      /\ r.ord.side \in {"BUY", "SELL"}
  BY <1>1, InsertedFacts
<1>3. /\ FreshRef \in Refs /\ bookRef' = FreshRef /\ heap'[FreshRef] = Loaded(r)
      /\ Loaded(r) \in [Sides -> Seq(Entry)]
      /\ r.ref \in Refs => heap'[r.ref] = heap[r.ref]
      /\ orders' = orders /\ Traded' = Traded
  BY AssignHeap
<1>4. req' = [req EXCEPT ![a] = t]
  BY <1>2 DEF Assign
<1>5. r.step \in {"saved", "placed"} \cup MatchSteps
  BY <1>2 DEF PostSteps
<1>6. ASSUME NEW v \in Request
      PROVE  LET w == [v EXCEPT !.buys = <<>>, !.sells = <<>>] IN
             /\ w.pc = v.pc /\ w.step = v.step /\ w.answer = v.answer /\ w.ord = v.ord
             /\ w.ref = v.ref /\ w.idx = v.idx /\ w.upd = v.upd /\ w.qty = v.qty
  BY DEF Request
<1>7. Calm => /\ AmountsOK(orders, Traded) /\ NewestOK(r, orders)
              /\ r.ord.id = Len(orders) /\ orders[r.ord.id].symbol = r.ord.symbol
              /\ r.step \in {"saved", "placed"} =>
                   /\ PlacingOK(r, heap[bookRef], orders, Traded)
                   /\ RowsOK({}, orders, Traded) /\ OrderOK(r, orders, Traded)
              /\ r.step \in MatchSteps => MatchOK(r, heap[r.ref][side], orders, Traded)
  BY <1>1, InsertedFacts
<1>8. Calm /\ r.step \in {"saved", "placed"} => FreshOK(r, Loaded(r)[side], orders, Traded)
  BY <1>1, <1>2, <1>7 DEF PlacingOK, Loaded, Opposite, Sides
<1>9. CASE r.step = "saved" /\ r.ord.type = "Market"
  <2>1. u = StartMatch(r, FreshRef, Loaded(r))
    BY <1>9 DEF AfterFill
  <2>2. u \in Request
    <3>1. /\ heap' \in Heaps /\ HeapOK(heap', orders) /\ orders \in Seq(Row)
          /\ ListOK("BUY", r.buys, orders) /\ ListOK("SELL", r.sells, orders)
      <4>1. IInv'
        BY AssignStep DEF Actors
      <4> QED BY <1>2, <1>3, <4>1 DEF IInv, TypeOK, Heaps, RequestOK
    <3> QED BY <1>2, <1>3, <2>1, <3>1, StartMatchFacts
  <2>3. /\ t.pc = u.pc /\ t.step = u.step /\ t.answer = u.answer /\ t.ord = u.ord
        /\ t.ref = u.ref /\ t.idx = u.idx /\ t.upd = u.upd /\ t.qty = u.qty
    BY <1>6, <2>2
  <2> HIDE DEF u, t
  <2>4. u.pc # "done" => u.pc = "update" /\ u.step \in MatchSteps /\ u.answer = "none"
    BY <1>2, <1>3, <2>1, StartFields
  <2>5. ASSUME Calm
        PROVE  /\ AmountsOK(orders', Traded')
               /\ IF t.pc = "done" THEN RowsOK({}, orders', Traded')
                                   ELSE RunOK(t, heap', bookRef', orders', Traded')
    <3>1. \/ u.pc = "done"
          \/ /\ u.pc = "update" /\ u.step \in MatchSteps /\ u.ord = r.ord /\ u.ref = FreshRef
             /\ MatchOK(u, Loaded(r)[side], orders, Traded)
      BY <1>2, <1>3, <1>7, <1>8, <1>9, <2>1, <2>5, StartSettled DEF IInv, TypeOK
    <3>2. CASE u.pc = "done"
      BY <1>3, <1>7, <1>9, <2>3, <2>5, <3>2
    <3>3. CASE /\ u.pc = "update" /\ u.step \in MatchSteps /\ u.ord = r.ord /\ u.ref = FreshRef
               /\ MatchOK(u, Loaded(r)[side], orders, Traded)
      <4>1. MatchOK(t, heap'[t.ref][Opposite(t.ord.side)], orders', Traded')
        BY <1>3, <2>3, <3>3, MatchSame
      <4>2. NewestOK(t, orders')
        BY <1>1, <1>3, <1>7, <2>3, <2>5, <3>3 DEF NewestOK
      <4> QED BY <1>3, <1>7, <2>3, <2>5, <3>3, <4>1, <4>2 DEF RunOK, MatchSteps
    <3> QED BY <3>1, <3>2, <3>3
  <2> QED BY <1>1, <1>4, <2>3, <2>4, <2>5, SettledStep DEF PostSteps
<1>10. CASE r.step = "saved" /\ r.ord.type # "Market"
  <2>1. u = [r EXCEPT !.pc = "buys", !.step = "placed"]
    BY <1>10 DEF AfterFill
  <2>2. u \in Request
    BY <1>2, <2>1 DEF Request
  <2>3. u.pc = "buys" /\ u.step = "placed" /\ u.answer = "none" /\ u.ord = r.ord
    BY <1>2, <2>1 DEF Request
  <2>4. t.pc = "buys" /\ t.step = "placed" /\ t.answer = "none" /\ t.ord = r.ord
    BY <1>6, <2>2, <2>3
  <2> HIDE DEF u, t
  <2>5. ASSUME Calm
        PROVE  AmountsOK(orders', Traded') /\ RunOK(t, heap', bookRef', orders', Traded')
    <3>1. OrderOK(t, orders', Traded') /\ NewestOK(t, orders')
      BY <1>1, <1>3, <1>7, <1>10, <2>4, <2>5 DEF OrderOK, NewestOK
    <3> QED BY <1>3, <1>7, <1>10, <2>4, <2>5, <3>1 DEF RunOK, PlacingOK, MatchSteps
  <2> QED BY <1>1, <1>4, <2>4, <2>5, SettledStep DEF PostSteps
<1>11. CASE r.step # "saved"
  <2>1. u = [r EXCEPT !.pc = "emit"]
    BY <1>5, <1>11 DEF AfterFill, MatchSteps
  <2>2. u \in Request
    BY <1>2, <2>1 DEF Request
  <2>3. /\ u.pc = "emit" /\ u.step = r.step /\ u.answer = "none" /\ u.ord = r.ord
        /\ u.ref = r.ref /\ u.idx = r.idx
    BY <1>2, <2>1 DEF Request
  <2>4. /\ t.pc = "emit" /\ t.step = r.step /\ t.answer = "none" /\ t.ord = r.ord
        /\ t.ref = r.ref /\ t.idx = r.idx
    BY <1>6, <2>2, <2>3
  <2> HIDE DEF u, t
  <2>5. ASSUME Calm
        PROVE  AmountsOK(orders', Traded') /\ RunOK(t, heap', bookRef', orders', Traded')
    <3>1. NewestOK(t, orders')
      BY <1>1, <1>3, <1>7, <2>4, <2>5 DEF NewestOK
    <3>2. ASSUME r.step = "placed"
          PROVE  PlacingOK(t, heap'[bookRef'], orders', Traded')
      <4>1. FreshOK(t, heap'[bookRef'][Opposite(t.ord.side)], orders, Traded)
        BY <1>3, <1>8, <2>4, <2>5, <3>2, FreshSame
      <4>2. OrderOK(t, orders', Traded')
        BY <1>3, <1>7, <2>4, <2>5, <3>2 DEF OrderOK
      <4> QED BY <1>3, <1>7, <2>4, <2>5, <3>2, <4>1, <4>2 DEF PlacingOK
    <3>3. ASSUME r.step \in MatchSteps
          PROVE  MatchOK(t, heap'[t.ref][Opposite(t.ord.side)], orders', Traded')
      <4>1. r.ref \in Refs
        BY <1>2, <3>3 DEF RequestOK, RestingOK
      <4>2. MatchOK(r, heap[r.ref][side], orders, Traded)
        BY <1>7, <2>5, <3>3
      <4>3. heap'[t.ref][Opposite(t.ord.side)] = heap[r.ref][side]
        BY <1>3, <2>4, <4>1
      <4>4. r.pc \notin {"update", "trade"} /\ t.pc \notin {"update", "trade"}
        BY <1>1, <2>4
      <4> HIDE DEF r, side
      <4>5. MatchOK(t, heap[r.ref][side], orders, Traded)
        BY <2>4, <4>2, <4>4, MatchSame
      <4> QED BY <1>3, <4>3, <4>5
    <3> QED BY <1>3, <1>7, <1>11, <2>4, <2>5, <3>1, <3>2, <3>3 DEF RunOK
  <2> QED BY <1>1, <1>2, <1>4, <2>4, <2>5, SettledStep
<1> QED BY <1>9, <1>10, <1>11

LEMMA EmitThrowsSettled ==
  ASSUME Environment, IInv, SettledInv, NEW a \in Requests, EmitThrows(a)
  PROVE  SettledInv'
BY RejectSettled DEF EmitThrows, Running

LEMMA FailSettled ==
  ASSUME Environment, IInv, SettledInv, NEW a \in Requests, Fail(a)
  PROVE  SettledInv'
BY RejectSettled DEF Fail, Running

LEMMA PlacedSettled ==
  ASSUME Environment, IInv, SettledInv, NEW a \in Requests, Placed(a)
  PROVE  SettledInv'
<1> DEFINE r == req[a]
           t == StartMatch(r, bookRef, heap[bookRef])
           side == Opposite(r.ord.side)
<1>1. r.pc = "emit" /\ r.step = "placed" /\ Running(a)
  BY DEF Placed, Resume, Running
<1>2. orders' = orders /\ Traded' = Traded /\ heap' = heap /\ bookRef' = bookRef
  BY TradedSame DEF Placed, Resume
<1>3. /\ r \in Request /\ r.answer = "none" /\ OwnRowOK(r, orders)
      /\ req \in [Requests -> Request]
  BY <1>1, InsertedFacts
<1>4. req' = [req EXCEPT ![a] = t]
  BY <1>3 DEF Placed
<1>5. t.pc # "done" => t.pc = "update" /\ t.step \in MatchSteps /\ t.answer = "none"
  <2>1. bookRef \in Refs /\ heap[bookRef] \in [Sides -> Seq(Entry)]
    BY DEF IInv, TypeOK
  <2> QED BY <1>3, <2>1, StartFields
<1>6. ASSUME Calm
      PROVE  /\ AmountsOK(orders', Traded')
             /\ IF t.pc = "done" THEN RowsOK({}, orders', Traded')
                                 ELSE RunOK(t, heap', bookRef', orders', Traded')
  <2>1. /\ AmountsOK(orders, Traded) /\ NewestOK(r, orders)
        /\ r.ord.id = Len(orders) /\ orders[r.ord.id].symbol = r.ord.symbol
        /\ PlacingOK(r, heap[bookRef], orders, Traded)
        /\ RowsOK({}, orders, Traded) /\ OrderOK(r, orders, Traded)
    BY <1>1, <1>6, InsertedFacts
  <2>2. FreshOK(r, heap[bookRef][side], orders, Traded)
    BY <1>1, <2>1 DEF PlacingOK
  <2>3. bookRef \in Refs /\ heap[bookRef] \in [Sides -> Seq(Entry)] /\ orders \in Seq(Row)
    BY DEF IInv, TypeOK
  <2>4. \/ t.pc = "done"
        \/ /\ t.pc = "update" /\ t.step \in MatchSteps /\ t.ord = r.ord /\ t.ref = bookRef
           /\ MatchOK(t, heap[bookRef][side], orders, Traded)
    <3>1. \/ /\ t.pc = "done" /\ t.answer \in {"ok", "empty"} /\ t.ord.id = r.ord.id
             /\ \A b, s \in DOMAIN orders : r.ord.id \in {b, s} => ~Missed(b, s, orders)
          \/ /\ t.pc = "update" /\ t.step \in MatchSteps /\ t.ord = r.ord /\ t.ref = bookRef
             /\ t.answer = r.answer
             /\ MatchOK(t, heap[bookRef][side], orders, Traded)
      BY <1>3, <2>1, <2>2, <2>3, StartSettled, ZenonT(40)
    <3> QED BY <3>1
  <2> HIDE DEF t
  <2>5. CASE t.pc = "done"
    BY <1>2, <2>1, <2>5
  <2>6. CASE /\ t.pc = "update" /\ t.step \in MatchSteps /\ t.ord = r.ord /\ t.ref = bookRef
             /\ MatchOK(t, heap[bookRef][side], orders, Traded)
    <3>1. MatchOK(t, heap'[t.ref][Opposite(t.ord.side)], orders', Traded')
      BY <1>2, <2>6
    <3>2. NewestOK(t, orders')
      BY <1>1, <1>2, <2>1, <2>6 DEF NewestOK
    <3> QED BY <1>2, <2>1, <2>6, <3>1, <3>2 DEF RunOK, MatchSteps
  <2> QED BY <2>4, <2>5, <2>6
<1> HIDE DEF t
<1> QED BY <1>1, <1>4, <1>5, <1>6, SettledStep DEF PostSteps
-----------------------------------------------------------------------------
(* SettledInv, in a match.                                                 *)

\* What is known of the two orders of a fill.
LEMMA FillFacts ==
  ASSUME Environment, IInv, SettledInv, Calm, NEW a \in Requests, Running(a),
         req[a].step \in MatchSteps
  PROVE  LET r == req[a]
             e == Resting(r) IN
         /\ AmountsOK(orders, Traded) /\ NewestOK(r, orders) /\ r.pc # "insert"
         /\ MatchOK(r, RestingList(r), orders, Traded)
         /\ WalkOK(r, RestingList(r), r.idx, orders)
         /\ EntriesOK(RestingList(r), r.idx - 1, orders, Traded)
         /\ StageOK(r, e, orders, Traded)
         /\ RowsOK({r.ord.id, e.id}, orders, Traded)
         /\ e.id # r.ord.id /\ e.id \in DOMAIN orders /\ r.ord.id \in DOMAIN orders
         /\ r.idx \in Nat \ {0} /\ r.idx \in DOMAIN RestingList(r)
         /\ e \in Entry /\ e.size \in Int /\ e.filled \in Int
         /\ r.ord.size \in Int /\ r.ord.filled \in Int
         /\ RestingList(r) = heap[r.ref][Opposite(r.ord.side)] /\ e = RestingList(r)[r.idx]
<1> DEFINE r == req[a]
<1>1. a \in Actors /\ r \in Request /\ r.ord \in Order
  BY AloneFacts, ActorFacts DEF SettledInv
<1>2. /\ RestingList(r) \in Seq(Entry) /\ r.idx \in DOMAIN RestingList(r)
      /\ Resting(r) \in Entry /\ Resting(r).id \in DOMAIN orders /\ r.pc # "insert"
      /\ OwnRowOK(r, orders)
  BY <1>1, MatchStepFacts
<1>3. /\ AmountsOK(orders, Traded) /\ NewestOK(r, orders)
      /\ MatchOK(r, heap[r.ref][Opposite(r.ord.side)], orders, Traded)
  BY <1>2, InsertedFacts
<1>4. RestingList(r) = heap[r.ref][Opposite(r.ord.side)] /\ Resting(r) = RestingList(r)[r.idx]
  BY DEF RestingList, Resting
<1>5. r.idx \in Nat \ {0}
  BY <1>2, LenProperties
<1>6. Resting(r).size \in Int /\ Resting(r).filled \in Int
  BY <1>2 DEF Entry
<1>7. r.ord.size \in Int /\ r.ord.filled \in Int
  BY <1>1 DEF Order
<1>8. MatchOK(r, RestingList(r), orders, Traded)
  BY <1>3, <1>4
<1> QED BY <1>2, <1>3, <1>4, <1>5, <1>6, <1>7, <1>8, Zenon DEF MatchOK, OwnRowOK

\* The request goes on in the same place of the same list, and only the request changes.
LEMMA StageSettled ==
  ASSUME Environment, IInv, SettledInv, NEW a \in Requests, Running(a),
         req[a].step \in MatchSteps, UNCHANGED <<orders, trades, heap, bookRef>>,
         NEW t, req' = [req EXCEPT ![a] = t],
         t.pc \notin {"idle", "insert", "done"}, t.step \in MatchSteps, t.answer = "none",
         t.ord.id = req[a].ord.id, t.ord.side = req[a].ord.side, t.ord.symbol = req[a].ord.symbol,
         t.ref = req[a].ref, t.idx = req[a].idx,
         Calm => StageOK(t, Resting(req[a]), orders, Traded)
  PROVE  SettledInv'
<1> DEFINE r == req[a]
<1>1. orders' = orders /\ Traded' = Traded
  BY TradedSame
<1>2. ASSUME Calm
      PROVE  AmountsOK(orders, Traded) /\ RunOK(t, heap, bookRef, orders, Traded)
  <2>1. /\ AmountsOK(orders, Traded) /\ NewestOK(r, orders) /\ r.pc # "insert"
        /\ WalkOK(r, RestingList(r), r.idx, orders)
        /\ EntriesOK(RestingList(r), r.idx - 1, orders, Traded)
        /\ RowsOK({r.ord.id, Resting(r).id}, orders, Traded)
        /\ Resting(r).id # r.ord.id
        /\ RestingList(r) = heap[r.ref][Opposite(r.ord.side)]
        /\ Resting(r) = RestingList(r)[r.idx]
    BY <1>2, FillFacts
  <2>2. WalkOK(t, RestingList(r), t.idx, orders)
    BY <2>1, Zenon DEF WalkOK
  <2>3. StageOK(t, Resting(r), orders, Traded)
    BY <1>2
  <2>4. MatchOK(t, RestingList(r), orders, Traded)
    BY <2>1, <2>2, <2>3, Zenon DEF MatchOK
  <2>5. RestingList(r) = heap[t.ref][Opposite(t.ord.side)]
    BY <2>1, Zenon
  <2>6. NewestOK(t, orders)
    BY <2>1, Zenon DEF NewestOK
  <2> QED BY <2>1, <2>4, <2>5, <2>6, Zenon DEF RunOK, MatchSteps
<1> QED BY <1>1, <1>2, SettledStep, Zenon DEF PostSteps

LEMMA ResumeFacts ==
  ASSUME Environment, IInv, SettledInv, NEW a \in Requests, NEW step \in MatchSteps, Resume(a, step)
  PROVE  /\ req[a].pc = "emit" /\ req[a].step = step /\ Running(a) /\ req[a].answer = "none"
         /\ req[a] \in Request /\ req \in [Requests -> Request] /\ a \in Actors
         /\ UNCHANGED <<orders, trades, bookRef>>
<1>1. req[a].pc = "emit" /\ req[a].step = step /\ Running(a) /\ UNCHANGED <<orders, trades, bookRef>>
  BY DEF Resume, Running
<1> QED BY <1>1, InsertedFacts

LEMMA TakerClosedSettled ==
  ASSUME Environment, IInv, SettledInv, NEW a \in Requests, TakerClosed(a)
  PROVE  SettledInv'
<1> DEFINE r == req[a]
           t == CallSaveTrade(r, "fullTraded", r.ord.size)
<1>1. /\ r.pc = "emit" /\ r.step = "takerClosed" /\ r.step \in MatchSteps /\ Running(a)
      /\ r.answer = "none" /\ r \in Request /\ req \in [Requests -> Request]
      /\ UNCHANGED <<orders, trades, bookRef>>
  BY ResumeFacts DEF TakerClosed, MatchSteps
<1>2. /\ t.pc = "trade" /\ t.step = "fullTraded" /\ t.qty = r.ord.size /\ t.answer = "none"
      /\ t.ord = r.ord /\ t.ref = r.ref /\ t.idx = r.idx
  BY <1>1 DEF CallSaveTrade, Request
<1>3. req' = [req EXCEPT ![a] = t] /\ heap' = heap
  BY <1>1 DEF TakerClosed
<1> HIDE DEF t
<1>4. ASSUME Calm
      PROVE  StageOK(t, Resting(r), orders, Traded)
  <2>1. StageOK(r, Resting(r), orders, Traded)
    BY <1>1, <1>4, FillFacts
  <2> QED BY <1>1, <1>2, <2>1 DEF StageOK, OrderOK
<1> QED BY <1>1, <1>2, <1>3, <1>4, StageSettled DEF MatchSteps

LEMMA MakerClosedSettled ==
  ASSUME Environment, IInv, SettledInv, NEW a \in Requests, MakerClosed(a)
  PROVE  SettledInv'
<1> DEFINE r == req[a]
           t == CallSaveTrade(r, "partTraded", Resting(r).size)
<1>1. /\ r.pc = "emit" /\ r.step = "makerClosed" /\ r.step \in MatchSteps /\ Running(a)
      /\ r.answer = "none" /\ r \in Request /\ req \in [Requests -> Request]
      /\ UNCHANGED <<orders, trades, bookRef>>
  BY ResumeFacts DEF MakerClosed, MatchSteps
<1>2. /\ t.pc = "trade" /\ t.step = "partTraded" /\ t.qty = Resting(r).size /\ t.answer = "none"
      /\ t.ord = r.ord /\ t.ref = r.ref /\ t.idx = r.idx
  BY <1>1 DEF CallSaveTrade, Request
<1>3. req' = [req EXCEPT ![a] = t] /\ heap' = heap
  BY <1>1 DEF MakerClosed
<1> HIDE DEF t
<1>4. ASSUME Calm
      PROVE  StageOK(t, Resting(r), orders, Traded)
  <2>1. StageOK(r, Resting(r), orders, Traded)
    BY <1>1, <1>4, FillFacts
  <2> QED BY <1>1, <1>2, <2>1 DEF StageOK, OrderOK
<1> QED BY <1>1, <1>2, <1>3, <1>4, StageSettled DEF MatchSteps

LEMMA PartTradedSettled ==
  ASSUME Environment, IInv, SettledInv, NEW a \in Requests, PartTraded(a)
  PROVE  SettledInv'
<1> DEFINE r == req[a]
           e == Resting(r)
           filled == r.ord.filled + e.size
<1>1. /\ r.pc = "emit" /\ r.step = "partTraded" /\ r.step \in MatchSteps /\ Running(a)
      /\ r.answer = "none" /\ r \in Request /\ req \in [Requests -> Request] /\ a \in Actors
      /\ UNCHANGED <<orders, trades, bookRef>>
  BY ResumeFacts DEF PartTraded, MatchSteps
<1>2. PICK left \in Minus(r.ord.size, e.size) :
        req' = [req EXCEPT ![a] =
                  CallUpdate([r EXCEPT !.ord.size = left, !.ord.filled = filled], "takerUpdated",
                    [id |-> r.ord.id, size |-> left, filled |-> filled, close |-> FALSE])]
  BY Zenon DEF PartTraded
<1> DEFINE upd == [id |-> r.ord.id, size |-> left, filled |-> filled, close |-> FALSE]
           t == CallUpdate([r EXCEPT !.ord.size = left, !.ord.filled = filled], "takerUpdated", upd)
<1>3. /\ t.pc = "update" /\ t.step = "takerUpdated" /\ t.upd = upd /\ t.answer = "none"
      /\ t.ref = r.ref /\ t.idx = r.idx /\ t.ord.id = r.ord.id /\ t.ord.side = r.ord.side
      /\ t.ord.symbol = r.ord.symbol /\ t.ord.size = left /\ t.ord.filled = filled
  BY <1>1 DEF CallUpdate, Request, Order
<1>4. req' = [req EXCEPT ![a] = t] /\ heap' = heap
  BY <1>1, <1>2 DEF PartTraded
<1>5. left = r.ord.size - e.size
  <2>1. r.ord.size \in Int /\ e.size \in Int
    <3>1. r.ord \in Order /\ e \in Entry
      BY <1>1, MatchStepFacts, ActorFacts
    <3> QED BY <3>1 DEF Order, Entry
  <2> QED BY <1>2, <2>1, ExactMinus
<1> HIDE DEF t
<1>6. ASSUME Calm
      PROVE  StageOK(t, e, orders, Traded)
  <2>1. StageOK(r, e, orders, Traded)
    BY <1>1, <1>6, FillFacts
  <2>2. /\ Left(e.id, orders, Traded) = 0 /\ RowOK(e.id, orders, Traded)
        /\ Left(r.ord.id, orders, Traded) = left /\ Traded[r.ord.id] = filled
        /\ Left(r.ord.id, orders, Traded) > 0
        /\ ~orders[r.ord.id].isFilled
    BY <1>1, <1>5, <2>1 DEF StageOK, Shows
  <2>3. OrderOK(t, orders, Traded)
    BY <1>3, <2>2 DEF OrderOK, EntryOK
  <2>4. t.upd = [id |-> t.ord.id, size |-> t.ord.size, filled |-> t.ord.filled, close |-> FALSE]
    BY <1>3
  <2> HIDE DEF e, filled, upd
  <2> QED BY <1>3, <2>2, <2>3, <2>4 DEF StageOK
<1> QED BY <1>1, <1>3, <1>4, <1>6, StageSettled DEF MatchSteps

LEMMA MakerUpdatedSettled ==
  ASSUME Environment, IInv, SettledInv, NEW a \in Requests, MakerUpdated(a)
  PROVE  SettledInv'
<1> DEFINE r == req[a]
           t == Finish(r, "ok")
<1>1. /\ r.pc = "emit" /\ r.step = "makerUpdated" /\ r.step \in MatchSteps /\ Running(a)
      /\ req \in [Requests -> Request] /\ UNCHANGED <<orders, trades, bookRef>>
  BY ResumeFacts DEF MakerUpdated, MatchSteps
<1>2. t.pc = "done"
  BY FinishFields
<1>3. req' = [req EXCEPT ![a] = t]
  BY <1>1 DEF MakerUpdated
<1>4. ASSUME Calm
      PROVE  AmountsOK(orders', Traded') /\ RowsOK({}, orders', Traded')
  <2>1. /\ AmountsOK(orders, Traded) /\ StageOK(r, Resting(r), orders, Traded)
        /\ RowsOK({r.ord.id, Resting(r).id}, orders, Traded)
    BY <1>1, <1>4, FillFacts
  <2>2. RowOK(r.ord.id, orders, Traded) /\ RowOK(Resting(r).id, orders, Traded)
    BY <1>1, <2>1 DEF StageOK
  <2>3. RowsOK({}, orders, Traded)
    BY <2>1, <2>2 DEF RowsOK
  <2>4. orders' = orders /\ Traded' = Traded
    BY <1>1, TradedSame
  <2> QED BY <2>1, <2>3, <2>4
<1> HIDE DEF t
<1> QED BY <1>1, <1>2, <1>3, <1>4, SettledStep

\* After Shrink the list has another size at its place, and is the same elsewhere.
LEMMA ShrunkList ==
  ASSUME IInv, NEW a \in Actors, req[a].step \in MatchSteps, NEW left \in Int
  PROVE  LET r == req[a]
             list == RestingList(r)
             next == Shrink(r, left)[r.ref][Opposite(r.ord.side)] IN
         \A k \in DOMAIN list : /\ next[k].id = list[k].id /\ next[k].price = list[k].price
                                /\ k # r.idx => next[k] = list[k]
<1> DEFINE r == req[a]
           side == Opposite(r.ord.side)
           list == RestingList(r)
<1>1. r.ref \in Refs /\ side \in Sides /\ heap \in [Refs -> [Sides -> Seq(Entry)]]
  BY ActorFacts, ConstantFacts, MatchStepFacts DEF Order, Heaps
<1>2. list = heap[r.ref][side] /\ list \in Seq(Entry) /\ r.idx \in DOMAIN list
  BY <1>1, MatchStepFacts DEF RestingList
<1>3. list[r.idx] \in Entry
  BY <1>2
<1> HIDE DEF list, side, r
<1>4. [heap EXCEPT ![r.ref][side][r.idx].size = left][r.ref][side]
        = [list EXCEPT ![r.idx] = [@ EXCEPT !.size = left]]
  BY <1>1, <1>2
<1>5. LET next == [list EXCEPT ![r.idx] = [@ EXCEPT !.size = left]] IN
      \A k \in DOMAIN list : /\ next[k].id = list[k].id /\ next[k].price = list[k].price
                             /\ k # r.idx => next[k] = list[k]
  BY <1>2, <1>3 DEF Entry
<1> QED BY <1>4, <1>5, Zenon DEF Shrink, list, side, r

LEMMA KeepsItself ==
  ASSUME NEW table
  PROVE  Keeps(table, table)
BY DEF Keeps

LEMMA FullTradedSettled ==
  ASSUME Environment, IInv, SettledInv, NEW a \in Requests, FullTraded(a)
  PROVE  SettledInv'
<1> DEFINE r == req[a]
           e == Resting(r)
           side == Opposite(r.ord.side)
           list == RestingList(r)
           next == heap'[r.ref][side]
<1>1. /\ r.pc = "emit" /\ r.step = "fullTraded" /\ r.step \in MatchSteps /\ Running(a)
      /\ r.answer = "none" /\ r \in Request /\ req \in [Requests -> Request] /\ a \in Actors
      /\ UNCHANGED <<orders, trades, bookRef>>
  BY ResumeFacts DEF FullTraded, MatchSteps
<1>2. PICK left \in Minus(e.size, r.ord.size) :
        /\ heap' = Shrink(r, left)
        /\ req' = [req EXCEPT ![a] = CallUpdate(r, "makerUpdated",
                     [id |-> e.id, size |-> left,
                      filled |-> e.filled + r.ord.size, close |-> left = 0])]
  BY DEF FullTraded
<1> DEFINE upd == [id |-> e.id, size |-> left, filled |-> e.filled + r.ord.size,
                   close |-> left = 0]
           t == CallUpdate(r, "makerUpdated", upd)
<1>3. /\ t.pc = "update" /\ t.step = "makerUpdated" /\ t.upd = upd /\ t.answer = "none"
      /\ t.ref = r.ref /\ t.idx = r.idx /\ t.ord = r.ord
  BY <1>1 DEF CallUpdate, Request
<1>4. req' = [req EXCEPT ![a] = t]
  BY <1>2
<1>5. left = e.size - r.ord.size /\ left \in Int
  <2>1. r.ord.size \in Int /\ e.size \in Int
    <3>1. r.ord \in Order /\ e \in Entry
      BY <1>1, MatchStepFacts, ActorFacts
    <3> QED BY <3>1 DEF Order, Entry
  <2>2. left = e.size - r.ord.size
    BY <1>2, <2>1, ExactMinus
  <2> QED BY <2>1, <2>2
<1>6. \A k \in DOMAIN list : /\ next[k].id = list[k].id /\ next[k].price = list[k].price
                             /\ k # r.idx => next[k] = list[k]
  BY <1>1, <1>2, <1>5, ShrunkList, Zenon
<1> HIDE DEF t, next
<1>7. orders' = orders /\ Traded' = Traded
  BY <1>1, TradedSame
<1>8. ASSUME Calm
      PROVE  AmountsOK(orders', Traded') /\ RunOK(t, heap', bookRef', orders', Traded')
  <2>1. /\ AmountsOK(orders, Traded) /\ NewestOK(r, orders)
        /\ WalkOK(r, list, r.idx, orders) /\ EntriesOK(list, r.idx - 1, orders, Traded)
        /\ StageOK(r, e, orders, Traded) /\ RowsOK({r.ord.id, e.id}, orders, Traded)
        /\ e.id # r.ord.id /\ r.ord.id \in DOMAIN orders
        /\ r.idx \in Nat /\ r.idx \in DOMAIN list /\ e = list[r.idx]
    BY <1>1, <1>8, FillFacts
  <2>2. \A k \in 1 .. r.idx : k \in DOMAIN list
    <3>1. list \in Seq(Entry)
      BY <1>1, MatchStepFacts
    <3>2. Len(list) \in Nat /\ DOMAIN list = 1 .. Len(list)
      BY <3>1, LenProperties
    <3> HIDE DEF list, r
    <3> QED BY <2>1, <3>2
  <2>3. \A k \in 1 .. r.idx - 1 : k \in 1 .. r.idx /\ k # r.idx
    <3> HIDE DEF r
    <3> QED BY <2>1
  <2>4. WalkOK(t, next, t.idx, orders)
    <3>1. \A k \in 1 .. r.idx : next[k].id = list[k].id /\ next[k].price = list[k].price
      BY <1>6, <2>2
    <3>2. orders \in Seq(Row) /\ Keeps(orders, orders)
      BY KeepsItself DEF IInv, TypeOK
    <3>3. t.ord.id = r.ord.id /\ t.ord.side = r.ord.side /\ t.ord.symbol = r.ord.symbol
      BY <1>3
    <3> HIDE DEF list, r
    <3>4. WalkOK(t, next, r.idx, orders)
      BY <2>1, <3>1, <3>2, <3>3, WalkStable
    <3> QED BY <1>3, <3>4
  <2>5. EntriesOK(next, t.idx - 1, orders, Traded)
    <3>1. \A k \in 1 .. r.idx - 1 : next[k] = list[k]
      BY <1>6, <2>2, <2>3
    <3> QED BY <1>3, <2>1, <3>1 DEF EntriesOK
  <2>6. next[t.idx].id = e.id
    BY <1>3, <1>6, <2>1
  <2>7. StageOK(t, next[t.idx], orders, Traded)
    <3>1. /\ Left(r.ord.id, orders, Traded) = 0 /\ RowOK(r.ord.id, orders, Traded)
          /\ Left(e.id, orders, Traded) = left /\ Traded[e.id] = e.filled + r.ord.size
          /\ ~orders[e.id].isFilled
      BY <1>1, <1>5, <2>1 DEF StageOK, Shows
    <3>2. t.upd = [id |-> next[t.idx].id, size |-> Left(e.id, orders, Traded),
                   filled |-> Traded[e.id], close |-> Left(e.id, orders, Traded) = 0]
      BY <1>3, <2>6, <3>1
    <3> HIDE DEF e, upd, r
    <3> QED BY <1>3, <2>6, <3>1, <3>2 DEF StageOK
  <2>8. MatchOK(t, next, orders, Traded)
    BY <1>3, <2>1, <2>4, <2>5, <2>6, <2>7 DEF MatchOK
  <2>9. NewestOK(t, orders)
    BY <1>1, <1>3, <2>1 DEF NewestOK
  <2> QED BY <1>3, <1>7, <2>1, <2>8, <2>9 DEF RunOK, MatchSteps, next
<1> QED BY <1>1, <1>3, <1>4, <1>8, SettledStep DEF PostSteps, MatchSteps

\* A fill that leaves the own order open is followed by the next turn.
LEMMA NextTurn ==
  ASSUME Environment, IInv, SettledInv, Calm, NEW a \in Requests, TakerUpdated(a)
  PROVE  LET r == req[a]
             t == Match([r EXCEPT !.idx = r.idx - 1], RestingList(r)) IN
         /\ AmountsOK(orders, Traded) /\ RowsOK({}, orders, Traded)
         /\ \/ /\ t.pc = "done"
               /\ \A b, s \in DOMAIN orders : r.ord.id \in {b, s} => ~Missed(b, s, orders)
            \/ /\ t.pc = "update" /\ t.step \in MatchSteps /\ t.ord = r.ord /\ t.ref = r.ref
               /\ MatchOK(t, RestingList(r), orders, Traded)
<1> DEFINE r == req[a]
           e == Resting(r)
           list == RestingList(r)
           r1 == [r EXCEPT !.idx = r.idx - 1]
           t == Match(r1, list)
<1>1. /\ r.pc = "emit" /\ r.step = "takerUpdated" /\ r.step \in MatchSteps /\ Running(a)
      /\ r.answer = "none" /\ r \in Request /\ a \in Actors
  BY ResumeFacts DEF TakerUpdated, MatchSteps
<1>2. /\ AmountsOK(orders, Traded)
      /\ WalkOK(r, list, r.idx, orders) /\ EntriesOK(list, r.idx - 1, orders, Traded)
      /\ StageOK(r, e, orders, Traded) /\ RowsOK({r.ord.id, e.id}, orders, Traded)
      /\ e.id \in DOMAIN orders /\ r.ord.id \in DOMAIN orders
      /\ r.idx \in Nat \ {0} /\ r.idx \in DOMAIN list /\ e = list[r.idx]
  BY <1>1, FillFacts
<1>3. /\ RowOK(r.ord.id, orders, Traded) /\ RowOK(e.id, orders, Traded)
      /\ Left(e.id, orders, Traded) = 0 /\ OrderOK(r, orders, Traded)
  BY <1>1, <1>2 DEF StageOK
<1>4. RowsOK({}, orders, Traded) /\ orders[e.id].isFilled
  BY <1>2, <1>3 DEF RowsOK, RowOK, Shows
<1>5. /\ r1 \in Request /\ r1.ord = r.ord /\ r1.ref = r.ref /\ r1.idx = r.idx - 1
  <2>1. r.idx - 1 \in Nat
    BY <1>2
  <2> QED BY <1>1, <2>1 DEF Request
<1>6. list \in Seq(Entry) /\ Len(list) \in Nat /\ DOMAIN list = 1 .. Len(list)
  <2>1. list \in Seq(Entry)
    BY <1>1, MatchStepFacts
  <2> QED BY <2>1, LenProperties
<1>7. /\ OwnRowOK(r, orders) /\ r.ord.id = Len(orders) /\ orders[r.ord.id].symbol = r.ord.symbol
  BY <1>1, InsertedFacts
<1> HIDE DEF r1, list, r
<1>8. WalkOK(r1, list, r1.idx, orders)
  <2>1. WalkOK(r, list, r.idx - 1, orders)
    BY <1>2, <1>4, WalkDown
  <2> QED BY <1>5, <2>1 DEF WalkOK
<1>9. /\ EntriesOK(list, r1.idx, orders, Traded) /\ OrderOK(r1, orders, Traded)
      /\ OwnRowOK(r1, orders) /\ r1.ord.id \in DOMAIN orders
      /\ orders[r1.ord.id].side = r1.ord.side /\ r1.ord.id = Len(orders)
      /\ orders[r1.ord.id].symbol = r1.ord.symbol
  BY <1>2, <1>3, <1>5, <1>7 DEF OrderOK, OwnRowOK
<1>10. r1.idx <= Len(list) /\ (r1.idx \in DOMAIN list => r1.idx \in 1 .. r1.idx)
  BY <1>2, <1>5, <1>6
<1>11. orders \in Seq(Row)
  BY DEF IInv, TypeOK
<1> HIDE DEF t
<1>12. \/ r1.idx \notin Crossing(r1, list) /\ t = Finish(r1, "ok")
       \/ /\ t.pc = "update" /\ t.step \in MatchSteps /\ t.ord = r1.ord /\ t.ref = r1.ref
          /\ t.idx = r1.idx /\ t.answer = r1.answer
          /\ MatchOK(t, list, orders, Traded)
  BY <1>2, <1>4, <1>5, <1>8, <1>9, <1>10, <1>11, TurnSettled DEF t
<1>13. ASSUME r1.idx \notin Crossing(r1, list)
       PROVE  \A b, s \in DOMAIN orders : r.ord.id \in {b, s} => ~Missed(b, s, orders)
  BY <1>5, <1>6, <1>8, <1>9, <1>10, <1>11, <1>13, BreakUncrossed
<1>14. \/ /\ t.pc = "done"
          /\ \A b, s \in DOMAIN orders : r.ord.id \in {b, s} => ~Missed(b, s, orders)
       \/ /\ t.pc = "update" /\ t.step \in MatchSteps /\ t.ord = r.ord /\ t.ref = r.ref
          /\ MatchOK(t, list, orders, Traded)
  BY <1>5, <1>12, <1>13, FinishFields
<1> QED BY <1>2, <1>4, <1>14 DEF t, r1, list, r

LEMMA TakerUpdatedSettled ==
  ASSUME Environment, IInv, SettledInv, NEW a \in Requests, TakerUpdated(a)
  PROVE  SettledInv'
<1> DEFINE r == req[a]
           r1 == [r EXCEPT !.idx = r.idx - 1]
           t == Match(r1, RestingList(r))
<1>1. /\ r.pc = "emit" /\ r.step = "takerUpdated" /\ r.step \in MatchSteps /\ Running(a)
      /\ r.answer = "none" /\ r \in Request /\ req \in [Requests -> Request] /\ a \in Actors
      /\ UNCHANGED <<orders, trades, bookRef>>
  BY ResumeFacts DEF TakerUpdated, MatchSteps
<1>2. req' = [req EXCEPT ![a] = t] /\ heap' = heap
  BY <1>1 DEF TakerUpdated
<1>3. t.pc # "done" => t.pc = "update" /\ t.step \in MatchSteps /\ t.answer = "none"
  <2>1. r.idx \in 1 .. Len(RestingList(r))
    BY <1>1, MatchStepFacts, LenProperties
  <2>2. r.idx - 1 \in Nat
    BY <2>1
  <2>3. r1 \in Request /\ r1.answer = "none"
    BY <1>1, <2>2 DEF Request
  <2> HIDE DEF r1
  <2> QED BY <2>3, MatchFields
<1>4. orders' = orders /\ Traded' = Traded
  BY <1>1, TradedSame
<1>5. ASSUME Calm
      PROVE  /\ AmountsOK(orders', Traded')
             /\ IF t.pc = "done" THEN RowsOK({}, orders', Traded')
                                 ELSE RunOK(t, heap', bookRef', orders', Traded')
  <2>1. /\ AmountsOK(orders, Traded) /\ RowsOK({}, orders, Traded)
        /\ \/ t.pc = "done"
           \/ /\ t.pc = "update" /\ t.step \in MatchSteps /\ t.ord = r.ord /\ t.ref = r.ref
              /\ MatchOK(t, RestingList(r), orders, Traded)
    BY <1>5, NextTurn
  <2> HIDE DEF t
  <2>2. CASE t.pc = "done"
    BY <1>4, <2>1, <2>2
  <2>3. CASE t.pc # "done"
    <3>1. MatchOK(t, heap'[t.ref][Opposite(t.ord.side)], orders', Traded')
      BY <1>2, <1>4, <2>1, <2>3 DEF RestingList
    <3>2. NewestOK(t, orders')
      BY <1>1, <1>4, <1>5, <2>1, <2>3, FillFacts DEF NewestOK
    <3> QED BY <1>4, <2>1, <2>3, <3>1, <3>2 DEF RunOK, MatchSteps
  <2> QED BY <2>2, <2>3
<1> HIDE DEF t
<1> QED BY <1>1, <1>2, <1>3, <1>5, SettledStep DEF PostSteps

\* What updateOrder does to the table: one row, and of it three columns.
LEMMA UpdatedRow ==
  ASSUME Environment, IInv, NEW a \in Requests, UpdateOrder(a)
  PROVE  LET u == req[a].upd IN
         /\ u.id \in DOMAIN orders /\ Keeps(orders, orders') /\ DOMAIN orders' = DOMAIN orders
         /\ Len(orders') = Len(orders)
         /\ \A i \in DOMAIN orders : i # u.id => orders'[i] = orders[i]
         /\ orders'[u.id].size = Stored(u.size) /\ orders'[u.id].filled = u.filled
         /\ orders'[u.id].isFilled = (orders[u.id].isFilled \/ u.close)
         /\ Traded' = Traded
         /\ \A i \in DOMAIN orders : Left(i, orders', Traded) = Left(i, orders, Traded)
<1> DEFINE r == req[a]
           u == r.upd
           row == [orders[u.id] EXCEPT !.size = Stored(u.size), !.filled = u.filled,
                                       !.isFilled = orders[u.id].isFilled \/ u.close]
<1>1. a \in Actors /\ r.pc = "update" /\ trades' = trades
  BY DEF UpdateOrder, Actors
<1>2. r.step \in MatchSteps
  BY <1>1, ActorFacts DEF RequestOK
<1>3. u.id \in DOMAIN orders /\ orders[u.id] \in Row /\ orders \in Seq(Row)
  <2>1. u.id \in DOMAIN orders
    BY <1>1, <1>2, MatchStepFacts, ZenonT(90) DEF WriteOK
  <2> QED BY <1>1, <2>1, ActorFacts
<1>4. orders' = [orders EXCEPT ![u.id] = row]
  BY DEF UpdateOrder
<1>5. /\ row.side = orders[u.id].side /\ row.type = orders[u.id].type
      /\ row.price = orders[u.id].price /\ row.symbol = orders[u.id].symbol
      /\ row.orgSize = orders[u.id].orgSize /\ row.created = orders[u.id].created
      /\ row.size = Stored(u.size) /\ row.filled = u.filled
      /\ row.isFilled = (orders[u.id].isFilled \/ u.close)
  <2> DEFINE size == Stored(u.size)
             old == orders[u.id]
  <2>1. old \in Row
    BY <1>3
  <2> HIDE DEF size, old
  <2> QED BY <2>1 DEF Row, size, old
<1> HIDE DEF row, u
<1>6. /\ DOMAIN orders' = DOMAIN orders /\ Len(orders') = Len(orders) /\ orders'[u.id] = row
      /\ \A i \in DOMAIN orders : i # u.id => orders'[i] = orders[i]
  BY <1>3, <1>4
<1>7. Keeps(orders, orders')
  BY <1>3, <1>5, <1>6 DEF Keeps
<1>8. Traded' = Traded
  BY <1>1, <1>6, TradedSame
<1>9. \A i \in DOMAIN orders : Left(i, orders', Traded) = Left(i, orders, Traded)
  BY <1>7 DEF Keeps, Left
<1> QED BY <1>3, <1>5, <1>6, <1>7, <1>8, <1>9 DEF u

\* The row that an update writes is the one the next stage is to find.
LEMMA UpdatedStage ==
  ASSUME Environment, IInv, SettledInv, Calm, NEW a \in Requests, UpdateOrder(a),
         NEW t, t.pc = "buys", t.step = req[a].step, t.ord = req[a].ord
  PROVE  /\ StageOK(t, Resting(req[a]), orders', Traded')
         /\ req[a].upd.id \in {req[a].ord.id, Resting(req[a]).id}
<1> DEFINE r == req[a]
           e == Resting(r)
           u == r.upd
           own == r.ord.id
           size == r.ord.size
           filled == r.ord.filled
<1>1. r.pc = "update" /\ Running(a) /\ a \in Actors
  BY DEF UpdateOrder, Running, Actors
<1>2. r.step \in MatchSteps
  BY <1>1, ActorFacts DEF RequestOK
<1>3. /\ AmountsOK(orders, Traded) /\ StageOK(r, e, orders, Traded)
      /\ e.id # own /\ e.id \in DOMAIN orders /\ own \in DOMAIN orders
      /\ size \in Int /\ filled \in Int
  BY <1>1, <1>2, FillFacts
<1>4. /\ \A i \in DOMAIN orders : i # u.id => orders'[i] = orders[i]
      /\ orders'[u.id].size = Stored(u.size) /\ orders'[u.id].filled = u.filled
      /\ orders'[u.id].isFilled = (orders[u.id].isFilled \/ u.close)
      /\ Traded' = Traded
      /\ \A i \in DOMAIN orders : Left(i, orders', Traded) = Left(i, orders, Traded)
  BY UpdatedRow
<1>5. \A i \in DOMAIN orders : i # u.id => (RowOK(i, orders', Traded) <=> RowOK(i, orders, Traded))
  BY <1>4 DEF RowOK
<1>6. \A i \in DOMAIN orders : /\ Left(i, orders, Traded) \in Nat /\ Whole(Left(i, orders, Traded))
                               /\ Stored(Left(i, orders, Traded)) = Left(i, orders, Traded)
  BY <1>3, WholeStored DEF AmountsOK
<1>7. Stored(0) = 0
  BY WholeZero, WholeStored
<1>8. OrderOK(r, orders, Traded) =>
        OrderOK(t, orders', Traded) /\ size = Left(own, orders, Traded) /\ size > 0
  BY <1>3, <1>4 DEF OrderOK, EntryOK
<1>9. EntryOK(e, orders, Traded) => EntryOK(e, orders', Traded)
  BY <1>3, <1>4 DEF EntryOK
<1>10. t.ord.id = own /\ t.ord.size = size /\ t.ord.filled = filled
  OBVIOUS
<1>11. \/ r.step = "takerClosed" \/ r.step = "makerUpdated" \/ r.step = "makerClosed"
       \/ r.step = "takerUpdated"
  BY <1>1, <1>2, MatchStepFacts, ZenonT(90) DEF WriteOK
<1> HIDE DEF e, r
<1>12. CASE r.step = "takerClosed"
  <2>1. /\ OrderOK(r, orders, Traded) /\ EntryOK(e, orders, Traded) /\ size <= e.size
        /\ RowOK(e.id, orders, Traded)
        /\ u = [id |-> own, size |-> 0, filled |-> filled + size, close |-> TRUE]
    BY <1>1, <1>3, <1>12 DEF StageOK
  <2>2. u.id = own /\ Shows(orders'[own], 0, filled + size, TRUE)
    <3>1. u.id = own /\ u.size = 0 /\ u.filled = filled + size /\ u.close = TRUE
      BY <2>1
    <3>2. orders'[own].isFilled = TRUE
      BY <1>4, <3>1, Zenon
    <3> HIDE DEF u, own, filled, size
    <3> QED BY <1>4, <1>7, <3>1, <3>2 DEF Shows
  <2>3. RowOK(e.id, orders', Traded)
    BY <1>3, <1>5, <2>1, <2>2
  <2>4. OrderOK(t, orders', Traded) /\ EntryOK(e, orders', Traded)
    BY <1>8, <1>9, <2>1
  <2>5. StageOK(t, e, orders', Traded)
    BY <1>10, <1>12, <2>1, <2>2, <2>3, <2>4 DEF StageOK, r
  <2> QED BY <1>4, <2>2, <2>5 DEF e, r
<1>13. CASE r.step = "makerUpdated"
  <2> DEFINE left == Left(e.id, orders, Traded)
  <2>1. /\ Left(own, orders, Traded) = 0 /\ RowOK(own, orders, Traded)
        /\ ~orders[e.id].isFilled
        /\ u = [id |-> e.id, size |-> left, filled |-> Traded[e.id], close |-> left = 0]
    BY <1>1, <1>3, <1>13 DEF StageOK
  <2>2. u.id = e.id /\ u.size = left /\ u.filled = Traded[e.id] /\ u.close = (left = 0)
    BY <2>1
  <2>3. Stored(left) = left /\ Left(e.id, orders', Traded) = left
    BY <1>3, <1>4, <1>6
  <2>4. orders'[e.id].isFilled = (left = 0)
    BY <1>4, <2>1, <2>2, Zenon
  <2> HIDE DEF left, u
  <2>5. RowOK(e.id, orders', Traded)
    BY <1>4, <2>2, <2>3, <2>4 DEF RowOK, Shows
  <2>6. RowOK(own, orders', Traded) /\ Left(own, orders', Traded) = 0
    BY <1>3, <1>4, <1>5, <2>1, <2>2
  <2>7. StageOK(t, e, orders', Traded)
    BY <1>10, <1>13, <2>5, <2>6 DEF StageOK, r
  <2> QED BY <1>4, <2>2, <2>7 DEF e, r, u
<1>14. CASE r.step = "makerClosed"
  <2>1. /\ OrderOK(r, orders, Traded) /\ EntryOK(e, orders, Traded) /\ e.size < size
        /\ RowOK(own, orders, Traded)
        /\ u = [id |-> e.id, size |-> 0, filled |-> e.filled + e.size, close |-> TRUE]
    BY <1>1, <1>3, <1>14 DEF StageOK
  <2>2. u.id = e.id /\ Shows(orders'[e.id], 0, e.filled + e.size, TRUE)
    <3>1. u.id = e.id /\ u.size = 0 /\ u.filled = e.filled + e.size /\ u.close = TRUE
      BY <2>1
    <3>2. orders'[e.id].isFilled = TRUE
      BY <1>4, <3>1, Zenon
    <3> HIDE DEF u
    <3> QED BY <1>4, <1>7, <3>1, <3>2 DEF Shows
  <2>3. RowOK(own, orders', Traded)
    BY <1>3, <1>5, <2>1, <2>2
  <2>4. OrderOK(t, orders', Traded) /\ EntryOK(e, orders', Traded)
    BY <1>8, <1>9, <2>1
  <2>5. StageOK(t, e, orders', Traded)
    BY <1>10, <1>14, <2>1, <2>2, <2>3, <2>4 DEF StageOK, r
  <2> QED BY <1>4, <2>2, <2>5 DEF e, r
<1>15. CASE r.step = "takerUpdated"
  <2>1. /\ OrderOK(r, orders, Traded) /\ Left(e.id, orders, Traded) = 0
        /\ RowOK(e.id, orders, Traded) /\ ~orders[own].isFilled
        /\ u = [id |-> own, size |-> size, filled |-> filled, close |-> FALSE]
    BY <1>1, <1>3, <1>15 DEF StageOK
  <2>2. /\ u.id = own /\ u.size = size /\ u.filled = filled /\ u.close = FALSE
        /\ size = Left(own, orders, Traded) /\ size > 0 /\ filled = Traded[own]
    BY <1>8, <2>1 DEF OrderOK, EntryOK
  <2>3. Stored(size) = size /\ Left(own, orders', Traded) = size
    BY <1>3, <1>4, <1>6, <2>2
  <2>4. orders'[own].isFilled = FALSE
    <3>1. (orders[own].isFilled \/ FALSE) = FALSE
      BY <2>1, Zenon
    <3> QED BY <1>4, <2>2, <3>1, Zenon
  <2> HIDE DEF u, size, filled
  <2>5. RowOK(own, orders', Traded)
    <3>1. (Left(own, orders', Traded) = 0) = FALSE
      BY <1>3, <2>2, <2>3
    <3>2. orders'[own].isFilled = (Left(own, orders', Traded) = 0)
      BY <2>4, <3>1, Zenon
    <3> QED BY <1>4, <2>2, <2>3, <3>2 DEF RowOK, Shows
  <2>6. RowOK(e.id, orders', Traded) /\ Left(e.id, orders', Traded) = 0
    BY <1>3, <1>4, <1>5, <2>1, <2>2
  <2>7. OrderOK(t, orders', Traded)
    BY <1>8, <2>1
  <2>8. StageOK(t, e, orders', Traded)
    BY <1>10, <1>15, <2>5, <2>6, <2>7 DEF StageOK, r
  <2> QED BY <1>4, <2>2, <2>8 DEF e, r, u
<1> QED BY <1>11, <1>12, <1>13, <1>14, <1>15

LEMMA UpdateOrderSettled ==
  ASSUME Environment, IInv, SettledInv, NEW a \in Requests, UpdateOrder(a)
  PROVE  SettledInv'
<1> DEFINE r == req[a]
           e == Resting(r)
           list == RestingList(r)
           u == r.upd
           t == [r EXCEPT !.pc = "buys", !.upd = NoUpdate]
<1>1. /\ r.pc = "update" /\ Running(a) /\ heap' = heap /\ bookRef' = bookRef
  BY DEF UpdateOrder, Running
<1>2. /\ a \in Actors /\ r \in Request /\ r.answer = "none" /\ req \in [Requests -> Request]
      /\ r.step \in MatchSteps
  BY <1>1, InsertedFacts DEF RequestOK
<1>3. /\ t.pc = "buys" /\ t.step = r.step /\ t.ord = r.ord /\ t.ref = r.ref /\ t.idx = r.idx
      /\ t.answer = "none"
  BY <1>2 DEF Request
<1>4. req' = [req EXCEPT ![a] = t]
  BY <1>2 DEF UpdateOrder
<1> HIDE DEF t
<1>5. ASSUME Calm
      PROVE  AmountsOK(orders', Traded') /\ RunOK(t, heap', bookRef', orders', Traded')
  <2>1. /\ AmountsOK(orders, Traded) /\ NewestOK(r, orders)
        /\ WalkOK(r, list, r.idx, orders) /\ EntriesOK(list, r.idx - 1, orders, Traded)
        /\ RowsOK({r.ord.id, e.id}, orders, Traded)
        /\ e.id # r.ord.id /\ r.ord.id \in DOMAIN orders
        /\ r.idx \in Nat /\ e = list[r.idx]
        /\ list = heap[r.ref][Opposite(r.ord.side)]
    BY <1>1, <1>2, <1>5, FillFacts
  <2>2. StageOK(t, e, orders', Traded') /\ u.id \in {r.ord.id, e.id}
    BY <1>3, <1>5, UpdatedStage
  <2>3. /\ Keeps(orders, orders') /\ DOMAIN orders' = DOMAIN orders /\ Len(orders') = Len(orders)
        /\ \A i \in DOMAIN orders : i # u.id => orders'[i] = orders[i]
        /\ Traded' = Traded
        /\ \A i \in DOMAIN orders : Left(i, orders', Traded) = Left(i, orders, Traded)
    BY UpdatedRow
  <2> HIDE DEF r, e, list, u
  <2>4. AmountsOK(orders', Traded')
    BY <2>1, <2>3 DEF AmountsOK
  <2>5. RowsOK({r.ord.id, e.id}, orders', Traded')
    BY <2>1, <2>2, <2>3, Zenon DEF RowsOK, RowOK
  <2>6. WalkOK(t, list, r.idx, orders')
    <3>1. t.ord.id = r.ord.id /\ t.ord.side = r.ord.side /\ t.ord.symbol = r.ord.symbol
      BY <1>3
    <3>2. \A k \in 1 .. r.idx : list[k].id = list[k].id /\ list[k].price = list[k].price
      OBVIOUS
    <3>3. orders \in Seq(Row)
      BY Zenon DEF IInv, TypeOK
    <3>4. WalkOK(r, list, r.idx, orders) /\ r.ord.id \in DOMAIN orders
      BY <2>1
    <3>5. Keeps(orders, orders') /\ DOMAIN orders' = DOMAIN orders
      BY <2>3
    <3> QED BY <3>1, <3>2, <3>3, <3>4, <3>5, WalkStable
  <2>7. EntriesOK(list, r.idx - 1, orders', Traded')
    <3>0. r.idx \in Nat
      BY <2>1, Zenon
    <3>1. \A k \in 1 .. r.idx - 1 : k \in 1 .. r.idx
      BY <3>0
    <3>2. \A k \in 1 .. r.idx - 1 : list[k].id \in DOMAIN orders
      BY <2>1, <3>1, Zenon DEF WalkOK
    <3> QED BY <2>1, <2>3, <3>2, Zenon DEF EntriesOK, EntryOK
  <2>8. MatchOK(t, list, orders', Traded')
    BY <1>3, <2>1, <2>2, <2>5, <2>6, <2>7, Zenon DEF MatchOK
  <2>9. NewestOK(t, orders')
    <3>1. r.pc # "insert" /\ NewestOK(r, orders) /\ r.ord.id \in DOMAIN orders
      BY <1>1, <2>1, Zenon DEF r
    <3>2. r.ord.id = Len(orders) /\ orders[r.ord.id].symbol = r.ord.symbol
      BY <3>1 DEF NewestOK
    <3>3. Keeps(orders, orders') /\ Len(orders') = Len(orders) /\ t.ord = r.ord
      BY <1>3, <2>3 DEF r
    <3>4. orders'[r.ord.id].symbol = orders[r.ord.id].symbol
      BY <3>1, <3>3, Zenon DEF Keeps
    <3> QED BY <3>2, <3>3, <3>4 DEF NewestOK
  <2>10. list = heap'[t.ref][Opposite(t.ord.side)]
    BY <1>1, <1>3, <2>1
  <2>11. t.step \in MatchSteps
    BY <1>2, <1>3 DEF r
  <2> QED BY <2>4, <2>8, <2>9, <2>10, <2>11 DEF RunOK, MatchSteps
<1> QED BY <1>1, <1>2, <1>3, <1>4, <1>5, SettledStep DEF PostSteps

\* The trade that is saved is between the two orders of the fill, and for the
\* size that was asked for.
LEMMA SavedTrade ==
  ASSUME IInv, NEW a \in Actors, SaveTrade(a), Resting(req[a]).price # NoPrice
  PROVE  LET r == req[a]
             new == TradeOf(r) IN
         /\ new \in Trade /\ trades' = Append(trades, new)
         /\ new.size = Stored(r.qty) /\ {new.buy, new.sell} = {r.ord.id, Resting(r).id}
<1> DEFINE r == req[a]
           new == TradeOf(r)
           id == Resting(r).id
           price == Resting(r).price
<1>1. r.pc = "trade"
  BY DEF SaveTrade
<1>2. r.step \in MatchSteps
  BY <1>1, ActorFacts DEF RequestOK
<1>3. id \in Nat /\ price \in Prices
  BY <1>2, MatchStepFacts DEF Entry
<1>4. r.ord.side \in Sides /\ r.ord.id \in Nat /\ r.ord.symbol \in Symbols /\ Stored(r.qty) \in Int
  BY ActorFacts, StoredFacts DEF Order, Request
<1>5. new = [buy |-> IF r.ord.side = "BUY" THEN r.ord.id ELSE id,
             sell |-> IF r.ord.side = "BUY" THEN id ELSE r.ord.id,
             price |-> price, size |-> Stored(r.qty), symbol |-> r.ord.symbol]
  BY DEF TradeOf
<1>6. trades' = Append(trades, new)
  BY DEF SaveTrade
<1> HIDE DEF id, price, r, new
<1>7. new \in Trade /\ new.size = Stored(r.qty) /\ {new.buy, new.sell} = {r.ord.id, id}
  BY <1>3, <1>4, <1>5 DEF Trade
<1> QED BY <1>6, <1>7 DEF r, new, id

\* The trade adds its size to what its two orders have traded, and to no other.
LEMMA TradedMore ==
  ASSUME IInv, NEW a \in Actors, SaveTrade(a), Resting(req[a]).price # NoPrice,
         AmountsOK(orders, Traded), NEW size \in Int, Stored(req[a].qty) = size,
         Whole(size)
  PROVE  LET both == {req[a].ord.id, Resting(req[a]).id} IN
         /\ orders' = orders
         /\ \A i \in DOMAIN orders :
              /\ Traded'[i] = IF i \in both THEN Traded[i] + size ELSE Traded[i]
              /\ Traded[i] \in Int /\ orders[i].orgSize \in Int
              /\ Whole(Left(i, orders', Traded')) /\ Whole(Traded'[i])
              /\ Left(i, orders', Traded') = IF i \in both THEN Left(i, orders, Traded) - size
                                                          ELSE Left(i, orders, Traded)
<1> DEFINE new == TradeOf(req[a])
           both == {req[a].ord.id, Resting(req[a]).id}
<1>1. /\ new \in Trade /\ trades' = Append(trades, new) /\ new.size = size
      /\ {new.buy, new.sell} = both
  BY SavedTrade
<1>2. orders' = orders /\ trades \in Seq(Trade) /\ orders \in Seq(Row)
  BY DEF SaveTrade, IInv, TypeOK
<1> HIDE DEF new, both
<1>3. \A i : SumIn(trades', i) = SumIn(trades, i) + Share(i, new) /\ SumIn(trades, i) \in Int
  BY <1>1, <1>2, SumInAppend, SumInType
<1>4. \A i : Share(i, new) = IF i \in both THEN size ELSE 0
  BY <1>1 DEF Share
<1>5. \A i \in DOMAIN orders : /\ Traded'[i] = IF i \in both THEN Traded[i] + size ELSE Traded[i]
                               /\ Traded[i] \in Int
  BY <1>2, <1>3, <1>4, TradedIs, TradedIsNext
<1>6. \A i \in DOMAIN orders : orders[i].orgSize \in Int
  BY <1>2, RowsFacts
<1>7. ASSUME NEW i \in DOMAIN orders
      PROVE  /\ Whole(Left(i, orders', Traded')) /\ Whole(Traded'[i])
             /\ Left(i, orders', Traded') = IF i \in both THEN Left(i, orders, Traded) - size
                                                         ELSE Left(i, orders, Traded)
  <2>1. Whole(Left(i, orders, Traded)) /\ Whole(Traded[i]) /\ Left(i, orders, Traded) \in Int
    BY DEF AmountsOK
  <2>2. CASE i \in both
    <3>1. Left(i, orders', Traded') = Left(i, orders, Traded) - size
      BY <1>2, <1>5, <1>6, <2>2 DEF Left
    <3>2. Traded'[i] = Traded[i] + size
      BY <1>5, <2>2
    <3> QED BY <1>5, <2>1, <2>2, <3>1, <3>2, WholeFacts
  <2>3. CASE i \notin both
    BY <1>2, <1>5, <2>1, <2>3 DEF Left
  <2> QED BY <2>2, <2>3
<1> QED BY <1>2, <1>5, <1>6, <1>7 DEF both

LEMMA SaveTradeSettled ==
  ASSUME Environment, IInv, SettledInv, NEW a \in Requests, SaveTrade(a)
  PROVE  SettledInv'
<1> DEFINE r == req[a]
           e == Resting(r)
           list == RestingList(r)
           own == r.ord.id
           size == r.ord.size
           t == [r EXCEPT !.pc = "buys", !.qty = 0]
<1>1. r.pc = "trade" /\ Running(a) /\ orders' = orders /\ heap' = heap /\ bookRef' = bookRef
  BY DEF SaveTrade, Running
<1>2. /\ a \in Actors /\ r \in Request /\ r.answer = "none" /\ req \in [Requests -> Request]
      /\ r.step \in MatchSteps
  BY <1>1, InsertedFacts DEF RequestOK
<1>3. CASE e.price = NoPrice
  <2>1. req' = [req EXCEPT ![a] = Reject(@)] /\ UNCHANGED <<orders, trades>>
    BY <1>1, <1>2, <1>3 DEF SaveTrade
  <2> QED BY <1>1, <2>1, RejectSettled
<1>4. CASE e.price # NoPrice
  <2>1. /\ t.pc = "buys" /\ t.step = r.step /\ t.ord = r.ord /\ t.ref = r.ref /\ t.idx = r.idx
        /\ t.answer = "none"
    BY <1>2 DEF Request
  <2>2. req' = [req EXCEPT ![a] = t]
    BY <1>4 DEF SaveTrade
  <2> HIDE DEF t
  <2>3. ASSUME Calm
        PROVE  AmountsOK(orders', Traded') /\ RunOK(t, heap', bookRef', orders', Traded')
    <3>1. /\ AmountsOK(orders, Traded) /\ NewestOK(r, orders)
          /\ WalkOK(r, list, r.idx, orders) /\ EntriesOK(list, r.idx - 1, orders, Traded)
          /\ StageOK(r, e, orders, Traded) /\ RowsOK({own, e.id}, orders, Traded)
          /\ e.id # own /\ own \in DOMAIN orders /\ e.id \in DOMAIN orders
          /\ r.idx \in Nat \ {0} /\ e = list[r.idx] /\ e.size \in Int /\ e.filled \in Int
          /\ size \in Int /\ r.ord.filled \in Int
          /\ list = heap[r.ref][Opposite(r.ord.side)]
      BY <1>1, <1>2, <2>3, FillFacts
    <3>2. /\ OrderOK(r, orders, Traded) /\ EntryOK(e, orders, Traded)
          /\ \/ /\ r.step = "fullTraded" /\ size <= e.size /\ r.qty = size
                /\ RowOK(e.id, orders, Traded)
                /\ Shows(orders[own], 0, r.ord.filled + size, TRUE)
             \/ /\ r.step = "partTraded" /\ e.size < size /\ r.qty = e.size
                /\ RowOK(own, orders, Traded)
                /\ Shows(orders[e.id], 0, e.filled + e.size, TRUE)
      BY <1>1, <2>3, <3>1, MatchStepFacts, <1>2, Zenon DEF StageOK, WriteOK
    <3>3. /\ size = Left(own, orders, Traded) /\ r.ord.filled = Traded[own] /\ size > 0
          /\ e.size = Left(e.id, orders, Traded) /\ e.filled = Traded[e.id] /\ e.size > 0
          /\ Whole(size) /\ Whole(e.size) /\ size \in Int /\ e.size \in Int
      BY <3>1, <3>2, Zenon DEF OrderOK, EntryOK, AmountsOK
    <3> DEFINE qty == IF r.step = "fullTraded" THEN size ELSE e.size
    <3>4. /\ qty \in Int /\ Whole(qty) /\ Stored(qty) = qty /\ r.qty = qty
          /\ 0 < qty /\ qty <= size /\ qty <= e.size
      <4> HIDE DEF e, list, own, size, r
      <4>1. CASE r.step = "fullTraded"
        <5>1. size <= e.size /\ r.qty = size
          BY <3>2, <4>1
        <5> QED BY <3>3, <4>1, <5>1, WholeStored
      <4>2. CASE r.step = "partTraded"
        <5>1. e.size < size /\ r.qty = e.size
          BY <3>2, <4>2
        <5> QED BY <3>3, <4>2, <5>1, WholeStored
      <4> QED BY <3>2, <4>1, <4>2
    <3> HIDE DEF qty
    <3>5. \A i \in DOMAIN orders :
            /\ Traded'[i] = IF i \in {own, e.id} THEN Traded[i] + qty ELSE Traded[i]
            /\ Traded[i] \in Int /\ orders[i].orgSize \in Int
            /\ Whole(Left(i, orders', Traded')) /\ Whole(Traded'[i])
            /\ Left(i, orders', Traded') = IF i \in {own, e.id} THEN Left(i, orders, Traded) - qty
                                                               ELSE Left(i, orders, Traded)
      <4>1. AmountsOK(orders, Traded) /\ Stored(r.qty) = qty
        BY <3>1, <3>4, Zenon
      <4> QED BY <1>2, <1>4, <3>4, <4>1, TradedMore
    <3> HIDE DEF e, list, own, size, r
    <3>6. /\ Left(own, orders', Traded') = size - qty /\ Traded'[own] = r.ord.filled + qty
          /\ Left(e.id, orders', Traded') = e.size - qty /\ Traded'[e.id] = e.filled + qty
      BY <3>1, <3>3, <3>5, Zenon
    <3>7. AmountsOK(orders', Traded')
      <4> SUFFICES ASSUME NEW i \in DOMAIN orders
                   PROVE  Left(i, orders', Traded') \in Nat
        BY <1>1, <3>5 DEF AmountsOK
      <4>0. size - qty \in Nat /\ e.size - qty \in Nat
        BY <3>3, <3>4
      <4>1. CASE i = own
        BY <3>6, <4>0, <4>1
      <4>2. CASE i = e.id
        BY <3>6, <4>0, <4>2
      <4>3. CASE i \notin {own, e.id}
        BY <3>1, <3>5, <4>3, Zenon DEF AmountsOK
      <4> QED BY <4>1, <4>2, <4>3
    <3>8. RowsOK({own, e.id}, orders', Traded')
      BY <1>1, <3>1, <3>5, Zenon DEF RowsOK, RowOK
    <3>9. WalkOK(t, list, t.idx, orders')
      <4>1. t.ord = r.ord /\ t.idx = r.idx /\ orders' = orders
        BY <1>1, <2>1 DEF r
      <4>2. WalkOK(r, list, r.idx, orders)
        BY <3>1, Zenon
      <4> QED BY <4>1, <4>2 DEF WalkOK
    <3>10. EntriesOK(list, r.idx - 1, orders', Traded')
      <4> SUFFICES ASSUME NEW k \in 1 .. r.idx - 1 PROVE EntryOK(list[k], orders', Traded')
        BY DEF EntriesOK
      <4>1. k \in 1 .. r.idx /\ r.idx \in 1 .. r.idx /\ k < r.idx
        <5>1. r.idx \in Nat \ {0}
          BY <3>1, Zenon
        <5> QED BY <5>1
      <4>2. list[k].id # e.id /\ list[k].id \in DOMAIN orders
        BY <3>1, <4>1, Zenon DEF WalkOK
      <4>3. list[k].id # own
        <5>1. orders[list[k].id].side = Opposite(r.ord.side)
          BY <3>1, <4>1, Zenon DEF WalkOK
        <5>2. orders[own].side = r.ord.side /\ r.ord.side \in {"BUY", "SELL"}
          BY <1>1, <1>2, MatchStepFacts DEF OwnRowOK, Request, Order, Sides, r, own
        <5> QED BY <5>1, <5>2 DEF Opposite
      <4>4. EntryOK(list[k], orders, Traded)
        BY <3>1, Zenon DEF EntriesOK
      <4> QED BY <3>5, <4>2, <4>3, <4>4 DEF EntryOK
    <3>11. StageOK(t, e, orders', Traded')
      <4>1. CASE r.step = "fullTraded"
        <5>1. qty = size /\ t.step = "fullTraded" /\ t.pc = "buys" /\ t.ord = r.ord
          BY <2>1, <4>1 DEF qty, r
        <5>2. /\ RowOK(e.id, orders, Traded) /\ Shows(orders[own], 0, r.ord.filled + size, TRUE)
          BY <3>2, <4>1
        <5>3. Left(own, orders', Traded') = 0 /\ Left(e.id, orders', Traded') = e.size - size
          BY <3>3, <3>6, <5>1
        <5>4. RowOK(own, orders', Traded')
          <6>1. TRUE = (Left(own, orders', Traded') = 0)
            BY <5>3
          <6>2. orders[own].isFilled = TRUE /\ orders[own].size = 0
                /\ orders[own].filled = r.ord.filled + size
            BY <5>2 DEF Shows
          <6>3. orders[own].isFilled = (Left(own, orders', Traded') = 0)
            BY <6>1, <6>2, Zenon
          <6> QED BY <1>1, <3>6, <5>1, <5>3, <6>2, <6>3 DEF RowOK, Shows
        <5>5. Shows(orders'[e.id], e.size, e.filled, FALSE)
          <6>1. (Left(e.id, orders, Traded) = 0) = FALSE
            BY <3>3
          <6>2. orders[e.id].isFilled = (Left(e.id, orders, Traded) = 0)
                /\ orders[e.id].size = e.size /\ orders[e.id].filled = e.filled
            BY <3>3, <5>2 DEF RowOK, Shows
          <6>3. orders[e.id].isFilled = FALSE
            BY <6>1, <6>2, Zenon
          <6> QED BY <1>1, <6>2, <6>3 DEF Shows
        <5> QED BY <3>6, <5>1, <5>3, <5>4, <5>5 DEF StageOK, own, size
      <4>2. CASE r.step = "partTraded"
        <5>1. qty = e.size /\ t.step = "partTraded" /\ t.pc = "buys" /\ t.ord = r.ord
          BY <2>1, <4>2 DEF qty, r
        <5>2. /\ RowOK(own, orders, Traded) /\ Shows(orders[e.id], 0, e.filled + e.size, TRUE)
              /\ e.size < size
          BY <3>2, <4>2
        <5>3. /\ Left(e.id, orders', Traded') = 0 /\ Left(own, orders', Traded') = size - e.size
              /\ size - e.size > 0
          BY <3>3, <3>6, <5>1, <5>2
        <5>4. RowOK(e.id, orders', Traded')
          <6>1. TRUE = (Left(e.id, orders', Traded') = 0)
            BY <5>3
          <6>2. orders[e.id].isFilled = TRUE /\ orders[e.id].size = 0
                /\ orders[e.id].filled = e.filled + e.size
            BY <5>2 DEF Shows
          <6>3. orders[e.id].isFilled = (Left(e.id, orders', Traded') = 0)
            BY <6>1, <6>2, Zenon
          <6> QED BY <1>1, <3>6, <5>1, <5>3, <6>2, <6>3 DEF RowOK, Shows
        <5>5. Shows(orders'[own], size, r.ord.filled, FALSE)
          <6>1. (Left(own, orders, Traded) = 0) = FALSE
            BY <3>3
          <6>2. orders[own].isFilled = (Left(own, orders, Traded) = 0)
                /\ orders[own].size = size /\ orders[own].filled = r.ord.filled
            BY <3>3, <5>2 DEF RowOK, Shows
          <6>3. orders[own].isFilled = FALSE
            BY <6>1, <6>2, Zenon
          <6> QED BY <1>1, <6>2, <6>3 DEF Shows
        <5> QED BY <3>6, <5>1, <5>3, <5>4, <5>5 DEF StageOK, own, size
      <4> QED BY <3>2, <4>1, <4>2
    <3>12. MatchOK(t, list, orders', Traded')
      <4>1. t.ord.id = own /\ t.idx = r.idx
        BY <2>1 DEF own, r
      <4> QED BY <3>1, <3>8, <3>9, <3>10, <3>11, <4>1, Zenon DEF MatchOK
    <3>13. NewestOK(t, orders')
      BY <1>1, <2>1, <3>1, Zenon DEF NewestOK, r
    <3>14. list = heap'[t.ref][Opposite(t.ord.side)] /\ t.step \in MatchSteps
      BY <1>1, <1>2, <2>1, <3>1, Zenon DEF r
    <3> QED BY <3>7, <3>12, <3>13, <3>14 DEF RunOK, MatchSteps
  <2> QED BY <1>1, <1>2, <2>1, <2>2, <2>3, SettledStep DEF PostSteps
<1> QED BY <1>3, <1>4
-----------------------------------------------------------------------------
(* Between requests the orders are settled.                                *)

LEMMA SettledNext ==
  ASSUME Environment
  PROVE  IInv /\ SettledInv /\ [Next]_vars => SettledInv'
<1> SUFFICES ASSUME IInv, SettledInv, [Next]_vars PROVE SettledInv'
  OBVIOUS
<1>1. CASE UNCHANGED vars
  <2>1. /\ orders' = orders /\ heap' = heap /\ bookRef' = bookRef /\ req' = req
        /\ Traded' = Traded
    BY <1>1, TradedSame DEF vars
  <2> QED BY <2>1 DEF SettledInv, Alone, Calm, Answered, Quiescent, InFlight, Running
<1>2. ASSUME NEW a \in Requests, Submit(a) PROVE SettledInv'
  BY <1>2, SubmitSettled
<1>3. Viewers = {} /\ Actors = Requests
  BY DEF Environment, Actors
<1>4. ASSUME NEW a \in Requests, Progress(a) PROVE SettledInv'
  BY <1>4, InsertSettled, ReadBuysSettled, ReadSellsSettled, AssignSettled, EmitThrowsSettled,
     PlacedSettled, TakerClosedSettled, FullTradedSettled, MakerUpdatedSettled,
     MakerClosedSettled, PartTradedSettled, TakerUpdatedSettled, UpdateOrderSettled,
     SaveTradeSettled DEF Progress
<1>5. ASSUME NEW a \in Requests, Fail(a) PROVE SettledInv'
  BY <1>5, FailSettled
<1>6. CASE Crash
  BY <1>6, CrashSettled
<1> QED BY <1>1, <1>2, <1>3, <1>4, <1>5, <1>6 DEF Next

LEMMA RowsSettled ==
  ASSUME Environment, IInv, AmountsOK(orders, Traded), RowsOK({}, orders, Traded)
  PROVE  Settled
<1> SUFFICES ASSUME NEW i \in DOMAIN orders
             PROVE  /\ orders[i].size + TradedSize(i) = orders[i].orgSize
                    /\ Stored(orders[i].filled) = TradedSize(i)
                    /\ orders[i].isFilled <=> orders[i].size = 0
  BY DEF Settled
<1>1. Traded[i] = TradedSize(i) /\ TradedSize(i) \in Int
  <2>1. Traded[i] = TradedSize(i) /\ TradedSize(i) = SumIn(trades, i)
    BY TradedIs DEF Traded
  <2>2. trades \in Seq(Trade)
    BY DEF IInv, TypeOK
  <2> QED BY <2>1, <2>2, SumInType
<1>2. orders[i].orgSize \in Int
  <2>1. orders \in Seq(Row)
    BY DEF IInv, TypeOK
  <2> QED BY <2>1, RowsFacts
<1>3. /\ orders[i].size = Left(i, orders, Traded) /\ orders[i].filled = Traded[i]
      /\ orders[i].isFilled = (Left(i, orders, Traded) = 0)
  BY DEF RowsOK, RowOK, Shows
<1>4. Left(i, orders, Traded) = orders[i].orgSize - Traded[i] /\ Whole(Traded[i])
  BY DEF AmountsOK, Left
<1>5. Stored(Traded[i]) = Traded[i]
  BY <1>1, <1>4, WholeStored
<1>6. orders[i].size + TradedSize(i) = orders[i].orgSize
  BY <1>1, <1>2, <1>3, <1>4
<1>7. orders[i].isFilled <=> orders[i].size = 0
  BY <1>3
<1> QED BY <1>1, <1>3, <1>5, <1>6, <1>7

\* With one POST request at a time and exact numbers, a running match has done
\* exactly the writes of its step, and its list shows the rows still to come.
THEOREM MatchesKeepAccounts ==
  ASSUME Environment
  PROVE  Spec => []SettledInv
<1>1. Init => IInv /\ SettledInv
  BY InitStep, InitSettled
<1>2. (IInv /\ SettledInv) /\ [Next]_vars => (IInv /\ SettledInv)'
  BY NextStep, SettledNext
<1> QED BY <1>1, <1>2, PTL DEF Spec

\* With one POST request at a time and exact numbers, the two orders and the
\* trade of every fill tell the same story, whatever else fails, unless a
\* request was caught in the middle of a match.
THEOREM SettledBetweenRequests ==
  ASSUME Environment
  PROVE  Spec => []SettledUnlessCaught
<1>1. Init => IInv /\ SettledInv
  BY InitStep, InitSettled
<1>2. (IInv /\ SettledInv) /\ [Next]_vars => (IInv /\ SettledInv)'
  BY NextStep, SettledNext
<1>3. IInv /\ SettledInv => SettledUnlessCaught
  <2> SUFFICES ASSUME IInv, SettledInv, Quiescent, Calm PROVE Settled
    BY DEF SettledUnlessCaught, Calm
  <2> QED BY RowsSettled DEF SettledInv
<1> QED BY <1>1, <1>2, <1>3, PTL DEF Spec
-----------------------------------------------------------------------------
(* Between requests nothing crosses.                                       *)

LEMMA SmoothIsCalm == Smooth => Calm
BY DEF Smooth, Calm, Answered

LEMMA MissedStable ==
  ASSUME NEW table \in Seq(Row), NEW next, Keeps(table, next),
         NEW b \in DOMAIN table, NEW s \in DOMAIN table, Missed(b, s, next)
  PROVE  Missed(b, s, table)
<1>1. /\ OutOfReach(b, s, next) <=> OutOfReach(b, s, table)
      /\ OutOfReach(s, b, next) <=> OutOfReach(s, b, table)
  BY ReachStable
<1> QED BY <1>1 DEF Missed, Keeps

\* What crosses after a step crossed before, and its order is in a request that
\* goes on, or else in none.
LEMMA UncrossedStep ==
  ASSUME Environment, IInv, SettledInv, UncrossedInv, NEW a \in Requests, Running(a),
         NEW t, req' = [req EXCEPT ![a] = t],
         Keeps(orders, orders'), DOMAIN orders' = DOMAIN orders,
         Smooth /\ t.answer \notin {"failed", "lost", "error"} =>
           \/ /\ req[a].pc # "insert" /\ t.pc \notin {"idle", "insert", "done"}
              /\ t.ord.id = req[a].ord.id
           \/ \A b, s \in DOMAIN orders : req[a].ord.id \in {b, s} => ~Missed(b, s, orders)
  PROVE  UncrossedInv'
<1>1. /\ \A b \in Requests : Running(b) => b = a
      /\ req[a].answer = "none" /\ req \in [Requests -> Request] /\ orders \in Seq(Row)
  BY AloneFacts DEF SettledInv, IInv, TypeOK
<1>2. req'[a] = t /\ \A b \in Requests : b # a => req'[b] = req[b]
  BY <1>1
<1> SUFFICES ASSUME Smooth', NEW b \in DOMAIN orders, NEW s \in DOMAIN orders,
                    Missed(b, s, orders')
             PROVE  \E c \in Requests : Running(c)' /\ req'[c].pc # "insert"
                                        /\ req'[c].ord.id \in {b, s}
  BY DEF UncrossedInv
<1>3. \A c \in Requests : req'[c].answer \notin {"failed", "lost", "error"}
  BY DEF Smooth, Answered
<1>4. Smooth /\ t.answer \notin {"failed", "lost", "error"}
  BY <1>1, <1>2, <1>3 DEF Smooth, Answered
<1>5. Missed(b, s, orders)
  BY <1>1, MissedStable
<1>6. req[a].ord.id \in {b, s}
  BY <1>1, <1>4, <1>5 DEF UncrossedInv
<1>7. /\ req[a].pc # "insert" /\ t.pc \notin {"idle", "insert", "done"}
      /\ t.ord.id = req[a].ord.id
  BY <1>4, <1>5, <1>6
<1> QED BY <1>2, <1>6, <1>7 DEF Running

\* A request goes on with its order.
LEMMA UncrossedGoesOn ==
  ASSUME Environment, IInv, SettledInv, UncrossedInv, NEW a \in Requests, Running(a),
         NEW t, req' = [req EXCEPT ![a] = t],
         Keeps(orders, orders'), DOMAIN orders' = DOMAIN orders,
         req[a].pc # "insert", t.pc \notin {"idle", "insert", "done"}, t.ord.id = req[a].ord.id
  PROVE  UncrossedInv'
BY UncrossedStep

LEMMA UncrossedReject ==
  ASSUME Environment, IInv, SettledInv, UncrossedInv, NEW a \in Requests, Running(a),
         req' = [req EXCEPT ![a] = Reject(@)], UNCHANGED orders
  PROVE  UncrossedInv'
<1>1. req' = [req EXCEPT ![a] = Reject(req[a])]
  OBVIOUS
<1>2. Reject(req[a]).answer \in {"failed", "error"}
  BY FinishFields DEF Reject
<1> QED BY <1>1, <1>2, KeepsItself, UncrossedStep

LEMMA UncrossedInit ==
  ASSUME Environment, UncrossedTables, Init
  PROVE  UncrossedInv
BY DEF UncrossedTables, Init, UncrossedInv

LEMMA UncrossedSubmit ==
  ASSUME Environment, IInv, SettledInv, UncrossedInv, NEW a \in Requests, Submit(a)
  PROVE  UncrossedInv'
<1>1. \A b \in Requests : ~Running(b)
  BY NobodyRuns
<1>2. req \in [Requests -> Request] /\ orders' = orders
  BY DEF IInv, TypeOK, Submit, Environment, Actors
<1>3. PICK side \in Sides, symbol \in Symbols, type \in Types, price \in Prices, size \in Sizes :
        req' = [req EXCEPT ![a] = [@ EXCEPT !.pc = "insert", !.step = "saved",
                  !.ord = Posted(side, symbol, type, price, size)]]
  BY ZenonT(90) DEF Submit
<1>4. req'[a].answer = req[a].answer /\ \A b \in Requests : b # a => req'[b] = req[b]
  BY <1>2, <1>3 DEF Request
<1>5. Smooth' => Smooth
  BY <1>4 DEF Smooth, Answered
<1>6. Smooth' => \A b, s \in DOMAIN orders : ~Missed(b, s, orders)
  BY <1>1, <1>5 DEF UncrossedInv
<1> QED BY <1>2, <1>6 DEF UncrossedInv

LEMMA UncrossedCrash ==
  ASSUME Environment, IInv, SettledInv, UncrossedInv, Crash
  PROVE  UncrossedInv'
<1>1. Actors = Requests
  BY DEF Environment, Actors
<1>2. PICK a \in Requests : Running(a)
  BY <1>1 DEF Crash
<1>3. req'[a] = Finish(req[a], "lost")
  BY <1>1, <1>2 DEF Crash
<1>4. ~Smooth'
  BY <1>3, FinishFields DEF Smooth, Answered
<1> QED BY <1>4 DEF UncrossedInv

\* Only pairs with the new order can cross.
LEMMA UncrossedInsert ==
  ASSUME Environment, IInv, SettledInv, UncrossedInv, NEW a \in Requests, Insert(a)
  PROVE  UncrossedInv'
<1> DEFINE r == req[a]
           t == [r EXCEPT !.pc = "buys", !.ord.id = Len(orders) + 1]
<1>1. r.pc = "insert" /\ Running(a)
  BY DEF Insert, Running
<1>2. /\ r \in Request /\ r.answer = "none" /\ req \in [Requests -> Request] /\ a \in Actors
      /\ orders \in Seq(Row) /\ Len(orders) \in Nat /\ DOMAIN orders = 1 .. Len(orders)
      /\ \A b \in Requests : Running(b) => b = a
  BY <1>1, AloneFacts, ActorFacts, RowsFacts DEF SettledInv
<1>3. t.pc = "buys" /\ t.ord.id = Len(orders) + 1
  BY <1>2 DEF Request, Order
<1>4. req' = [req EXCEPT ![a] = t]
  BY <1>2 DEF Insert
<1> HIDE DEF t, r
<1>5. req'[a] = t /\ \A b \in Requests : b # a => req'[b] = req[b]
  BY <1>2, <1>4
<1>6. PICK row : orders' = Append(orders, row)
  BY DEF Insert
<1>7. /\ DOMAIN orders' = 1 .. Len(orders) + 1
      /\ \A i \in DOMAIN orders : orders'[i] = orders[i]
  BY <1>2, <1>6, AppendProperties
<1>8. Keeps(orders, orders')
  BY <1>2, <1>7 DEF Keeps
<1> SUFFICES ASSUME Smooth', NEW b \in DOMAIN orders', NEW s \in DOMAIN orders',
                    Missed(b, s, orders')
             PROVE  t.ord.id \in {b, s}
  BY <1>3, <1>5 DEF UncrossedInv, Running
<1>9. Smooth
  BY <1>2, <1>5 DEF Smooth, Answered, r
<1>10. CASE b \in DOMAIN orders /\ s \in DOMAIN orders
  <2>1. Missed(b, s, orders)
    BY <1>2, <1>8, <1>10, MissedStable
  <2>2. r.pc # "insert"
    BY <1>2, <1>9, <1>10, <2>1 DEF UncrossedInv, r
  <2> QED BY <1>1, <2>2
<1>11. CASE ~(b \in DOMAIN orders /\ s \in DOMAIN orders)
  BY <1>2, <1>3, <1>7, <1>11
<1> QED BY <1>10, <1>11

\* Queries, updates, trades and stages of a fill: the request goes on.
LEMMA RequestGoesOn ==
  ASSUME Environment, IInv, SettledInv, NEW a \in Requests,
         \/ ReadBuys(a) \/ ReadSells(a) \/ TakerClosed(a) \/ FullTraded(a) \/ MakerClosed(a)
         \/ PartTraded(a) \/ UpdateOrder(a) \/ (SaveTrade(a) /\ Resting(req[a]).price # NoPrice)
  PROVE  /\ Running(a) /\ req[a].pc # "insert"
         /\ \E t : /\ req' = [req EXCEPT ![a] = t] /\ t.pc \notin {"idle", "insert", "done"}
                   /\ t.ord.id = req[a].ord.id
<1> DEFINE r == req[a]
           GoesOn(t) == /\ req' = [req EXCEPT ![a] = t] /\ t.pc \notin {"idle", "insert", "done"}
                        /\ t.ord.id = r.ord.id
<1>1. r.pc \in {"buys", "sells", "emit", "update", "trade"} /\ Running(a) /\ r.pc # "insert"
  BY ZenonT(60) DEF ReadBuys, ReadSells, TakerClosed, FullTraded, MakerClosed, PartTraded,
                    UpdateOrder, SaveTrade, Resume, Running
<1>2. r \in Request /\ req \in [Requests -> Request]
  BY <1>1, InsertedFacts
<1> SUFFICES \E t : GoesOn(t)
  BY <1>1
<1>3. CASE ReadBuys(a)
  <2>1. PICK list \in FindOrders("BUY", r.ord.symbol) :
          req' = [req EXCEPT ![a] = [@ EXCEPT !.pc = "sells", !.buys = list]]
    BY <1>3, Zenon DEF ReadBuys
  <2> DEFINE t == [r EXCEPT !.pc = "sells", !.buys = list]
  <2>2. t.pc = "sells" /\ t.ord.id = r.ord.id
    BY <1>2 DEF Request
  <2>3. req' = [req EXCEPT ![a] = t]
    BY <1>2, <2>1
  <2> HIDE DEF t
  <2> QED BY <2>2, <2>3
<1>4. CASE ReadSells(a)
  <2>1. PICK list \in FindOrders("SELL", r.ord.symbol) :
          req' = [req EXCEPT ![a] = [@ EXCEPT !.pc = "assign", !.sells = list]]
    BY <1>4, Zenon DEF ReadSells
  <2> DEFINE t == [r EXCEPT !.pc = "assign", !.sells = list]
  <2>2. t.pc = "assign" /\ t.ord.id = r.ord.id
    BY <1>2 DEF Request
  <2>3. req' = [req EXCEPT ![a] = t]
    BY <1>2, <2>1
  <2> HIDE DEF t
  <2> QED BY <2>2, <2>3
<1>5. ASSUME NEW step, NEW qty, req' = [req EXCEPT ![a] = CallSaveTrade(r, step, qty)]
      PROVE  \E t : GoesOn(t)
  <2> DEFINE t == CallSaveTrade(r, step, qty)
  <2>1. t.pc = "trade" /\ t.ord.id = r.ord.id
    BY <1>2 DEF Request, CallSaveTrade
  <2>2. req' = [req EXCEPT ![a] = t]
    BY <1>5
  <2> HIDE DEF t
  <2> QED BY <2>1, <2>2
<1>6. CASE TakerClosed(a)
  BY <1>2, <1>5, <1>6 DEF TakerClosed
<1>7. CASE MakerClosed(a)
  BY <1>2, <1>5, <1>7 DEF MakerClosed
<1>8. CASE FullTraded(a)
  <2>1. PICK upd : req' = [req EXCEPT ![a] = CallUpdate(r, "makerUpdated", upd)]
    BY <1>8 DEF FullTraded
  <2> DEFINE t == CallUpdate(r, "makerUpdated", upd)
  <2>2. t.pc = "update" /\ t.ord.id = r.ord.id
    BY <1>2 DEF Request, CallUpdate
  <2>3. req' = [req EXCEPT ![a] = t]
    BY <2>1
  <2> HIDE DEF t
  <2> QED BY <2>2, <2>3
<1>9. CASE PartTraded(a)
  <2>1. PICK left, filled, upd :
          req' = [req EXCEPT ![a] =
                    CallUpdate([r EXCEPT !.ord.size = left, !.ord.filled = filled],
                               "takerUpdated", upd)]
    BY <1>9, ZenonT(60) DEF PartTraded
  <2> DEFINE t == CallUpdate([r EXCEPT !.ord.size = left, !.ord.filled = filled],
                             "takerUpdated", upd)
  <2>2. t.pc = "update" /\ t.ord.id = r.ord.id
    BY <1>2 DEF Request, CallUpdate, Order
  <2>3. req' = [req EXCEPT ![a] = t]
    BY <2>1
  <2> HIDE DEF t
  <2> QED BY <2>2, <2>3
<1>10. CASE UpdateOrder(a)
  <2> DEFINE t == [r EXCEPT !.pc = "buys", !.upd = NoUpdate]
  <2>1. t.pc = "buys" /\ t.ord.id = r.ord.id
    BY <1>2 DEF Request
  <2>2. req' = [req EXCEPT ![a] = t]
    BY <1>2, <1>10 DEF UpdateOrder
  <2> HIDE DEF t
  <2> QED BY <2>1, <2>2
<1>11. CASE SaveTrade(a) /\ Resting(r).price # NoPrice
  <2> DEFINE t == [r EXCEPT !.pc = "buys", !.qty = 0]
  <2>1. t.pc = "buys" /\ t.ord.id = r.ord.id
    BY <1>2 DEF Request
  <2>2. req' = [req EXCEPT ![a] = t]
    BY <1>11 DEF SaveTrade
  <2> HIDE DEF t
  <2> QED BY <2>1, <2>2
<1> QED BY <1>3, <1>4, <1>6, <1>7, <1>8, <1>9, <1>10, <1>11

\* No step but an insert changes which rows there are.
LEMMA SameRows ==
  ASSUME Environment, IInv, NEW a \in Requests, Progress(a), ~Insert(a)
  PROVE  Keeps(orders, orders') /\ DOMAIN orders' = DOMAIN orders /\ Len(orders') = Len(orders)
<1>1. CASE UpdateOrder(a)
  BY <1>1, UpdatedRow
<1>2. CASE ~UpdateOrder(a)
  <2>1. orders' = orders
    BY <1>2, ZenonT(90) DEF Progress, ReadBuys, ReadSells, Assign, EmitThrows, Placed, TakerClosed,
         FullTraded, MakerUpdated, MakerClosed, PartTraded, TakerUpdated, SaveTrade, Resume
  <2> QED BY <2>1, KeepsItself
<1> QED BY <1>1, <1>2

LEMMA UncrossedQuiet ==
  ASSUME Environment, IInv, SettledInv, UncrossedInv, NEW a \in Requests,
         \/ ReadBuys(a) \/ ReadSells(a) \/ TakerClosed(a) \/ FullTraded(a) \/ MakerClosed(a)
         \/ PartTraded(a) \/ UpdateOrder(a) \/ SaveTrade(a)
  PROVE  UncrossedInv'
<1>1. Keeps(orders, orders') /\ DOMAIN orders' = DOMAIN orders
  <2>1. Progress(a) /\ ~Insert(a)
    BY ZenonT(90) DEF Progress, Insert, ReadBuys, ReadSells, TakerClosed, FullTraded, MakerClosed,
         PartTraded, UpdateOrder, SaveTrade, Resume
  <2> QED BY <2>1, SameRows
<1>2. CASE SaveTrade(a) /\ Resting(req[a]).price = NoPrice
  <2>1. Running(a)
    BY <1>2 DEF SaveTrade, Running
  <2>2. req \in [Requests -> Request]
    BY <2>1, AloneFacts DEF SettledInv
  <2>3. req' = [req EXCEPT ![a] = Reject(@)] /\ UNCHANGED orders
    BY <1>2, <2>2 DEF SaveTrade
  <2> QED BY <2>1, <2>3, UncrossedReject
<1>3. CASE ~(SaveTrade(a) /\ Resting(req[a]).price = NoPrice)
  <2>1. /\ Running(a) /\ req[a].pc # "insert"
        /\ \E t : /\ req' = [req EXCEPT ![a] = t] /\ t.pc \notin {"idle", "insert", "done"}
                  /\ t.ord.id = req[a].ord.id
    BY <1>3, RequestGoesOn
  <2> QED BY <1>1, <2>1, UncrossedGoesOn
<1> QED BY <1>2, <1>3

\* A match that ends after a fill of its own order leaves that order closed.
LEMMA UncrossedFilled ==
  ASSUME Environment, IInv, SettledInv, UncrossedInv, NEW a \in Requests, MakerUpdated(a)
  PROVE  UncrossedInv'
<1> DEFINE r == req[a]
           t == Finish(r, "ok")
<1>1. /\ r.pc = "emit" /\ r.step = "makerUpdated" /\ r.step \in MatchSteps /\ Running(a)
      /\ req \in [Requests -> Request] /\ orders' = orders
  BY ResumeFacts DEF MakerUpdated, MatchSteps
<1>2. req' = [req EXCEPT ![a] = t]
  BY <1>1 DEF MakerUpdated
<1>3. Smooth => \A b, s \in DOMAIN orders : r.ord.id \in {b, s} => ~Missed(b, s, orders)
  <2> SUFFICES ASSUME Calm PROVE orders[r.ord.id].isFilled
    BY SmoothIsCalm DEF Missed
  <2>1. StageOK(r, Resting(r), orders, Traded)
    BY <1>1, FillFacts
  <2>2. Left(r.ord.id, orders, Traded) = 0 /\ RowOK(r.ord.id, orders, Traded)
    BY <1>1, <2>1 DEF StageOK
  <2> QED BY <2>2 DEF RowOK, Shows
<1> HIDE DEF t
<1> QED BY <1>1, <1>2, <1>3, KeepsItself, UncrossedStep

LEMMA UncrossedNextTurn ==
  ASSUME Environment, IInv, SettledInv, UncrossedInv, NEW a \in Requests, TakerUpdated(a)
  PROVE  UncrossedInv'
<1> DEFINE r == req[a]
           t == Match([r EXCEPT !.idx = r.idx - 1], RestingList(r))
<1>1. /\ r.pc = "emit" /\ Running(a) /\ req \in [Requests -> Request] /\ orders' = orders
  BY ResumeFacts DEF TakerUpdated, MatchSteps
<1>2. req' = [req EXCEPT ![a] = t]
  BY <1>1 DEF TakerUpdated
<1>3. Smooth => \/ t.pc = "update" /\ t.ord = r.ord
                \/ \A b, s \in DOMAIN orders : r.ord.id \in {b, s} => ~Missed(b, s, orders)
  BY SmoothIsCalm, NextTurn
<1> HIDE DEF t
<1> QED BY <1>1, <1>2, <1>3, KeepsItself, UncrossedStep

LEMMA UncrossedPlaced ==
  ASSUME Environment, IInv, SettledInv, UncrossedInv, NEW a \in Requests, Placed(a)
  PROVE  UncrossedInv'
<1> DEFINE r == req[a]
           t == StartMatch(r, bookRef, heap[bookRef])
           side == Opposite(r.ord.side)
<1>1. r.pc = "emit" /\ r.step = "placed" /\ Running(a) /\ orders' = orders
  BY DEF Placed, Resume, Running
<1>2. r \in Request /\ OwnRowOK(r, orders) /\ req \in [Requests -> Request]
  BY <1>1, InsertedFacts
<1>3. req' = [req EXCEPT ![a] = t]
  BY <1>2 DEF Placed
<1>4. ASSUME Smooth
      PROVE  \/ t.pc = "update" /\ t.ord = r.ord
             \/ \A b, s \in DOMAIN orders : r.ord.id \in {b, s} => ~Missed(b, s, orders)
  <2>1. /\ AmountsOK(orders, Traded)
        /\ r.ord.id = Len(orders) /\ orders[r.ord.id].symbol = r.ord.symbol
        /\ PlacingOK(r, heap[bookRef], orders, Traded)
        /\ RowsOK({}, orders, Traded) /\ OrderOK(r, orders, Traded)
    BY <1>1, <1>4, SmoothIsCalm, InsertedFacts
  <2>2. FreshOK(r, heap[bookRef][side], orders, Traded)
    BY <1>1, <2>1 DEF PlacingOK
  <2>3. bookRef \in Refs /\ heap[bookRef] \in [Sides -> Seq(Entry)] /\ orders \in Seq(Row)
    BY DEF IInv, TypeOK
  <2> QED BY <1>2, <2>1, <2>2, <2>3, StartSettled, ZenonT(40)
<1> HIDE DEF t
<1> QED BY <1>1, <1>3, <1>4, KeepsItself, UncrossedStep

LEMMA UncrossedAssign ==
  ASSUME Environment, IInv, SettledInv, UncrossedInv, NEW a \in Requests, Assign(a)
  PROVE  UncrossedInv'
<1> DEFINE r == req[a]
           u == AfterFill(r)
           t == [u EXCEPT !.buys = <<>>, !.sells = <<>>]
           side == Opposite(r.ord.side)
<1>1. r.pc = "assign" /\ Running(a)
  BY DEF Assign, Running
<1>2. /\ r \in Request /\ r.step \in PostSteps /\ r.answer = "none" /\ OwnRowOK(r, orders)
      /\ req \in [Requests -> Request] /\ RequestOK(a, r, heap, orders)
      /\ r.ord.side \in {"BUY", "SELL"}
  BY <1>1, InsertedFacts
<1>3. /\ FreshRef \in Refs /\ heap'[FreshRef] = Loaded(r)
      /\ Loaded(r) \in [Sides -> Seq(Entry)] /\ orders' = orders
  BY AssignHeap
<1>4. req' = [req EXCEPT ![a] = t]
  BY <1>2 DEF Assign
<1>5. ASSUME NEW v \in Request
      PROVE  LET w == [v EXCEPT !.buys = <<>>, !.sells = <<>>] IN
             w.pc = v.pc /\ w.ord = v.ord
  BY DEF Request
<1>6. CASE r.step = "saved" /\ r.ord.type = "Market"
  <2>1. u = StartMatch(r, FreshRef, Loaded(r))
    BY <1>6 DEF AfterFill
  <2>2. u \in Request
    <3>1. /\ heap' \in Heaps /\ HeapOK(heap', orders) /\ orders \in Seq(Row)
          /\ ListOK("BUY", r.buys, orders) /\ ListOK("SELL", r.sells, orders)
      <4>1. IInv'
        BY AssignStep DEF Actors
      <4> QED BY <1>2, <1>3, <4>1 DEF IInv, TypeOK, Heaps, RequestOK
    <3> QED BY <1>2, <1>3, <2>1, <3>1, StartMatchFacts
  <2>3. t.pc = u.pc /\ t.ord = u.ord
    BY <1>5, <2>2
  <2> HIDE DEF u, t
  <2>4. ASSUME Smooth
        PROVE  \/ u.pc = "update" /\ u.ord = r.ord
               \/ \A b, s \in DOMAIN orders : r.ord.id \in {b, s} => ~Missed(b, s, orders)
    <3>1. /\ AmountsOK(orders, Traded)
          /\ r.ord.id = Len(orders) /\ orders[r.ord.id].symbol = r.ord.symbol
          /\ PlacingOK(r, heap[bookRef], orders, Traded)
          /\ RowsOK({}, orders, Traded) /\ OrderOK(r, orders, Traded)
      BY <1>1, <1>6, <2>4, SmoothIsCalm, InsertedFacts
    <3>2. FreshOK(r, Loaded(r)[side], orders, Traded)
      BY <1>1, <1>2, <3>1 DEF PlacingOK, Loaded, Opposite, Sides
    <3>3. orders \in Seq(Row)
      BY DEF IInv, TypeOK
    <3> QED BY <1>2, <1>3, <2>1, <3>1, <3>2, <3>3, StartSettled, ZenonT(40)
  <2> QED BY <1>1, <1>3, <1>4, <2>3, <2>4, KeepsItself, UncrossedStep
<1>7. CASE ~(r.step = "saved" /\ r.ord.type = "Market")
  <2>1. u \in Request /\ u.pc \in {"buys", "emit"} /\ u.ord = r.ord
    <3>1. CASE r.step = "saved"
      <4>1. u = [r EXCEPT !.pc = "buys", !.step = "placed"]
        BY <1>7, <3>1 DEF AfterFill
      <4> QED BY <1>2, <4>1 DEF Request
    <3>2. CASE r.step # "saved"
      <4>1. u = [r EXCEPT !.pc = "emit"]
        BY <1>2, <3>2 DEF AfterFill, PostSteps, MatchSteps
      <4> QED BY <1>2, <4>1 DEF Request
    <3> QED BY <3>1, <3>2
  <2>2. t.pc \in {"buys", "emit"} /\ t.ord.id = r.ord.id
    BY <1>5, <2>1
  <2> HIDE DEF u, t
  <2> QED BY <1>1, <1>3, <1>4, <2>2, KeepsItself, UncrossedGoesOn
<1> QED BY <1>6, <1>7

LEMMA UncrossedNext ==
  ASSUME Environment
  PROVE  IInv /\ SettledInv /\ UncrossedInv /\ [Next]_vars => UncrossedInv'
<1> SUFFICES ASSUME IInv, SettledInv, UncrossedInv, [Next]_vars PROVE UncrossedInv'
  OBVIOUS
<1>1. CASE UNCHANGED vars
  BY <1>1 DEF vars, UncrossedInv, Smooth, Answered, Running
<1>2. ASSUME NEW a \in Requests, Submit(a) PROVE UncrossedInv'
  BY <1>2, UncrossedSubmit
<1>3. Viewers = {} /\ Actors = Requests
  BY DEF Environment, Actors
<1>4. ASSUME NEW a \in Requests, Progress(a) PROVE UncrossedInv'
  <2>1. CASE EmitThrows(a)
    BY <2>1, UncrossedReject DEF EmitThrows, Running
  <2> QED BY <1>4, <2>1, UncrossedInsert, UncrossedAssign, UncrossedPlaced, UncrossedQuiet,
             UncrossedFilled, UncrossedNextTurn DEF Progress
<1>5. ASSUME NEW a \in Requests, Fail(a) PROVE UncrossedInv'
  BY <1>5, UncrossedReject DEF Fail, Running
<1>6. CASE Crash
  BY <1>6, UncrossedCrash
<1> QED BY <1>1, <1>2, <1>3, <1>4, <1>5, <1>6 DEF Next

LEMMA NothingCrosses ==
  ASSUME IInv, UncrossedInv, Quiescent, Smooth
  PROVE  UncrossedUnlessCaught
<1> SUFFICES ASSUME NEW symbol \in Symbols, NEW b \in Open("BUY", symbol),
                    NEW s \in Open("SELL", symbol),
                    orders[b].type # "Market", orders[s].type # "Market",
                    ~(orders[b].price < orders[s].price),
                    ~(IF b < s THEN BeyondLimit(b, s) ELSE BeyondLimit(s, b))
             PROVE  FALSE
  BY DEF UncrossedUnlessCaught
<1>1. /\ b \in DOMAIN orders /\ s \in DOMAIN orders
      /\ orders[b].side = "BUY" /\ orders[s].side = "SELL" /\ orders[b].symbol = orders[s].symbol
      /\ ~orders[b].isFilled /\ ~orders[s].isFilled
  BY DEF Open
<1>2. /\ orders[b].type = "Limit" /\ orders[s].type = "Limit"
      /\ orders[b].price >= orders[s].price
  BY <1>1, RowsFacts DEF IInv, TypeOK
<1>3. IF b < s THEN ~OutOfReach(b, s, orders) ELSE ~OutOfReach(s, b, orders)
  BY ReachIs
<1>4. Missed(b, s, orders)
  BY <1>1, <1>2, <1>3 DEF Missed
<1> QED BY <1>1, <1>4 DEF UncrossedInv, Quiescent, InFlight

\* With one POST request at a time and exact numbers, an order crosses others
\* only while it is being matched, unless a request ended early.
THEOREM OnlyTheMatchedCrosses ==
  ASSUME Environment, UncrossedTables
  PROVE  Spec => []UncrossedInv
<1>1. Init => IInv /\ SettledInv /\ UncrossedInv
  BY InitStep, InitSettled, UncrossedInit
<1>2. (IInv /\ SettledInv /\ UncrossedInv) /\ [Next]_vars => (IInv /\ SettledInv /\ UncrossedInv)'
  BY NextStep, SettledNext, UncrossedNext
<1> QED BY <1>1, <1>2, PTL DEF Spec

\* With one POST request at a time and exact numbers, requests that all ended
\* normally leave no two limit orders that cross, except such as the query of
\* the newer one was too short for.
THEOREM UncrossedBetweenRequests ==
  ASSUME Environment, UncrossedTables
  PROVE  Spec => []UncrossedUnlessCaught
<1>1. Init => IInv /\ SettledInv /\ UncrossedInv
  BY InitStep, InitSettled, UncrossedInit
<1>2. (IInv /\ SettledInv /\ UncrossedInv) /\ [Next]_vars => (IInv /\ SettledInv /\ UncrossedInv)'
  BY NextStep, SettledNext, UncrossedNext
<1>3. IInv /\ SettledInv /\ UncrossedInv => UncrossedUnlessCaught
  <2>1. ~(Quiescent /\ Smooth) => UncrossedUnlessCaught
    BY DEF UncrossedUnlessCaught, Smooth
  <2> QED BY <2>1, NothingCrosses
<1> QED BY <1>1, <1>2, <1>3, PTL DEF Spec
-----------------------------------------------------------------------------
(* Limit orders that nothing stops.                                        *)

\* No step of such an environment fails or throws.
LEMMA NothingFails ==
  ASSUME LimitEnvironment, IInv, SettledInv, LimitInv
  PROVE  /\ ~Crash
         /\ \A a \in Requests : ~Fail(a) /\ ~EmitThrows(a)
         /\ \A a \in Requests : SaveTrade(a) => Resting(req[a]).price # NoPrice
<1>1. faults \in Nat /\ MaxFaults = 0
  BY DEF IInv, TypeOK, LimitEnvironment
<1>2. ~Crash /\ \A a \in Requests : ~Fail(a)
  BY <1>1 DEF Crash, Fail
<1>3. ASSUME NEW a \in Requests, EmitThrows(a) PROVE FALSE
  <2>1. req[a].ord.symbol \in Symbols
    BY ActorFacts DEF Order, Actors
  <2> QED BY <1>3, <2>1 DEF EmitThrows, HasTrades, LimitEnvironment
<1>4. ASSUME NEW a \in Requests, SaveTrade(a) PROVE Resting(req[a]).price # NoPrice
  <2>1. a \in Actors /\ req[a].pc = "trade"
    BY <1>4 DEF SaveTrade, Actors
  <2>2. req[a].step \in MatchSteps
    BY <2>1, ActorFacts DEF RequestOK
  <2>3. /\ Resting(req[a]).id \in DOMAIN orders
        /\ orders[Resting(req[a]).id].price = Resting(req[a]).price
    BY <2>1, <2>2, MatchStepFacts
  <2> QED BY <2>3, ConstantFacts DEF LimitInv
<1> QED BY <1>2, <1>3, <1>4

\* After its insert a request goes on, or ends with 'ok'.
LEMMA EndsOk ==
  ASSUME LimitEnvironment, IInv, SettledInv, LimitInv, NEW a \in Requests, Progress(a), ~Insert(a)
  PROVE  /\ Running(a) /\ req[a].pc # "insert"
         /\ \E t : /\ req' = [req EXCEPT ![a] = t] /\ t.pc \notin {"idle", "insert"}
                   /\ t.pc = "done" => t.answer = "ok"
<1> DEFINE r == req[a]
           Ends(t) == /\ req' = [req EXCEPT ![a] = t] /\ t.pc \notin {"idle", "insert"}
                      /\ t.pc = "done" => t.answer = "ok"
<1>1. CASE \/ ReadBuys(a) \/ ReadSells(a) \/ TakerClosed(a) \/ FullTraded(a) \/ MakerClosed(a)
           \/ PartTraded(a) \/ UpdateOrder(a) \/ SaveTrade(a)
  BY <1>1, RequestGoesOn, NothingFails DEF LimitEnvironment
<1>2. CASE MakerUpdated(a) \/ TakerUpdated(a) \/ Placed(a) \/ Assign(a)
  <2>1. r.pc \in {"emit", "assign"} /\ Running(a) /\ r.pc # "insert"
    BY <1>2, ZenonT(60) DEF MakerUpdated, TakerUpdated, Placed, Assign, Resume, Running
  <2>2. /\ r \in Request /\ req \in [Requests -> Request] /\ r.answer = "none" /\ a \in Actors
        /\ OwnRowOK(r, orders) /\ r.step \in PostSteps
    BY <2>1, InsertedFacts DEF LimitEnvironment
  <2>3. r.ord.type # "Market"
    BY <2>2 DEF OwnRowOK, LimitInv
  <2>4. CASE MakerUpdated(a)
    <3> DEFINE t == Finish(r, "ok")
    <3>1. req' = [req EXCEPT ![a] = t] /\ t.pc = "done" /\ t.answer = "ok"
      BY <2>2, <2>4, FinishFields DEF MakerUpdated
    <3> HIDE DEF t
    <3> QED BY <2>1, <3>1
  <2>5. CASE TakerUpdated(a)
    <3> DEFINE r1 == [r EXCEPT !.idx = r.idx - 1]
               t == Match(r1, RestingList(r))
    <3>1. r.step = "takerUpdated"
      BY <2>5 DEF TakerUpdated, Resume
    <3>2. r.idx \in 1 .. Len(RestingList(r))
      BY <2>2, <3>1, MatchStepFacts, LenProperties DEF MatchSteps
    <3>3. r.idx - 1 \in Nat
      BY <3>2
    <3>4. r1 \in Request /\ r1.answer = "none"
      BY <2>2, <3>3 DEF Request
    <3>5. req' = [req EXCEPT ![a] = t]
      BY <2>2, <2>5 DEF TakerUpdated
    <3> HIDE DEF r1
    <3>6. t.pc = "update" \/ (t.pc = "done" /\ t.answer = "ok")
      BY <3>4, MatchFields
    <3> HIDE DEF t
    <3> QED BY <2>1, <3>5, <3>6
  <2>6. CASE Placed(a)
    <3> DEFINE t == StartMatch(r, bookRef, heap[bookRef])
    <3>1. req' = [req EXCEPT ![a] = t]
      BY <2>2, <2>6 DEF Placed
    <3>2. bookRef \in Refs /\ heap[bookRef] \in [Sides -> Seq(Entry)]
      BY DEF IInv, TypeOK
    <3>3. t.pc = "update" \/ (t.pc = "done" /\ t.answer = "ok")
      BY <2>2, <2>3, <3>2, StartFields
    <3> HIDE DEF t
    <3> QED BY <2>1, <3>1, <3>3
  <2>7. CASE Assign(a)
    <3> DEFINE u == AfterFill(r)
               t == [u EXCEPT !.buys = <<>>, !.sells = <<>>]
    <3>1. req' = [req EXCEPT ![a] = t]
      BY <2>2, <2>7 DEF Assign
    <3>2. u \in Request /\ u.pc \in {"buys", "emit"}
      <4>1. CASE r.step = "saved"
        <5>1. u = [r EXCEPT !.pc = "buys", !.step = "placed"]
          BY <2>3, <4>1 DEF AfterFill
        <5> QED BY <2>2, <5>1 DEF Request
      <4>2. CASE r.step # "saved"
        <5>1. u = [r EXCEPT !.pc = "emit"]
          BY <2>2, <4>2 DEF AfterFill, PostSteps, MatchSteps
        <5> QED BY <2>2, <5>1 DEF Request
      <4> QED BY <4>1, <4>2
    <3> HIDE DEF u
    <3>3. t.pc \in {"buys", "emit"}
      BY <3>2 DEF Request
    <3> HIDE DEF t
    <3> QED BY <2>1, <3>1, <3>3
  <2> QED BY <1>2, <2>4, <2>5, <2>6, <2>7
<1> QED BY <1>1, <1>2, NothingFails DEF Progress

LEMMA UnplacedFacts ==
  /\ IsFiniteSet(Unplaced) /\ Cardinality(Unplaced) \in Nat
  /\ IsFiniteSet(Unplaced') /\ Cardinality(Unplaced') \in Nat
<1>1. IsFiniteSet(Requests) /\ Unplaced \subseteq Requests /\ Unplaced' \subseteq Requests
  BY OrderBookAssumption DEF Unplaced
<1> QED BY <1>1, FS_Subset, FS_CardinalityType

LEMMA LimitInit ==
  ASSUME LimitEnvironment, Init
  PROVE  LimitInv
<1>1. /\ orders \in RestingTables /\ orders \in Seq(Row) /\ Len(orders) \in Nat
      /\ \A i \in DOMAIN orders : orders[i].price = NoPrice <=> orders[i].type = "Market"
  BY OrderBookAssumption, RowsFacts DEF Init
<1>2. \A i \in DOMAIN orders : orders[i].type = "Limit"
  BY <1>1 DEF LimitEnvironment
<1>3. \A i \in DOMAIN orders : orders[i].price \in Prices \cup {NoPrice}
  BY <1>1, RowsFacts DEF Row
<1>4. \A a \in Requests : req[a].pc = "idle" /\ req[a].answer = "none"
  BY DEF Init, Actors, NewRequest
<1>5. Unplaced = Requests
  BY <1>4 DEF Unplaced
<1>6. Len(orders) + Cardinality(Requests) <= BookLimit
  BY <1>1 DEF LimitEnvironment
<1> QED BY <1>1, <1>2, <1>3, <1>4, <1>5, <1>6 DEF LimitInv

LEMMA LimitSubmit ==
  ASSUME LimitEnvironment, IInv, SettledInv, LimitInv, NEW a \in Requests, Submit(a)
  PROVE  LimitInv'
<1>1. req \in [Requests -> Request] /\ orders' = orders /\ req[a].pc = "idle"
  BY DEF IInv, TypeOK, Submit, LimitEnvironment, Environment, Actors
<1>2. PICK side \in Sides, symbol \in Symbols, type \in Types, price \in Prices, size \in Sizes :
        req' = [req EXCEPT ![a] = [@ EXCEPT !.pc = "insert", !.step = "saved",
                  !.ord = Posted(side, symbol, type, price, size)]]
  BY ZenonT(90) DEF Submit
<1> DEFINE t == [req[a] EXCEPT !.pc = "insert", !.step = "saved",
                   !.ord = Posted(side, symbol, type, price, size)]
<1>3. t.pc = "insert" /\ t.answer = req[a].answer /\ t.ord = Posted(side, symbol, type, price, size)
  BY <1>1 DEF Request
<1>4. req'[a] = t /\ \A b \in Requests : b # a => req'[b] = req[b]
  BY <1>1, <1>2
<1> HIDE DEF t
<1>5. t.ord.type = "Limit" /\ t.ord.price \in Prices
  BY <1>3 DEF Posted, LimitEnvironment
<1>6. Unplaced' = Unplaced
  BY <1>1, <1>3, <1>4 DEF Unplaced
<1> QED BY <1>1, <1>3, <1>4, <1>5, <1>6 DEF LimitInv

LEMMA LimitInsert ==
  ASSUME LimitEnvironment, IInv, SettledInv, LimitInv, NEW a \in Requests, Insert(a)
  PROVE  LimitInv'
<1> DEFINE r == req[a]
           t == [r EXCEPT !.pc = "buys", !.ord.id = Len(orders) + 1]
<1>1. r.pc = "insert"
  BY DEF Insert
<1>2. /\ req \in [Requests -> Request] /\ r \in Request
      /\ orders \in Seq(Row) /\ Len(orders) \in Nat /\ DOMAIN orders = 1 .. Len(orders)
  BY RowsFacts DEF IInv, TypeOK, LimitEnvironment, Environment, Actors
<1>3. t.pc = "buys" /\ t.answer = r.answer
  BY <1>2 DEF Request
<1>4. req' = [req EXCEPT ![a] = t]
  BY <1>2 DEF Insert
<1>5. \E row : orders' = Append(orders, row) /\ row.type = r.ord.type /\ row.price = r.ord.price
  BY DEF Insert
<1>6. PICK row : orders' = Append(orders, row) /\ row.type = r.ord.type /\ row.price = r.ord.price
  BY <1>5
<1>7. row.type = "Limit" /\ row.price \in Prices
  BY <1>1, <1>6 DEF LimitInv
<1> HIDE DEF t, r
<1>8. req'[a] = t /\ \A b \in Requests : b # a => req'[b] = req[b]
  BY <1>2, <1>4
<1>9. /\ Len(orders') = Len(orders) + 1 /\ DOMAIN orders' = 1 .. Len(orders) + 1
      /\ \A i \in DOMAIN orders : orders'[i] = orders[i]
      /\ orders'[Len(orders) + 1] = row
  BY <1>2, <1>6, AppendProperties
<1>10. \A i \in DOMAIN orders' : i \in DOMAIN orders \/ i = Len(orders) + 1
  BY <1>2, <1>9
<1>11. \A i \in DOMAIN orders' : orders'[i].type = "Limit" /\ orders'[i].price \in Prices
  BY <1>7, <1>9, <1>10 DEF LimitInv
<1>12. Len(orders') + Cardinality(Unplaced') <= BookLimit
  <2>1. Unplaced' = Unplaced \ {a} /\ a \in Unplaced
    BY <1>1, <1>3, <1>8 DEF Unplaced, r
  <2>2. Cardinality(Unplaced') = Cardinality(Unplaced) - 1
    BY <2>1, UnplacedFacts, FS_RemoveElement
  <2>3. Len(orders) + Cardinality(Unplaced) <= BookLimit
    BY DEF LimitInv
  <2> QED BY <1>2, <1>9, <2>2, <2>3, UnplacedFacts
<1> QED BY <1>3, <1>8, <1>11, <1>12 DEF LimitInv, r

LEMMA LimitProgress ==
  ASSUME LimitEnvironment, IInv, SettledInv, LimitInv, NEW a \in Requests, Progress(a), ~Insert(a)
  PROVE  LimitInv'
<1>1. Keeps(orders, orders') /\ DOMAIN orders' = DOMAIN orders /\ Len(orders') = Len(orders)
  BY SameRows DEF LimitEnvironment
<1>2. Running(a) /\ req[a].pc # "insert"
  BY EndsOk
<1>3. PICK t : /\ req' = [req EXCEPT ![a] = t] /\ t.pc \notin {"idle", "insert"}
               /\ t.pc = "done" => t.answer = "ok"
  BY EndsOk
<1>4. req \in [Requests -> Request]
  BY DEF IInv, TypeOK, LimitEnvironment, Environment, Actors
<1>5. req'[a] = t /\ \A b \in Requests : b # a => req'[b] = req[b]
  BY <1>3, <1>4
<1>6. t.answer \in {"none", "ok"}
  <2>1. SettledInv'
    BY SettledNext DEF LimitEnvironment, Next, Actors
  <2> QED BY <1>3, <1>5, <2>1 DEF SettledInv, Alone
<1>7. \A i \in DOMAIN orders' : orders'[i].type = "Limit" /\ orders'[i].price \in Prices
  BY <1>1 DEF Keeps, LimitInv
<1>8. Len(orders') + Cardinality(Unplaced') <= BookLimit
  <2>1. Unplaced' = Unplaced
    BY <1>2, <1>3, <1>5 DEF Unplaced, Running
  <2> QED BY <1>1, <2>1 DEF LimitInv
<1> QED BY <1>3, <1>5, <1>6, <1>7, <1>8 DEF LimitInv

LEMMA LimitNext ==
  ASSUME LimitEnvironment
  PROVE  IInv /\ SettledInv /\ LimitInv /\ [Next]_vars => LimitInv'
<1> SUFFICES ASSUME IInv, SettledInv, LimitInv, [Next]_vars PROVE LimitInv'
  OBVIOUS
<1>1. CASE UNCHANGED vars
  BY <1>1 DEF vars, LimitInv, Unplaced
<1>2. Viewers = {} /\ Actors = Requests
  BY DEF LimitEnvironment, Environment, Actors
<1> QED BY <1>1, <1>2, LimitSubmit, LimitInsert, LimitProgress, NothingFails DEF Next
-----------------------------------------------------------------------------
(* The engine is the Exchange.                                             *)

\* What every order still has to trade.
Remaining == [i \in DOMAIN orders |-> Left(i, orders, Traded)]

LEMMA RemainingIs ==
  /\ [i \in DOMAIN orders |-> orders[i].orgSize - TradedSize(i)] = Remaining
  /\ [i \in DOMAIN orders' |-> orders'[i].orgSize - TradedSize(i)'] = Remaining'
<1>1. \A i \in DOMAIN orders : Traded[i] = TradedSize(i)
  BY DEF Traded
<1>2. \A i \in DOMAIN orders' : Traded'[i] = TradedSize(i)'
  BY DEF Traded
<1> QED BY <1>1, <1>2 DEF Remaining, Left

\* The variables of the Exchange.
LEMMA IdealVariables ==
  /\ Ideal!vars = <<Offers(orders), Remaining, trades>>
  /\ Ideal!vars' = <<Offers(orders'), Remaining', trades'>>
BY RemainingIs DEF Ideal!vars

Offer == [side: Sides, symbol: Symbols, price: Prices \cup {NoPrice}, size: Int, created: Nat]

LEMMA OffersFacts ==
  ASSUME NEW table \in Seq(Row)
  PROVE  /\ Offers(table) \in Seq(Offer) /\ Len(Offers(table)) = Len(table)
         /\ DOMAIN Offers(table) = DOMAIN table
         /\ \A i \in DOMAIN table :
              Offers(table)[i] = [side |-> table[i].side, symbol |-> table[i].symbol,
                price |-> table[i].price, size |-> table[i].orgSize,
                created |-> table[i].created]
<1>1. Len(table) \in Nat /\ DOMAIN table = 1 .. Len(table) /\ \A i \in DOMAIN table : table[i] \in Row
  BY RowsFacts
<1>2. /\ DOMAIN Offers(table) = 1 .. Len(table)
      /\ \A i \in DOMAIN table :
           Offers(table)[i] = [side |-> table[i].side, symbol |-> table[i].symbol,
             price |-> table[i].price, size |-> table[i].orgSize, created |-> table[i].created]
  BY <1>1 DEF Offers
<1>3. \A i \in 1 .. Len(table) : Offers(table)[i] \in Offer
  BY <1>1, <1>2, SMTT(20) DEF Row, Offer
<1>4. Offers(table) = [i \in 1 .. Len(table) |-> Offers(table)[i]]
  BY <1>1 DEF Offers
<1>5. Offers(table) \in [1 .. Len(table) -> Offer]
  <2> DEFINE f == Offers(table)
  <2> HIDE DEF f
  <2>1. f = [i \in 1 .. Len(table) |-> f[i]] /\ \A i \in 1 .. Len(table) : f[i] \in Offer
    BY <1>3, <1>4 DEF f
  <2>2. f \in [1 .. Len(table) -> Offer]
    BY <2>1
  <2> QED BY <2>2 DEF f
<1>6. Offers(table) \in Seq(Offer)
  BY <1>1, <1>5
<1>7. Len(Offers(table)) = Len(table)
  BY <1>1, <1>2, <1>6, LenProperties
<1> QED BY <1>1, <1>2, <1>6, <1>7

\* A step that saves no trade and adds no row is none of the Exchange.
LEMMA NotSeen ==
  ASSUME IInv, Keeps(orders, orders'), DOMAIN orders' = DOMAIN orders, trades' = trades
  PROVE  UNCHANGED Ideal!vars
<1>1. Offers(orders') = Offers(orders)
  BY DEF Offers, Keeps
<1>2. Traded' = Traded
  BY TradedSame
<1>3. Remaining' = Remaining
  BY <1>2 DEF Remaining, Left, Keeps
<1> QED BY <1>1, <1>3, IdealVariables

LEMMA AllInReach ==
  ASSUME IInv, LimitInv, NEW i \in DOMAIN orders, NEW j \in DOMAIN orders
  PROVE  ~OutOfReach(i, j, orders)
<1> DEFINE S == {n \in 1 .. j - 1 : /\ n # i
                                    /\ orders[n].side = orders[i].side
                                    /\ orders[n].symbol = orders[i].symbol
                                    /\ Precedes(n, i, orders)}
<1>1. Len(orders) \in Nat /\ j \in 1 .. Len(orders)
  BY RowsFacts DEF IInv, TypeOK
<1>2. S \subseteq 1 .. j - 1
  OBVIOUS
<1>3. IsFiniteSet(1 .. j - 1) /\ Cardinality(1 .. j - 1) = j - 1
  <2>1. 1 \in Int /\ j - 1 \in Int /\ (IF 1 > j - 1 THEN 0 ELSE j - 1 - 1 + 1) = j - 1
    BY <1>1
  <2> QED BY <2>1, FS_Interval
<1> HIDE DEF S
<1>4. Cardinality(S) <= j - 1 /\ IsFiniteSet(S)
  BY <1>2, <1>3, FS_Subset, ZenonT(40)
<1>5. Cardinality(S) \in Nat
  BY <1>4, FS_CardinalityType
<1>6. Len(orders) + Cardinality(Unplaced) <= BookLimit /\ Cardinality(Unplaced) \in Nat
  BY UnplacedFacts DEF LimitInv
<1>7. BookLimit \in Nat
  BY OrderBookAssumption
<1>8. ~(BookLimit <= Cardinality(S))
  BY <1>1, <1>4, <1>5, <1>6, <1>7
<1> QED BY <1>8 DEF OutOfReach, S

\* Crosses, of the tables.
LEMMA CrossesIs ==
  ASSUME IInv, NEW t \in DOMAIN orders, NEW m \in DOMAIN orders
  PROVE  Ideal!Crosses(t, m) <=>
           /\ orders[t].symbol = orders[m].symbol
           /\ orders[t].side # orders[m].side
           /\ Left(t, orders, Traded) > 0 /\ Left(m, orders, Traded) > 0
           /\ IF orders[t].side = "BUY" THEN orders[m].price <= orders[t].price
                                        ELSE orders[m].price >= orders[t].price
<1>1. Offers(orders)[t] = [side |-> orders[t].side, symbol |-> orders[t].symbol,
        price |-> orders[t].price, size |-> orders[t].orgSize, created |-> orders[t].created]
  BY DEF Offers
<1>2. Offers(orders)[m] = [side |-> orders[m].side, symbol |-> orders[m].symbol,
        price |-> orders[m].price, size |-> orders[m].orgSize, created |-> orders[m].created]
  BY DEF Offers
<1>3. Remaining[t] = Left(t, orders, Traded) /\ Remaining[m] = Left(m, orders, Traded)
  BY DEF Remaining
<1> QED BY <1>1, <1>2, <1>3, RemainingIs DEF Ideal!Crosses

LEMMA ServedFirstIs ==
  ASSUME IInv, NEW m \in DOMAIN orders, NEW n \in DOMAIN orders
  PROVE  Ideal!ServedFirst(m, n) <=>
           \/ IF orders[m].side = "SELL" THEN orders[m].price < orders[n].price
                                         ELSE orders[m].price > orders[n].price
           \/ orders[m].price = orders[n].price /\ orders[m].created >= orders[n].created
<1>1. \A i \in {m, n} : Offers(orders)[i] = [side |-> orders[i].side, symbol |-> orders[i].symbol,
        price |-> orders[i].price, size |-> orders[i].orgSize, created |-> orders[i].created]
  BY DEF Offers
<1> QED BY <1>1 DEF Ideal!ServedFirst

LEMMA IdealNewest == IInv => Ideal!Newest = Len(orders)
<1> SUFFICES ASSUME IInv PROVE Len(Offers(orders)) = Len(orders)
  BY DEF Ideal!Newest
<1> QED BY OffersFacts DEF IInv, TypeOK

LEMMA IdealInit == Init => Ideal!Init
<1> SUFFICES ASSUME Init PROVE Ideal!Init
  OBVIOUS
<1>1. orders \in RestingTables /\ trades = <<>> /\ orders \in Seq(Row)
  BY OrderBookAssumption DEF Init
<1>2. Offers(orders) \in {Offers(t) : t \in RestingTables}
  BY <1>1
<1>3. DOMAIN Offers(orders) = DOMAIN orders
  BY DEF Offers
<1>4. \A i \in DOMAIN orders : /\ Traded[i] = 0 /\ orders[i].orgSize \in Int
                               /\ Offers(orders)[i].size = orders[i].orgSize
  <2>1. trades \in Seq(Trade) /\ \A k \in DOMAIN trades : FALSE
    BY <1>1
  <2>2. \A i : SumIn(trades, i) = 0
    BY <2>1, SumInNone
  <2> QED BY <1>1, <2>2, TradedIs, RowsFacts DEF Offers
<1>5. \A i \in DOMAIN orders : Left(i, orders, Traded) = Offers(orders)[i].size
  BY <1>4 DEF Left
<1>6. Remaining = [i \in DOMAIN Offers(orders) |-> Offers(orders)[i].size]
  BY <1>3, <1>5 DEF Remaining
<1> QED BY <1>1, <1>2, <1>6, RemainingIs DEF Ideal!Init

\* Before an order is placed nothing crosses the one before it.
LEMMA PlaceEnabled ==
  ASSUME LimitEnvironment, IInv, SettledInv, UncrossedInv, LimitInv, NEW a \in Requests,
         req[a].pc = "insert", NEW m \in DOMAIN orders
  PROVE  ~Ideal!Crosses(Len(orders), m)
<1> DEFINE n == Len(orders)
<1> SUFFICES ASSUME Ideal!Crosses(n, m) PROVE FALSE
  OBVIOUS
<1>1. /\ Environment /\ Smooth /\ Calm /\ Running(a)
      /\ \A b \in Requests : Running(b) => b = a
  <2>1. Environment
    BY DEF LimitEnvironment
  <2>2. Running(a)
    BY DEF Running
  <2>3. Smooth
    BY DEF Smooth, Answered, LimitInv
  <2> QED BY <2>1, <2>2, <2>3, SmoothIsCalm, AloneFacts DEF SettledInv
<1>2. RowsOK({}, orders, Traded) /\ AmountsOK(orders, Traded)
  <2>1. req[a].step = "saved"
    BY ActorFacts DEF RequestOK, Actors
  <2> QED BY <1>1, <2>1, RunFacts DEF RunOK, PlacingOK
<1>3. /\ orders \in Seq(Row) /\ n \in DOMAIN orders
      /\ \A i \in {n, m} : /\ orders[i].side \in {"BUY", "SELL"} /\ orders[i].price \in Nat
                           /\ orders[i].type = "Limit"
  BY RowsFacts DEF IInv, TypeOK, LimitInv, Sides
<1>4. /\ orders[n].symbol = orders[m].symbol /\ orders[n].side # orders[m].side
      /\ Left(n, orders, Traded) > 0 /\ Left(m, orders, Traded) > 0
      /\ IF orders[n].side = "BUY" THEN orders[m].price <= orders[n].price
                                   ELSE orders[m].price >= orders[n].price
  BY <1>3, CrossesIs
<1>5. ~orders[n].isFilled /\ ~orders[m].isFilled
  <2>1. \A i \in {n, m} : RowOK(i, orders, Traded) /\ Left(i, orders, Traded) > 0
    BY <1>2, <1>3, <1>4 DEF RowsOK
  <2>2. \A i \in {n, m} : (Left(i, orders, Traded) = 0) = FALSE
    BY <1>2, <1>3, <2>1 DEF AmountsOK
  <2> QED BY <2>1, <2>2, Zenon DEF RowOK, Shows
<1> HIDE DEF n
<1>6. \E b, s \in {n, m} : Missed(b, s, orders)
  <2>1. ~OutOfReach(n, m, orders) /\ ~OutOfReach(m, n, orders)
    BY <1>3, AllInReach
  <2>2. CASE orders[n].side = "BUY"
    <3>1. Missed(n, m, orders)
      BY <1>3, <1>4, <1>5, <2>1, <2>2 DEF Missed
    <3> QED BY <3>1
  <2>3. CASE orders[n].side = "SELL"
    <3>1. Missed(m, n, orders)
      BY <1>3, <1>4, <1>5, <2>1, <2>3 DEF Missed
    <3> QED BY <3>1
  <2> QED BY <1>3, <2>2, <2>3
<1>7. \E b \in Requests : Running(b) /\ req[b].pc # "insert"
  BY <1>1, <1>3, <1>6 DEF UncrossedInv
<1> QED BY <1>1, <1>7

\* An insert is a Place.
LEMMA InsertPlaces ==
  ASSUME LimitEnvironment, IInv, SettledInv, UncrossedInv, LimitInv, NEW a \in Requests, Insert(a)
  PROVE  Ideal!Place
<1> DEFINE o == req[a].ord
           n == Len(orders) + 1
<1>1. /\ req[a].pc = "insert" /\ Environment /\ Calm /\ Running(a) /\ a \in Actors
      /\ UNCHANGED trades
  BY SmoothIsCalm DEF Insert, LimitEnvironment, Smooth, Answered, LimitInv, Running, Actors
<1>2. /\ orders \in Seq(Row) /\ Len(orders) \in Nat /\ DOMAIN orders = 1 .. Len(orders)
      /\ o \in Order
  BY <1>1, RowsFacts, ActorFacts DEF IInv, TypeOK
<1>3. /\ RowsOK({}, orders, Traded) /\ AmountsOK(orders, Traded)
      /\ o.size \in Sizes /\ o.price \in Prices /\ o.side \in {"BUY", "SELL"}
      /\ o.symbol \in Symbols
  <2>1. req[a].step = "saved"
    BY <1>1, ActorFacts DEF RequestOK
  <2>2. RowsOK({}, orders, Traded) /\ AmountsOK(orders, Traded) /\ o.size \in Sizes
    BY <1>1, <2>1, RunFacts DEF RunOK, PlacingOK
  <2> QED BY <1>1, <1>2, <2>2 DEF Order, Sides, LimitInv
<1>4. PICK second \in {0, 1} :
        orders' = Append(orders,
          [side |-> o.side, symbol |-> o.symbol, type |-> o.type, price |-> o.price,
           size |-> o.size, orgSize |-> o.size, filled |-> 0, isFilled |-> FALSE,
           created |-> second + IF orders = <<>> THEN 0 ELSE orders[Len(orders)].created])
  BY DEF Insert
<1> DEFINE created == second + IF orders = <<>> THEN 0 ELSE orders[Len(orders)].created
           row == [side |-> o.side, symbol |-> o.symbol, type |-> o.type, price |-> o.price,
                   size |-> o.size, orgSize |-> o.size, filled |-> 0, isFilled |-> FALSE,
                   created |-> created]
           offer == [side |-> o.side, symbol |-> o.symbol, price |-> o.price, size |-> o.size,
                     created |-> created]
<1>5. orders' = Append(orders, row)
  BY <1>4
<1>6. /\ Keeps(orders, orders') /\ Len(orders') = n /\ orders'[n] = row
      /\ \A i \in DOMAIN orders : orders'[i] = orders[i]
      /\ DOMAIN orders' = DOMAIN orders \cup {n} /\ n \notin DOMAIN orders
      /\ Traded'[n] = 0 /\ Left(n, orders', Traded') = o.size
  <2>1. /\ row.size = o.size /\ row.size = row.orgSize /\ row.size \in Sizes
        /\ row.filled = 0 /\ row.isFilled = FALSE
    BY <1>3
  <2> HIDE DEF row
  <2>2. RowsOK({}, orders, Traded) /\ AmountsOK(orders, Traded) /\ UNCHANGED trades
    BY <1>1, <1>3
  <2>3. /\ Keeps(orders, orders') /\ Len(orders') = n /\ orders'[n] = row
        /\ \A i \in DOMAIN orders : orders'[i] = orders[i]
        /\ DOMAIN orders' = DOMAIN orders \cup {n}
        /\ Traded'[n] = 0 /\ Left(n, orders', Traded') = row.size
    BY <1>5, <2>1, <2>2, InsertedRow
  <2>4. n \notin DOMAIN orders
    BY <1>2
  <2> QED BY <2>1, <2>3, <2>4
<1>7. Offers(orders') = Append(Offers(orders), offer)
  <2>1. orders' \in Seq(Row)
    <3>1. IInv'
      BY <1>1, InsertStep
    <3> QED BY <3>1 DEF IInv, TypeOK
  <2>2. /\ Offers(orders') \in Seq(Offer) /\ Len(Offers(orders')) = n
        /\ DOMAIN Offers(orders') = 1 .. n
        /\ \A i \in DOMAIN orders : Offers(orders')[i] = Offers(orders)[i]
    <3>1. /\ Offers(orders') \in Seq(Offer) /\ Len(Offers(orders')) = Len(orders')
          /\ DOMAIN Offers(orders') = DOMAIN orders' /\ DOMAIN orders' = 1 .. Len(orders')
      BY <2>1, OffersFacts, RowsFacts
    <3>2. \A i \in DOMAIN orders : i \in DOMAIN orders' /\ orders'[i] = orders[i]
      BY <1>6
    <3>3. \A i \in DOMAIN orders : Offers(orders')[i] = Offers(orders)[i]
      BY <3>2 DEF Offers
    <3>4. Len(orders') = n
      BY <1>6
    <3> QED BY <3>1, <3>3, <3>4
  <2>3. Offers(orders')[n] = offer
    <3>1. n \in DOMAIN orders'
      BY <1>6
    <3>2. Offers(orders')[n] = [side |-> row.side, symbol |-> row.symbol, price |-> row.price,
                                size |-> row.orgSize, created |-> row.created]
      BY <1>6, <2>1, <3>1, OffersFacts
    <3> QED BY <3>2
  <2>4. Offers(orders) \in Seq(Offer) /\ Len(Offers(orders)) = Len(orders)
    BY <1>2, OffersFacts
  <2>5. offer \in Offer
    <3>1. n \in 1 .. n
      BY <1>2
    <3>2. Offers(orders')[n] \in Offer
      BY <2>2, <3>1, ElementOfSeq
    <3> QED BY <2>3, <3>2
  <2> HIDE DEF offer, row
  <2>6. /\ Append(Offers(orders), offer) \in Seq(Offer)
        /\ Len(Append(Offers(orders), offer)) = n
        /\ Append(Offers(orders), offer)[n] = offer
        /\ \A i \in 1 .. Len(orders) : Append(Offers(orders), offer)[i] = Offers(orders)[i]
    BY <2>4, <2>5, AppendProperties
  <2>7. \A i \in 1 .. n : i \in 1 .. Len(orders) \/ i = n
    BY <1>2
  <2>8. \A i \in 1 .. n : Offers(orders')[i] = Append(Offers(orders), offer)[i]
    BY <1>2, <2>2, <2>3, <2>6, <2>7
  <2> QED BY <2>2, <2>6, <2>8, SeqEqual
<1>8. Remaining' = Append(Remaining, o.size)
  <2>1. Traded' = [i \in DOMAIN orders' |-> SumIn(trades, i)]
    BY <1>1, TradedIsNext
  <2>2. \A i \in DOMAIN orders : Remaining'[i] = Remaining[i]
    BY <1>6, <2>1, TradedIs DEF Remaining, Left
  <2>3. Remaining'[n] = o.size /\ DOMAIN Remaining' = DOMAIN orders'
    BY <1>6 DEF Remaining
  <2>4. DOMAIN Remaining = 1 .. Len(orders) /\ \A i \in 1 .. Len(orders) : Remaining[i] \in Nat
    BY <1>2, <1>3 DEF Remaining, AmountsOK
  <2>5. o.size \in Nat
    BY <1>3, SizeFacts
  <2> DEFINE x == o.size
             f == Remaining
             g == Remaining'
  <2>6. f = [i \in 1 .. Len(orders) |-> f[i]] /\ g = [i \in 1 .. n |-> g[i]]
    <3>1. DOMAIN orders' = 1 .. n
      BY <1>2, <1>6
    <3> QED BY <1>2, <3>1 DEF Remaining
  <2>7. g[n] = x /\ \A i \in 1 .. Len(orders) : f[i] \in Nat /\ g[i] = f[i]
    BY <1>2, <2>2, <2>3, <2>4
  <2> HIDE DEF x, f, g, o
  <2>8. f \in [1 .. Len(orders) -> Nat]
    BY <2>6, <2>7
  <2>9. f \in Seq(Nat) /\ Len(f) = Len(orders)
    <3>1. f \in Seq(Nat)
      BY <1>2, <2>8
    <3> QED BY <1>2, <2>8, <3>1, LenProperties
  <2>10. \A i \in 1 .. n : i \in 1 .. Len(orders) \/ i = n
    BY <1>2
  <2>11. g \in [1 .. n -> Nat]
    BY <2>5, <2>6, <2>7, <2>10 DEF x
  <2>12. g \in Seq(Nat) /\ Len(g) = n
    <3>1. g \in Seq(Nat)
      BY <1>2, <2>11
    <3> QED BY <1>2, <2>11, <3>1, LenProperties
  <2>13. /\ Append(f, x) \in Seq(Nat) /\ Len(Append(f, x)) = n /\ Append(f, x)[n] = x
         /\ \A i \in 1 .. Len(orders) : Append(f, x)[i] = f[i]
    BY <2>5, <2>9, AppendProperties DEF x
  <2>14. \A i \in 1 .. n : g[i] = Append(f, x)[i]
    BY <2>7, <2>10, <2>13
  <2>15. g = Append(f, x)
    BY <2>12, <2>13, <2>14, SeqEqual
  <2> QED BY <2>15 DEF f, g, x
<1>9. created = second + IF Offers(orders) = <<>> THEN 0 ELSE Offers(orders)[Len(orders)].created
  <2>1. Offers(orders) = <<>> <=> orders = <<>>
    <3>1. Offers(orders) \in Seq(Offer) /\ Len(Offers(orders)) = Len(orders)
      BY <1>2, OffersFacts
    <3>2. Len(orders) = 0 <=> orders = <<>>
      BY <1>2, EmptySeq
    <3>3. Len(Offers(orders)) = 0 <=> Offers(orders) = <<>>
      BY <3>1, EmptySeq
    <3> QED BY <3>1, <3>2, <3>3
  <2>2. CASE orders = <<>>
    BY <2>1, <2>2
  <2>3. CASE orders # <<>>
    <3>1. Len(orders) \in DOMAIN orders
      BY <1>2, <2>3, EmptySeq
    <3>2. Offers(orders)[Len(orders)].created = orders[Len(orders)].created
      BY <3>1 DEF Offers
    <3> QED BY <2>1, <2>3, <3>2
  <2> QED BY <2>2, <2>3
<1>10. \A m \in DOMAIN Offers(orders) : ~Ideal!Crosses(Ideal!Newest, m)
  BY <1>1, PlaceEnabled, IdealNewest DEF Offers
<1> DEFINE Adds(side, symbol, price, size, later) ==
             /\ Offers(orders') = Append(Offers(orders),
                  [side |-> side, symbol |-> symbol, price |-> price, size |-> size,
                   created |-> later + IF Offers(orders) = <<>> THEN 0
                                       ELSE Offers(orders)[Ideal!Newest].created])
             /\ Remaining' = Append(Remaining, size)
<1>11. Adds(o.side, o.symbol, o.price, o.size, second)
  BY <1>7, <1>8, <1>9, IdealNewest
<1>12. \E side \in {"BUY", "SELL"}, symbol \in Symbols, price \in Prices, size \in Sizes,
          later \in {0, 1} : Adds(side, symbol, price, size, later)
  BY <1>3, <1>11, ZenonT(40)
<1> QED BY <1>1, <1>10, <1>12, RemainingIs, Zenon DEF Ideal!Place

\* What the trade in the making is about: the newest order and the one it looks
\* at, which crosses it and comes first of those that do.
LEMMA DealEnabled ==
  ASSUME LimitEnvironment, IInv, SettledInv, LimitInv, NEW a \in Requests, SaveTrade(a)
  PROVE  LET r == req[a]
             t == Len(orders)
             m == Resting(r).id
             size == IF Left(t, orders, Traded) < Left(m, orders, Traded)
                     THEN Left(t, orders, Traded) ELSE Left(m, orders, Traded) IN
         /\ t \in DOMAIN orders /\ m \in DOMAIN orders /\ m # t /\ r.ord.id = t
         /\ orders[t].side = r.ord.side /\ orders[t].symbol = r.ord.symbol
         /\ orders[m].price = Resting(r).price
         /\ AmountsOK(orders, Traded)
         /\ size \in Int /\ Whole(size) /\ r.qty = size /\ Stored(size) = size
         /\ Ideal!Crosses(t, m)
         /\ \A n \in DOMAIN orders : Ideal!Crosses(t, n) => Ideal!ServedFirst(m, n)
<1> DEFINE r == req[a]
           t == Len(orders)
           e == Resting(r)
           m == e.id
           list == RestingList(r)
           size == IF Left(t, orders, Traded) < Left(m, orders, Traded)
                   THEN Left(t, orders, Traded) ELSE Left(m, orders, Traded)
<1>1. /\ r.pc = "trade" /\ Environment /\ Calm /\ Running(a) /\ a \in Actors
  BY SmoothIsCalm DEF SaveTrade, LimitEnvironment, Smooth, Answered, LimitInv, Running, Actors
<1>2. r.step \in MatchSteps /\ r.step \in {"fullTraded", "partTraded"}
  <2>1. r.step \in MatchSteps
    BY <1>1, ActorFacts DEF RequestOK
  <2> QED BY <1>1, <2>1, MatchStepFacts, Zenon DEF WriteOK
<1>3. /\ AmountsOK(orders, Traded) /\ NewestOK(r, orders)
      /\ WalkOK(r, list, r.idx, orders)
      /\ StageOK(r, e, orders, Traded) /\ RowsOK({r.ord.id, m}, orders, Traded)
      /\ m # r.ord.id /\ m \in DOMAIN orders /\ r.ord.id \in DOMAIN orders
      /\ r.idx \in Nat \ {0} /\ e = list[r.idx] /\ e.size \in Int /\ r.ord.size \in Int
  BY <1>1, <1>2, FillFacts
<1>4. r.ord.id = t /\ orders[t].symbol = r.ord.symbol
  BY <1>1, <1>3 DEF NewestOK
<1>5. /\ orders[t].side = r.ord.side /\ orders[t].type = r.ord.type
      /\ orders[t].price = r.ord.price /\ r.ord.side \in {"BUY", "SELL"}
      /\ orders[m].side = Opposite(r.ord.side) /\ orders[m].price = e.price
      /\ Accepts(r.ord, e.price) /\ r.ord.type = "Limit"
  <2>1. /\ OwnRowOK(r, orders) /\ orders[m].side = Opposite(r.ord.side)
        /\ orders[m].price = e.price /\ Accepts(r.ord, e.price)
    BY <1>1, <1>2, MatchStepFacts
  <2>2. r.ord.side \in {"BUY", "SELL"}
    BY <1>1, <1>3, InsertedFacts
  <2> QED BY <1>4, <2>1, <2>2 DEF OwnRowOK, LimitInv
<1>6. orders[m].symbol = orders[t].symbol
  <2>1. r.idx \in 1 .. r.idx
    BY <1>3
  <2> QED BY <1>3, <1>4, <2>1 DEF WalkOK
<1>7. /\ r.ord.size = Left(t, orders, Traded) /\ r.ord.size > 0
      /\ e.size = Left(m, orders, Traded) /\ e.size > 0
      /\ r.qty = IF r.ord.size < e.size THEN r.ord.size ELSE e.size
  <2>1. OrderOK(r, orders, Traded) /\ EntryOK(e, orders, Traded)
    BY <1>1, <1>2, <1>3 DEF StageOK
  <2>2. /\ r.ord.size = Left(t, orders, Traded) /\ r.ord.size > 0
        /\ e.size = Left(m, orders, Traded) /\ e.size > 0
    BY <1>4, <2>1 DEF OrderOK, EntryOK
  <2>3. \/ r.ord.size <= e.size /\ r.qty = r.ord.size
        \/ e.size < r.ord.size /\ r.qty = e.size
    BY <1>1, <1>2, <1>3 DEF StageOK
  <2> DEFINE x == r.ord.size
             y == e.size
             q == r.qty
  <2>4. x \in Int /\ y \in Int
    BY <1>3
  <2> HIDE DEF x, y, q
  <2>5. (x <= y /\ q = x) \/ (y < x /\ q = y)
    BY <2>3 DEF x, y, q
  <2>6. q = IF x < y THEN x ELSE y
    BY <2>4, <2>5
  <2> QED BY <2>2, <2>6 DEF x, y, q
<1>8. size \in Int /\ Whole(size) /\ r.qty = size /\ Stored(size) = size
  <2>1. size = r.qty /\ size \in {Left(t, orders, Traded), Left(m, orders, Traded)}
    BY <1>7
  <2>2. \A i \in {t, m} : Left(i, orders, Traded) \in Int /\ Whole(Left(i, orders, Traded))
    BY <1>3, <1>4 DEF AmountsOK
  <2> HIDE DEF size
  <2> QED BY <2>1, <2>2, WholeStored
<1>9. /\ t \in DOMAIN orders /\ orders \in Seq(Row)
      /\ \A n \in DOMAIN orders : orders[n].price \in Nat /\ orders[n].created \in Nat
  BY <1>3, <1>4, RowsFacts DEF IInv, TypeOK
<1>10. Ideal!Crosses(t, m)
  <2>1. orders[t].side # orders[m].side
    BY <1>5 DEF Opposite
  <2>2. IF orders[t].side = "BUY" THEN orders[m].price <= orders[t].price
                                  ELSE orders[m].price >= orders[t].price
    BY <1>5 DEF Accepts
  <2>3. Left(t, orders, Traded) > 0 /\ Left(m, orders, Traded) > 0
    BY <1>7
  <2> HIDE DEF t, m
  <2> QED BY <1>3, <1>6, <1>9, <2>1, <2>2, <2>3, CrossesIs
<1>11. ASSUME NEW n \in DOMAIN orders, Ideal!Crosses(t, n)
       PROVE  Ideal!ServedFirst(m, n)
  <2>1. /\ orders[n].symbol = r.ord.symbol /\ orders[n].side # r.ord.side
        /\ Left(n, orders, Traded) > 0
    <3> HIDE DEF t
    <3>1. orders[t].symbol = orders[n].symbol /\ orders[t].side # orders[n].side
          /\ Left(n, orders, Traded) > 0
      BY <1>9, <1>11, CrossesIs
    <3> QED BY <1>4, <1>5, <3>1
  <2>2. orders[n].side = Opposite(r.ord.side)
    <3>1. orders[n].side \in {"BUY", "SELL"}
      BY <1>9, RowsFacts DEF Sides
    <3> QED BY <1>5, <2>1, <3>1 DEF Opposite
  <2>3. CASE n = m
    <3>1. orders[m].price = orders[n].price /\ orders[m].created >= orders[n].created
      BY <1>9, <2>3
    <3> HIDE DEF m
    <3> QED BY <1>3, <3>1, ServedFirstIs
  <2>4. CASE n # m
    <3>1. RowOK(n, orders, Traded) /\ n # r.ord.id
      BY <1>3, <1>5, <1>4, <2>1, <2>4 DEF RowsOK
    <3>2. ~orders[n].isFilled
      <4>1. (Left(n, orders, Traded) = 0) = FALSE
        BY <1>3, <2>1 DEF AmountsOK
      <4> QED BY <3>1, <4>1, Zenon DEF RowOK, Shows
    <3>3. ~OutOfReach(n, r.ord.id, orders)
      BY <1>3, AllInReach
    <3>4. PICK k \in 1 .. r.idx : list[k].id = n
      BY <1>3, <2>1, <2>2, <3>2, <3>3 DEF WalkOK
    <3>5. k < r.idx /\ r.idx \in 1 .. r.idx
      <4>1. k # r.idx
        BY <1>3, <2>4, <3>4
      <4> HIDE DEF r
      <4> QED BY <1>3, <3>4, <4>1
    <3>6. Precedes(n, m, orders)
      BY <1>3, <3>4, <3>5 DEF WalkOK
    <3>7. orders[m].side = orders[n].side /\ orders[n].side \in {"BUY", "SELL"}
      BY <1>5, <2>2 DEF Opposite
    <3>8. \/ IF orders[m].side = "SELL" THEN orders[m].price < orders[n].price
                                        ELSE orders[m].price > orders[n].price
          \/ orders[m].price = orders[n].price /\ orders[m].created >= orders[n].created
      <4> HIDE DEF m
      <4>1. /\ orders[m].price \in Nat /\ orders[n].price \in Nat
            /\ orders[m].created \in Nat /\ orders[n].created \in Nat
        BY <1>3, <1>9
      <4> QED BY <3>6, <3>7, <4>1 DEF Precedes
    <3> HIDE DEF m
    <3> QED BY <1>3, <3>8, ServedFirstIs
  <2> QED BY <2>3, <2>4
<1> QED BY <1>3, <1>4, <1>5, <1>8, <1>9, <1>10, <1>11

\* A saved trade is a Deal.
LEMMA SaveTradeDeals ==
  ASSUME LimitEnvironment, IInv, SettledInv, LimitInv, NEW a \in Requests, SaveTrade(a)
  PROVE  Ideal!Deal
<1> DEFINE r == req[a]
           t == Len(orders)
           m == Resting(r).id
           size == IF Left(t, orders, Traded) < Left(m, orders, Traded)
                   THEN Left(t, orders, Traded) ELSE Left(m, orders, Traded)
<1>1. /\ t \in DOMAIN orders /\ m \in DOMAIN orders /\ m # t /\ r.ord.id = t
      /\ orders[t].side = r.ord.side /\ orders[t].symbol = r.ord.symbol
      /\ orders[m].price = Resting(r).price
      /\ AmountsOK(orders, Traded)
      /\ size \in Int /\ Whole(size) /\ r.qty = size /\ Stored(size) = size
      /\ Ideal!Crosses(t, m)
      /\ \A n \in DOMAIN orders : Ideal!Crosses(t, n) => Ideal!ServedFirst(m, n)
  BY DealEnabled
<1>2. a \in Actors /\ Resting(r).price # NoPrice
  BY NothingFails DEF Actors
<1> HIDE DEF size
<1>3. /\ orders' = orders
      /\ \A i \in DOMAIN orders :
           Left(i, orders', Traded') = IF i \in {t, m} THEN Left(i, orders, Traded) - size
                                                       ELSE Left(i, orders, Traded)
  <2>1. Stored(r.qty) = size
    BY <1>1
  <2> QED BY <1>1, <1>2, <2>1, TradedMore
<1>4. Remaining' = [Remaining EXCEPT ![t] = @ - size, ![m] = @ - size]
  <2> HIDE DEF t, m
  <2>1. DOMAIN Remaining = DOMAIN orders /\ DOMAIN Remaining' = DOMAIN orders
    BY <1>3 DEF Remaining
  <2>2. \A i \in DOMAIN orders :
          Remaining'[i] = IF i \in {t, m} THEN Remaining[i] - size ELSE Remaining[i]
    BY <1>3 DEF Remaining
  <2> DEFINE f == Remaining
             g == Remaining'
  <2>3. f = [i \in DOMAIN orders |-> f[i]] /\ g = [i \in DOMAIN orders |-> g[i]]
    BY <1>3 DEF Remaining
  <2> HIDE DEF f, g
  <2>4. \A i \in DOMAIN orders : g[i] = IF i \in {t, m} THEN f[i] - size ELSE f[i]
    BY <2>2 DEF f, g
  <2>5. g = [f EXCEPT ![t] = @ - size, ![m] = @ - size]
    BY <1>1, <2>3, <2>4
  <2> QED BY <2>5 DEF f, g
<1>5. /\ Offers(orders)[t].side = r.ord.side /\ Offers(orders)[t].symbol = r.ord.symbol
      /\ Offers(orders)[m].price = Resting(r).price /\ DOMAIN Offers(orders) = DOMAIN orders
  <2> HIDE DEF t, m
  <2> QED BY <1>1 DEF Offers
<1>6. trades' = Append(trades,
        [buy |-> IF Offers(orders)[t].side = "BUY" THEN t ELSE m,
         sell |-> IF Offers(orders)[t].side = "BUY" THEN m ELSE t,
         price |-> Offers(orders)[m].price, size |-> size,
         symbol |-> Offers(orders)[t].symbol])
  <2>1. trades' = Append(trades, TradeOf(r))
    BY <1>2, SavedTrade
  <2> QED BY <1>1, <1>5, <2>1 DEF TradeOf
<1>7. Remaining[t] = Left(t, orders, Traded) /\ Remaining[m] = Left(m, orders, Traded)
  <2> HIDE DEF t, m
  <2> QED BY <1>1 DEF Remaining
<1>8. size = IF Remaining[t] < Remaining[m] THEN Remaining[t] ELSE Remaining[m]
  BY <1>7 DEF size
<1>9. Offers(orders)' = Offers(orders) /\ Ideal!Newest = t
  BY <1>3, IdealNewest
<1> HIDE DEF t, m, r
<1> QED BY <1>1, <1>4, <1>5, <1>6, <1>8, <1>9, RemainingIs DEF Ideal!Deal

LEMMA StepTrades ==
  ASSUME LimitEnvironment, IInv, SettledInv, UncrossedInv, LimitInv, [Next]_vars
  PROVE  [Ideal!Next]_(Ideal!vars)
<1>1. Viewers = {} /\ Actors = Requests /\ Environment
  BY DEF LimitEnvironment, Environment, Actors
<1>2. CASE UNCHANGED vars \/ \E a \in Requests : Submit(a)
  <2>1. orders' = orders /\ trades' = trades
    BY <1>2, Zenon DEF vars, Submit
  <2> QED BY <2>1, KeepsItself, NotSeen
<1>3. ASSUME NEW a \in Requests, Progress(a), ~Insert(a), ~SaveTrade(a)
      PROVE  UNCHANGED Ideal!vars
  <2>1. trades' = trades
    BY <1>3, ZenonT(90) DEF Progress, ReadBuys, ReadSells, Assign, EmitThrows, Placed, TakerClosed,
         FullTraded, MakerUpdated, MakerClosed, PartTraded, TakerUpdated, UpdateOrder, Resume
  <2> QED BY <1>1, <1>3, <2>1, SameRows, NotSeen
<1>4. ASSUME NEW a \in Requests, Insert(a) PROVE Ideal!Next
  BY <1>4, InsertPlaces DEF Ideal!Next
<1>5. ASSUME NEW a \in Requests, SaveTrade(a) PROVE Ideal!Next
  BY <1>5, SaveTradeDeals DEF Ideal!Next
<1> QED BY <1>1, <1>2, <1>3, <1>4, <1>5, NothingFails DEF Next

\* For limit orders that come one at a time, with exact numbers, no failures
\* and room for all of them in the query, the engine implements the Exchange:
\* however long the walks of a match get, every insert is a Place, every saved
\* trade a Deal, and no other step is seen.
THEOREM EngineIsExchange ==
  ASSUME LimitEnvironment
  PROVE  Spec => ImplementsExchange
<1>1. Environment /\ UncrossedTables
  BY DEF LimitEnvironment
<1>2. Init => IInv /\ SettledInv /\ UncrossedInv /\ LimitInv
  BY <1>1, InitStep, InitSettled, UncrossedInit, LimitInit
<1>3. (IInv /\ SettledInv /\ UncrossedInv /\ LimitInv) /\ [Next]_vars
      => (IInv /\ SettledInv /\ UncrossedInv /\ LimitInv)'
  BY <1>1, NextStep, SettledNext, UncrossedNext, LimitNext
<1>4. (IInv /\ SettledInv /\ UncrossedInv /\ LimitInv) /\ [Next]_vars
      => [Ideal!Next]_(Ideal!vars)
  BY StepTrades
<1> QED BY <1>2, <1>3, <1>4, IdealInit, PTL DEF Spec, ImplementsExchange, Ideal!Spec
=============================================================================
