------------------------------ MODULE Exchange ------------------------------
(***************************************************************************)
(* What a matching engine promises.  An order is placed only when the      *)
(* order before it has been matched as far as it can be.  The newest order *)
(* then trades, one deal at a time, with the orders of the other side that *)
(* cross it: the best price first and, at equal prices, the most recent    *)
(* one first, which is the priority of matchBuyOrder and matchSellOrder.   *)
(* A deal exchanges as much as both orders have left, at the price of the  *)
(* order that was there first.                                             *)
(***************************************************************************)
EXTENDS Integers, Sequences

CONSTANTS Symbols, Prices, Sizes,
          Books   \* possible sequences of orders at the start

VARIABLES placed,  \* the orders, in the order they were placed
          left,    \* what each of them still has to trade
          deals    \* the deals so far

vars == <<placed, left, deals>>

Crosses(t, m) ==
  LET x == placed[t]
      y == placed[m] IN
  /\ x.symbol = y.symbol
  /\ x.side # y.side
  /\ left[t] > 0 /\ left[m] > 0
  /\ IF x.side = "BUY" THEN y.price <= x.price ELSE y.price >= x.price

\* m is served before n when an order of the other side arrives.
ServedFirst(m, n) ==
  \/ IF placed[m].side = "SELL" THEN placed[m].price < placed[n].price
                                ELSE placed[m].price > placed[n].price
  \/ placed[m].price = placed[n].price /\ placed[m].created >= placed[n].created

Newest == Len(placed)

Init ==
  /\ placed \in Books
  /\ left = [i \in DOMAIN placed |-> placed[i].size]
  /\ deals = <<>>

Place ==
  /\ \A m \in DOMAIN placed : ~Crosses(Newest, m)
  /\ \E side \in {"BUY", "SELL"}, symbol \in Symbols, price \in Prices, size \in Sizes,
        second \in {0, 1} :
       /\ placed' = Append(placed,
            [side |-> side, symbol |-> symbol, price |-> price, size |-> size,
             created |-> second + IF placed = <<>> THEN 0 ELSE placed[Newest].created])
       /\ left' = Append(left, size)
  /\ UNCHANGED deals

Deal ==
  \E m \in DOMAIN placed :
    LET t == Newest
        size == IF left[t] < left[m] THEN left[t] ELSE left[m] IN
    /\ Crosses(t, m)
    /\ \A n \in DOMAIN placed : Crosses(t, n) => ServedFirst(m, n)
    /\ left' = [left EXCEPT ![t] = @ - size, ![m] = @ - size]
    /\ deals' = Append(deals,
         [buy |-> IF placed[t].side = "BUY" THEN t ELSE m,
          sell |-> IF placed[t].side = "BUY" THEN m ELSE t,
          price |-> placed[m].price, size |-> size, symbol |-> placed[t].symbol])
    /\ UNCHANGED placed

Next == Place \/ Deal
Spec == Init /\ [][Next]_vars
=============================================================================
