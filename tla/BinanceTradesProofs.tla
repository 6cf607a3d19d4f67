------------------------ MODULE BinanceTradesProofs ------------------------
(***************************************************************************)
(* Proofs, for every number of orders, faults and restarts, that the row   *)
(* and the balances of an order follow what Binance has executed, and that *)
(* the row of a cancelled order stays away.                                *)
(***************************************************************************)
EXTENDS BinanceTrades, TLAPS

\* placeOrder has not placed the order yet.
Early == {"idle", "subscribing", "waiting", "placing"}

\* What row and balances of an order have to do with the answer of Binance, and
\* that with the order: the answer is the only source of both.
OrderOK(o) ==
  /\ place[o].pc \in Early => exchange[o] = NoOrder /\ place[o].resp = NoOrder
  /\ place[o].resp.executed <= exchange[o].executed
  /\ place[o].resp.executed > 0 => place[o].resp.status \in {"PARTIALLY_FILLED", "FILLED", "EXPIRED"}
  /\ exchange[o].status \in {"NEW", "PARTIALLY_FILLED"} => exchange[o].executed < Quantity[o]
  /\ trades[o] \in {NoOrder, place[o].resp}
  /\ moved[o] \in {0, place[o].resp.executed}
  /\ place[o].pc \in Early \cup {"accepted", "inserting", "moving"} => moved[o] = 0
  /\ place[o].pc \in {"inserting", "moving", "listing", "success"} => place[o].resp.executed > 0
  /\ place[o].pc \in {"listing", "success"} /\ place[o].resp.status # "EXPIRED" /\ o \notin Rowless =>
       moved[o] = place[o].resp.executed

IInv == TypeOK /\ \A o \in Orders : OrderOK(o)
-----------------------------------------------------------------------------
(* What steps have in common.                                              *)

LEMMA KnownFacts ==
  /\ NoOrder.executed = 0 /\ NoOrder \notin Known
  /\ \A k \in Known \cup {NoOrder} : k.executed \in Nat
  /\ \A o \in Orders, q \in Nat :
       q <= Quantity[o] =>
         /\ Fills(o, q) \in Known /\ Fills(o, q).executed = q
         /\ q > 0 => Fills(o, q).status \in {"PARTIALLY_FILLED", "FILLED"}
         /\ Fills(o, q).status \in {"NEW", "PARTIALLY_FILLED"} => q < Quantity[o]
  BY BinanceTradesAssumption DEF Known, NoOrder, Statuses, Fills

LEMMA InitOK == Init => IInv
<1> SUFFICES ASSUME Init PROVE IInv
  OBVIOUS
<1>1. TypeOK
  BY BinanceTradesAssumption DEF Init, TypeOK, Steps
<1>2. ASSUME NEW o \in Orders
      PROVE  OrderOK(o)
  <2>1. /\ place[o].pc = "idle" /\ place[o].resp = NoOrder /\ exchange[o] = NoOrder
        /\ trades[o] = NoOrder /\ moved[o] = 0
    BY DEF Init
  <2>2. NoOrder.executed = 0 /\ NoOrder.status = "none"
    BY DEF NoOrder
  <2> QED BY <2>1, <2>2 DEF OrderOK, Early
<1> QED BY <1>1, <1>2 DEF IInv

\* The orders, their rows and balances stay, and so do the calls about them.
LEMMA OrdersUntouched ==
  ASSUME IInv, UNCHANGED <<place, exchange, trades, moved>>
  PROVE  (\A o \in Orders : OrderOK(o))'
  BY DEF IInv, OrderOK

\* One order changes.
LEMMA OneOrder ==
  ASSUME IInv, NEW o \in Orders, OrderOK(o)',
         \A p \in Orders \ {o} : /\ place'[p] = place[p] /\ exchange'[p] = exchange[p]
                                 /\ trades'[p] = trades[p] /\ moved'[p] = moved[p]
  PROVE  (\A p \in Orders : OrderOK(p))'
<1>1. ASSUME NEW p \in Orders \ {o}
      PROVE  OrderOK(p)'
  BY DEF IInv, OrderOK
<1> QED BY <1>1

\* A call of placeOrder goes on, without a change of row or balances.
LEMMA PlaceGoes ==
  ASSUME IInv, NEW o \in Orders, NEW pc \in Steps, Goes(o, pc), ws' \in {"none", "connecting", "open", "closed"},
         fresh' \in BOOLEAN, faults' \in Nat,
         UNCHANGED <<up, cancel, exchange, trades, moved, handlers, job, jobs, restarts>>,
         pc \in Early => place[o].pc \in Early,
         pc \notin {"idle", "accepted", "moving", "listing"},
         pc = "inserting" => place[o].pc = "accepted" /\ place[o].resp.executed > 0,
         pc = "success" => place[o].pc = "listing"
  PROVE  IInv'
<1>1. /\ place' \in [Orders -> [pc: Steps, resp: Known \cup {NoOrder}]]
      /\ place'[o].pc = pc /\ place'[o].resp = place[o].resp
      /\ \A p \in Orders \ {o} : place'[p] = place[p]
  BY DEF IInv, TypeOK, Goes
<1>2. TypeOK'
  BY <1>1 DEF IInv, TypeOK
<1>3. OrderOK(o)
  BY DEF IInv
<1>4. OrderOK(o)'
  BY <1>1, <1>3 DEF OrderOK, Early
<1> QED BY <1>1, <1>2, <1>4, OneOrder DEF IInv

-----------------------------------------------------------------------------
(* placeOrder.                                                             *)

LEMMA StartStep ==
  ASSUME IInv, NEW o \in Orders, Start(o)
  PROVE  IInv'
<1>1. PICK pc \in {"placing", "subscribing"} : Goes(o, pc)
  BY DEF Start
<1> QED BY <1>1, PlaceGoes DEF Start, Early, Steps, outside, IInv, TypeOK

LEMMA SubscribeStep ==
  ASSUME IInv, NEW o \in Orders, Subscribe(o)
  PROVE  IInv'
<1>1. PICK pc \in {"placing", "waiting"} : Goes(o, pc)
  BY DEF Subscribe
<1> QED BY <1>1, PlaceGoes DEF Subscribe, Early, Steps, outside, IInv, TypeOK

LEMMA SubscribeFailsStep ==
  ASSUME IInv, NEW o \in Orders, SubscribeFails(o)
  PROVE  IInv'
<1>1. PICK pc \in {"failed", "waiting"} : Goes(o, pc)
  BY DEF SubscribeFails
<1> QED BY <1>1, PlaceGoes DEF SubscribeFails, Early, Steps, outside, IInv, TypeOK

LEMMA WaitStep ==
  ASSUME IInv, NEW o \in Orders, Wait(o)
  PROVE  IInv'
<1>1. PICK pc \in {"placing", "failed"} : Goes(o, pc)
  BY DEF Wait
<1> QED BY <1>1, PlaceGoes DEF Wait, Early, Steps, outside, IInv, TypeOK

LEMMA RefuseStep ==
  ASSUME IInv, NEW o \in Orders, Refuse(o)
  PROVE  IInv'
<1>1. PICK pc \in {"failed"} : Goes(o, pc)
  BY DEF Refuse
<1> QED BY <1>1, PlaceGoes DEF Refuse, Early, Steps, outside, IInv, TypeOK

LEMMA AnswerStep ==
  ASSUME IInv, NEW o \in Orders, Answer(o)
  PROVE  IInv'
<1>1. CASE place[o].resp.executed = 0
  <2>1. Goes(o, "failed")
    BY <1>1 DEF Answer
  <2> QED BY <2>1, PlaceGoes DEF Answer, outside, Early, Steps, IInv, TypeOK
<1>2. CASE place[o].resp.executed # 0
  <2>1. Goes(o, "inserting")
    BY <1>2 DEF Answer
  <2>2. place[o].resp.executed > 0
    BY <1>2, KnownFacts DEF IInv, TypeOK
  <2> QED BY <2>1, <2>2, PlaceGoes DEF Answer, outside, Early, Steps, IInv, TypeOK
<1> QED BY <1>1, <1>2

LEMMA ListStep ==
  ASSUME IInv, NEW o \in Orders, List(o)
  PROVE  IInv'
<1>1. PICK pc \in {"success"} : Goes(o, pc)
  BY DEF List
<1> QED BY <1>1, PlaceGoes DEF List, Early, Steps, outside, IInv, TypeOK

LEMMA PlaceFailsStep ==
  ASSUME IInv, NEW o \in Orders, PlaceFails(o)
  PROVE  IInv'
<1>1. PICK pc \in {"failed"} : Goes(o, pc)
  BY DEF PlaceFails
<1> QED BY <1>1, PlaceGoes DEF PlaceFails, Early, Steps, outside, IInv, TypeOK

LEMMA AcceptStep ==
  ASSUME IInv, NEW o \in Orders, Accept(o)
  PROVE  IInv'
<1>1. PICK executed \in 0 .. Quantity[o], type \in {"LIMIT", "MARKET"} :
        /\ exchange' = [exchange EXCEPT ![o] =
             IF type = "LIMIT" \/ executed = Quantity[o] THEN Fills(o, executed)
             ELSE [status |-> "EXPIRED", executed |-> executed]]
        /\ \E amounts \in SUBSET (1 .. executed) : Report(o, amounts)
  BY DEF Accept
<1>9. executed \in Nat /\ executed <= Quantity[o] /\ Quantity[o] \in Nat
  BY BinanceTradesAssumption
<1>2. /\ exchange' \in [Orders -> Known \cup {NoOrder}]
      /\ exchange'[o] \in Known /\ exchange'[o].executed = executed
      /\ executed > 0 => exchange'[o].status \in {"PARTIALLY_FILLED", "FILLED", "EXPIRED"}
      /\ exchange'[o].status \in {"NEW", "PARTIALLY_FILLED"} => executed < Quantity[o]
      /\ \A p \in Orders \ {o} : exchange'[p] = exchange[p]
  <2> DEFINE new == IF type = "LIMIT" \/ executed = Quantity[o] THEN Fills(o, executed)
                    ELSE [status |-> "EXPIRED", executed |-> executed]
  <2>1. /\ new \in Known /\ new.executed = executed
        /\ executed > 0 => new.status \in {"PARTIALLY_FILLED", "FILLED", "EXPIRED"}
        /\ new.status \in {"NEW", "PARTIALLY_FILLED"} => executed < Quantity[o]
    BY <1>9, KnownFacts DEF Known, Statuses
  <2>2. exchange' = [exchange EXCEPT ![o] = new]
    BY <1>1
  <2> HIDE DEF new
  <2> QED BY <2>1, <2>2 DEF IInv, TypeOK
<1>3. /\ place' \in [Orders -> [pc: Steps, resp: Known \cup {NoOrder}]]
      /\ place'[o].pc = "accepted" /\ place'[o].resp = exchange'[o]
      /\ \A p \in Orders \ {o} : place'[p] = place[p]
  BY <1>2 DEF Accept, IInv, TypeOK, Steps
<1>4. handlers' \subseteq [of: Trade, pc: {"sent", "adding", "subscribing"}]
  BY <1>1, <1>9 DEF Report, IInv, TypeOK, Trade
<1>5. TypeOK'
  BY <1>2, <1>3, <1>4 DEF Accept, IInv, TypeOK
<1>6. trades'[o] = NoOrder /\ moved'[o] = 0
  BY DEF Accept, IInv, OrderOK, Early
<1>7. OrderOK(o)'
  BY <1>2, <1>3, <1>6, KnownFacts DEF OrderOK, Early
<1>8. \A p \in Orders \ {o} : trades'[p] = trades[p] /\ moved'[p] = moved[p]
  BY DEF Accept
<1> QED BY <1>2, <1>3, <1>5, <1>7, <1>8, OneOrder DEF IInv

LEMMA InsertRowStep ==
  ASSUME IInv, NEW o \in Orders, InsertRow(o)
  PROVE  IInv'
<1> DEFINE pc == IF place[o].resp.status \in {"FILLED", "PARTIALLY_FILLED"} THEN "moving" ELSE "listing"
<1>1. /\ place' = [place EXCEPT ![o].pc = pc] /\ trades' = [trades EXCEPT ![o] = place[o].resp]
      /\ place[o].pc = "inserting"
      /\ UNCHANGED <<up, cancel, exchange, moved, ws, fresh, handlers, job, jobs, faults, restarts>>
  BY DEF InsertRow, Goes
<1>2. pc \in Steps
  BY DEF Steps
<1>3. OrderOK(o) /\ place[o].resp \in Known \cup {NoOrder}
  BY DEF IInv, TypeOK
<1>4. pc = "listing" => place[o].resp.status = "EXPIRED"
  BY <1>1, <1>3 DEF OrderOK
<1>5. pc \in {"moving", "listing"}
  OBVIOUS
<1> HIDE DEF pc
<1>6. /\ place' \in [Orders -> [pc: Steps, resp: Known \cup {NoOrder}]]
      /\ place'[o].pc = pc /\ place'[o].resp = place[o].resp
      /\ \A p \in Orders \ {o} : place'[p] = place[p]
  BY <1>1, <1>2 DEF IInv, TypeOK
<1>7. /\ trades' \in [Orders -> Known \cup {NoOrder}] /\ trades'[o] = place[o].resp
      /\ \A p \in Orders \ {o} : trades'[p] = trades[p]
  BY <1>1, <1>3 DEF IInv, TypeOK
<1>8. TypeOK'
  BY <1>1, <1>6, <1>7 DEF IInv, TypeOK
<1>9. OrderOK(o)'
  BY <1>1, <1>3, <1>4, <1>5, <1>6, <1>7 DEF OrderOK, Early
<1> QED BY <1>1, <1>6, <1>7, <1>8, <1>9, OneOrder DEF IInv

LEMMA MoveBalancesStep ==
  ASSUME IInv, NEW o \in Orders, MoveBalances(o)
  PROVE  IInv'
<1>1. /\ place[o].pc = "moving"
      /\ UNCHANGED <<up, cancel, exchange, trades, ws, fresh, handlers, job, jobs, faults, restarts>>
  BY DEF MoveBalances
<1>2. OrderOK(o) /\ moved[o] = 0 /\ place[o].resp.executed \in Nat
  BY <1>1, KnownFacts DEF IInv, TypeOK, OrderOK
<1>3. PICK pc \in {"failed", "listing"} :
        /\ place' = [place EXCEPT ![o].pc = pc]
        /\ \/ pc = "failed" /\ UNCHANGED moved
           \/ pc = "listing" /\ moved' = [moved EXCEPT ![o] =
                IF o \in Rowless THEN @ ELSE @ + place[o].resp.executed]
  BY DEF MoveBalances, Goes
<1>4. /\ place' \in [Orders -> [pc: Steps, resp: Known \cup {NoOrder}]]
      /\ place'[o].pc = pc /\ place'[o].resp = place[o].resp
      /\ \A p \in Orders \ {o} : place'[p] = place[p]
  BY <1>3 DEF IInv, TypeOK, Steps
<1>5. /\ moved' \in [Orders -> Nat] /\ moved'[o] \in {0, place[o].resp.executed}
      /\ pc = "listing" /\ o \notin Rowless => moved'[o] = place[o].resp.executed
      /\ \A p \in Orders \ {o} : moved'[p] = moved[p]
  BY <1>2, <1>3, BinanceTradesAssumption DEF IInv, TypeOK
<1>6. TypeOK'
  BY <1>1, <1>4, <1>5 DEF IInv, TypeOK
<1>7. OrderOK(o)'
  BY <1>1, <1>2, <1>4, <1>5 DEF OrderOK, Early
<1>8. (\A p \in Orders : OrderOK(p))'
  BY <1>1, <1>4, <1>5, <1>7, OneOrder
<1> QED BY <1>6, <1>8 DEF IInv

-----------------------------------------------------------------------------
(* Binance and cancelOrder.                                                *)

LEMMA FillStep ==
  ASSUME IInv, NEW o \in Orders, Fill(o)
  PROVE  IInv'
<1> DEFINE executed == exchange[o].executed + 1
<1>1. /\ exchange[o] \in Known \cup {NoOrder} /\ exchange[o] # NoOrder
      /\ exchange[o].status \in {"NEW", "PARTIALLY_FILLED"}
  BY DEF Fill, IInv, TypeOK, NoOrder
<1>2. executed \in Nat /\ executed > 0 /\ executed <= Quantity[o]
  BY <1>1, BinanceTradesAssumption DEF IInv, OrderOK, Known
<1>3. exchange' = [exchange EXCEPT ![o] = Fills(o, executed)] /\ Report(o, {executed})
  BY DEF Fill
<1> HIDE DEF executed
<1>4. /\ exchange' \in [Orders -> Known \cup {NoOrder}] /\ exchange'[o] = Fills(o, executed)
      /\ \A p \in Orders \ {o} : exchange'[p] = exchange[p]
  BY <1>2, <1>3, KnownFacts DEF IInv, TypeOK
<1>5. handlers' \subseteq [of: Trade, pc: {"sent", "adding", "subscribing"}]
  BY <1>2, <1>3 DEF Report, IInv, TypeOK, Trade
<1>6. TypeOK'
  BY <1>4, <1>5 DEF Fill, IInv, TypeOK
<1>7. OrderOK(o) /\ executed = exchange[o].executed + 1 /\ place[o].resp.executed \in Nat
      /\ exchange[o].executed \in Nat
  BY <1>1, KnownFacts DEF IInv, TypeOK, executed
<1>8. /\ Fills(o, executed).executed = executed
      /\ Fills(o, executed).status \in {"NEW", "PARTIALLY_FILLED"} => executed < Quantity[o]
  BY <1>2, KnownFacts
<1>9. UNCHANGED <<place, trades, moved>>
  BY DEF Fill
<1>10. place[o].pc \notin Early
  BY <1>1, <1>7 DEF OrderOK
<1>11. place[o].resp.executed <= executed
  BY <1>7 DEF OrderOK
<1>12. /\ exchange'[o].executed = executed
       /\ exchange'[o].status \in {"NEW", "PARTIALLY_FILLED"} => exchange'[o].executed < Quantity[o]
  BY <1>4, <1>8
<1>13. place'[o] = place[o] /\ trades'[o] = trades[o] /\ moved'[o] = moved[o]
  BY <1>9
<1>14. OrderOK(o)'
  <2>1. place'[o].pc \in Early => exchange'[o] = NoOrder /\ place'[o].resp = NoOrder
    BY <1>10, <1>13
  <2>2. place'[o].resp.executed <= exchange'[o].executed
    <3>1. place'[o].resp.executed = place[o].resp.executed /\ exchange'[o].executed = executed
      BY <1>12, <1>13
    <3> QED BY <3>1, <1>11
  <2>3. exchange'[o].status \in {"NEW", "PARTIALLY_FILLED"} => exchange'[o].executed < Quantity[o]
    BY <1>12
  <2>4. OrderOK(o)
    BY <1>7
  <2> QED BY <1>13, <2>1, <2>2, <2>3, <2>4 DEF OrderOK
<1> QED BY <1>4, <1>6, <1>9, <1>14, OneOrder DEF IInv

LEMMA CancelStep ==
  ASSUME IInv, NEW o \in Orders, Cancel(o)
  PROVE  IInv'
<1>1. exchange[o] \in Known /\ exchange[o].status \in {"NEW", "PARTIALLY_FILLED"}
  BY DEF Cancel, IInv, TypeOK, NoOrder
<1> DEFINE new == [exchange[o] EXCEPT !.status = "CANCELED"]
<1>2. new \in Known /\ new.executed = exchange[o].executed /\ new.status = "CANCELED"
  BY <1>1 DEF Known, Statuses
<1>3. exchange' = [exchange EXCEPT ![o] = new]
  BY DEF Cancel
<1> HIDE DEF new
<1>4. /\ exchange' \in [Orders -> Known \cup {NoOrder}] /\ exchange'[o] = new
      /\ \A p \in Orders \ {o} : exchange'[p] = exchange[p]
  BY <1>2, <1>3 DEF IInv, TypeOK
<1>5. TypeOK'
  BY <1>4 DEF Cancel, IInv, TypeOK
<1>6. UNCHANGED <<place, trades, moved>> /\ OrderOK(o) /\ exchange[o] # NoOrder
  BY <1>1, KnownFacts DEF Cancel, IInv
<1>7. OrderOK(o)'
  BY <1>2, <1>4, <1>6 DEF OrderOK
<1> QED BY <1>4, <1>5, <1>6, <1>7, OneOrder DEF IInv

LEMMA DeleteRowStep ==
  ASSUME IInv, NEW o \in Orders, DeleteRow(o)
  PROVE  IInv'
<1>1. /\ trades' \in [Orders -> Known \cup {NoOrder}] /\ trades'[o] \in {trades[o], NoOrder}
      /\ \A p \in Orders \ {o} : trades'[p] = trades[p]
  BY DEF DeleteRow, IInv, TypeOK
<1>2. TypeOK'
  BY <1>1 DEF DeleteRow, IInv, TypeOK
<1>3. UNCHANGED <<place, exchange, moved>> /\ OrderOK(o)
  BY DEF DeleteRow, IInv
<1>4. OrderOK(o)'
  BY <1>1, <1>3 DEF OrderOK
<1> QED BY <1>1, <1>2, <1>3, <1>4, OneOrder DEF IInv

LEMMA MissRowStep ==
  ASSUME IInv, NEW o \in Orders, MissRow(o)
  PROVE  IInv'
<1>1. TypeOK'
  BY DEF MissRow, IInv, TypeOK
<1> QED BY <1>1, OrdersUntouched DEF MissRow, IInv

-----------------------------------------------------------------------------
(* The stream, the queue, the process: no order, row or balance changes.   *)

LEMMA QueueStep ==
  ASSUME IInv, NEW h \in handlers, Queue(h)
  PROVE  IInv'
<1> DEFINE new == [of |-> h.of, state |-> "waiting", awaited |-> FALSE]
           moving == [h EXCEPT !.pc = "adding"]
<1>1. h \in [of: Trade, pc: {"sent", "adding", "subscribing"}]
  BY DEF IInv, TypeOK
<1>2. new \in Job /\ moving \in [of: Trade, pc: {"sent", "adding", "subscribing"}]
  BY <1>1 DEF Job
<1>3. jobs' = jobs \cup {new} /\ handlers' = (handlers \ {h}) \cup {moving}
  BY DEF Queue
<1> HIDE DEF new, moving
<1>4. TypeOK'
  BY <1>2, <1>3 DEF Queue, IInv, TypeOK
<1> QED BY <1>4, OrdersUntouched DEF Queue, IInv

LEMMA RememberStep ==
  ASSUME IInv, NEW h \in handlers, Remember(h)
  PROVE  IInv'
<1> DEFINE moving == [h EXCEPT !.pc = "subscribing"]
<1>1. h.of \in Trade /\ moving \in [of: Trade, pc: {"sent", "adding", "subscribing"}]
  BY DEF IInv, TypeOK
<1>2. handlers' = (handlers \ {h}) \cup {moving} /\ job' = h.of
  BY DEF Remember
<1> HIDE DEF moving
<1>3. TypeOK'
  BY <1>1, <1>2 DEF Remember, IInv, TypeOK
<1> QED BY <1>3, OrdersUntouched DEF Remember, IInv

LEMMA AwaitEndStep ==
  ASSUME IInv, NEW h \in handlers, AwaitEnd(h)
  PROVE  IInv'
<1>1. \A j \in jobs : j \in Job /\ [j EXCEPT !.awaited = TRUE] \in Job
  BY DEF IInv, TypeOK, Job
<1>2. jobs' \subseteq Job /\ handlers' \subseteq handlers
  BY <1>1 DEF AwaitEnd
<1>3. TypeOK'
  BY <1>2 DEF AwaitEnd, IInv, TypeOK
<1> QED BY <1>3, OrdersUntouched DEF AwaitEnd, IInv

\* A job is given out, worked on, and ends.
LEMMA JobChanges ==
  ASSUME IInv, NEW j \in jobs,
         NEW state \in {"reading", "updating", "completed", "failed"},
         jobs' \subseteq jobs \cup {[j EXCEPT !.state = state]},
         job' \in {job, NoJob}, faults' \in Nat,
         UNCHANGED <<up, place, cancel, exchange, trades, moved, ws, fresh, handlers, restarts>>
  PROVE  IInv'
<1>1. [j EXCEPT !.state = state] \in Job
  BY DEF IInv, TypeOK, Job
<1>2. TypeOK'
  BY <1>1 DEF IInv, TypeOK
<1> QED BY <1>2, OrdersUntouched DEF IInv

LEMMA StartJobStep ==
  ASSUME IInv, NEW j \in jobs, StartJob(j)
  PROVE  IInv'
<1>1. jobs' \subseteq jobs \cup {[j EXCEPT !.state = "reading"]}
  BY DEF StartJob, Becomes
<1> QED BY <1>1, JobChanges DEF StartJob, beside, IInv, TypeOK

LEMMA ReadFailsStep ==
  ASSUME IInv, NEW j \in jobs, ReadFails(j)
  PROVE  IInv'
<1>1. jobs' \subseteq jobs \cup {[j EXCEPT !.state = "failed"]}
  BY DEF ReadFails, Becomes
<1> QED BY <1>1, JobChanges DEF ReadFails, beside, IInv, TypeOK

LEMMA UpdateTradeStep ==
  ASSUME IInv, NEW j \in jobs, UpdateTrade(j)
  PROVE  IInv'
<1>1. jobs' \subseteq jobs \cup {[j EXCEPT !.state = "failed"]}
  BY DEF UpdateTrade, Becomes
<1> QED BY <1>1, JobChanges DEF UpdateTrade, beside, IInv, TypeOK

LEMMA ReadOrderStep ==
  ASSUME IInv, NEW j \in jobs, ReadOrder(j)
  PROVE  IInv'
<1>1. PICK state \in {"updating", "completed"} : jobs' \subseteq jobs \cup {[j EXCEPT !.state = state]}
  BY DEF ReadOrder, Becomes
<1> QED BY <1>1, JobChanges DEF ReadOrder, beside, IInv, TypeOK

LEMMA FinishedStep ==
  ASSUME IInv, NEW j \in jobs, Finished(j) \/ Removed(j)
  PROVE  IInv'
<1>1. /\ jobs' \subseteq jobs /\ job' \in {job, NoJob}
      /\ UNCHANGED <<up, place, cancel, exchange, trades, moved, ws, fresh, handlers, faults, restarts>>
  BY DEF Finished, Removed, beside
<1>2. TypeOK'
  BY <1>1 DEF IInv, TypeOK
<1> QED BY <1>1, <1>2, OrdersUntouched DEF IInv

\* A call that is cut off has no answer; nothing else of an order changes.
LEMMA ExitStep ==
  ASSUME IInv, Exit, faults' \in Nat
  PROVE  IInv'
<1>1. /\ place' \in [Orders -> [pc: Steps, resp: Known \cup {NoOrder}]]
      /\ \A o \in Orders : /\ place'[o].resp = place[o].resp
                           /\ \/ place'[o].pc = "lost"
                              \/ place'[o].pc = place[o].pc /\ place[o].pc \in {"idle", "success", "failed"}
  BY DEF Exit, IInv, TypeOK, Steps
<1>2. cancel' \in [Orders -> {"idle", "deleting", "deleted", "missed"}]
  BY DEF Exit, IInv, TypeOK
<1>3. jobs' \subseteq Job
  <2>1. \A j \in jobs : [j EXCEPT !.awaited = FALSE] \in Job
    BY DEF IInv, TypeOK, Job
  <2> QED BY <2>1 DEF Exit
<1>4. TypeOK'
  BY <1>1, <1>2, <1>3 DEF Exit, IInv, TypeOK
<1>5. UNCHANGED <<exchange, trades, moved>>
  BY DEF Exit
<1>6. ASSUME NEW o \in Orders
      PROVE  OrderOK(o)'
  <2>1. OrderOK(o)
    BY DEF IInv
  <2> QED BY <1>1, <1>5, <2>1 DEF OrderOK, Early
<1> QED BY <1>4, <1>6 DEF IInv

LEMMA RestartStep ==
  ASSUME IInv, Restart
  PROVE  IInv'
<1>1. jobs' \subseteq Job
  <2>1. \A j \in jobs : [j EXCEPT !.state = "waiting"] \in Job /\ j \in Job
    BY DEF IInv, TypeOK, Job
  <2>2. jobs' = {IF j.state \in {"reading", "updating"} THEN [j EXCEPT !.state = "waiting"] ELSE j : j \in jobs}
    BY DEF Restart
  <2> QED BY <2>1, <2>2
<1>2. TypeOK'
  BY <1>1 DEF Restart, beside, IInv, TypeOK
<1> QED BY <1>2, OrdersUntouched DEF Restart, beside, IInv

\* The socket opens or closes, or its key gets old.
LEMMA StreamStep ==
  ASSUME IInv, SocketOpens \/ SocketCloses \/ KeyAges
  PROVE  IInv'
<1>1. /\ ws' \in {"none", "connecting", "open", "closed"} /\ fresh' \in BOOLEAN /\ faults' \in Nat
      /\ handlers' \subseteq handlers
      /\ UNCHANGED <<up, place, cancel, exchange, trades, moved, job, jobs, restarts>>
  <2>1. CASE SocketOpens
    BY <2>1 DEF SocketOpens, IInv, TypeOK
  <2>2. CASE SocketCloses
    BY <2>2 DEF SocketCloses, IInv, TypeOK
  <2>3. CASE KeyAges
    BY <2>3 DEF KeyAges, IInv, TypeOK
  <2> QED BY <2>1, <2>2, <2>3
<1>2. TypeOK'
  BY <1>1 DEF IInv, TypeOK
<1> QED BY <1>1, <1>2, OrdersUntouched DEF IInv

-----------------------------------------------------------------------------
(* The theorems.                                                           *)

LEMMA NextStep ==
  ASSUME IInv, [Next]_vars
  PROVE  IInv'
<1>1. ASSUME NEW o \in Orders, PlaceSteps(o)
      PROVE  IInv'
  BY <1>1, StartStep, SubscribeStep, SubscribeFailsStep, WaitStep, AcceptStep,
     RefuseStep, AnswerStep, InsertRowStep, MoveBalancesStep, ListStep, PlaceFailsStep DEF PlaceSteps
<1>2. ASSUME NEW o \in Orders, Fill(o) \/ Cancel(o) \/ DeleteRow(o) \/ MissRow(o)
      PROVE  IInv'
  BY <1>2, FillStep, CancelStep, DeleteRowStep, MissRowStep
<1>3. ASSUME NEW h \in handlers, MessageSteps(h)
      PROVE  IInv'
  BY <1>3, QueueStep, RememberStep, AwaitEndStep DEF MessageSteps
<1>4. ASSUME NEW j \in jobs, JobSteps(j)
      PROVE  IInv'
  <2>1. CASE FinishedThrows(j)
    BY <2>1, ExitStep DEF FinishedThrows, IInv, TypeOK
  <2> QED BY <1>4, <2>1, StartJobStep, ReadOrderStep, ReadFailsStep, UpdateTradeStep, FinishedStep
          DEF JobSteps
<1>5. CASE Crash
  BY <1>5, ExitStep DEF Crash, IInv, TypeOK
<1>6. CASE SocketOpens \/ SocketCloses \/ KeyAges \/ Restart
  BY <1>6, StreamStep, RestartStep
<1>7. CASE UNCHANGED vars
  <2>1. TypeOK'
    BY <1>7 DEF vars, IInv, TypeOK
  <2> QED BY <1>7, <2>1, OrdersUntouched DEF vars, IInv
<1> QED BY <1>1, <1>2, <1>3, <1>4, <1>5, <1>6, <1>7 DEF Next

\* The inductive invariant: the answer of Binance to placeOrder is the only
\* source of row and balances, and is never ahead of the order itself.
THEOREM Invariant == Spec => []IInv
  BY InitOK, NextStep, PTL DEF Spec

\* The variables have the types of code and tables, for every number of orders.
THEOREM TypeCorrect == Spec => []TypeOK
<1>1. IInv => TypeOK
  BY DEF IInv
<1> QED BY <1>1, Invariant, PTL

\* The balances of tbl_wallet never move further for an order than Binance has
\* executed (placeOrder, processTrade).
THEOREM WalletsFollow == Spec => []WalletFollowsExchange
<1>1. IInv => WalletFollowsExchange
  <2> SUFFICES ASSUME IInv, NEW o \in Orders
               PROVE  moved[o] <= exchange[o].executed
                      /\ (moved[o] # 0 => moved[o] = place[o].resp.executed)
    BY DEF WalletFollowsExchange
  <2>1. place[o].resp \in Known \cup {NoOrder} /\ exchange[o] \in Known \cup {NoOrder}
    BY DEF IInv, TypeOK
  <2>2. place[o].resp.executed \in Nat /\ exchange[o].executed \in Nat
    BY <2>1, KnownFacts
  <2>3. moved[o] \in {0, place[o].resp.executed} /\ place[o].resp.executed <= exchange[o].executed
    BY DEF IInv, OrderOK
  <2> QED BY <2>2, <2>3
<1> QED BY <1>1, Invariant, PTL

\* A row of binance_trade is never ahead of the order at Binance.
THEOREM RowsFollow == Spec => []RowFollowsExchange
<1>1. IInv => RowFollowsExchange
  <2> SUFFICES ASSUME IInv, NEW o \in Orders
               PROVE  trades[o].executed <= exchange[o].executed
    BY DEF RowFollowsExchange
  <2>1. exchange[o] \in Known \cup {NoOrder}
    BY DEF IInv, TypeOK
  <2>2. exchange[o].executed \in Nat /\ NoOrder.executed = 0
    BY <2>1, KnownFacts
  <2>3. trades[o] \in {NoOrder, place[o].resp} /\ place[o].resp.executed <= exchange[o].executed
    BY DEF IInv, OrderOK
  <2> QED BY <2>2, <2>3
<1> QED BY <1>1, Invariant, PTL

\* Who is told that the order was placed has the fills booked.
THEOREM SuccessBooked == Spec => []SuccessIsBooked
<1>1. IInv => SuccessIsBooked
  BY DEF IInv, OrderOK, SuccessIsBooked
<1> QED BY <1>1, Invariant, PTL

-----------------------------------------------------------------------------
(* The row of an order that was cancelled.                                 *)

\* placeOrder has not inserted the row yet.
Rowing == Early \cup {"accepted", "inserting"}

\* There is no row before placeOrder inserts it, and so none that can be deleted.
RowAge(o) ==
  /\ place[o].pc \in Rowing => trades[o] = NoOrder /\ cancel[o] # "deleted"
  /\ cancel[o] = "deleted" => trades[o] = NoOrder

\* A call of placeOrder never returns to what comes before the insert.
LEMMA RowingStays ==
  ASSUME IInv, [Next]_vars, NEW o \in Orders, place'[o].pc \in Rowing
  PROVE  place[o].pc \in Rowing /\ ~InsertRow(o)
<1>1. place \in [Orders -> [pc: Steps, resp: Known \cup {NoOrder}]]
  BY DEF IInv, TypeOK
<1>2. ASSUME NEW p \in Orders, NEW pc, Goes(p, pc), pc \in Rowing => place[p].pc \in Rowing
      PROVE  place[o].pc \in Rowing
  BY <1>1, <1>2 DEF Goes
<1>3. ASSUME NEW p \in Orders, InsertRow(p)
      PROVE  p # o
  <2>1. PICK pc \in {"moving", "listing"} : Goes(p, pc)
    BY <1>3 DEF InsertRow
  <2> QED BY <1>1, <2>1 DEF Goes, Rowing, Early
<1>4. ASSUME NEW p \in Orders, PlaceSteps(p)
      PROVE  place[o].pc \in Rowing
  <2>1. CASE Accept(p)
    BY <1>1, <2>1 DEF Accept, Rowing, Early
  <2>2. CASE ~Accept(p)
    <3>1. PICK pc : Goes(p, pc) /\ (pc \in Rowing => place[p].pc \in Rowing)
      <4>1. CASE Start(p)
        BY <4>1 DEF Start, Rowing, Early
      <4>2. CASE Subscribe(p) \/ SubscribeFails(p)
        BY <4>2 DEF Subscribe, SubscribeFails, Rowing, Early
      <4>3. CASE Wait(p) \/ Refuse(p)
        BY <4>3 DEF Wait, Refuse, Rowing, Early
      <4>4. CASE Answer(p)
        BY <4>4 DEF Answer, Rowing, Early
      <4>5. CASE InsertRow(p) \/ MoveBalances(p) \/ List(p) \/ PlaceFails(p)
        BY <4>5 DEF InsertRow, MoveBalances, List, PlaceFails, Rowing, Early
      <4> QED BY <1>4, <2>2, <4>1, <4>2, <4>3, <4>4, <4>5 DEF PlaceSteps
    <3> QED BY <1>2, <3>1
  <2> QED BY <2>1, <2>2
<1>5. ASSUME Exit
      PROVE  place[o].pc \in Rowing
  BY <1>1, <1>5 DEF Exit, Rowing, Early
<1>6. ASSUME UNCHANGED place
      PROVE  place[o].pc \in Rowing
  BY <1>6
<1>7. UNCHANGED place \/ Exit \/ \E p \in Orders : PlaceSteps(p)
  BY DEF Next, Fill, Cancel, DeleteRow, MissRow, MessageSteps, Queue, Remember, AwaitEnd, JobSteps, StartJob,
         ReadOrder, ReadFails, UpdateTrade, Finished, FinishedThrows, Removed, beside, SocketOpens,
         SocketCloses, KeyAges, Crash, Restart, vars
<1> QED BY <1>3, <1>4, <1>5, <1>6, <1>7

\* Who writes to binance_trade, and who deletes from it.
LEMMA RowWriters ==
  ASSUME IInv, [Next]_vars, NEW o \in Orders
  PROVE  /\ trades'[o] = trades[o] \/ (InsertRow(o) /\ cancel' = cancel) \/ DeleteRow(o)
         /\ cancel'[o] = "deleted" => cancel[o] = "deleted" \/ DeleteRow(o)
<1>1. /\ trades \in [Orders -> Known \cup {NoOrder}]
      /\ cancel \in [Orders -> {"idle", "deleting", "deleted", "missed"}]
  BY DEF IInv, TypeOK
<1>2. ASSUME NEW p \in Orders, DeleteRow(p) \/ InsertRow(p)
      PROVE  /\ p # o => trades'[o] = trades[o] /\ cancel'[o] = cancel[o]
             /\ InsertRow(p) => cancel' = cancel
  BY <1>1, <1>2 DEF DeleteRow, InsertRow
<1>3. ASSUME NEW p \in Orders, Cancel(p) \/ MissRow(p)
      PROVE  trades' = trades /\ (cancel'[o] = "deleted" => cancel[o] = "deleted")
  BY <1>1, <1>3 DEF Cancel, MissRow
<1>4. CASE Exit
  BY <1>1, <1>4 DEF Exit
<1>5. \/ UNCHANGED <<trades, cancel>> \/ Exit
      \/ \E p \in Orders : DeleteRow(p) \/ InsertRow(p) \/ Cancel(p) \/ MissRow(p)
  BY DEF Next, PlaceSteps, Start, Subscribe, SubscribeFails, Wait, Accept, Refuse,
         Answer, MoveBalances, List, PlaceFails, outside, Fill, MessageSteps, Queue,
         Remember, AwaitEnd, JobSteps, StartJob, ReadOrder, ReadFails, UpdateTrade, Finished, FinishedThrows,
         Removed, beside, SocketOpens, SocketCloses, KeyAges, Crash, Restart, vars
<1> QED BY <1>2, <1>3, <1>4, <1>5

LEMMA RowAgeStep ==
  ASSUME IInv, \A o \in Orders : RowAge(o), [Next]_vars, NEW o \in Orders
  PROVE  RowAge(o)'
<1>1. RowAge(o)
  OBVIOUS
<1>2. CASE DeleteRow(o)
  <2>1. trades'[o] = NoOrder /\ place' = place /\ trades[o] # NoOrder
    BY <1>2 DEF DeleteRow, IInv, TypeOK
  <2> QED BY <1>1, <2>1 DEF RowAge
<1>3. CASE InsertRow(o) /\ cancel' = cancel
  <2>1. place'[o].pc \notin Rowing
    BY <1>3, RowingStays
  <2>2. cancel'[o] # "deleted"
    BY <1>1, <1>3 DEF InsertRow, RowAge, Rowing
  <2> QED BY <2>1, <2>2 DEF RowAge
<1>4. CASE trades'[o] = trades[o] /\ ~DeleteRow(o)
  <2>1. cancel'[o] = "deleted" => cancel[o] = "deleted"
    BY <1>4, RowWriters
  <2>2. place'[o].pc \in Rowing => place[o].pc \in Rowing
    BY RowingStays
  <2> QED BY <1>1, <1>4, <2>1, <2>2 DEF RowAge
<1> QED BY <1>2, <1>3, <1>4, RowWriters

\* A row that cancelOrder has deleted does not come back, however the call, the
\* jobs about the order and restarts interleave.
THEOREM CancelledStaysGone == Spec => []CancelledRowGone
<1> DEFINE Ages == \A o \in Orders : RowAge(o)
<1>1. Init => IInv /\ Ages
  <2>1. ASSUME Init, NEW o \in Orders
        PROVE  RowAge(o)
    BY <2>1 DEF Init, RowAge
  <2> QED BY <2>1, InitOK
<1>2. IInv /\ Ages /\ [Next]_vars => IInv' /\ Ages'
  BY NextStep, RowAgeStep
<1>3. Ages => CancelledRowGone
  BY DEF RowAge, CancelledRowGone
<1> HIDE DEF Ages
<1> QED BY <1>1, <1>2, <1>3, PTL DEF Spec
=============================================================================
