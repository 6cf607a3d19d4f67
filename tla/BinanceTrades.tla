--------------------------- MODULE BinanceTrades ---------------------------
(***************************************************************************)
(* Orders that are passed on to Binance: placeOrder and cancelOrder of     *)
(* BinanceController, the execution reports on the user data stream, and   *)
(* trade_queue with its consumer.  Both the answer to placeOrder and the   *)
(* reports are about the same order, its row in binance_trade and the      *)
(* balances in tbl_wallet.  The code between two awaits is one step.       *)
(***************************************************************************)
EXTENDS Integers

CONSTANTS
  Orders,      \* one POST placeOrder each, with the order it places
  Quantity,    \* quantity of each order
  Rowless,     \* orders of users without a wallet on the network of the coin
  Columnless,  \* orders in coins for which tbl_wallet has no balance
  Matching,    \* orders whose client id SQL takes to be the user id
  NoJob,       \* null
  MaxFaults,   \* bound: statements and calls that fail, sockets that close
  MaxRestarts  \* bound: restarts of the process

ASSUME BinanceTradesAssumption ==
  /\ Quantity \in [Orders -> Nat \ {0}]
  /\ MaxFaults \in Nat /\ MaxRestarts \in Nat
  /\ NoJob \notin [order: Orders, executed: Nat]

VARIABLES
  up,        \* the process runs
  place,     \* where each call of placeOrder is, and what Binance answered
  cancel,    \* where cancelOrder for each order is
  exchange,  \* the orders at Binance
  trades,    \* binance_trade
  moved,     \* quantity booked for each order in every wallet row of its user
  ws,        \* the socket of the user data stream
  fresh,     \* listner_updated is at most 3000 seconds old
  handlers,  \* messages on the socket, and runs of onmessage
  job,       \* this.job of TradeQueueService
  jobs,      \* trade_queue, in Redis
  faults,    \* calls that failed
  restarts   \* restarts so far

vars == <<up, place, cancel, exchange, trades, moved, ws, fresh, handlers, job, jobs, faults, restarts>>

Statuses == {"NEW", "PARTIALLY_FILLED", "FILLED", "CANCELED", "EXPIRED"}

\* What Binance says of an order.
Known == [status: Statuses, executed: Nat]
NoOrder == [status |-> "none", executed |-> 0]
Fills(o, executed) ==
  [status |-> IF executed = 0 THEN "NEW"
              ELSE IF executed < Quantity[o] THEN "PARTIALLY_FILLED" ELSE "FILLED",
   executed |-> executed]

\* An execution report of a trade is told from others by what it has executed.
Trade == [order: Orders, executed: Nat]

Steps == {"idle", "subscribing", "waiting", "placing", "accepted", "inserting",
          "moving", "listing", "success", "failed", "lost"}

Init ==
  /\ up = TRUE
  /\ place = [o \in Orders |-> [pc |-> "idle", resp |-> NoOrder]]
  /\ cancel = [o \in Orders |-> "idle"]
  /\ exchange = [o \in Orders |-> NoOrder]
  /\ trades = [o \in Orders |-> NoOrder]
  /\ moved = [o \in Orders |-> 0]
  /\ ws = "none"
  /\ fresh \in BOOLEAN
  /\ handlers = {}
  /\ job = NoJob
  /\ jobs = {}
  /\ faults = 0
  /\ restarts = 0

outside == <<cancel, exchange, trades, moved, ws, fresh, handlers, job, jobs>>
-----------------------------------------------------------------------------
(* placeOrder up to the order: the user data stream.                       *)

Goes(o, pc) == place' = [place EXCEPT ![o].pc = pc]

\* lastUpdatedTimeListener: a known socket and a recent key are enough.
Start(o) ==
  /\ up
  /\ place[o].pc = "idle"
  /\ Goes(o, IF fresh /\ ws # "none" THEN "placing" ELSE "subscribing")
  /\ UNCHANGED <<up, outside, faults, restarts>>

\* subscribeListener: a new key; a socket if there is none, or none open.
Subscribe(o) ==
  /\ place[o].pc = "subscribing"
  /\ fresh' = TRUE
  /\ ws' = IF ws \in {"none", "closed"} THEN "connecting" ELSE ws
  /\ Goes(o, IF ws = "open" THEN "placing" ELSE "waiting")
  /\ UNCHANGED <<up, cancel, exchange, trades, moved, handlers, job, jobs, faults, restarts>>

\* No key: the socket there is must do; without one readyState is a TypeError.
SubscribeFails(o) ==
  /\ faults < MaxFaults
  /\ place[o].pc = "subscribing"
  /\ Goes(o, IF ws = "none" THEN "failed" ELSE "waiting")
  /\ faults' = faults + 1
  /\ UNCHANGED <<up, outside, restarts>>

\* waitForOpenConnection gives up after sixteen looks at the socket.
Wait(o) ==
  /\ place[o].pc = "waiting"
  /\ \/ ws = "open" /\ Goes(o, "placing")
     \/ ws # "open" /\ Goes(o, "failed")
  /\ UNCHANGED <<up, outside, faults, restarts>>

SocketOpens ==
  /\ ws = "connecting"
  /\ ws' = "open"
  /\ UNCHANGED <<up, place, cancel, exchange, trades, moved, fresh, handlers, job, jobs, faults, restarts>>

\* What has not come out of the socket is lost.
SocketCloses ==
  /\ faults < MaxFaults
  /\ ws \in {"connecting", "open"}
  /\ ws' = "closed"
  /\ \E lost \in SUBSET {h \in handlers : h.pc = "sent"} : handlers' = handlers \ lost
  /\ faults' = faults + 1
  /\ UNCHANGED <<up, place, cancel, exchange, trades, moved, fresh, job, jobs, restarts>>

KeyAges ==
  /\ fresh
  /\ fresh' = FALSE
  /\ UNCHANGED <<up, place, cancel, exchange, trades, moved, ws, handlers, job, jobs, faults, restarts>>
-----------------------------------------------------------------------------
(* Binance.                                                                *)

\* Reports of trades reach a socket that is open.
Report(o, amounts) ==
  handlers' = handlers \cup
    IF ws = "open" THEN {[of |-> [order |-> o, executed |-> a], pc |-> "sent"] : a \in amounts} ELSE {}

\* A LIMIT order is filled as far as it can be and rests, of a MARKET order the
\* rest expires.  One trade or several fill it.
Accept(o) ==
  /\ place[o].pc = "placing"
  /\ \E executed \in 0 .. Quantity[o], type \in {"LIMIT", "MARKET"} :
       /\ exchange' = [exchange EXCEPT ![o] =
            IF type = "LIMIT" \/ executed = Quantity[o] THEN Fills(o, executed)
            ELSE [status |-> "EXPIRED", executed |-> executed]]
       /\ \E amounts \in SUBSET (1 .. executed) :
            /\ executed > 0 => executed \in amounts
            /\ Report(o, amounts)
  /\ place' = [place EXCEPT ![o] = [pc |-> "accepted", resp |-> exchange'[o]]]
  /\ UNCHANGED <<up, cancel, trades, moved, ws, fresh, job, jobs, faults, restarts>>

\* There is no average price, the quantity is negative, checkAdminWalletBalance finds
\* too little or no such asset in the exchange's own account at Binance, or Binance
\* does not accept the order.
Refuse(o) ==
  /\ place[o].pc = "placing"
  /\ Goes(o, "failed")
  /\ UNCHANGED <<up, outside, faults, restarts>>

\* A resting order trades.
Fill(o) ==
  /\ exchange[o].status \in {"NEW", "PARTIALLY_FILLED"}
  /\ exchange' = [exchange EXCEPT ![o] = Fills(o, exchange[o].executed + 1)]
  /\ Report(o, {exchange[o].executed + 1})
  /\ UNCHANGED <<up, place, cancel, trades, moved, ws, fresh, job, jobs, faults, restarts>>
-----------------------------------------------------------------------------
(* placeOrder after the order.                                             *)

\* fills[0] is read for the row: nothing filled, and it is a TypeError.
Answer(o) ==
  /\ place[o].pc = "accepted"
  /\ Goes(o, IF place[o].resp.executed = 0 THEN "failed" ELSE "inserting")
  /\ UNCHANGED <<up, outside, faults, restarts>>

\* Slip: a status that Binance does not have.
InsertOpenRow(o) ==
  /\ place[o].pc = "inserting"
  /\ trades' = [trades EXCEPT ![o] = [place[o].resp EXCEPT !.status = "OPEN"]]
  /\ Goes(o, IF place[o].resp.status \in {"FILLED", "PARTIALLY_FILLED"} THEN "moving" ELSE "listing")
  /\ UNCHANGED <<up, cancel, exchange, moved, ws, fresh, handlers, job, jobs, faults, restarts>>

InsertRow(o) ==
  /\ place[o].pc = "inserting"
  /\ trades' = [trades EXCEPT ![o] = place[o].resp]
  /\ Goes(o, IF place[o].resp.status \in {"FILLED", "PARTIALLY_FILLED"} THEN "moving" ELSE "listing")
  /\ UNCHANGED <<up, cancel, exchange, moved, ws, fresh, handlers, job, jobs, faults, restarts>>

\* Slip: what Binance has executed by now is booked.
MoveBalancesLater(o) ==
  /\ place[o].pc = "moving"
  /\ IF o \in Columnless THEN Goes(o, "failed") /\ UNCHANGED moved
     ELSE /\ Goes(o, "listing")
          /\ moved' = [moved EXCEPT ![o] = IF o \in Rowless THEN @ ELSE @ + exchange[o].executed]
  /\ UNCHANGED <<up, cancel, exchange, trades, ws, fresh, handlers, job, jobs, faults, restarts>>

\* The statement changes both balances in every row of the user on the network; it
\* may match none, or name a column that does not exist.
MoveBalances(o) ==
  /\ place[o].pc = "moving"
  /\ IF o \in Columnless THEN Goes(o, "failed") /\ UNCHANGED moved
     ELSE /\ Goes(o, "listing")
          /\ moved' = [moved EXCEPT ![o] = IF o \in Rowless THEN @ ELSE @ + place[o].resp.executed]
  /\ UNCHANGED <<up, cancel, exchange, trades, ws, fresh, handlers, job, jobs, faults, restarts>>

List(o) ==
  /\ place[o].pc = "listing"
  /\ Goes(o, "success")
  /\ UNCHANGED <<up, outside, faults, restarts>>

\* A call or statement fails: 'Failed To place Order', or no answer at all.
PlaceFails(o) ==
  /\ up
  /\ faults < MaxFaults
  /\ place[o].pc \in {"idle", "accepted", "inserting", "moving", "listing"}
  /\ Goes(o, "failed")
  /\ faults' = faults + 1
  /\ UNCHANGED <<up, outside, restarts>>
-----------------------------------------------------------------------------
(* cancelOrder.                                                            *)

\* Only a resting order can be cancelled.
Cancel(o) ==
  /\ up
  /\ cancel[o] = "idle"
  /\ exchange[o].status \in {"NEW", "PARTIALLY_FILLED"}
  /\ exchange' = [exchange EXCEPT ![o].status = "CANCELED"]
  /\ cancel' = [cancel EXCEPT ![o] = "deleting"]
  /\ UNCHANGED <<up, place, trades, moved, ws, fresh, handlers, job, jobs, faults, restarts>>

DeleteRow(o) ==
  /\ cancel[o] = "deleting"
  /\ trades[o] # NoOrder
  /\ trades' = [trades EXCEPT ![o] = NoOrder]
  /\ cancel' = [cancel EXCEPT ![o] = "deleted"]
  /\ UNCHANGED <<up, place, exchange, moved, ws, fresh, handlers, job, jobs, faults, restarts>>

\* deleteOrder finds no row: it is not inserted yet, or never, or the user is not
\* the one who placed the order.  Or the statement fails.
MissRow(o) ==
  /\ cancel[o] = "deleting"
  /\ cancel' = [cancel EXCEPT ![o] = "missed"]
  /\ UNCHANGED <<up, place, exchange, trades, moved, ws, fresh, handlers, job, jobs, faults, restarts>>
-----------------------------------------------------------------------------
(* The user data stream and trade_queue.                                   *)

\* onmessage and, once insertEventData has been answered, initiateTradeJob: the job
\* reaches the queue.  The runs of onmessage do not wait for each other.
Queue(h) ==
  /\ h.pc = "sent"
  /\ jobs' = jobs \cup {[of |-> h.of, state |-> "waiting", awaited |-> FALSE]}
  /\ handlers' = (handlers \ {h}) \cup {[h EXCEPT !.pc = "adding"]}
  /\ UNCHANGED <<up, place, cancel, exchange, trades, moved, ws, fresh, job, faults, restarts>>

\* The answer of `add`: the one field for a job holds this one now.
Remember(h) ==
  /\ h.pc = "adding"
  /\ job' = h.of
  /\ handlers' = (handlers \ {h}) \cup {[h EXCEPT !.pc = "subscribing"]}
  /\ UNCHANGED <<up, place, cancel, exchange, trades, moved, ws, fresh, jobs, faults, restarts>>

\* finished() waits for the end of the job, for ever if it is gone by now.
AwaitEnd(h) ==
  /\ h.pc = "subscribing"
  /\ jobs' = {IF j.of = h.of THEN [j EXCEPT !.awaited = TRUE] ELSE j : j \in jobs}
  /\ handlers' = handlers \ {h}
  /\ UNCHANGED <<up, place, cancel, exchange, trades, moved, ws, fresh, job, faults, restarts>>

Becomes(j, state) == jobs' = (jobs \ {j}) \cup {[j EXCEPT !.state = state]}
beside == <<place, cancel, exchange, trades, moved, ws, fresh, handlers>>

StartJob(j) ==
  /\ up
  /\ j.state = "waiting"
  /\ Becomes(j, "reading")
  /\ UNCHANGED <<up, beside, job, faults, restarts>>

\* getOrderFromTable compares user_id with the client id.
Found(o) == o \in Matching /\ trades[o] # NoOrder /\ trades[o].status # "FILLED"

ReadOrder(j) ==
  /\ up
  /\ j.state = "reading"
  /\ Becomes(j, IF Found(j.of.order) THEN "updating" ELSE "completed")
  /\ UNCHANGED <<up, beside, job, faults, restarts>>

ReadFails(j) ==
  /\ up
  /\ faults < MaxFaults
  /\ j.state = "reading"
  /\ Becomes(j, "failed")
  /\ faults' = faults + 1
  /\ UNCHANGED <<up, beside, job, restarts>>

\* Slip: with the comma the statement succeeds and the balances are moved, by
\* `q`, the quantity of the order.
UpdateSucceeds(j) ==
  /\ up
  /\ j.state = "updating"
  /\ Becomes(j, "completed")
  /\ trades' = [trades EXCEPT ![j.of.order] =
                  IF @ = NoOrder THEN @
                  ELSE [Fills(j.of.order, j.of.executed) EXCEPT !.executed = Quantity[j.of.order]]]
  /\ moved' = [moved EXCEPT ![j.of.order] = @ + Quantity[j.of.order]]
  /\ UNCHANGED <<up, place, cancel, exchange, ws, fresh, handlers, job, faults, restarts>>

\* Slip: the row that was read is saved, and not updated in the table.
UpdateSaves(j) ==
  /\ up
  /\ j.state = "updating"
  /\ Becomes(j, "completed")
  /\ trades' = [trades EXCEPT ![j.of.order] = Fills(j.of.order, j.of.executed)]
  /\ UNCHANGED <<up, place, cancel, exchange, moved, ws, fresh, handlers, job, faults, restarts>>

\* updateBinanceTrade is no valid SQL, a comma is missing: the job fails.
UpdateTrade(j) ==
  /\ up
  /\ j.state = "updating"
  /\ Becomes(j, "failed")
  /\ UNCHANGED <<up, beside, job, faults, restarts>>

\* The callback of finished() reads the id of the job in the field, and empties it.
Finished(j) ==
  /\ j.state = "completed" /\ j.awaited
  /\ job # NoJob
  /\ job' = NoJob
  /\ jobs' = jobs \ {j}
  /\ UNCHANGED <<up, beside, faults, restarts>>

\* removeOnComplete: a job that nobody waits for when it completes is gone.
Removed(j) ==
  /\ j.state = "completed" /\ ~j.awaited
  /\ jobs' = jobs \ {j}
  /\ UNCHANGED <<up, beside, job, faults, restarts>>
-----------------------------------------------------------------------------
(* The process ends and starts again.                                      *)

Exit ==
  /\ up
  /\ up' = FALSE
  /\ place' = [o \in Orders |-> IF place[o].pc \in {"idle", "success", "failed"} THEN place[o]
                                ELSE [place[o] EXCEPT !.pc = "lost"]]
  /\ cancel' = [o \in Orders |-> IF cancel[o] = "deleting" THEN "missed" ELSE cancel[o]]
  /\ ws' = "none"
  /\ handlers' = {}
  /\ job' = NoJob
  /\ jobs' = {[j EXCEPT !.awaited = FALSE] : j \in {k \in jobs : k.state # "failed"}}
  /\ UNCHANGED <<exchange, trades, moved, fresh, restarts>>

\* The field is empty already, or the job has failed: nobody handles the
\* rejection.
FinishedThrows(j) ==
  /\ j.awaited
  /\ j.state = "failed" \/ (j.state = "completed" /\ job = NoJob)
  /\ Exit
  /\ UNCHANGED faults

\* insertEventData or `add` fails in a run of onmessage, the socket has an error
\* (it has no onerror), or the process is killed.
Crash ==
  /\ faults < MaxFaults
  /\ Exit
  /\ faults' = faults + 1

\* Jobs that were being worked on are given out again.
Restart ==
  /\ ~up
  /\ restarts < MaxRestarts
  /\ up' = TRUE
  /\ jobs' = {IF j.state \in {"reading", "updating"} THEN [j EXCEPT !.state = "waiting"] ELSE j : j \in jobs}
  /\ restarts' = restarts + 1
  /\ UNCHANGED <<beside, job, faults>>

PlaceSteps(o) ==
  Start(o) \/ Subscribe(o) \/ SubscribeFails(o) \/ Wait(o)
    \/ Accept(o) \/ Refuse(o) \/ Answer(o) \/ InsertRow(o) \/ MoveBalances(o) \/ List(o) \/ PlaceFails(o)
MessageSteps(h) == Queue(h) \/ Remember(h) \/ AwaitEnd(h)
JobSteps(j) ==
  StartJob(j) \/ ReadOrder(j) \/ ReadFails(j) \/ UpdateTrade(j) \/ Finished(j) \/ FinishedThrows(j)
    \/ Removed(j)

Next ==
  \/ \E o \in Orders : PlaceSteps(o) \/ Fill(o) \/ Cancel(o) \/ DeleteRow(o) \/ MissRow(o)
  \/ \E h \in handlers : MessageSteps(h)
  \/ \E j \in jobs : JobSteps(j)
  \/ SocketOpens \/ SocketCloses \/ KeyAges \/ Crash \/ Restart

Spec == Init /\ [][Next]_vars
-----------------------------------------------------------------------------
(* Properties.                                                             *)

Job == [of: Trade, awaited: BOOLEAN,
        state: {"waiting", "reading", "updating", "completed", "failed"}]

\* The variables have the types the code and the tables give them.
TypeOK ==
  /\ up \in BOOLEAN /\ fresh \in BOOLEAN
  /\ place \in [Orders -> [pc: Steps, resp: Known \cup {NoOrder}]]
  /\ cancel \in [Orders -> {"idle", "deleting", "deleted", "missed"}]
  /\ exchange \in [Orders -> Known \cup {NoOrder}]
  /\ trades \in [Orders -> Known \cup {NoOrder}]
  /\ moved \in [Orders -> Nat]
  /\ ws \in {"none", "connecting", "open", "closed"}
  /\ handlers \subseteq [of: Trade, pc: {"sent", "adding", "subscribing"}]
  /\ job \in Trade \cup {NoJob}
  /\ jobs \subseteq Job
  /\ faults \in Nat /\ restarts \in Nat

\* No wallet row moves further than Binance has executed, although the answer to
\* placeOrder and every report tell of the same fills (placeOrder, processTrade).
WalletFollowsExchange ==
  \A o \in Orders : /\ moved[o] <= exchange[o].executed
                    /\ moved[o] # 0 => moved[o] = place[o].resp.executed

\* A row of binance_trade shows nothing that Binance has not executed.
RowFollowsExchange ==
  \A o \in Orders : trades[o].executed <= exchange[o].executed

\* 'Order Placed Succesfully' is answered only when what was filled at once is
\* booked, if the user has a wallet and the order did not expire.
SuccessIsBooked ==
  \A o \in Orders : place[o].pc = "success" =>
    /\ place[o].resp.executed > 0
    /\ place[o].resp.status # "EXPIRED" /\ o \notin Rowless => moved[o] = place[o].resp.executed

\* A row that cancelOrder has deleted does not come back: neither placeOrder, which
\* may still be at work on the order, nor a job that has read the row writes it.
CancelledRowGone == \A o \in Orders : cancel[o] = "deleted" => trades[o] = NoOrder
=============================================================================
