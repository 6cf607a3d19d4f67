# TLA+ models of the exchange backend

The backend (NestJS, TypeORM on MySQL, Bull on Redis, web3/ethers) has an order
book of its own, takes withdrawals and deposits in crypto currencies, and
forwards other orders to Binance. This directory holds models of its parts, the
TLC runs that check them on small instances, and proofs for TLAPS. Paths below
are relative to `src/src/`.

## 1. Inventory

| Component | State it keeps | Operations | Interacts with | Hard behaviour |
|---|---|---|---|---|
| Matching engine: `order-book/`, order and trade statements of `database/database.service.ts` | `tbl_order_books`, `tbl_trades`; in memory `order_books`, one pair of arrays for all trading pairs | `POST create/Limit`, `POST create/Market`, `GET orderbooks`; `fillOrderBook`, four match loops, `updateOrder`, `saveTrade`, `emitSocketData` | database, socket | requests interleave at every `await`; the arrays are shared and replaced under running matches; no transactions; the emit after each statement can throw |
| Withdrawal follow-up: `cron/`, `web3/queue.provider.ts`, `web3/withdrawal.consumer.ts`, `web3/web3.service.ts`, `saveWithdrawal` and the webhook | `tbl_withdrawal`, the Bull queue in Redis; in memory `withdrawal_job` and whether `withdrawal_cron` runs | save a row and start the cron job; queue pending rows; ask the chain about each; write the status | requests, Redis, Ethereum node, blockcypher | overlapping runs of the timer, state used after an await, callbacks that outlive their job, restarts with stale jobs, rejections nobody catches |
| Withdrawal request: `wallet/wallet.controller.ts` | `tbl_wallet`, `tbl_withdrawal`, chain balances | balance check, choice of the source, transfer, save | chains, follow-up | nothing is reserved between check and transfer; amounts are strings and decimals |
| Deposits: `deposit()`, deposit cron job, `web3/deposit.consumer.ts` | `tbl_deposit` | request, look for the transaction, credit | explorers, queue | unreachable as it stands (section 7) |
| Binance: `binance/` | `binance_trade`, `trade_event`, `tbl_wallet` | `placeOrder`, `cancelOrder`, the user data stream, the trade queue | Binance REST and stream | execution reports race with the answer to the order |
| Accounts: `auth/`, `getAddress`, user statements | `tbl_users`, `tbl_wallet`, `tbl_identity`, refresh tokens | register, log in and out, refresh, change e-mail, two-factor, upload | database | check-then-insert |
| Market data: `socket/` | none | `get_data` reads and emits | database | none |

What makes each of them correct:

* matching engine: a trade is between a BUY and a SELL order of one pair at a
  price both accept; best price first; a fill is the same in the two orders and
  the trade; nothing that crosses is left; closed orders stay closed; every
  request is answered, and the answer is true;
* withdrawal follow-up: a status is what the chain says; a saved row is looked
  at; nothing waits for a job that has ended; all of it together does
  nothing to the table and the process that `FollowUp` does not allow;
* withdrawal request: the answer and the row tell what the chain did, and what has
  paid is recorded unless its own handler was cut off;
* Binance: the balances never move past what Binance has executed, and a deleted
  row stays deleted;
* accounts: one user per e-mail and phone number, one address per network.

`PROJECT.json` lists the hazards with their lines, and which property would
notice each.

## 2. Modules

| Module | What it is |
|---|---|
| `OrderBook` | The matching engine, one action per step between awaits; the properties that hold under every interleaving |
| `OrderBookInv` | The inductive invariant of `OrderBook` |
| `OrderBookProps` | Properties for particular environments, liveness, the refinement of `Exchange` |
| `Exchange` | Abstract specification: what a matching engine promises |
| `OneAtATime` | The invariants of `OrderBook` when requests come one at a time |
| `OrderBookProofs` | TLAPS proofs about `OrderBook` |
| `MarketProofs` | Proof that market orders trade within their pair |
| `OneAtATimeProofs` | Proofs of `OneAtATime`, and that `OrderBook` implements `Exchange` |
| `SumProofs` | Facts about sums over finite sets |
| `MCOrderBook` | Instances for TLC |
| `MCOneAtATime` | The instance of `ob_sequential`, which satisfies the hypotheses of `OneAtATimeProofs` |
| `FollowUp` | Abstract specification: what the follow-up may do to `tbl_withdrawal` and to the process |
| `Withdrawals` | Withdrawal follow-up, with its properties and the refinement of `FollowUp` |
| `MCWithdrawals` | Instances for TLC |
| `WithdrawalsProofs` | Proofs about `Withdrawals`, and that it implements `FollowUp` |
| `Payouts` | The withdrawal request and the transfers it makes, with its properties |
| `WithdrawalPath` | `Payouts` in the table it shares with the follow-up and the process it shares with follow-up and trade queue; implements `FollowUp` as well |
| `MCWithdrawalPath` | Instances for TLC |
| `WithdrawalPathProofs` | Proofs about `WithdrawalPath` and `Payouts` |
| `Accounts` | Registration, e-mail change, deposit addresses, documents, with its properties |
| `AccountsProofs` | Proofs about `Accounts` |
| `BinanceTrades` | Orders that are passed on to Binance, with its properties |
| `MCBinanceTrades` | The instance of `bn_orders` |
| `BinanceTradesProofs` | Proofs about `BinanceTrades` |

An operator whose comment begins with "Slip:" is no part of a specification. It
is the definition after it with a mistake a programmer could make; replacing
the one by the other must make TLC refute a property.

### OrderBook

`orders` and `trades` are the tables. `heap` holds the pairs of arrays that
`fillOrderBook` made and that somebody still uses; `bookRef` is
`this.order_books`. The indirection matters: a match captures an array and
walks it to its end while the service replaces its own, and two matches that
captured the same array share its objects, so `sellOrder.size -= order.size` of
the one is seen by the other. `req[a]` is a request: `pc` is what it waits for,
`step` is where the function goes on when the emit of the current statement is
done, `ord` is the order object, `ref` and `idx` are the captured array and the
place in it.

| Code | Actions |
|---|---|
| `create`, `createMarket`, `handleOrder` | `Submit`, `Insert`, `Placed` |
| `fetchOrders`, `fillOrderBook`, `fillOrderBookAndReturn` | `FetchOrders`, `ReadBuys`, `ReadSells`, `Assign` |
| `matchBuyOrder`, `matchSellOrder`, `matchMarketBuyOrder`, `matchMarketSellOrder` | `StartMatch`, `Turn`, then full fill: `TakerClosed`, `FullTraded`, `MakerUpdated`; partial fill: `MakerClosed`, `PartTraded`, `TakerUpdated` |
| `updateOrder`, `saveTrade` | `UpdateOrder`, `SaveTrade` |
| `emitSocketData` | the reads again, then `Resume`, or `EmitThrows` when the pair has no trade |
| the `catch` blocks, a restart | `Reject` in `Fail` and `SaveTrade`, `Crash` |

The four loops are one operator `Turn` that differs in which resting orders
cross. A market order starts to match in the step that assigned its lists
(`saveMarketOrder` does not emit); a limit order starts after an emit, with
whatever lists are there then.

Left out: the two 24-hour reads of `emitSocketData` (they only add awaits
between reads that change nothing), the payload it emits, the order list in the
answer, volumes, user ids and timestamps except the second a row was created
(ORDER BY uses it). Prices are whole units of the last decimal. A price of NULL
is 0, which orders and compares as MySQL and JavaScript do with it.

Sizes are decimals in the tables and binary floating point in memory. A size
counts in units of a rounding error, `Unit` of which are one unit of the last
decimal; a size read from a table is whole (`TradesOf`, `Stored`), and a
subtraction in memory may leave up to `Dust` more or less than it should
(`Minus`). What is written is rounded by the column. So a taker may be left with
dust after several turns, look unfilled, and stay open with size 0.00000000:
`SettledUnlessCaught` says that only such a match leaves one (`MayHoldDust`) and
that no amount is lost to rounding. In runs with `Dust = 0` a unit is 1.

`findOrders` takes the first `BookLimit` rows of an ORDER BY that puts the
highest SELL and the lowest BUY first. `UncrossedUnlessCaught` says exactly
which orders are left crossing for it: those that as many worse ones hid
(`BeyondLimit`).

### OneAtATime

What a match knows between two awaits. Everything is stated of the table and of
`Traded`, what the trades say each order has traded. `StageOK` lists the eight
places at which a fill can be interrupted and says of each what the two rows, the
entry of the list, the order object and the waiting statement contain; `MatchOK`
adds that all other rows are settled (`RowsOK`), and that the list the match walks
still shows what it will meet (`WalkOK`): orders of its pair on the other side, worst
first, and every open one that the query was not too short for. `PlacingOK` says the same
of the requests that have not begun. `SettledInv` and `UncrossedInv` are checked
and proved; `LimitInv` is what the refinement needs besides.

### Exchange

Orders are placed one at a time; a deal is the newest order with the best
crossing one, at the older order's price, for all both have left; the next order
comes when nothing crosses. `ImplementsExchange` (in `OrderBookProps`) maps
`placed` to the rows, `left` to original size minus what the trades say, and
`deals` to `tbl_trades`. Inserts are `Place`, saved trades are `Deal`,
everything else stutters.

### Withdrawals

`rows` is `tbl_withdrawal`, `jobs` the Bull queue: they outlive the process.
`cron`, `job` (`withdrawal_job`), `ticks` (runs of `initiateWithdrawalJob`),
`checks` (callbacks of `forEach`) and `hooks` do not. `chain` is what the
Ethereum node knows.

| Code | Actions |
|---|---|
| `withdrawal`, `saveWithdrawal` | `Insert`, `StartCron` |
| `handleWithdrawalCron`, `initiateWithdrawalJob` | `TickFires`, `TickReads`, then `TickWaits`, or `TickAdds`, `TickRemembers` and `TickSubscribes`, or `TickStops`; `TickFails` |
| `finished().then(...)`, `removeOnComplete` | `Finished`, or `FinishedTwice` when no job is known and the callback throws; `Removed` |
| `processWithdrawal`, `receipt`, `getConfirmations` | `StartJob`, `CompleteJob`, `NoReceipt`, `Receipt`, `Confirmations`, `Update` |
| `hook`, `updateWtihdrawalStatus` | `HookApproves`, `HookDecrements` |
| unhandled rejection, restart | `Exit`, `Crash`, `Restart` |

Four facts of the code shape this model.

* `saveError` always rejects: `ErrorSave` is not among the entities of
  `app.module.ts:69-79`. In a callback of `forEach` that rejection is unhandled,
  and under the versions of Node the lock file asks for (16 and later) the
  process ends. A transaction without a receipt gets there
  (`web3.service.ts:170` reads a property of null), so `NoReceipt` is an exit.
* `tbl_wallet` has no column `balance`, so the decrement of
  `updateWtihdrawalStatus` rejects, unhandled too.
* `getPendingWithdrawal` does not select `network`, so every transaction is
  looked up on the Ethereum node with its target of 12 confirmations; and
  `saveWithdrawal` does not store `pay_by_admin`, so rows meant for the
  administrator are followed up like the others.
* The transfers on EVM chains wait until they are mined, so their rows are saved
  as Approved. Rows that are pending with an Ethereum hash (`Kept`) are in the
  table at the start, as rows of earlier versions of the handler; what the
  present handler saves as pending has no Ethereum transaction.

Bull is modelled by what the code uses of it. `add` puts a job into Redis, and its
answer comes a step later (`TickAdds`, `TickRemembers`); `finished()` looks for the job
and subscribes in a third (`TickSubscribes`). Meanwhile a worker may receive the job
and complete it: the consumer waits for nothing, so that is quick. With
`removeOnComplete` a completed job that nobody has subscribed to is deleted
(`Removed`, state "removed"). Whoever asks for it then never hears of it: `withdrawal_job`
stays set, and every later run of the cron job waits. `Stalled` is that state.
`wd_stalls` shows that it is reached although nothing fails; `KnownJobAwaited`,
`KnownJobEnds`, `SettledIsDecided` and `SavedIsLookedAt` name it as the exception it
is, and the other properties hold in it. A job that was active when the process
ended is given out again.

`HookApproves` is guarded by more than the handler checks: it finds the row by its hash
alone (`database.service.ts:333`). That blockcypher is the one who calls the webhook, and
for a Bitcoin transaction that has paid, is an assumption about the environment;
`DecidedByChain`, `DecisionIsFinal`, `ImplementsFollowUp` and `RowsTellOfTransfers` rest on it.

### FollowUp

The table, the process and how each transaction ended; nothing of cron jobs,
queues, callbacks or confirmations. A row is inserted undecided, or as paid; a
row that the cron job selects (`Followed`) is decided once, as its own
transaction ended; a Bitcoin row is approved by the webhook; the process ends
when a call fails, at a row that is followed up or that the webhook has
approved, or because another module in it does (`EndElsewhere`), and is started
again. Which rows may be decided, when, and as what, whatever cron job, queue and callbacks
are doing, is the part that no single function of the code shows.

Two specifications implement it. `Withdrawals!ImplementsFollowUp` maps `fate` to
a transaction at its target depth, and has the ends by other modules among its
faults (`others` is FALSE, so within this module only rows and faults end the process): every interleaving of runs, jobs given out
again, callbacks and webhooks comes down to these few steps.
`WithdrawalPath!ImplementsFollowUp` does the same for the requests that insert
the rows. What the one hands over is what the other takes up, and either may
rely on the other's promise.

### Payouts

`req` is where each request is, `tx` what became of its transaction, `funds`,
`nonce` and `next` what the chain knows of the account that pays, `saving` the rows
that are being inserted, `rows` is `tbl_withdrawal`. What the eight transfers do
differently is in one record each: account and asset, nonce, whether the handler
waits until the transaction is mined, whether a row is saved. `transferBNBBep2` goes on
with sequence 0 when it cannot read the sequence (`SequenceFails`).

| Code | Actions |
|---|---|
| `withdrawal` up to the transfer, `findDbWithdrawalSourceAddress` | `Ask`, `Check`, `NoSource`, `Source` |
| the transfers, `usdt_transfer` | `Balance`, `Sign`, `Send`, `Refuse`, `Wait` |
| the end of `withdrawal`, `saveWithdrawal` | `Succeed` in `Send` and `Wait`, `Save` |
| chain, failing calls | `Mine`, `Fail`, `SequenceFails` |

Facts of the code that shape it.

* Amount and fees are strings, so `amount + fees` is one written after the other, and
  most comparisons are between strings. Whether they pass does not follow from the
  numbers: `Check` and `Balance` choose. Only `usdt_transfer` compares numbers.
* Nothing is reserved, and `tbl_wallet` is never reduced: what keeps two requests from
  paying the same money is the chain. The row of `tbl_address_balance` decides only
  whether there is a transfer; it is signed with the user's own key.
* Transfers on Ethereum and BSC wait until they are mined and then have a
  `blockHash`: Approved. BEP2 and Bitcoin have a hash only: Pending.
* ETH and BNB sign with the nonce of the last mined transaction. On BSC all prices are
  the same and the pool refuses a second transaction with that nonce; `transferETH`
  leaves the price to the provider, so it may replace one, whose request then
  gets an exception from `wait()`.
* For a pair of coin and network without a branch `result` stays undefined; reading
  it throws, and as `saveError` rejects too the answer is an error.
* `saveWithdrawal` is not awaited.

Requests that sign with different keys do not meet, so one account per chain is
enough. `RowsTellOfTransfers` is what `Insert` of `Withdrawals` takes for granted of the
rows it starts with.

### WithdrawalPath

All actions of `Payouts` (`Serve`, `Block`), and what the process, the
follow-up and the trade queue add: it is killed or a save fails (`Crash`), the follow-up
of a row ends it (`EndByFollowUp`, guarded by `Followed` and `Hooked` of `FollowUp`), the
trade queue ends it (`EndByTrades`), it is started again (`Restart`), the webhook
approves a Bitcoin row (`Hook`, with the assumption of `HookApproves`). `BinanceModule`
runs in the same process (`app.module.ts:101`): a callback of its queue that finds no job,
or a consumer that failed, is an unhandled rejection (`BinanceTrades!FinishedThrows`).
Orders at Binance are not part of this module, so `EndByTrades` may happen at any time.
When the process ends, requests under way and inserts that have not reached the table
are lost (`Lose`); transactions in the pool are not.

This is where parts that never call each other meet: a report of a trade ends the
process between the payment of a withdrawal and its row, and nothing adds the row
later. `cut` remembers the requests whose own handler was cut off, by a failing call or an
end of the process; only properties read it. `PaidIsPursued` says that nothing else takes
a payment away from its row (not the requests that share its nonce, its funds and the table),
`PaidIsRecorded` that the row comes in the end.

A row's network is that of the chain it was paid on (`NetworkOf`). The code stores the
network the client named next to a coin it also named (`wallet.controller.ts:240`);
that they agree is assumed.

### Accounts

`post` is what each request asks for, `users`, `wallets` and `identities` are the tables,
`req` is where each request is: the queries it still waits for and whether something
was found. `met` is no state of the code: it remembers which requests ran at the
same time, so that the properties can tell a race from a wrong check.

| Code | Actions |
|---|---|
| `signUp`, `saveUser` | `Register`, `CheckEmail` and `CheckPhone` in any order, `InsertUser` |
| `changeEmail`, `updateUser` | `ChangeEmail`, `CheckEmail`, `UpdateEmail` |
| `genAddress`, `searchAddress`, `saveAddress` | `GetAddress`, `SearchAddress`, `SaveAddress` |
| `uploadFile`, `updateIdentity` | `Upload`, `FindIdentity`, `InsertIdentity` or `UpdateIdentity` |
| a statement fails, or its answer is lost | `Fail`, `Written` |

All four look first and write later, and no table has a unique key but its id. So duplicates
are possible when requests overlap, and the properties say that they are not possible
otherwise. A registration without a phone number asks for a user whose number is
`undefined`; TypeORM drops such a condition, any user is found, and the answer is 'Phone
Number already  registered' (`CheckPhone`).

Two things are assumed. `searchAddress` (`database.service.ts:219`) has no ORDER BY: that it finds the
row with the lowest id is what MySQL does with this query and does not promise (`Address`);
`AddressIsKept` rests on it. And `save()` of a body inserts (`InsertUser`, and `Insert` of
`OrderBook`): a body with the id of an existing row would update that row, and clients are taken not
to send one.

### BinanceTrades

`exchange` is what Binance knows of each order, `trades` is `binance_trade`, `moved`
how much of the order each wallet row of its user on the network has been changed by (a user
with two rows, which `Accounts` shows to be possible, has it booked in both: the statement
selects by user and network, `binance.controller.ts:234`). An amount is the executed
quantity; price and cost in USDT move in the same statement with it. `place` and
`cancel` are the running requests, `ws` the socket, `handlers` the messages on it
and the runs of `onmessage`, `job` the one field of `TradeQueueService`, `jobs`
the queue.

| Code | Actions |
|---|---|
| `placeOrder` up to the order, `subscribeListener`, `waitForOpenConnection` | `Start`, `Subscribe`, `SubscribeFails`, `Wait`, `Refuse` |
| `placeOrder` from the order on | `Accept`, `Answer`, `InsertRow`, `MoveBalances`, `List`, `PlaceFails` |
| `cancelOrder`, `deleteOrder` | `Cancel`, `DeleteRow`, or `MissRow` when there is no row or the statement fails |
| `onmessage`, `initiateTradeJob` | `Queue`, `Remember`, `AwaitEnd`, then `Finished`, or `FinishedThrows` and the process ends; `Removed` |
| `processTrade` | `StartJob`, `ReadOrder`, `ReadFails`, `UpdateTrade` |
| Binance, the socket, time, restarts | `Fill`, `SocketOpens`, `SocketCloses`, `KeyAges`, `Crash`, `Restart` |

Facts of the code that shape it.

* `getOrderFromTable` compares `user_id` with the client id of the report. SQL
  finds a row only when it converts the one to the other (`Matching`); mostly there is
  none, the job completes and nothing happens.
* Where a row is found, `updateBinanceTrade` is sent, which lacks a comma
  (`database.service.ts:632`): the job fails, `finished()` rejects, nobody handles
  that, and the process ends. The statements after it, which would add `q`, the
  quantity of the whole order, are never reached. The slip `UpdateSucceeds` puts the comma
  in: then one order moves the balances once for the answer and once for every
  report, and `WalletFollowsExchange` and `RowFollowsExchange` fail. What keeps the balances right today is that mistake.
* `fills[0]` of an order of which nothing is filled is a TypeError: a LIMIT order that
  rests is answered with 'Failed To place Order', is live at Binance, and has no row.
* Everything between the socket and the answer of Binance that can stop an order - no
  average price, too little in the exchange's own account, a negative quantity, an error of
  Binance - changes nothing and is one step (`Refuse`). An order may be filled by several trades at
  once, each with its report (`Accept`).
* What a MARKET order executed before the rest expired is not booked, because the
  status is EXPIRED; `SuccessIsBooked` excepts it.
* `finished()` callbacks share one field: the second one throws (`FinishedThrows`).
* A cancellation deletes the row if it is there. One that is inserted after the
  delete found nothing stays, with the status Binance answered (`MissRow`); nothing
  in the code promises otherwise.

## 3. Runs

All runs set `CHECK_DEADLOCK FALSE`: their requests, blocks and restarts are
bounded, and the system rests when all are used up.

| Run | Instance | Shows |
|---|---|---|
| `ob_sequential` | limit orders, two requests one after the other, two pairs, three prices, two sizes, three tables with ties, a spread, or nothing | `ImplementsExchange`, `UncrossedUnlessCaught`, `SettledUnlessCaught`: matching is right when nothing interferes; `SettledInv`, `UncrossedInv`: the same between the steps of a match |
| `ob_market` | market orders of two pairs at once, a GET that replaces the lists, sizes that pick up dust | `TradesWithinPair`, `SettledUnlessCaught`: market matches are protected from each other's lists, and the tables agree to the last decimal |
| `ob_answered` | one request and one GET, all order types, `BookLimit = 2`, one fault, fairness | `UncrossedUnlessCaught`, `EveryRequestAnswered` |
| `ob_concurrent` | two requests on one resting order, all interleavings, one fault, a pair without trades, a market remainder | `RequestsOK`, `TradePriceAcceptable`, `EveryTradeClosesAnOrder`, `NoFirstTrade`, `FilledIsFinal`, `TypeOK`: what survives every race |
| `wd_tracking` | a withdrawal being saved, one being followed up, two overlapping runs of the cron job, two jobs, one restart | `DecidedByChain`, `KnownJobAwaited`, `DecisionIsFinal`, `ImplementsFollowUp`, `TypeOK` |
| `wd_live` | one row followed up that may get too old, whose transaction succeeds, one fault, one restart, fairness | `KnownJobEnds`, `SettledIsDecided` |
| `wd_looked` (violation) | one withdrawal, fairness, no faults | the cron job is stopped under a new row (lost wake-up) |
| `wd_onejob` (violation) | one row | two jobs for the same rows, in spite of 'wait then to add to q' |
| `wd_stalls` (violation) | one row, fairness, no faults | a job that is deleted before `finished()` asks for it is waited for for ever |
| `po_paid` | two requests from one account, all eight transfers or none, amounts 1 and 2 of funds 2, one failing call or kill, any number of ends by follow-up and trade queue, restarts and webhooks | `RowsTellOfTransfers`, `FailureIsUnpaid`, `SuccessIsFunded`, `PaidIsPursued`, `PaidIsRecorded`, `ImplementsFollowUp`, `TypeOK` |
| `ac_accounts` | three requests of any of the four kinds, two e-mails, one phone number or none, one network | `UsersDistinct`, `RowsDistinct`, `AddressIsKept`, `TypeOK` |
| `bn_orders` | two orders, each LIMIT or MARKET, one of quantity 2 whose row reports find and one of quantity 1 in a coin without a column, filled in any portions, one fault, one restart | `WalletFollowsExchange`, `RowFollowsExchange`, `SuccessIsBooked`, `CancelledRowGone`, `TypeOK` |

Bounds. Two requests are enough for every race of the order book: all of them
are between one request and one change of the shared arrays or of a row, and the
three arrays of `heap` let both keep old ones. Sizes 1 and 3 make full fills,
exact fills and partial fills of up to three resting orders; with prices 1 to 3
an order can cross none, some or all levels. In `wd_tracking` two runs of the
cron job are the least that overlap, and with two queued jobs the one forgotten
can differ from the one finished. Its transactions succeed or fail or are of another sender
(`Outcomes`); in `wd_live` the one transaction succeeds, which no liveness property looks
at, and `Target = 2` tells included and deep enough apart everywhere. In
`bn_orders` a quantity of 2 tells nothing, part and all of an order apart, and lets one
order have two reports; two
orders are needed for two jobs that share the one field; orders of users without
a wallet (`Rowless`) are in the proofs alone. In `po_paid` two requests meet at the nonce,
amounts of 1 and 2 let both, one or none be paid, and the row of one can end
the process under the other. In `ac_accounts` three requests
are what it takes for an e-mail that is registered, given up by a change, and asked
for again, or for two overlapping inserts and a later search. `MaxInFlight = 1` in `ob_sequential` is an
assumption about the environment, and it is a real one: the code does not
serialise requests, and with two at once on a resting order both may fill from
it. That is why the runs with concurrency check weaker properties, the ones that
do survive. `MCOneAtATime` assumes of its instance, and TLC evaluates, that it is among those
the theorems of `OneAtATimeProofs` are about: no hypothesis there is empty. Market orders, failing
statements, pairs without trades and short queries, which the proofs of `SettledInv` and `UncrossedInv`
include, are not in this run. Two bounds of `Withdrawals` limit the world, not the code: `Aging`
names the rows that may get older than six hours, `MaxRestarts` how often a
process that ended is started again; exits themselves are not bounded.

Fairness. `ob_answered`: weak fairness of each request's next step, because the
event loop runs every continuation and the database answers every statement with
a result or an error (`Fail` is a result, too). No fairness for clients and
faults. `wd_live`: a running timer goes off, calls are answered, and Redis and the
worker deliver; no fairness for blocks, webhooks and restarts. `po_paid`: calls of the
handlers are answered while the process runs; the chain, the clients and whoever starts the
process owe nothing.

## 4. Divergences between text and code

1. `testing_coins.ts:53` says that every saved withdrawal starts the cron job and
   is looped over; a run of the cron job that read before the insert can stop it
   after the start: `wd_looked`.
2. `queue.provider.ts:36` "wait then to add to q": check and assignment of the
   job are separated by an await, and a second job is added without waiting: `wd_onejob`.
3. The same line: the job that is waited for may be gone, and then nothing is ever
   added: `wd_stalls`.

Without a run of its own: `order-book.service.ts:86` answers "Order Completed
Sussesssfully" to every market order whose loop ended normally, also when the other
side of the book ran out and the order's row stays open.

## 5. Proofs

`OrderBookProofs` proves, for any numbers of requests, pairs, prices, sizes and
faults, and for any `BookLimit`:

| Theorem | Property |
|---|---|
| `TypeCorrect` | `TypeOK` |
| `MatchesKeepTheirPlace` | `RequestsOK` |
| `PricesAcceptable` | `TradePriceAcceptable` |
| `TradesCloseOrders` | `EveryTradeClosesAnOrder` |
| `ColdPairsStayCold` | `NoFirstTrade` |
| `ClosedOrdersStayClosed` | `FilledIsFinal` |

The only assumption is `OrderBookAssumption`, about the constants.

The argument. None of the properties is inductive by itself. Whether a trade has
an acceptable price depends on the entry the match is at when it saves the
trade; that entry was compared with the limit some steps earlier, when the match
moved to it; since then the service has replaced its arrays and another match
may have shrunk the entry. `IInv` therefore carries, for every request in a
match (`RestingOK`, `WriteOK`), that its array is still the one it captured, that
the place in it is valid, that the price of the entry is acceptable, and, from
the moment the closing update has been written, that the row it closed is
closed. `HeapOK` and `ListOK` tie entries to rows: side and price of a row never
change, so entries may have stale sizes but not stale prices. The arrays stay
because `FreshRef` gives a place no request holds, which exists because there
are more places than requests: that is the counting argument of the lemmas
`RefsFacts` and `FreshRefExists`. `NoFirstTrade` follows because a
match can only pass its first emit in a pair that has a trade already.

`MarketProofs` proves, for the same values and next to any limit orders,
`MarketTradesWithinPair`: `TradesWithinPair`. The lists a request has read, and the
array a market order walks, show rows of its own pair (`PairOK`); a
market order never waits with the step "placed", from which a limit order starts
on whatever lists are there. A trade that is saved has a price, so its resting
order is no market order (`PricesOK`), and if one of the two is a market order it
is the request's own, whose array is of its pair.

`OneAtATimeProofs` proves, for any numbers of requests, pairs, prices, sizes, resting
orders and turns of a loop, and for any `BookLimit`:

| Theorem | Property | Hypotheses |
|---|---|---|
| `MatchesKeepAccounts` | `SettledInv` | `Environment` |
| `SettledBetweenRequests` | `SettledUnlessCaught` | `Environment` |
| `OnlyTheMatchedCrosses` | `UncrossedInv` | `Environment`, `UncrossedTables` |
| `UncrossedBetweenRequests` | `UncrossedUnlessCaught` | `Environment`, `UncrossedTables` |
| `EngineIsExchange` | `ImplementsExchange` | `LimitEnvironment` |

The hypotheses are about the constants and name the environment in which the code is
right. `Environment`: one POST request at a time, no `GET orderbooks`, no rounding, and
rows at the start that nobody has traded with; orders of both types, failing statements, kills,
and pairs whose emits throw are allowed. Each is needed: two requests at once
may both fill from one order, a GET puts back lists from before the insert, and
with dust a row may stay open with nothing left. `UncrossedTables`: the rows at the start do not cross.
`LimitEnvironment` adds limit orders, pairs that have traded, no failing statements, and
room for all orders in the query. The theorems that hold without them are those of
`OrderBookProofs`.

The argument for the accounts. `SettledUnlessCaught` speaks of the quiet moments only,
and between them neither row of a fill agrees with the trades; `SettledInv` therefore
goes through the stages of a fill one by one. Its hard steps are two. `SaveTrade` moves
what two orders have traded and no other one: `Traded` is a sum over `tbl_trades`, and
`SumChange` and `SumEqual` of `SumProofs` say how it grows by a term. The end of a turn
hands the invariant to the next entry of the list: it must be another row, still
open, with the size its row has, and it is because entries are of different
rows and only the last one of the walk has been touched. That the lists are right in
the first place is `FindOrders` and three awaits (`ReadBuys`, `ReadSells`, `Assign`),
during which, with one request, no row is written.

The argument for crossing. The list shows, worst first, all open rows of the other side
that were in reach, so the last entry is the best one; a match stops when the
last entry does not cross, and then none does; or when its own order is closed. A row
that came later never makes an older one reachable again, which is
why `Missed` looks at the rows before the newer of the two orders only.

The refinement. `Insert` is `Place`: it may be, because no two orders cross when no
request is matching, and with room in the query (`LimitInv`) crossing and `Missed` are the same.
`SaveTrade` is `Deal`: the order being matched is the newest one, the entry it is at is the row `Exchange`
serves first, or one of the same price and second, both still have what `left` says, and the price is
the resting one. Every other step leaves `placed`, `left` and `deals` as they are.

`SumProofs` has what both these proofs and `SuccessesFunded` below need of
`SumFunctionOnSet`: that the order in which CHOOSE takes the elements does not matter, what
adding, removing and changing a term does, and that more terms are not less. The
induction over finite sets is done as a smallest counterexample, from the
well-foundedness of the strict subset order.

`WithdrawalsProofs` proves, for any numbers of withdrawals, jobs, runs of the cron
job, faults and restarts, and any `Target`:

| Theorem | Property |
|---|---|
| `TypeCorrect` | `TypeOK` |
| `StatusFromChain` | `DecidedByChain` |
| `JobsAreAwaited` | `KnownJobAwaited` |
| `DecisionsAreFinal` | `DecisionIsFinal` |

The only assumption is `WithdrawalsAssumption`. The status is written a step after
the confirmations were counted, so `IInv` says that a callback about to write
has seen the transaction settled (`UpdateOK`), which stays true because depth only
grows and outcome and sender never change; that rows a list, a job or a callback
refers to exist (`ListsOK`); and that the webhook only meets rows of requests,
which have no transaction still to be mined (`RowsOK`). `KnownJobAwaited` says that the
known job is awaited, or that a run is about to wait for it, or that it ended before that
(`Stalled`): no overlap of runs, no callback of another job and no restart leaves a job known that nobody
waits for. It needs `AddingOK`: a run that waits for the answer of `add`, or is
about to call `finished()`, has a job of its own that nobody awaits. Finality follows from the same facts:
whoever writes a second time has seen the same outcome.

It also proves, for the same values, `FollowsUp`: `Withdrawals`
implements `FollowUp`. The invariant above is not enough for it: that an `Exit`
is the fault of a row `FollowUp` lets end the process needs `FInv`, which says
that every list, job and callback is about rows the cron job selected when it
read them, and that these rows still are (`TrackedOK`), that a webhook about to
decrement has approved its row (`HooksOK`), that a job has at least one row, so
that the callbacks of two jobs that meet at one field have a row to blame
(`NonEmpty`), what `paid` says of the rows (`PaidOK`), and that nothing
of a process is left when it is down (`DownOK`). The proof has one lemma per
group of actions: `Insert` to `Insert`, `Update` to `Decide`, `HookApproves` to
`Hook`, `Mine` to `Settle`, `Exit` to `End` or `Fail`, all others to stuttering.

`BinanceTradesProofs` proves, for any numbers of orders, faults and restarts, any
quantity, and any sets of users without wallet, coins without column and orders
that reports match:

| Theorem | Property |
|---|---|
| `TypeCorrect` | `TypeOK` |
| `WalletsFollow` | `WalletFollowsExchange` |
| `RowsFollow` | `RowFollowsExchange` |
| `SuccessBooked` | `SuccessIsBooked` |
| `CancelledStaysGone` | `CancelledRowGone` |

The only assumption is `BinanceTradesAssumption`. `IInv` (`OrderOK`) says that the
answer of Binance, which `placeOrder` keeps while it waits, is the only source of
row and balances, that it is never ahead of the order at Binance, which only
grows, and that nothing is booked before the step that books. `CancelledStaysGone`
adds that a row is inserted once and that `placeOrder` is past the insert whenever there
is or was a row (`RowAge`). `IInv` holds for every order by
itself, so each lemma about a step of one order leaves the others alone
(`OneOrder`), and steps of the stream, the queue and the process touch none
(`OrdersUntouched`).

`WithdrawalPathProofs` proves, for any numbers of requests, failing calls and restarts,
and any transfers, amounts and funds:

| Theorem | Property |
|---|---|
| `TypeCorrect` | `TypeOK` |
| `RowsTell` | `RowsTellOfTransfers` |
| `FailuresUnpaid` | `FailureIsUnpaid` |
| `PaidArePursued` | `PaidIsPursued` |
| `SuccessesFunded` | `SuccessIsFunded` |
| `PathFollowsUp` | `ImplementsFollowUp` |

The only assumption is `PayoutsAssumption`. `IInv` (`RequestOK`) adds that nothing is on
the chain before a request sends, that rows come at its end, that only transfers
with a receipt wait, and that a row about to be inserted already tells the truth;
`mined` is final, and what one request's transaction does to another one is to
replace it while it is in the pool (`GivenUp`, `OthersOK`). For `PaidArePursued`, `JInv` says the same of a
transfer that is still in the pool (`Pursued`), which becomes one that has paid without its handler
noticing; a request that gives up its wait without being cut off was replaced, and `IInv` knows
that what is replaced is neither in the pool nor mined. For `SuccessesFunded`, `FInv` keeps a ledger (`Ledger`): what is left
of an asset and what its mined transactions took add up to `Funds`, and a request
answered with success after it waited is one of the mined ones. Mining alone changes
the two, by the same amount, and the chain never lets the first fall below zero; the
balance checks of the handlers are not needed for it. For `PathFollowsUp`, what is about to be saved is undecided
or paid, as `Insert` of `FollowUp` wants it, and only `Save`, `Hook`, `Lose`
and `Restart` change what it sees.

`AccountsProofs` proves, for any numbers of requests, e-mails, phone numbers and
networks, and without assumptions:

| Theorem | Property |
|---|---|
| `TypeCorrect` | `TypeOK` |
| `UsersAreDistinct` | `UsersDistinct` |
| `RowsAreDistinct` | `RowsDistinct` |
| `AddressesAreKept` | `AddressIsKept` |

`IInv` says of a request that has looked and found nothing (`LooksOK`) that whoever wrote
what it asked for since then has met it; `MetOK` makes meeting symmetric and
lasting, so the write that makes a duplicate finds all its twins among those it
met. `AnswerOK` follows the first wallet, which exists once there is any
(`FirstExists`, by well-foundedness of the natural numbers) and stays the first because rows are
only appended.

Only checked by TLC: the liveness properties `EveryRequestAnswered`, `KnownJobEnds`,
`SettledIsDecided` and `PaidIsRecorded`, because the prover has no rules for fairness and ENABLED; and
`SettledUnlessCaught` and `UncrossedUnlessCaught` in the environments of
`ob_market` (two market orders at once, with dust) and `ob_answered` (next to a GET), which are
outside `Environment`.

## 6. Plan

Done: order book with its abstract specification, rounding and the limit of its
queries; withdrawal request and withdrawal follow-up, each an implementation of
one abstract specification; orders at Binance; accounts; the proofs about them.

Open: `SettledUnlessCaught` as a theorem for market orders of several pairs
at the same time and with dust, which needs the invariants of `MarketProofs` and
`OneAtATime` together; volumes and the 24-hour figures of the order book, should a
property ever be about them.

## 7. Not modelled

* Deposits. `initiateDepositJob` is `initiateWithdrawalJob` line for line, which
  `Withdrawals` models, but nothing reaches it: `deposit()` assigns a shadowed `current_block` (`wallet.controller.ts:306`)
  and answers before it saves a row; `DepositConsumer` is not a provider of
  `web3.module..ts`. No pending deposit is ever created or processed.
* Market data socket: reads tables and emits; it changes no state.
* Rows older than six hours (`database.service.ts:75`; the comment in
  `queue.provider.ts:24` says 5) leave the follow-up and stay Pending. `Expire` is in the
  model and `SettledIsDecided` excepts them; nothing in the code takes them up again, so
  there is no property about their end.
* Whether the balance check of `withdrawal` passes (`wallet.controller.ts:154`,
  strings): a free choice.
* `wallet.controller.ts:675-2392` is contract ABIs.
* Address generation, contract ABIs, status look-ups at explorers: calls of external
  services.
* Log-in, log-out, refresh, `changePassword`, two-factor: each updates columns of one row in one
  statement, and tokens are checked by libraries. `logOut` passes `request.user.id`, which
  `jwtStrategy.ts` does not set, so its update is refused for having no criteria.
* Guards, DTO validation, file uploads, logging, configuration.
