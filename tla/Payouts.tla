------------------------------ MODULE Payouts ------------------------------
(***************************************************************************)
(* How a withdrawal is paid: WalletController.withdrawal checks the wallet,*)
(* looks for a source, transfers on one of four chains and saves a row,    *)
(* and usdt_transfer pays from the administrator's account.  What tells    *)
(* the transfers from each other is in the records below.  Requests that   *)
(* sign with one key meet at the nonce and the balance of its account;     *)
(* others do not meet.  The code between two awaits is one step.           *)
(***************************************************************************)
EXTENDS Integers, FiniteSets

CONSTANTS
  Requests,   \* POST wallet/withdrawal and POST wallet/transfer_usdt
  Offered,    \* the transfers clients ask for
  Amounts,    \* amounts they ask for
  Funds,      \* what the account has of each asset at the start
  MaxFaults   \* bound: calls that fail or lose their answer, kills of the process

\* A transfer: the account that pays and the asset, where the nonce comes from,
\* whether the handler waits until it is mined (only then there is a blockHash),
\* and whether a row is saved.
SendUSDTERC20 ==
  [account |-> "Ethereum", asset |-> "USDT", nonce |-> "pending", waits |-> TRUE, saves |-> TRUE]
TransferBep20 ==
  [account |-> "BSC", asset |-> "token", nonce |-> "pending", waits |-> TRUE, saves |-> TRUE]
TransferBep20USDT ==
  [account |-> "BSC", asset |-> "USDT", nonce |-> "pending", waits |-> TRUE, saves |-> TRUE]
TransferETH ==
  [account |-> "Ethereum", asset |-> "ETH", nonce |-> "latest", waits |-> TRUE, saves |-> TRUE]
TransferBNBBep20 ==
  [account |-> "BSC", asset |-> "BNB", nonce |-> "latest", waits |-> TRUE, saves |-> TRUE]
TransferBNBBep2 ==
  [account |-> "Beacon", asset |-> "BNB", nonce |-> "latest", waits |-> FALSE, saves |-> TRUE]
SendBitcoin ==
  [account |-> "Bitcoin", asset |-> "BTC", nonce |-> "none", waits |-> FALSE, saves |-> TRUE]
UsdtTransfer ==
  [account |-> "administrator", asset |-> "USDT", nonce |-> "pending", waits |-> TRUE, saves |-> FALSE]

\* BUSD, TRX, and pairs of coin and network no branch is for: no result.
NoTransfer ==
  [account |-> "none", asset |-> "none", nonce |-> "none", waits |-> FALSE, saves |-> TRUE]

Transfers ==
  {SendUSDTERC20, TransferBep20, TransferBep20USDT, TransferETH, TransferBNBBep20, TransferBNBBep2,
   SendBitcoin, UsdtTransfer}

ASSUME PayoutsAssumption ==
  /\ IsFiniteSet(Requests)
  /\ Offered \subseteq Transfers \cup {NoTransfer}
  /\ Amounts \subseteq Nat \ {0}
  /\ Funds \in Nat
  /\ MaxFaults \in Nat

VARIABLES
  req,     \* where each request is
  tx,      \* what became of its transaction on the chain
  funds,   \* what the account has left of each asset
  nonce,   \* transactions of each account that are mined
  next,    \* and those with the ones in the pool
  saving,  \* rows that saveWithdrawal is about to insert
  rows,    \* tbl_withdrawal
  faults   \* calls that failed

vars == <<req, tx, funds, nonce, next, saving, rows, faults>>
chain == <<tx, funds, nonce, next>>

Accounts == {t.account : t \in Offered}
Assets == {<<t.account, t.asset>> : t \in Offered}

Row == [status: {"Pending", "Approved"}, hash: BOOLEAN]
NoRow == [status |-> "none", hash |-> FALSE]

Steps == {"idle", "reading", "sourcing", "funding", "signing", "sending", "waiting",
          "success", "failed", "lost"}

Init ==
  /\ req = [r \in Requests |-> [pc |-> "idle", via |-> NoTransfer, amount |-> 0, nonce |-> 0]]
  /\ tx = [r \in Requests |-> "none"]
  /\ funds = [a \in Assets |-> Funds]
  /\ nonce = [a \in Accounts |-> 0]
  /\ next = [a \in Accounts |-> 0]
  /\ saving = [r \in Requests |-> NoRow]
  /\ rows = [r \in Requests |-> NoRow]
  /\ faults = 0

Via(r) == req[r].via
Account(r) == Via(r).account
Goes(r, pc) == req' = [req EXCEPT ![r].pc = pc]
-----------------------------------------------------------------------------
(* The request, up to the transfer.                                        *)

Ask(r) ==
  /\ req[r].pc = "idle"
  /\ \E via \in Offered, amount \in Amounts :
       req' = [req EXCEPT ![r] = [pc |-> IF via.saves THEN "reading" ELSE "funding",
                                  via |-> via, amount |-> amount, nonce |-> 0]]
  /\ UNCHANGED <<chain, saving, rows, faults>>

\* Fees and wallet are read.  The check against tbl_wallet compares strings, of
\* which one is amount and fees written one after the other: it may pass or not.
Check(r) ==
  /\ req[r].pc = "reading"
  /\ \E pc \in {"sourcing", "failed"} : Goes(r, pc)
  /\ UNCHANGED <<chain, saving, rows, faults>>

\* No row of tbl_address_balance has enough: a row for the administrator.
NoSource(r) ==
  /\ req[r].pc = "sourcing"
  /\ Goes(r, "success")
  /\ saving' = [saving EXCEPT ![r] = [status |-> "Pending", hash |-> FALSE]]
  /\ UNCHANGED <<chain, rows, faults>>

Source(r) ==
  /\ req[r].pc = "sourcing"
  /\ Goes(r, IF Via(r) = NoTransfer THEN "failed" ELSE "funding")
  /\ UNCHANGED <<chain, saving, rows, faults>>

\* The balance on the chain.  Only usdt_transfer compares numbers; the others compare
\* strings, or nothing, and parseUnits refuses an amount that is none.
Balance(r) ==
  /\ req[r].pc = "funding"
  /\ \/ (Via(r).saves \/ req[r].amount <= funds[<<Account(r), Via(r).asset>>]) /\ Goes(r, "signing")
     \/ (Via(r).saves \/ req[r].amount > funds[<<Account(r), Via(r).asset>>]) /\ Goes(r, "failed")
  /\ UNCHANGED <<chain, saving, rows, faults>>

\* The nonce is read: by ethers, in the pool, or by the handler, as mined.
Sign(r) ==
  /\ req[r].pc = "signing"
  /\ req' = [req EXCEPT ![r].pc = "sending",
                        ![r].nonce = CASE Via(r).nonce = "pending" -> next[Account(r)]
                                       [] Via(r).nonce = "latest" -> nonce[Account(r)]
                                       [] Via(r).nonce = "none" -> 0]
  /\ UNCHANGED <<chain, saving, rows, faults>>
-----------------------------------------------------------------------------
(* The transfer.                                                           *)

\* Slip: a hash is enough for Approved.
SavedByHash(r) == [status |-> "Approved", hash |-> TRUE]

\* What the handler saves: blockHash decides on the status.
Saved(r) == [status |-> IF Via(r).waits THEN "Approved" ELSE "Pending", hash |-> TRUE]

\* Slip: only what is still to be followed up is saved.
SucceedPending(r) ==
  /\ Goes(r, "success")
  /\ saving' = IF Via(r).saves /\ ~Via(r).waits THEN [saving EXCEPT ![r] = Saved(r)] ELSE saving

\* The end of the handler: saveWithdrawal is called, and not waited for.
Succeed(r) ==
  /\ Goes(r, "success")
  /\ saving' = IF Via(r).saves THEN [saving EXCEPT ![r] = Saved(r)] ELSE saving

\* The pool takes a transaction with the next nonce, or, as TransferETH does not
\* fix its price, one with a better price than another with its nonce.
Others(r) == {q \in Requests \ {r} : tx[q] = "pool" /\ Account(q) = Account(r) /\ req[q].nonce = req[r].nonce}
Pooled(r) ==
  \/ /\ Via(r).nonce = "none" \/ req[r].nonce = next[Account(r)]
     /\ tx' = [tx EXCEPT ![r] = "pool"]
     /\ next' = [next EXCEPT ![Account(r)] = @ + 1]
  \/ /\ Account(r) = "Ethereum" /\ Others(r) # {}
     /\ tx' = [q \in Requests |-> IF q = r THEN "pool" ELSE IF q \in Others(r) THEN "replaced" ELSE tx[q]]
     /\ UNCHANGED next

\* Slip: the receipt is not waited for.
SendOnly(r) ==
  /\ req[r].pc = "sending"
  /\ Pooled(r)
  /\ Succeed(r)
  /\ UNCHANGED <<funds, nonce, rows, faults>>

\* Bitcoin and BEP2: the hash is all that is waited for.
Send(r) ==
  /\ req[r].pc = "sending"
  /\ Pooled(r)
  /\ IF Via(r).waits THEN Goes(r, "waiting") /\ UNCHANGED saving ELSE Succeed(r)
  /\ UNCHANGED <<funds, nonce, rows, faults>>

\* The node refuses: nonce, price, funds, and others.
Refuse(r) ==
  /\ req[r].pc = "sending"
  /\ Goes(r, "failed")
  /\ UNCHANGED <<chain, saving, rows, faults>>

\* A transaction is mined when those with lower nonces are.
Mine(r) ==
  /\ tx[r] = "pool"
  /\ Via(r).nonce = "none" \/ req[r].nonce = nonce[Account(r)]
  /\ LET asset == <<Account(r), Via(r).asset>> IN
       IF req[r].amount <= funds[asset]
       THEN /\ tx' = [tx EXCEPT ![r] = "mined"]
            /\ funds' = [funds EXCEPT ![asset] = @ - req[r].amount]
       ELSE tx' = [tx EXCEPT ![r] = "reverted"] /\ UNCHANGED funds
  /\ nonce' = [nonce EXCEPT ![Account(r)] = @ + 1]
  /\ UNCHANGED <<req, next, saving, rows, faults>>

\* Slip: a deadline.
WaitGivesUp(r) ==
  /\ req[r].pc = "waiting"
  /\ \/ tx[r] = "mined" /\ Succeed(r)
     \/ tx[r] # "mined" /\ Goes(r, "failed") /\ UNCHANGED saving
  /\ UNCHANGED <<chain, rows, faults>>
-----------------------------------------------------------------------------
(* What is left of the request, and what fails.                            *)

\* tx.wait(), which throws when the transaction reverted or was replaced.
Wait(r) ==
  /\ req[r].pc = "waiting"
  /\ \/ tx[r] = "mined" /\ Succeed(r)
     \/ tx[r] \in {"reverted", "replaced"} /\ Goes(r, "failed") /\ UNCHANGED saving
  /\ UNCHANGED <<chain, rows, faults>>

\* Slip: the row for the administrator is inserted with a status of NULL.
SaveNull(r) ==
  /\ saving[r] # NoRow
  /\ rows' = [rows EXCEPT ![r] = IF saving[r].hash THEN saving[r] ELSE [saving[r] EXCEPT !.status = "null"]]
  /\ saving' = [saving EXCEPT ![r] = NoRow]
  /\ UNCHANGED <<req, chain, faults>>

\* Slip: inserts wait for each other.
SaveAlone(r) ==
  /\ saving[r] # NoRow
  /\ \A q \in Requests \ {r} : saving[q] = NoRow
  /\ rows' = [rows EXCEPT ![r] = saving[r]]
  /\ saving' = [saving EXCEPT ![r] = NoRow]
  /\ UNCHANGED <<req, chain, faults>>

Save(r) ==
  /\ saving[r] # NoRow
  /\ rows' = [rows EXCEPT ![r] = saving[r]]
  /\ saving' = [saving EXCEPT ![r] = NoRow]
  /\ UNCHANGED <<req, chain, faults>>

\* On the Beacon chain the handler goes on with 0 when it cannot read the sequence.
SequenceFails(r) ==
  /\ faults < MaxFaults
  /\ req[r].pc = "signing" /\ Account(r) = "Beacon"
  /\ req' = [req EXCEPT ![r].pc = "sending", ![r].nonce = 0]
  /\ faults' = faults + 1
  /\ UNCHANGED <<chain, saving, rows>>

\* A statement or call fails; what was sent may be in the pool all the same.
Fail(r) ==
  /\ faults < MaxFaults
  /\ req[r].pc \notin {"idle", "success", "failed", "lost"}
  /\ ~(req[r].pc = "signing" /\ Account(r) = "Beacon")
  /\ Goes(r, "failed")
  /\ faults' = faults + 1
  /\ IF req[r].pc = "sending" THEN Pooled(r) \/ UNCHANGED <<tx, next>> ELSE UNCHANGED <<tx, next>>
  /\ UNCHANGED <<funds, nonce, saving, rows>>

Handler(r) ==
  Check(r) \/ NoSource(r) \/ Source(r) \/ Balance(r) \/ Sign(r) \/ Send(r) \/ Refuse(r) \/ Wait(r) \/ Save(r)

-----------------------------------------------------------------------------
(* Properties.                                                             *)

Outcomes == {"none", "pool", "mined", "reverted", "replaced"}

\* The variables have the types the code and the table give them.
TypeOK ==
  /\ req \in [Requests -> [pc: Steps, via: Transfers \cup {NoTransfer}, amount: Nat, nonce: Nat]]
  /\ tx \in [Requests -> Outcomes]
  /\ funds \in [Assets -> Nat]
  /\ nonce \in [Accounts -> Nat] /\ next \in [Accounts -> Nat]
  /\ saving \in [Requests -> Row \cup {NoRow}]
  /\ rows \in [Requests -> Row \cup {NoRow}]
  /\ faults \in Nat

\* A row of tbl_withdrawal is what Withdrawals takes it to be: Approved only when
\* its transaction is mined and has paid; Pending with a hash only on chains that
\* are not Ethereum's; without a hash only when nothing was sent (withdrawal).
RowsTellOfTransfers ==
  \A r \in Requests :
    /\ rows[r].status = "Approved" => tx[r] = "mined"
    /\ rows[r].status = "Pending" /\ rows[r].hash => Account(r) \in {"Beacon", "Bitcoin"}
    /\ rows[r].status = "Pending" /\ ~rows[r].hash => tx[r] = "none"

\* While every call is answered, 'Transfer Failed' and an error mean that nothing
\* was paid and nothing will be, whatever other requests did to the nonce.
FailureIsUnpaid ==
  faults = 0 => \A r \in Requests : req[r].pc = "failed" => tx[r] \in {"none", "reverted", "replaced"}
=============================================================================
