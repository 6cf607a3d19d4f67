------------------------ MODULE WithdrawalPathProofs ------------------------
(***************************************************************************)
(* Proofs, for any numbers of requests and failing calls and any amounts,  *)
(* that the rows of tbl_withdrawal tell what happened on the chain, that a *)
(* failed transfer has not paid, that what has paid is on its way to a row *)
(* unless it was cut off, and that rows and process go as FollowUp says.   *)
(***************************************************************************)
EXTENDS WithdrawalPath, SumProofs

\* Nothing was sent.
Early == {"idle", "reading", "sourcing", "funding", "signing", "sending"}

\* A row that is saved, or about to be, tells the truth of the transaction.
RowOK(r, row) ==
  /\ row.status = "Approved" => tx[r] = "mined"
  /\ row.status = "Pending" /\ row.hash => Account(r) \in {"Beacon", "Bitcoin"}
  /\ row.status = "Pending" /\ ~row.hash => tx[r] = "none"

\* The request, its transaction and its rows.  Rows come at the end of a request,
\* and nothing is sent after that.
RequestOK(r) ==
  /\ req[r].pc # "idle" => Via(r) \in Offered
  /\ req[r].pc \in Early => tx[r] = "none"
  /\ req[r].pc \in {"funding", "signing", "sending", "waiting"} => Via(r) # NoTransfer
  /\ req[r].pc = "waiting" => Via(r).waits
  /\ req[r].pc # "success" => saving[r] = NoRow /\ rows[r] = NoRow
  /\ RowOK(r, saving[r]) /\ RowOK(r, rows[r])
  /\ faults = 0 /\ req[r].pc = "failed" => tx[r] \in {"none", "reverted", "replaced"}

IInv == TypeOK /\ \A r \in Requests : RequestOK(r)
-----------------------------------------------------------------------------
(* What steps have in common.                                              *)

\* Who is not waited for is on Bitcoin or the Beacon chain.
LEMMA TransferFacts ==
  ASSUME NEW t \in Transfers
  PROVE  /\ t.nonce \in {"pending", "latest", "none"}
         /\ ~t.waits => t.account \in {"Beacon", "Bitcoin"}
         /\ t.waits \in BOOLEAN /\ t.saves \in BOOLEAN
<1>1. CASE t = SendUSDTERC20
  BY <1>1 DEF SendUSDTERC20
<1>2. CASE t = TransferBep20
  BY <1>2 DEF TransferBep20
<1>3. CASE t = TransferBep20USDT
  BY <1>3 DEF TransferBep20USDT
<1>4. CASE t = TransferETH
  BY <1>4 DEF TransferETH
<1>5. CASE t = TransferBNBBep20
  BY <1>5 DEF TransferBNBBep20
<1>6. CASE t = TransferBNBBep2
  BY <1>6 DEF TransferBNBBep2
<1>7. CASE t = SendBitcoin
  BY <1>7 DEF SendBitcoin
<1>8. CASE t = UsdtTransfer
  BY <1>8 DEF UsdtTransfer
<1> QED BY <1>1, <1>2, <1>3, <1>4, <1>5, <1>6, <1>7, <1>8 DEF Transfers

LEMMA NoRowOK ==
  ASSUME NEW r \in Requests
  PROVE  RowOK(r, NoRow)
  BY DEF RowOK, NoRow

LEMMA InitOK == Init => IInv
<1> SUFFICES ASSUME Init PROVE IInv
  OBVIOUS
<1>1. TypeOK
  BY PayoutsAssumption DEF Init, TypeOK, Steps, Outcomes
<1>2. ASSUME NEW r \in Requests
      PROVE  RequestOK(r)
  <2>1. /\ req[r].pc = "idle" /\ tx[r] = "none" /\ saving[r] = NoRow /\ rows[r] = NoRow
    BY DEF Init
  <2> QED BY <2>1, NoRowOK DEF RequestOK, Early
<1> QED BY <1>1, <1>2 DEF IInv

\* The others are as before when one request takes a step.
LEMMA OneRequest ==
  ASSUME IInv, NEW r \in Requests, RequestOK(r)', faults' \in Nat, faults' = 0 => faults = 0,
         \A q \in Requests \ {r} : /\ req'[q] = req[q] /\ tx'[q] = tx[q]
                                   /\ saving'[q] = saving[q] /\ rows'[q] = rows[q]
  PROVE  (\A q \in Requests : RequestOK(q))'
<1>1. ASSUME NEW q \in Requests \ {r}
      PROVE  RequestOK(q)'
  BY DEF IInv, RequestOK, RowOK, Via, Account
<1> QED BY <1>1

\* A request goes on before anything is sent or saved.
LEMMA EarlyStep ==
  ASSUME IInv, NEW r \in Requests, req[r].pc \in Early, req[r].pc # "idle",
         NEW pc \in {"sourcing", "funding", "signing", "sending", "failed"}, NEW n \in Nat,
         req' = [req EXCEPT ![r].pc = pc, ![r].nonce = n],
         pc \in {"funding", "signing", "sending"} => Via(r) # NoTransfer,
         UNCHANGED <<chain, saving, rows>>, faults' \in Nat, faults' = 0 => faults = 0
  PROVE  IInv'
<1>1. /\ req' \in [Requests -> [pc: Steps, via: Transfers \cup {NoTransfer}, amount: Nat, nonce: Nat]]
      /\ req'[r].pc = pc /\ req'[r].via = req[r].via
      /\ \A q \in Requests \ {r} : req'[q] = req[q]
  BY ZenonT(90) DEF IInv, TypeOK, Steps
<1>2. TypeOK'
  BY <1>1 DEF IInv, TypeOK, chain
<1>3. RequestOK(r)
  BY DEF IInv
<1>4. saving[r] = NoRow /\ rows[r] = NoRow /\ tx[r] = "none" /\ Via(r) \in Offered
  BY <1>3 DEF RequestOK, Early
<1>5. saving'[r] = NoRow /\ rows'[r] = NoRow /\ tx'[r] = "none" /\ Via(r)' = Via(r)
  BY <1>1, <1>4 DEF chain, Via
<1>6. RowOK(r, NoRow)'
  BY DEF RowOK, NoRow
<1>7. RequestOK(r)'
  BY <1>1, <1>4, <1>5, <1>6 DEF RequestOK, Early
<1> QED BY <1>1, <1>2, <1>7, OneRequest DEF IInv, TypeOK, chain

\* The end of the handler with a hash; the transaction and the pool may change in
\* the same step.
LEMMA SucceedStep ==
  ASSUME IInv, NEW r \in Requests, Succeed(r), req[r].pc \in {"sending", "waiting"},
         Via(r).waits => tx'[r] = "mined",
         tx' \in [Requests -> Outcomes], next' \in [Accounts -> Nat],
         UNCHANGED <<funds, nonce, rows, faults>>
  PROVE  TypeOK' /\ RequestOK(r)' /\ \A q \in Requests \ {r} : req'[q] = req[q] /\ saving'[q] = saving[q]
<1>1. /\ req' \in [Requests -> [pc: Steps, via: Transfers \cup {NoTransfer}, amount: Nat, nonce: Nat]]
      /\ req'[r].pc = "success" /\ req'[r].via = req[r].via
      /\ \A q \in Requests \ {r} : req'[q] = req[q]
  BY DEF Succeed, Goes, IInv, TypeOK, Steps
<1>2. RequestOK(r)
  BY DEF IInv
<1>3. saving[r] = NoRow /\ rows[r] = NoRow /\ Via(r) \in Transfers
  BY <1>2, PayoutsAssumption DEF RequestOK
<1>4. Saved(r) \in Row /\ Saved(r).hash = TRUE
      /\ (Saved(r).status = "Approved" => Via(r).waits) /\ (Saved(r).status = "Pending" => ~Via(r).waits)
  BY DEF Saved, Row
<1>5. /\ saving' \in [Requests -> Row \cup {NoRow}] /\ saving'[r] \in {Saved(r), NoRow}
      /\ \A q \in Requests \ {r} : saving'[q] = saving[q]
  BY <1>3, <1>4 DEF Succeed, IInv, TypeOK
<1>6. TypeOK'
  BY <1>1, <1>5 DEF IInv, TypeOK
<1>7. Via(r)' = Via(r) /\ Account(r)' = Account(r)
  BY <1>1 DEF Via, Account
<1>8. ~Via(r).waits => Account(r) \in {"Beacon", "Bitcoin"}
  BY <1>3, TransferFacts DEF Account
<1>9. ASSUME NEW row \in {Saved(r), NoRow}
      PROVE  RowOK(r, row)'
  BY <1>4, <1>7, <1>8 DEF RowOK, NoRow
<1>10. rows'[r] = NoRow
  BY <1>3
<1>11. RowOK(r, saving[r])' /\ RowOK(r, rows[r])'
  BY <1>5, <1>9, <1>10 DEF RowOK, Via, Account
<1>12. Via(r)' \in Offered
  BY <1>2, <1>7 DEF RequestOK
<1>13. RequestOK(r)'
  BY <1>1, <1>11, <1>12 DEF RequestOK, Early
<1> QED BY <1>1, <1>5, <1>6, <1>13

\* The pool takes a transaction, and may give up others that were not mined.
LEMMA PooledFacts ==
  ASSUME IInv, NEW r \in Requests, req[r].pc = "sending", Pooled(r)
  PROVE  /\ tx' \in [Requests -> Outcomes] /\ tx'[r] = "pool"
         /\ next' \in [Accounts -> Nat]
         /\ \A q \in Requests \ {r} : tx'[q] = tx[q] \/ (tx[q] = "pool" /\ tx'[q] = "replaced")
  BY DEF Pooled, Others, IInv, TypeOK, Outcomes

\* A transaction that is given up changes nothing else.
LEMMA GivenUp ==
  ASSUME IInv, NEW q \in Requests, tx[q] = "pool", tx'[q] = "replaced",
         req'[q] = req[q], saving'[q] = saving[q], rows'[q] = rows[q], faults' = 0 => faults = 0
  PROVE  RequestOK(q)'
<1>1. RequestOK(q) /\ saving[q] \in Row \cup {NoRow} /\ rows[q] \in Row \cup {NoRow}
  BY DEF IInv, TypeOK
<1>2. req[q].pc \notin Early
  BY <1>1 DEF RequestOK
<1>3. RowOK(q, saving[q])' /\ RowOK(q, rows[q])'
  BY <1>1 DEF RequestOK, RowOK, Via, Account
<1> QED BY <1>1, <1>2, <1>3 DEF RequestOK, Via

\* The requests but r, when r's transaction enters the pool.
LEMMA OthersOK ==
  ASSUME IInv, NEW r \in Requests, faults' = 0 => faults = 0,
         \A q \in Requests \ {r} : tx'[q] = tx[q] \/ (tx[q] = "pool" /\ tx'[q] = "replaced"),
         \A q \in Requests \ {r} : req'[q] = req[q] /\ saving'[q] = saving[q] /\ rows'[q] = rows[q]
  PROVE  \A q \in Requests \ {r} : RequestOK(q)'
<1> SUFFICES ASSUME NEW q \in Requests \ {r} PROVE RequestOK(q)'
  OBVIOUS
<1>1. CASE tx'[q] = tx[q]
  BY <1>1 DEF IInv, RequestOK, RowOK, Via, Account
<1>2. CASE tx[q] = "pool" /\ tx'[q] = "replaced"
  BY <1>2, GivenUp
<1> QED BY <1>1, <1>2

-----------------------------------------------------------------------------
(* The steps.                                                              *)

LEMMA AskStep ==
  ASSUME IInv, NEW r \in Requests, Ask(r)
  PROVE  IInv'
<1>1. PICK via \in Offered, amount \in Amounts :
        req' = [req EXCEPT ![r] = [pc |-> IF via.saves THEN "reading" ELSE "funding",
                                   via |-> via, amount |-> amount, nonce |-> 0]]
  BY DEF Ask
<1> DEFINE pc == IF via.saves THEN "reading" ELSE "funding"
<1>2. pc \in {"reading", "funding"} /\ (pc = "funding" => via # NoTransfer)
  BY DEF NoTransfer
<1>3. req' = [req EXCEPT ![r] = [pc |-> pc, via |-> via, amount |-> amount, nonce |-> 0]]
  BY <1>1
<1> HIDE DEF pc
<1>4. /\ req' \in [Requests -> [pc: Steps, via: Transfers \cup {NoTransfer}, amount: Nat, nonce: Nat]]
      /\ req'[r].pc = pc /\ req'[r].via = via
      /\ \A q \in Requests \ {r} : req'[q] = req[q]
  BY <1>2, <1>3, PayoutsAssumption DEF IInv, TypeOK, Steps
<1>5. TypeOK'
  BY <1>4 DEF Ask, IInv, TypeOK, chain
<1>6. saving'[r] = NoRow /\ rows'[r] = NoRow /\ tx'[r] = "none"
  BY DEF Ask, chain, IInv, RequestOK, Early
<1>7. RowOK(r, NoRow)'
  BY DEF RowOK, NoRow
<1>8. RequestOK(r)'
  BY <1>2, <1>4, <1>6, <1>7 DEF RequestOK, Early, Via
<1> QED BY <1>4, <1>5, <1>8, OneRequest DEF Ask, chain, IInv, TypeOK

\* Requests that only move on, or fail, before the transfer.
LEMMA GoesEarly ==
  ASSUME IInv, NEW r \in Requests, req[r].pc \in Early, req[r].pc # "idle",
         NEW pc \in {"sourcing", "funding", "signing", "failed"}, Goes(r, pc),
         pc \in {"funding", "signing"} => Via(r) # NoTransfer,
         UNCHANGED <<chain, saving, rows, faults>>
  PROVE  IInv'
<1>1. req[r].nonce \in Nat /\ req' = [req EXCEPT ![r].pc = pc, ![r].nonce = req[r].nonce]
  BY DEF Goes, IInv, TypeOK
<1> QED BY <1>1, EarlyStep DEF IInv, TypeOK

LEMMA CheckStep ==
  ASSUME IInv, NEW r \in Requests, Check(r) \/ Refuse(r)
  PROVE  IInv'
<1>1. PICK pc \in {"sourcing", "failed"} : Goes(r, pc)
  BY DEF Check, Refuse
<1> QED BY <1>1, GoesEarly DEF Check, Refuse, Early

LEMMA SourceStep ==
  ASSUME IInv, NEW r \in Requests, Source(r)
  PROVE  IInv'
<1>1. CASE Via(r) = NoTransfer
  BY <1>1, GoesEarly DEF Source, Early
<1>2. CASE Via(r) # NoTransfer
  BY <1>2, GoesEarly DEF Source, Early
<1> QED BY <1>1, <1>2

LEMMA BalanceStep ==
  ASSUME IInv, NEW r \in Requests, Balance(r)
  PROVE  IInv'
<1>1. PICK pc \in {"signing", "failed"} : Goes(r, pc)
  BY DEF Balance
<1>2. Via(r) # NoTransfer
  BY DEF Balance, IInv, RequestOK
<1> QED BY <1>1, <1>2, GoesEarly DEF Balance, Early

LEMMA SignStep ==
  ASSUME IInv, NEW r \in Requests, Sign(r)
  PROVE  IInv'
<1>1. RequestOK(r) /\ req[r].pc = "signing"
  BY DEF Sign, IInv
<1>2. Via(r) \in Offered /\ Via(r) # NoTransfer
  BY <1>1 DEF RequestOK
<1>3. Via(r) \in Transfers /\ Account(r) \in Accounts
  BY <1>2, PayoutsAssumption DEF Accounts, Account
<1>4. Via(r).nonce \in {"pending", "latest", "none"}
  BY <1>3, TransferFacts
<1> DEFINE n == CASE Via(r).nonce = "pending" -> next[Account(r)]
                  [] Via(r).nonce = "latest" -> nonce[Account(r)]
                  [] Via(r).nonce = "none" -> 0
<1>5. n \in Nat
  BY <1>3, <1>4 DEF IInv, TypeOK
<1>6. req' = [req EXCEPT ![r].pc = "sending", ![r].nonce = n]
  BY DEF Sign
<1> HIDE DEF n
<1> QED BY <1>1, <1>2, <1>5, <1>6, EarlyStep DEF Sign, Early, IInv, TypeOK

\* The sequence that could not be read is 0.
LEMMA SequenceFailsStep ==
  ASSUME IInv, NEW r \in Requests, SequenceFails(r)
  PROVE  IInv'
<1>1. RequestOK(r) /\ req[r].pc = "signing" /\ faults' = faults + 1 /\ faults \in Nat
  BY DEF SequenceFails, IInv, TypeOK
<1>2. Via(r) # NoTransfer
  BY <1>1 DEF RequestOK
<1>3. req' = [req EXCEPT ![r].pc = "sending", ![r].nonce = 0]
  BY DEF SequenceFails
<1>4. UNCHANGED <<chain, saving, rows>>
  BY DEF SequenceFails
<1>5. faults' \in Nat /\ (faults' = 0 => faults = 0)
  BY <1>1
<1>6. req[r].pc \in Early /\ req[r].pc # "idle"
  BY <1>1 DEF Early
<1> QED BY <1>2, <1>3, <1>4, <1>5, <1>6, EarlyStep

LEMMA NoSourceStep ==
  ASSUME IInv, NEW r \in Requests, NoSource(r)
  PROVE  IInv'
<1> DEFINE new == [status |-> "Pending", hash |-> FALSE]
<1>1. /\ req' \in [Requests -> [pc: Steps, via: Transfers \cup {NoTransfer}, amount: Nat, nonce: Nat]]
      /\ req'[r].pc = "success" /\ req'[r].via = req[r].via
      /\ \A q \in Requests \ {r} : req'[q] = req[q]
  BY DEF NoSource, Goes, IInv, TypeOK, Steps
<1>2. new \in Row /\ new.status = "Pending" /\ new.hash = FALSE
  BY DEF Row
<1>3. saving' = [saving EXCEPT ![r] = new]
  BY DEF NoSource
<1> HIDE DEF new
<1>4. /\ saving' \in [Requests -> Row \cup {NoRow}] /\ saving'[r] = new
      /\ \A q \in Requests \ {r} : saving'[q] = saving[q]
  BY <1>2, <1>3 DEF IInv, TypeOK
<1>5. TypeOK'
  BY <1>1, <1>4 DEF NoSource, IInv, TypeOK, chain
<1>6. RequestOK(r) /\ req[r].pc = "sourcing"
  BY DEF NoSource, IInv
<1>7. tx[r] = "none" /\ rows[r] = NoRow /\ Via(r) \in Offered
  BY <1>6 DEF RequestOK, Early
<1>8. tx'[r] = "none" /\ rows'[r] = NoRow /\ Via(r)' \in Offered
  BY <1>1, <1>7 DEF NoSource, chain, Via
<1>9. RowOK(r, saving[r])' /\ RowOK(r, rows[r])'
  BY <1>2, <1>4, <1>8 DEF RowOK, NoRow
<1>10. RequestOK(r)'
  BY <1>1, <1>8, <1>9 DEF RequestOK, Early
<1> QED BY <1>1, <1>4, <1>5, <1>10, OneRequest DEF NoSource, chain, IInv, TypeOK

LEMMA SendStep ==
  ASSUME IInv, NEW r \in Requests, Send(r)
  PROVE  IInv'
<1>1. req[r].pc = "sending" /\ Pooled(r) /\ UNCHANGED <<funds, nonce, rows, faults>>
  BY DEF Send
<1>2. /\ tx' \in [Requests -> Outcomes] /\ tx'[r] = "pool" /\ next' \in [Accounts -> Nat]
      /\ \A q \in Requests \ {r} : tx'[q] = tx[q] \/ (tx[q] = "pool" /\ tx'[q] = "replaced")
  BY <1>1, PooledFacts
<1>3. CASE Via(r).waits
  <2>1. Goes(r, "waiting") /\ UNCHANGED saving
    BY <1>3 DEF Send
  <2>2. /\ req' \in [Requests -> [pc: Steps, via: Transfers \cup {NoTransfer}, amount: Nat, nonce: Nat]]
        /\ req'[r].pc = "waiting" /\ req'[r].via = req[r].via
        /\ \A q \in Requests \ {r} : req'[q] = req[q]
    BY <2>1 DEF Goes, IInv, TypeOK, Steps
  <2>3. TypeOK'
    BY <1>1, <1>2, <2>1, <2>2 DEF IInv, TypeOK
  <2>4. saving'[r] = NoRow /\ rows'[r] = NoRow /\ Via(r)' = Via(r) /\ Via(r) \in Offered /\ Via(r) # NoTransfer
    BY <1>1, <2>1, <2>2 DEF IInv, RequestOK, Via
  <2>5. RowOK(r, NoRow)'
    BY DEF RowOK, NoRow
  <2>6. RequestOK(r)'
    BY <1>3, <2>2, <2>4, <2>5 DEF RequestOK, Early
  <2>7. \A q \in Requests \ {r} : RequestOK(q)'
    BY <1>1, <1>2, <2>1, <2>2, OthersOK
  <2> QED BY <2>3, <2>6, <2>7 DEF IInv
<1>4. CASE ~Via(r).waits
  <2>1. Succeed(r)
    BY <1>4 DEF Send
  <2>2. /\ TypeOK' /\ RequestOK(r)'
        /\ \A q \in Requests \ {r} : req'[q] = req[q] /\ saving'[q] = saving[q]
    BY <1>1, <1>2, <1>4, <2>1, SucceedStep
  <2>3. \A q \in Requests \ {r} : RequestOK(q)'
    BY <1>1, <1>2, <2>2, OthersOK
  <2> QED BY <2>2, <2>3 DEF IInv
<1> QED BY <1>3, <1>4

LEMMA MineStep ==
  ASSUME IInv, NEW r \in Requests, Mine(r)
  PROVE  IInv'
<1> DEFINE asset == <<Account(r), Via(r).asset>>
<1>1. PICK outcome \in {"mined", "reverted"} :
        /\ tx' = [tx EXCEPT ![r] = outcome]
        /\ \/ UNCHANGED funds
           \/ req[r].amount <= funds[asset] /\ funds' = [funds EXCEPT ![asset] = @ - req[r].amount]
  BY DEF Mine
<1>2. funds' \in [Assets -> Nat] /\ nonce' \in [Accounts -> Nat]
  <2>1. funds \in [Assets -> Nat] /\ nonce \in [Accounts -> Nat] /\ req[r].amount \in Nat
    BY DEF IInv, TypeOK
  <2> HIDE DEF asset
  <2>2. ASSUME req[r].amount <= funds[asset], funds' = [funds EXCEPT ![asset] = @ - req[r].amount]
        PROVE  funds' \in [Assets -> Nat]
    <3>1. asset \in Assets => funds[asset] - req[r].amount \in Nat
      BY <2>1, <2>2
    <3> QED BY <2>1, <2>2, <3>1
  <2>3. funds' \in [Assets -> Nat]
    BY <1>1, <2>1, <2>2
  <2>4. nonce' \in [Accounts -> Nat]
    <3>1. nonce' = [a \in Accounts |-> IF a = Account(r) THEN nonce[a] + 1 ELSE nonce[a]]
      BY <2>1 DEF Mine
    <3> QED BY <2>1, <3>1
  <2> QED BY <2>3, <2>4
<1>3. /\ tx' \in [Requests -> Outcomes] /\ tx'[r] \in {"mined", "reverted"} /\ tx[r] = "pool"
      /\ \A q \in Requests \ {r} : tx'[q] = tx[q]
  BY <1>1 DEF Mine, IInv, TypeOK, Outcomes
<1>4. UNCHANGED <<req, next, saving, rows, faults>>
  BY DEF Mine
<1>5. TypeOK'
  BY <1>2, <1>3, <1>4 DEF IInv, TypeOK
<1>6. RequestOK(r) /\ saving[r] \in Row \cup {NoRow} /\ rows[r] \in Row \cup {NoRow}
  BY DEF IInv, TypeOK
<1>7. req[r].pc \notin Early /\ ~(faults = 0 /\ req[r].pc = "failed")
  BY <1>3, <1>6 DEF RequestOK
<1>8. RowOK(r, saving[r])' /\ RowOK(r, rows[r])'
  BY <1>3, <1>4, <1>6 DEF RequestOK, RowOK, Via, Account
<1>9. RequestOK(r)'
  BY <1>4, <1>6, <1>7, <1>8 DEF RequestOK, Via
<1> QED BY <1>3, <1>4, <1>5, <1>9, OneRequest DEF IInv, TypeOK

LEMMA WaitStep ==
  ASSUME IInv, NEW r \in Requests, Wait(r)
  PROVE  IInv'
<1>1. req[r].pc = "waiting" /\ UNCHANGED <<tx, funds, nonce, next, rows, faults>>
  BY DEF Wait, chain
<1>2. CASE tx[r] = "mined" /\ Succeed(r)
  <2>1. /\ TypeOK' /\ RequestOK(r)'
        /\ \A q \in Requests \ {r} : req'[q] = req[q] /\ saving'[q] = saving[q]
    BY <1>1, <1>2, SucceedStep DEF IInv, TypeOK
  <2> QED BY <1>1, <2>1, OneRequest DEF IInv, TypeOK
<1>3. CASE tx[r] \in {"reverted", "replaced"} /\ Goes(r, "failed") /\ UNCHANGED saving
  <2>1. /\ req' \in [Requests -> [pc: Steps, via: Transfers \cup {NoTransfer}, amount: Nat, nonce: Nat]]
        /\ req'[r].pc = "failed" /\ req'[r].via = req[r].via
        /\ \A q \in Requests \ {r} : req'[q] = req[q]
    BY <1>3 DEF Goes, IInv, TypeOK, Steps
  <2>2. TypeOK'
    BY <1>1, <1>3, <2>1 DEF IInv, TypeOK
  <2>3. saving'[r] = NoRow /\ rows'[r] = NoRow /\ Via(r)' \in Offered
    BY <1>1, <1>3, <2>1 DEF IInv, RequestOK, Via
  <2>4. RowOK(r, NoRow)'
    BY DEF RowOK, NoRow
  <2>5. RequestOK(r)'
    BY <1>1, <1>3, <2>1, <2>3, <2>4 DEF RequestOK, Early
  <2> QED BY <1>1, <1>3, <2>1, <2>2, <2>5, OneRequest DEF IInv, TypeOK
<1> QED BY <1>2, <1>3 DEF Wait

LEMMA SaveStep ==
  ASSUME IInv, NEW r \in Requests, Save(r)
  PROVE  IInv'
<1>1. saving[r] # NoRow /\ UNCHANGED <<req, tx, funds, nonce, next, faults>>
  BY DEF Save, chain
<1>2. /\ rows' \in [Requests -> Row \cup {NoRow}] /\ rows'[r] = saving[r]
      /\ saving' \in [Requests -> Row \cup {NoRow}] /\ saving'[r] = NoRow
      /\ \A q \in Requests \ {r} : rows'[q] = rows[q] /\ saving'[q] = saving[q]
  BY DEF Save, IInv, TypeOK
<1>3. TypeOK'
  BY <1>1, <1>2 DEF IInv, TypeOK
<1>4. RequestOK(r) /\ req[r].pc = "success"
  BY <1>1 DEF IInv, RequestOK
<1>5. RowOK(r, rows[r])' /\ RowOK(r, saving[r])'
  BY <1>1, <1>2, <1>4 DEF RequestOK, RowOK, Via, Account, NoRow
<1>6. RequestOK(r)'
  BY <1>1, <1>4, <1>5 DEF RequestOK, Via, Early
<1> QED BY <1>1, <1>2, <1>3, <1>6, OneRequest DEF IInv, TypeOK

LEMMA FailStep ==
  ASSUME IInv, NEW r \in Requests, Fail(r)
  PROVE  IInv'
<1>1. /\ req[r].pc \notin {"idle", "success", "failed", "lost"} /\ Goes(r, "failed")
      /\ UNCHANGED <<funds, nonce, saving, rows>>
  BY DEF Fail
<1>2. faults' \in Nat /\ faults' # 0
  BY DEF Fail, IInv, TypeOK
<1>3. /\ tx' \in [Requests -> Outcomes] /\ next' \in [Accounts -> Nat]
      /\ \A q \in Requests \ {r} : tx'[q] = tx[q] \/ (tx[q] = "pool" /\ tx'[q] = "replaced")
  <2>1. CASE UNCHANGED <<tx, next>>
    BY <2>1 DEF IInv, TypeOK
  <2>2. CASE req[r].pc = "sending" /\ Pooled(r)
    BY <2>2, PooledFacts
  <2> QED BY <2>1, <2>2 DEF Fail
<1>4. /\ req' \in [Requests -> [pc: Steps, via: Transfers \cup {NoTransfer}, amount: Nat, nonce: Nat]]
      /\ req'[r].pc = "failed" /\ req'[r].via = req[r].via
      /\ \A q \in Requests \ {r} : req'[q] = req[q]
  BY <1>1, ZenonT(90) DEF Goes, IInv, TypeOK, Steps
<1>5. TypeOK'
  BY <1>1, <1>2, <1>3, <1>4 DEF IInv, TypeOK
<1>6. saving'[r] = NoRow /\ rows'[r] = NoRow /\ Via(r)' \in Offered
  BY <1>1, <1>4 DEF IInv, RequestOK, Via
<1>7. RowOK(r, NoRow)'
  BY DEF RowOK, NoRow
<1>8. RequestOK(r)'
  BY <1>2, <1>4, <1>6, <1>7 DEF RequestOK, Early
<1>9. \A q \in Requests \ {r} : RequestOK(q)'
  BY <1>1, <1>2, <1>3, <1>4, OthersOK
<1> QED BY <1>5, <1>8, <1>9 DEF IInv

\* When the process ends, what was under way is lost and no row changes.
LEMMA LoseStep ==
  ASSUME IInv, Lose, faults' \in Nat, faults' = 0 => faults = 0
  PROVE  IInv'
<1>1. /\ req' \in [Requests -> [pc: Steps, via: Transfers \cup {NoTransfer}, amount: Nat, nonce: Nat]]
      /\ \A r \in Requests : /\ req'[r].via = req[r].via
                             /\ \/ req'[r].pc = "lost" /\ req[r].pc \notin {"idle", "success", "failed"}
                                \/ req'[r].pc = req[r].pc /\ req[r].pc \in {"idle", "success", "failed"}
  <2> SUFFICES ASSUME NEW r \in Requests
               PROVE  LET new == IF UnderWay(r) THEN [req[r] EXCEPT !.pc = "lost"] ELSE req[r]
                      IN  /\ new \in [pc: Steps, via: Transfers \cup {NoTransfer}, amount: Nat, nonce: Nat]
                          /\ new.via = req[r].via
                          /\ \/ new.pc = "lost" /\ req[r].pc \notin {"idle", "success", "failed"}
                             \/ new.pc = req[r].pc /\ req[r].pc \in {"idle", "success", "failed"}
    BY DEF Lose
  <2>1. req[r] \in [pc: Steps, via: Transfers \cup {NoTransfer}, amount: Nat, nonce: Nat]
    BY DEF IInv, TypeOK
  <2>2. "lost" \in Steps
    BY DEF Steps
  <2> QED BY <2>1, <2>2 DEF UnderWay
<1>2. UNCHANGED <<tx, funds, nonce, next, rows>>
  BY DEF Lose, chain
<1>3. saving' = [r \in Requests |-> NoRow]
  BY DEF Lose
<1>4. TypeOK'
  BY <1>1, <1>2, <1>3 DEF IInv, TypeOK
<1>5. ASSUME NEW r \in Requests
      PROVE  RequestOK(r)'
  <2>1. RequestOK(r)
    BY DEF IInv
  <2>2. Via(r)' = Via(r) /\ Account(r)' = Account(r) /\ saving'[r] = NoRow
    BY <1>1, <1>3 DEF Via, Account
  <2>3. RowOK(r, saving[r])' /\ RowOK(r, rows[r])'
    BY <1>2, <2>1, <2>2 DEF RequestOK, RowOK, NoRow
  <2> QED BY <1>1, <1>2, <2>1, <2>2, <2>3 DEF RequestOK, Early
<1> QED BY <1>4, <1>5 DEF IInv

\* The webhook writes what RowOK allows: the transaction is mined.
LEMMA HookStep ==
  ASSUME IInv, NEW r \in Requests, Hook(r)
  PROVE  IInv'
<1>1. /\ rows[r].hash /\ tx[r] = "mined" /\ rows' = [rows EXCEPT ![r].status = "Approved"]
      /\ UNCHANGED <<req, tx, funds, nonce, next, saving, faults>>
  BY DEF Hook, chain
<1>2. rows[r] \in Row
  BY <1>1 DEF IInv, TypeOK, NoRow
<1>3. /\ rows' \in [Requests -> Row \cup {NoRow}] /\ rows'[r] = [rows[r] EXCEPT !.status = "Approved"]
      /\ \A q \in Requests \ {r} : rows'[q] = rows[q]
  BY <1>1, <1>2 DEF IInv, TypeOK, Row
<1>4. TypeOK'
  BY <1>1, <1>3 DEF IInv, TypeOK
<1>5. RequestOK(r) /\ rows[r] # NoRow
  BY <1>1 DEF IInv, NoRow
<1>6. rows'[r].status = "Approved"
  BY <1>2, <1>3 DEF Row
<1>7. RowOK(r, saving[r])' /\ RowOK(r, rows[r])'
  BY <1>1, <1>5, <1>6 DEF RequestOK, RowOK, Via, Account
<1>8. RequestOK(r)'
  BY <1>1, <1>5, <1>7 DEF RequestOK, Via, Early
<1> QED BY <1>1, <1>3, <1>4, <1>8, OneRequest DEF IInv, TypeOK

-----------------------------------------------------------------------------
(* The theorems.                                                           *)

LEMMA NextStep ==
  ASSUME IInv, [PathNext]_pathVars
  PROVE  IInv'
<1>1. ASSUME NEW r \in Requests, Handler(r)
      PROVE  IInv'
  BY <1>1, CheckStep, NoSourceStep, SourceStep, BalanceStep, SignStep, SendStep, WaitStep, SaveStep
     DEF Handler
<1>2. ASSUME NEW r \in Requests, Serve(r) \/ Block(r) \/ Hook(r)
      PROVE  IInv'
  BY <1>1, <1>2, AskStep, MineStep, SequenceFailsStep, FailStep, HookStep DEF Serve, Block
<1>3. CASE Crash \/ EndByFollowUp \/ EndByTrades
  <2>1. Lose /\ faults' \in Nat /\ (faults' = 0 => faults = 0)
    BY <1>3 DEF Crash, EndByFollowUp, EndByTrades, IInv, TypeOK
  <2> QED BY <2>1, LoseStep
<1>4. CASE UNCHANGED vars
  <2>1. TypeOK'
    BY <1>4 DEF vars, IInv, TypeOK
  <2>2. ASSUME NEW r \in Requests
        PROVE  RequestOK(r)'
    BY <1>4 DEF vars, IInv, RequestOK, RowOK, Via, Account
  <2> QED BY <2>1, <2>2 DEF IInv
<1> QED BY <1>2, <1>3, <1>4 DEF PathNext, Restart, pathVars

\* The inductive invariant.
THEOREM Invariant == PathSpec => []IInv
  BY InitOK, NextStep, PTL DEF PathSpec, PathInit

\* The variables have the types of code and table, for every number of requests.
THEOREM TypeCorrect == PathSpec => []TypeOK
<1>1. IInv => TypeOK
  BY DEF IInv
<1> QED BY <1>1, Invariant, PTL

\* What withdrawal saves is what the follow-up takes it to be.
THEOREM RowsTell == PathSpec => []RowsTellOfTransfers
<1>1. IInv => RowsTellOfTransfers
  BY DEF IInv, RequestOK, RowOK, RowsTellOfTransfers
<1> QED BY <1>1, Invariant, PTL

\* A transfer that is answered with an error has not paid, if no call failed.
THEOREM FailuresUnpaid == PathSpec => []FailureIsUnpaid
<1>1. IInv => FailureIsUnpaid
  BY DEF IInv, RequestOK, FailureIsUnpaid
<1> QED BY <1>1, Invariant, PTL

-----------------------------------------------------------------------------
(* The rows and the process, as the follow-up sees them.                   *)

\* What is about to be inserted is what FollowUp expects.
SavingOK(r) ==
  saving[r] # NoRow =>
    /\ rows[r] = NoRow
    /\ saving[r].status = IF saving[r].hash /\ NetworkOf(Via(r)) = "EVM" THEN "Approved" ELSE "Pending"

\* What may have paid is waited for, saved or about to be, or was cut off.
Pursued(r) ==
  tx[r] \in {"pool", "mined"} /\ Via(r).saves =>
    rows[r] # NoRow \/ saving[r] # NoRow \/ req[r].pc = "waiting" \/ r \in cut

JInv == up \in BOOLEAN /\ \A r \in Requests : SavingOK(r) /\ Pursued(r)

LEMMA NetworkFacts ==
  ASSUME NEW via
  PROVE  /\ NetworkOf(via) \in {"Bitcoin", "BEP2", "EVM"}
         /\ NetworkOf(via) = "Bitcoin" <=> via.account = "Bitcoin"
         /\ NetworkOf(via) = "EVM" <=> via.account \notin {"Bitcoin", "Beacon"}
  BY DEF NetworkOf

\* Who is waited for is on a chain of Ethereum's kind.
LEMMA WaitsFacts ==
  ASSUME NEW t \in Transfers
  PROVE  t.waits <=> NetworkOf(t) = "EVM"
<1>1. t.waits <=> t.account \notin {"Bitcoin", "Beacon"}
  <2>1. CASE t \in {SendUSDTERC20, TransferBep20, TransferBep20USDT}
    BY <2>1 DEF SendUSDTERC20, TransferBep20, TransferBep20USDT
  <2>2. CASE t \in {TransferETH, TransferBNBBep20, TransferBNBBep2}
    BY <2>2 DEF TransferETH, TransferBNBBep20, TransferBNBBep2
  <2>3. CASE t \in {SendBitcoin, UsdtTransfer}
    BY <2>3 DEF SendBitcoin, UsdtTransfer
  <2> QED BY <2>1, <2>2, <2>3 DEF Transfers
<1> QED BY <1>1, NetworkFacts

\* The state function behind the rows of Follow, and what it says of one row.
Seen(q) ==
  IF rows[q] = NoRow THEN [network |-> "none", paid |-> FALSE, status |-> "none"]
  ELSE [network |-> NetworkOf(Via(q)), paid |-> rows[q].hash, status |-> rows[q].status]

\* A request keeps its transfer once it has one; rows and what is about to be
\* inserted belong to a request that has been answered with success.
LEMMA AnsweredFacts ==
  ASSUME IInv, NEW q \in Requests, rows[q] # NoRow \/ saving[q] # NoRow
  PROVE  req[q].pc = "success"
  BY DEF IInv, RequestOK

\* A step of one request; others may lose their place in the pool to it.
LEMMA OwnStep ==
  ASSUME JInv, UNCHANGED up, NEW r \in Requests, SavingOK(r)', Pursued(r)', cut \subseteq cut',
         \A q \in Requests \ {r} :
           /\ req'[q] = req[q] /\ saving'[q] = saving[q] /\ rows'[q] = rows[q]
           /\ tx'[q] = tx[q] \/ tx'[q] = "replaced"
  PROVE  JInv'
<1>1. ASSUME NEW q \in Requests
      PROVE  SavingOK(q)' /\ Pursued(q)'
  <2>1. CASE q = r
    BY <2>1
  <2>2. CASE q # r
    BY <2>2 DEF JInv, SavingOK, Pursued, Via
  <2> QED BY <2>1, <2>2
<1> QED BY <1>1 DEF JInv

LEMMA JInit == PathInit => JInv
<1> SUFFICES ASSUME PathInit PROVE JInv
  OBVIOUS
<1>1. up \in BOOLEAN /\ \A r \in Requests : saving[r] = NoRow /\ tx[r] = "none"
  BY DEF PathInit, Init
<1> QED BY <1>1 DEF JInv, SavingOK, Pursued

\* A handler that ends with a hash is about to save what FollowUp expects.
LEMMA SucceedSaves ==
  ASSUME IInv, NEW r \in Requests, Succeed(r), saving[r] = NoRow, Via(r) \in Transfers
  PROVE  /\ req'[r].pc = "success" /\ Via(r)' = Via(r)
         /\ saving'[r] # NoRow =>
              /\ saving'[r].hash
              /\ saving'[r].status = IF NetworkOf(Via(r)) = "EVM" THEN "Approved" ELSE "Pending"
<1>1. req'[r].pc = "success" /\ Via(r)' = Via(r)
  BY DEF Succeed, Goes, IInv, TypeOK, Via
<1>2. saving'[r] = NoRow \/ saving'[r] = Saved(r)
  BY DEF Succeed, IInv, TypeOK
<1>3. Saved(r).hash /\ Saved(r).status = IF NetworkOf(Via(r)) = "EVM" THEN "Approved" ELSE "Pending"
  BY WaitsFacts DEF Saved
<1> QED BY <1>1, <1>2, <1>3

\* What a step of the handler does to the request and its transaction.
Answer(r) ==
  /\ req[r].pc \in Steps \ {"success", "failed", "lost"}
  /\ \/ saving'[r] = saving[r]
     \/ saving'[r].status = "Pending" /\ ~saving'[r].hash
     \/ /\ Via(r)' = Via(r) /\ saving'[r].hash
        /\ saving'[r].status = IF NetworkOf(Via(r)) = "EVM" THEN "Approved" ELSE "Pending"
  /\ \/ tx'[r] \in {"none", "reverted", "replaced"} \/ req'[r].pc = "waiting" \/ r \in cut'
     \/ Via(r)' = Via(r) /\ (Via(r).saves => saving'[r] # NoRow)

\* Before the transfer nothing is in the pool.
LEMMA EarlyAnswer ==
  ASSUME IInv, NEW r \in Requests,
         Ask(r) \/ Check(r) \/ Refuse(r) \/ Source(r) \/ Balance(r) \/ Sign(r) \/ NoSource(r) \/ SequenceFails(r)
  PROVE  Answer(r) /\ tx' = tx
<1>1. /\ req \in [Requests -> [pc: Steps, via: Transfers \cup {NoTransfer}, amount: Nat, nonce: Nat]]
      /\ saving \in [Requests -> Row \cup {NoRow}]
  BY DEF IInv, TypeOK
<1>2. req[r].pc \in Early /\ tx' = tx
  BY DEF Ask, Check, Refuse, Source, Balance, Sign, NoSource, SequenceFails, Early, chain
<1>3. tx'[r] = "none" /\ req[r].pc \in Steps \ {"success", "failed", "lost"}
  BY <1>2 DEF IInv, RequestOK, Early, Steps
<1>4. saving'[r] = saving[r] \/ (saving'[r].status = "Pending" /\ ~saving'[r].hash)
  <2>1. CASE NoSource(r)
    BY <1>1, <2>1 DEF NoSource
  <2>2. CASE ~NoSource(r)
    BY <2>2 DEF Ask, Check, Refuse, Source, Balance, Sign, SequenceFails
  <2> QED BY <2>1, <2>2
<1> QED BY <1>2, <1>3, <1>4 DEF Answer

\* A handler that has sent waits, or saves what the transfer came to.
LEMMA LateAnswer ==
  ASSUME IInv, NEW r \in Requests, Send(r) \/ Wait(r)
  PROVE  Answer(r)
<1>1. req[r].pc \in {"sending", "waiting"} /\ RequestOK(r)
  BY DEF Send, Wait, IInv
<1>2. saving[r] = NoRow /\ Via(r) \in Transfers
  BY <1>1, PayoutsAssumption DEF RequestOK
<1>3. CASE Succeed(r)
  <2>1. Via(r).saves => saving'[r] # NoRow
    <3>1. Saved(r) # NoRow
      BY DEF Saved, NoRow
    <3> QED BY <1>3, <3>1 DEF Succeed, IInv, TypeOK
  <2> QED BY <1>1, <1>2, <1>3, <2>1, SucceedSaves DEF Steps, Answer
<1>4. CASE ~Succeed(r)
  <2>1. /\ saving' = saving
        /\ \/ Goes(r, "waiting")
           \/ Goes(r, "failed") /\ tx' = tx /\ tx[r] \in {"reverted", "replaced"}
    BY <1>4 DEF Send, Wait, chain
  <2>2. req \in [Requests -> [pc: Steps, via: Transfers \cup {NoTransfer}, amount: Nat, nonce: Nat]]
    BY DEF IInv, TypeOK
  <2> QED BY <1>1, <2>1, <2>2 DEF Goes, Steps, Answer
<1> QED BY <1>3, <1>4

\* What the handler does of a request, but inserting its row.
LEMMA ServeStep ==
  ASSUME IInv, JInv, NEW r \in Requests, ~Save(r), UNCHANGED up,
         \/ (Ask(r) \/ Handler(r) \/ SequenceFails(r)) /\ UNCHANGED cut
         \/ Fail(r) /\ cut' = cut \cup {r}
  PROVE  /\ JInv' /\ UNCHANGED rows
         /\ \A q \in Requests : rows[q] # NoRow => Via(q)' = Via(q)
<1>1. rows' = rows
  BY DEF Ask, Handler, Check, NoSource, Source, Balance, Sign, Send, Refuse, Wait, SequenceFails, Fail
<1>2. Answer(r)
  <2>1. CASE Fail(r) /\ cut' = cut \cup {r}
    <3>1. req[r].pc \in Steps \ {"success", "failed", "lost"} /\ saving'[r] = saving[r]
      BY <2>1 DEF Fail, IInv, TypeOK
    <3> QED BY <2>1, <3>1 DEF Answer
  <2>2. CASE Ask(r) \/ Handler(r) \/ SequenceFails(r)
    BY <2>2, EarlyAnswer, LateAnswer DEF Handler
  <2> QED BY <2>1, <2>2
<1>3. rows[r] = NoRow /\ saving[r] = NoRow
  BY <1>2, AnsweredFacts DEF Answer
<1>4. \A q \in Requests \ {r} : req'[q] = req[q] /\ saving'[q] = saving[q]
  BY DEF Ask, Handler, Check, NoSource, Source, Balance, Sign, Send, Refuse, Wait, SequenceFails, Fail, Goes,
     Succeed, IInv, TypeOK
<1>5. \A q \in Requests \ {r} : tx'[q] = tx[q] \/ tx'[q] = "replaced"
  <2>1. tx' = tx \/ (req[r].pc = "sending" /\ Pooled(r))
    BY DEF Ask, Handler, Check, NoSource, Source, Balance, Sign, Send, Refuse, Wait, SequenceFails, Fail, chain
  <2> QED BY <2>1, PooledFacts
<1>6. SavingOK(r)'
  BY <1>1, <1>2, <1>3 DEF SavingOK, Answer
<1>7. Pursued(r)'
  BY <1>2 DEF Pursued, Answer
<1>8. \A q \in Requests : rows[q] # NoRow => Via(q)' = Via(q)
  BY <1>3, <1>4 DEF Via
<1> QED BY <1>1, <1>4, <1>5, <1>6, <1>7, <1>8, OwnStep

\* The row is inserted: no row of r was there, and none is about to follow.
LEMMA InsertStep ==
  ASSUME IInv, JInv, NEW r \in Requests, Save(r), UNCHANGED <<up, cut>>
  PROVE  JInv'
<1>1. /\ saving'[r] = NoRow /\ rows'[r] # NoRow /\ UNCHANGED <<req, tx>>
      /\ \A q \in Requests \ {r} : rows'[q] = rows[q] /\ saving'[q] = saving[q]
  BY DEF Save, chain, IInv, TypeOK
<1>2. SavingOK(r)' /\ Pursued(r)'
  BY <1>1 DEF SavingOK, Pursued
<1> QED BY <1>1, <1>2, OwnStep

LEMMA BlockStep ==
  ASSUME IInv, JInv, NEW r \in Requests, Mine(r), UNCHANGED <<up, cut>>
  PROVE  JInv'
<1>1. /\ UNCHANGED <<req, saving, rows>> /\ tx[r] = "pool"
      /\ \A q \in Requests \ {r} : tx'[q] = tx[q]
  BY DEF Mine, IInv, TypeOK
<1>2. SavingOK(r)' /\ Pursued(r)'
  BY <1>1 DEF JInv, SavingOK, Pursued, Via
<1> QED BY <1>1, <1>2, OwnStep

LEMMA WebhookStep ==
  ASSUME IInv, JInv, NEW r \in Requests, Hook(r)
  PROVE  JInv'
<1>1. /\ rows[r].hash /\ rows' = [rows EXCEPT ![r].status = "Approved"]
      /\ UNCHANGED <<up, cut, req, tx, saving>>
  BY DEF Hook, chain
<1>2. rows[r] \in Row /\ rows[r] # NoRow
  BY <1>1 DEF IInv, TypeOK, NoRow
<1>3. /\ rows'[r] = [rows[r] EXCEPT !.status = "Approved"]
      /\ \A q \in Requests \ {r} : rows'[q] = rows[q]
  BY <1>1 DEF IInv, TypeOK
<1>4. rows'[r] # NoRow /\ saving'[r] = NoRow
  BY <1>1, <1>2, <1>3 DEF Row, NoRow, JInv, SavingOK
<1>5. SavingOK(r)' /\ Pursued(r)'
  BY <1>4 DEF SavingOK, Pursued
<1> QED BY <1>1, <1>3, <1>5, OwnStep

\* The process ends: what was waited for or about to be saved is cut off.
LEMMA EndStep ==
  ASSUME IInv, JInv, Lose
  PROVE  JInv'
<1>1. /\ up' = FALSE /\ UNCHANGED <<tx, rows>>
      /\ \A r \in Requests : /\ saving'[r] = NoRow /\ Via(r)' = Via(r)
                             /\ saving[r] # NoRow \/ req[r].pc = "waiting" \/ r \in cut => r \in cut'
  BY DEF Lose, UnderWay, chain, IInv, TypeOK, Via
<1>2. ASSUME NEW r \in Requests
      PROVE  SavingOK(r)' /\ Pursued(r)'
  BY <1>1 DEF SavingOK, Pursued, JInv
<1> QED BY <1>1, <1>2 DEF JInv

LEMMA JNextStep ==
  ASSUME IInv, JInv, [PathNext]_pathVars
  PROVE  JInv'
<1>1. ASSUME NEW r \in Requests, Serve(r)
      PROVE  JInv'
  <2>1. CASE Save(r) /\ UNCHANGED cut
    BY <1>1, <2>1, InsertStep DEF Serve
  <2>2. CASE ~Save(r)
    BY <1>1, <2>2, ServeStep DEF Serve
  <2>3. CASE Save(r) /\ Fail(r)
    BY <2>3 DEF Save, Fail, IInv, RequestOK
  <2> QED BY <1>1, <2>1, <2>2, <2>3 DEF Serve
<1>2. ASSUME NEW r \in Requests, Block(r) \/ Hook(r)
      PROVE  JInv'
  BY <1>2, BlockStep, WebhookStep DEF Block
<1>3. CASE Crash \/ EndByFollowUp \/ EndByTrades
  BY <1>3, EndStep DEF Crash, EndByFollowUp, EndByTrades
<1>4. CASE up' \in BOOLEAN /\ UNCHANGED <<cut, vars>>
  BY <1>4 DEF vars, JInv, SavingOK, Pursued, Via
<1>5. UNCHANGED pathVars => up' \in BOOLEAN /\ UNCHANGED <<cut, vars>>
  BY DEF JInv, pathVars
<1>6. Restart => up' \in BOOLEAN /\ UNCHANGED <<cut, vars>>
  BY DEF Restart
<1> QED BY <1>1, <1>2, <1>3, <1>4, <1>5, <1>6 DEF PathNext

\* What has paid is waited for, has a row or is about to get one, unless its own
\* call failed or the process ended under it: no other request takes that away.
THEOREM PaidArePursued == PathSpec => []PaidIsPursued
<1>1. PathInit => IInv /\ JInv
  BY InitOK, JInit DEF PathInit
<1>2. IInv /\ JInv /\ [PathNext]_pathVars => IInv' /\ JInv'
  BY NextStep, JNextStep
<1>3. JInv => PaidIsPursued
  BY DEF JInv, Pursued, PaidIsPursued
<1> QED BY <1>1, <1>2, <1>3, PTL DEF PathSpec
-----------------------------------------------------------------------------
(* A withdrawal and the follow-up go together as FollowUp says.            *)

\* What FollowUp sees of a step that leaves the rows and what they are paid with.
LEMMA SeenStays ==
  ASSUME UNCHANGED rows, \A q \in Requests : rows[q] # NoRow => Via(q)' = Via(q)
  PROVE  \A q \in Requests : Seen(q)' = Seen(q)
  BY DEF Seen

\* The variables of FollowUp, seen from here.
SeenRows == [q \in Requests |-> Seen(q)]
Unknown == [q \in Requests |-> "unknown"]

LEMMA PathInitRefines == PathInit => Follow!Init
<1> SUFFICES ASSUME PathInit PROVE Follow!Init
  OBVIOUS
<1>1. up = TRUE /\ faults = 0 /\ others = FALSE /\ \A q \in Requests : rows[q] = NoRow
  BY DEF PathInit, Init
<1> QED BY <1>1 DEF Follow!Init, Follow!Rows, Follow!NoRow

LEMMA QuietRefines ==
  ASSUME UNCHANGED <<up, rows, faults, others>>, \A q \in Requests : rows[q] # NoRow => Via(q)' = Via(q)
  PROVE  UNCHANGED Follow!vars
<1>1. SeenRows' = SeenRows
  BY SeenStays DEF SeenRows
<1> QED BY <1>1 DEF Follow!vars, SeenRows, Seen

LEMMA InsertRefines ==
  ASSUME IInv, JInv, NEW r \in Requests, up, Save(r), UNCHANGED <<up, others>>
  PROVE  Follow!Insert(r)
<1>1. /\ saving[r] # NoRow /\ rows[r] = NoRow /\ saving[r] \in Row
      /\ saving[r].status = IF saving[r].hash /\ NetworkOf(Via(r)) = "EVM" THEN "Approved" ELSE "Pending"
  BY DEF Save, JInv, SavingOK, IInv, TypeOK
<1>2. rows'[r] = saving[r] /\ UNCHANGED <<req, faults>> /\ \A q \in Requests \ {r} : rows'[q] = rows[q]
  BY DEF Save, IInv, TypeOK
<1>3. \A q \in Requests : Via(q)' = Via(q) /\ NetworkOf(Via(q))' = NetworkOf(Via(q))
  BY <1>2 DEF Via, NetworkOf
<1> DEFINE network == NetworkOf(Via(r))
           paid == saving[r].hash
           new == [network |-> network, paid |-> paid,
                   status |-> IF paid /\ network = "EVM" THEN "Approved" ELSE "Pending"]
<1>4. network \in Follow!Chains /\ paid \in BOOLEAN
  BY <1>1, NetworkFacts DEF Follow!Chains, Row
<1>5. Seen(r)' = new
  BY <1>1, <1>2, <1>3 DEF Seen
<1>6. \A q \in Requests \ {r} : Seen(q)' = Seen(q)
  BY <1>2, <1>3 DEF Seen
<1>7. SeenRows' = [SeenRows EXCEPT ![r] = new]
  BY <1>5, <1>6 DEF SeenRows
<1>8. SeenRows[r] = Follow!NoRow
  BY <1>1 DEF SeenRows, Seen, Follow!NoRow
<1>9. \E n \in Follow!Chains, p \in BOOLEAN :
        SeenRows' = [SeenRows EXCEPT ![r] =
                       [network |-> n, paid |-> p,
                        status |-> IF p /\ n = "EVM" THEN "Approved" ELSE "Pending"]]
  BY <1>4, <1>7
<1> QED BY <1>2, <1>8, <1>9 DEF Follow!Insert, SeenRows, Seen

LEMMA HookRefines ==
  ASSUME IInv, NEW r \in Requests, Hook(r)
  PROVE  Follow!Hook(r)
<1>1. /\ rows[r].hash /\ Account(r) = "Bitcoin" /\ rows' = [rows EXCEPT ![r].status = "Approved"]
      /\ up /\ UNCHANGED <<up, others, req, faults>>
  BY DEF Hook
<1>2. rows[r] \in Row /\ rows[r] # NoRow
  BY <1>1 DEF IInv, TypeOK, NoRow
<1>3. /\ rows'[r] = [rows[r] EXCEPT !.status = "Approved"] /\ rows'[r] # NoRow
      /\ rows'[r].hash = rows[r].hash /\ rows'[r].status = "Approved"
      /\ \A q \in Requests \ {r} : rows'[q] = rows[q]
  BY <1>1, <1>2 DEF IInv, TypeOK, Row, NoRow
<1>4. NetworkOf(Via(r)) = "Bitcoin"
  BY <1>1, NetworkFacts DEF Account
<1>5. \A q \in Requests : Via(q)' = Via(q) /\ NetworkOf(Via(q))' = NetworkOf(Via(q))
  BY <1>1 DEF Via, NetworkOf
<1>6. Seen(r) = [network |-> "Bitcoin", paid |-> rows[r].hash, status |-> rows[r].status]
  BY <1>2, <1>4 DEF Seen
<1>7. Seen(r)' = [network |-> "Bitcoin", paid |-> rows[r].hash, status |-> "Approved"]
  BY <1>3, <1>4, <1>5 DEF Seen
<1>8. Seen(r)' = [Seen(r) EXCEPT !.status = "Approved"] /\ Seen(r).network = "Bitcoin" /\ Seen(r).paid
  <2>1. \A paid, status : [[network |-> "Bitcoin", paid |-> paid, status |-> status] EXCEPT !.status = "Approved"]
                           = [network |-> "Bitcoin", paid |-> paid, status |-> "Approved"]
    OBVIOUS
  <2>2. [Seen(r) EXCEPT !.status = "Approved"] = [network |-> "Bitcoin", paid |-> rows[r].hash, status |-> "Approved"]
    BY <1>6, <2>1, Zenon
  <2> QED BY <1>1, <1>6, <1>7, <2>2
<1>9. \A q \in Requests \ {r} : Seen(q)' = Seen(q)
  BY <1>3, <1>5 DEF Seen
<1>10. /\ SeenRows' = [SeenRows EXCEPT ![r].status = "Approved"]
       /\ SeenRows[r].network = "Bitcoin" /\ SeenRows[r].paid
  BY <1>8, <1>9 DEF SeenRows
<1> QED BY <1>1, <1>10 DEF Follow!Hook, SeenRows, Seen

\* The process ends and the rows remain.
LEMMA LoseRefines ==
  ASSUME IInv, up, Lose
  PROVE  up' = FALSE /\ SeenRows' = SeenRows
<1>1. up' = FALSE /\ UNCHANGED rows /\ \A q \in Requests : Via(q)' = Via(q)
  BY DEF Lose, UnderWay, IInv, TypeOK, Via
<1> QED BY <1>1, SeenStays DEF SeenRows

LEMMA PathStepRefines ==
  ASSUME IInv, JInv, [PathNext]_pathVars
  PROVE  [Follow!Next]_(Follow!vars)
<1>1. ASSUME NEW r \in Requests, Serve(r)
      PROVE  [Follow!Next]_(Follow!vars)
  <2>1. CASE Save(r)
    <3>1. Follow!Insert(r)
      BY <1>1, <2>1, InsertRefines DEF Serve
    <3> QED BY <3>1 DEF Follow!Next
  <2>2. CASE ~Save(r)
    <3>1. UNCHANGED rows /\ \A q \in Requests : rows[q] # NoRow => Via(q)' = Via(q)
      BY <1>1, <2>2, ServeStep DEF Serve
    <3>2. CASE Fail(r)
      <4>1. faults' = faults + 1 /\ others' = others /\ up /\ up' = up /\ SeenRows' = SeenRows
        BY <1>1, <3>1, <3>2, SeenStays DEF Fail, Serve, SeenRows
      <4>2. Follow!Fail
        BY <4>1 DEF Follow!Fail, SeenRows, Seen
      <4> QED BY <4>2 DEF Follow!Next
    <3>3. CASE SequenceFails(r)
      <4>1. faults' = faults + 1 /\ others' = others /\ up /\ up' = up /\ SeenRows' = SeenRows
        BY <1>1, <3>1, <3>3, SeenStays DEF SequenceFails, Serve, SeenRows
      <4>2. Follow!Fail
        BY <4>1 DEF Follow!Fail, SeenRows, Seen
      <4> QED BY <4>2 DEF Follow!Next
    <3>4. CASE ~Fail(r) /\ ~SequenceFails(r)
      <4>1. UNCHANGED <<up, faults, others>>
        BY <1>1, <2>2, <3>4 DEF Serve, Ask, Handler, Check, NoSource, Source, Balance, Sign, Send, Refuse, Wait
      <4> QED BY <3>1, <4>1, QuietRefines
    <3> QED BY <3>2, <3>3, <3>4
  <2> QED BY <2>1, <2>2
<1>2. ASSUME NEW r \in Requests, Block(r)
      PROVE  UNCHANGED Follow!vars
  <2>1. UNCHANGED <<up, rows, faults, others, req>>
    BY <1>2 DEF Block, Mine
  <2> QED BY <2>1, QuietRefines DEF Via
<1>3. ASSUME NEW r \in Requests, Hook(r)
      PROVE  Follow!Next
  <2>1. Follow!Hook(r) /\ r \in Follow!Rows
    BY <1>3, HookRefines DEF Follow!Rows
  <2> QED BY <2>1 DEF Follow!Next
<1>4. CASE Crash
  <2>1. up /\ up' = FALSE /\ SeenRows' = SeenRows /\ faults' = faults + 1 /\ others' = others
    BY <1>4, LoseRefines DEF Crash
  <2>2. Follow!Fail
    BY <2>1 DEF Follow!Fail, SeenRows, Seen
  <2> QED BY <2>2 DEF Follow!Next
<1>5. CASE EndByFollowUp
  <2>1. up /\ up' = FALSE /\ SeenRows' = SeenRows /\ faults' = faults /\ others' = others
    BY <1>5, LoseRefines DEF EndByFollowUp
  <2>2. \E q \in Follow!Rows : Follow!Followed(q) \/ Follow!Hooked(q)
    BY <1>5 DEF EndByFollowUp, Follow!Rows
  <2>3. Follow!End
    BY <2>1, <2>2 DEF Follow!End, SeenRows, Seen
  <2> QED BY <2>3 DEF Follow!Next
<1>6. CASE EndByTrades
  <2>1. up /\ up' = FALSE /\ SeenRows' = SeenRows /\ faults' = faults /\ others' = TRUE
    BY <1>6, LoseRefines DEF EndByTrades
  <2>2. Follow!EndElsewhere
    BY <2>1 DEF Follow!EndElsewhere, SeenRows, Seen
  <2> QED BY <2>2 DEF Follow!Next
<1>7. CASE Restart
  <2>1. ~up /\ up' = TRUE /\ UNCHANGED <<rows, faults, others, req>>
    BY <1>7 DEF Restart, vars
  <2>2. SeenRows' = SeenRows
    BY <2>1, SeenStays DEF Via, SeenRows
  <2>3. Follow!Restart
    BY <2>1, <2>2 DEF Follow!Restart, SeenRows, Seen
  <2> QED BY <2>3 DEF Follow!Next
<1>8. CASE UNCHANGED pathVars
  <2>1. UNCHANGED <<up, rows, faults, others, req>>
    BY <1>8 DEF pathVars, vars
  <2> QED BY <2>1, QuietRefines DEF Via
<1> QED BY <1>1, <1>2, <1>3, <1>4, <1>5, <1>6, <1>7, <1>8 DEF PathNext

\* Withdrawals go as FollowUp says: a row is inserted undecided or paid, and the
\* process ends when a call fails, by a row that the follow-up selects or by the
\* trade queue, and not otherwise.
THEOREM PathFollowsUp == PathSpec => ImplementsFollowUp
<1>1. PathInit => IInv /\ JInv
  BY InitOK, JInit DEF PathInit
<1>2. IInv /\ JInv /\ [PathNext]_pathVars => IInv' /\ JInv'
  BY NextStep, JNextStep
<1> QED BY <1>1, <1>2, PathInitRefines, PathStepRefines, PTL DEF PathSpec, ImplementsFollowUp, Follow!Spec
-----------------------------------------------------------------------------
(* What an account pays.                                                   *)

AssetOf(r) == <<Account(r), Via(r).asset>>

\* What the requests have taken from an asset: the amounts that are mined.
Spent(asset) ==
  [r \in Requests |-> IF tx[r] = "mined" /\ AssetOf(r) = asset THEN req[r].amount ELSE 0]

Ledger == \A asset \in Assets : funds[asset] + SumFunctionOnSet(Spent(asset), Requests) = Funds

\* Who was waited for is mined when success is answered, or was never sent.
WaitedOK(r) == req[r].pc = "success" /\ Via(r).waits => tx[r] \in {"none", "mined"}

FInv == Ledger /\ \A r \in Requests : WaitedOK(r)

LEMMA SpentFacts ==
  ASSUME TypeOK, NEW asset
  PROVE  /\ IsFiniteSet(Requests)
         /\ \A r \in Requests : Spent(asset)[r] \in Nat
  BY PayoutsAssumption DEF Spent, TypeOK

LEMMA InitFunds == PathInit => FInv
<1> SUFFICES ASSUME PathInit PROVE FInv
  OBVIOUS
<1>1. TypeOK
  BY InitOK DEF PathInit, IInv
<1>2. ASSUME NEW asset \in Assets
      PROVE  funds[asset] + SumFunctionOnSet(Spent(asset), Requests) = Funds
  <2> DEFINE none == [r \in Requests |-> 0]
  <2>1. Spent(asset) = none
    BY DEF Spent, PathInit, Init
  <2>2. SumFunctionOnSet(none, Requests) = 0
    BY <1>1, SpentFacts, SumZero
  <2>3. funds[asset] = Funds /\ Funds \in Nat
    BY PayoutsAssumption DEF PathInit, Init
  <2> QED BY <2>1, <2>2, <2>3
<1>3. \A r \in Requests : WaitedOK(r)
  BY DEF PathInit, Init, WaitedOK
<1> QED BY <1>2, <1>3 DEF FInv, Ledger

\* Nothing is mined, and what is mined keeps its amount.
LEMMA LedgerStays ==
  ASSUME TypeOK, Ledger, funds' = funds,
         \A q \in Requests :
           /\ tx'[q] = "mined" <=> tx[q] = "mined"
           /\ tx[q] = "mined" => req'[q].via = req[q].via /\ req'[q].amount = req[q].amount
  PROVE  Ledger'
<1> SUFFICES ASSUME NEW asset \in Assets
             PROVE  funds'[asset] + SumFunctionOnSet(Spent(asset)', Requests) = Funds
  BY DEF Ledger
<1>1. Spent(asset)' = Spent(asset)
  BY DEF Spent, AssetOf, Via, Account
<1> QED BY <1>1 DEF Ledger

\* A block takes the amount from the funds and adds it to what is spent.
LEMMA MineFunds ==
  ASSUME IInv, FInv, NEW r \in Requests, Mine(r)
  PROVE  FInv'
<1> DEFINE a == AssetOf(r)
<1>1. /\ tx[r] = "pool" /\ UNCHANGED req
      /\ \A q \in Requests \ {r} : tx'[q] = tx[q]
      /\ \/ tx'[r] = "mined" /\ funds' = [funds EXCEPT ![a] = @ - req[r].amount]
         \/ tx'[r] = "reverted" /\ UNCHANGED funds
  BY DEF Mine, AssetOf, IInv, TypeOK
<1>2. \A q \in Requests : AssetOf(q)' = AssetOf(q) /\ Via(q)' = Via(q)
  BY <1>1 DEF AssetOf, Account, Via
<1>3. \A q \in Requests : WaitedOK(q)'
  BY <1>1, <1>2 DEF WaitedOK, FInv
<1>4. CASE tx'[r] = "reverted"
  <2>1. Ledger'
    BY <1>1, <1>4, LedgerStays DEF FInv, IInv
  <2> QED BY <1>3, <2>1 DEF FInv
<1>5. CASE tx'[r] = "mined" /\ funds' = [funds EXCEPT ![a] = @ - req[r].amount]
  <2>1. ASSUME NEW asset \in Assets
        PROVE  funds'[asset] + SumFunctionOnSet(Spent(asset)', Requests) = Funds
    <3> DEFINE new == [q \in Requests |-> IF tx'[q] = "mined" /\ AssetOf(q) = asset THEN req[q].amount ELSE 0]
    <3>1. Spent(asset)' = new
      BY <1>1, <1>2 DEF Spent
    <3>2. \A q \in Requests : Spent(asset)[q] \in Nat /\ new[q] \in Nat
      BY SpentFacts DEF IInv, TypeOK
    <3>3. \A q \in Requests \ {r} : Spent(asset)[q] = new[q]
      BY <1>1 DEF Spent
    <3>4. Spent(asset)[r] = 0 /\ new[r] = IF a = asset THEN req[r].amount ELSE 0
      BY <1>1, <1>5 DEF Spent
    <3>5. /\ SumFunctionOnSet(new, Requests) = SumFunctionOnSet(Spent(asset), Requests) - 0 + new[r]
          /\ SumFunctionOnSet(Spent(asset), Requests) \in Int
      <4>1. IsFiniteSet(Requests) /\ \A q \in Requests : Spent(asset)[q] \in Int /\ new[q] \in Int
        BY <3>2, SpentFacts DEF IInv
      <4> HIDE DEF new
      <4>2. SumFunctionOnSet(new, Requests) = SumFunctionOnSet(Spent(asset), Requests) - Spent(asset)[r] + new[r]
        BY <3>3, <4>1, SumChange
      <4> QED BY <3>4, <4>1, <4>2, SumType
    <3>6. funds'[asset] = IF a = asset THEN funds[asset] - req[r].amount ELSE funds[asset]
      BY <1>5 DEF IInv, TypeOK
    <3>7. funds[asset] \in Nat /\ req[r].amount \in Nat
      BY DEF IInv, TypeOK
    <3>8. funds[asset] + SumFunctionOnSet(Spent(asset), Requests) = Funds
      BY DEF FInv, Ledger
    <3> HIDE DEF new, a
    <3> QED BY <3>1, <3>4, <3>5, <3>6, <3>7, <3>8
  <2> QED BY <1>3, <2>1 DEF FInv, Ledger
<1> QED BY <1>1, <1>4, <1>5

\* A step of a request mines nothing, and what is mined keeps its amount.
LEMMA ServeFunds ==
  ASSUME IInv, FInv, NEW r \in Requests, Ask(r) \/ Handler(r) \/ SequenceFails(r) \/ Fail(r)
  PROVE  FInv'
<1>1. /\ req \in [Requests -> [pc: Steps, via: Transfers \cup {NoTransfer}, amount: Nat, nonce: Nat]]
      /\ tx \in [Requests -> Outcomes] /\ RequestOK(r)
  BY DEF IInv, TypeOK
<1>2. funds' = funds
  BY DEF Ask, Handler, Check, NoSource, Source, Balance, Sign, Send, Refuse, Wait, Save, SequenceFails, Fail, chain
<1>3. \A q \in Requests \ {r} : req'[q] = req[q]
  BY <1>1 DEF Ask, Handler, Check, NoSource, Source, Balance, Sign, Send, Refuse, Wait, Save, SequenceFails, Fail, Goes, Succeed
<1>4. Ask(r) \/ (req'[r].via = req[r].via /\ req'[r].amount = req[r].amount)
  BY <1>1 DEF Handler, Check, NoSource, Source, Balance, Sign, Send, Refuse, Wait, Save, SequenceFails, Fail, Goes, Succeed
<1>5. tx' = tx \/ (req[r].pc = "sending" /\ Pooled(r))
  BY DEF Ask, Handler, Check, NoSource, Source, Balance, Sign, Send, Refuse, Wait, Save, SequenceFails, Fail, chain
<1>6. \A q \in Requests : \/ tx'[q] = tx[q]
                          \/ q = r /\ req[r].pc = "sending" /\ tx[q] = "none" /\ tx'[q] = "pool"
                          \/ tx[q] = "pool" /\ tx'[q] = "replaced"
  BY <1>1, <1>5, PooledFacts DEF RequestOK, Early
<1>7. Ask(r) => tx[r] = "none"
  BY <1>1 DEF Ask, RequestOK, Early
<1>8. Ledger'
  BY <1>2, <1>3, <1>4, <1>6, <1>7, LedgerStays DEF FInv, IInv
<1>9. ASSUME NEW q \in Requests \ {r}
      PROVE  WaitedOK(q)'
  BY <1>3, <1>6, <1>9 DEF WaitedOK, FInv, Via
<1>10. WaitedOK(r)'
  <2>1. SUFFICES ASSUME req'[r].pc = "success", req'[r].via.waits PROVE tx'[r] \in {"none", "mined"}
    BY DEF WaitedOK, Via
  <2>2. ~Ask(r)
    BY <1>1, <2>1 DEF Ask
  <2>3. Via(r).waits
    BY <1>4, <2>1, <2>2 DEF Via
  <2>4. CASE req'[r].pc = req[r].pc
    BY <1>6, <2>1, <2>3, <2>4 DEF WaitedOK, FInv
  <2>5. CASE NoSource(r)
    BY <1>1, <2>5 DEF NoSource, RequestOK, Early, chain
  <2>6. CASE Wait(r)
    BY <1>1, <2>1, <2>6 DEF Wait, Goes, chain
  <2>7. ~Send(r)
    BY <1>1, <2>1, <2>3 DEF Send, Goes
  <2>8. ~(Check(r) \/ Source(r) \/ Balance(r) \/ Sign(r) \/ Refuse(r) \/ SequenceFails(r) \/ Fail(r))
    BY <1>1, <2>1 DEF Check, Source, Balance, Sign, Refuse, SequenceFails, Fail, Goes
  <2>9. Save(r) => req'[r].pc = req[r].pc
    BY DEF Save
  <2> QED BY <2>2, <2>4, <2>5, <2>6, <2>7, <2>8, <2>9 DEF Handler
<1> QED BY <1>8, <1>9, <1>10 DEF FInv

\* The end of the process and the webhook leave the chain alone.
LEMMA IdleFunds ==
  ASSUME IInv, FInv, UNCHANGED <<tx, funds>>,
         \A q \in Requests : /\ req'[q].via = req[q].via /\ req'[q].amount = req[q].amount
                             /\ req'[q].pc = "success" => req[q].pc = "success"
  PROVE  FInv'
<1>1. Ledger'
  BY LedgerStays DEF FInv, IInv
<1>2. \A q \in Requests : WaitedOK(q)'
  BY DEF FInv, WaitedOK, Via
<1> QED BY <1>1, <1>2 DEF FInv

LEMMA FundsStep ==
  ASSUME IInv, FInv, [PathNext]_pathVars
  PROVE  FInv'
<1>1. ASSUME NEW r \in Requests, Serve(r)
      PROVE  FInv'
  BY <1>1, ServeFunds DEF Serve
<1>2. ASSUME NEW r \in Requests, Block(r)
      PROVE  FInv'
  BY <1>2, MineFunds DEF Block
<1>3. CASE UNCHANGED <<tx, funds, req>>
  BY <1>3, IdleFunds
<1>4. CASE Lose
  <2>1. UNCHANGED <<tx, funds>>
    BY <1>4 DEF Lose, chain
  <2>2. \A q \in Requests : /\ req'[q].via = req[q].via /\ req'[q].amount = req[q].amount
                            /\ req'[q].pc = "success" => req[q].pc = "success"
    BY <1>4 DEF Lose, UnderWay, IInv, TypeOK
  <2> QED BY <2>1, <2>2, IdleFunds
<1>5. \A r \in Requests : Hook(r) => UNCHANGED <<tx, funds, req>>
  BY DEF Hook, chain
<1>6. UNCHANGED vars \/ Restart => UNCHANGED <<tx, funds, req>>
  BY DEF vars, Restart
<1> QED BY <1>1, <1>2, <1>3, <1>4, <1>5, <1>6 DEF PathNext, Crash, EndByFollowUp, EndByTrades, pathVars

\* What is answered with success fits in what the account had: the requests that
\* were waited for are mined, and what is mined was taken from the funds.
THEOREM SuccessesFunded == PathSpec => []SuccessIsFunded
<1>1. PathInit => IInv /\ FInv
  BY InitOK, InitFunds DEF PathInit
<1>2. IInv /\ FInv /\ [PathNext]_pathVars => IInv' /\ FInv'
  BY NextStep, FundsStep
<1>3. IInv /\ FInv => SuccessIsFunded
  <2> SUFFICES ASSUME IInv, FInv, NEW asset \in Assets
               PROVE  SumFunctionOnSet([r \in Requests |-> req[r].amount],
                        {r \in Requests : /\ <<Account(r), Via(r).asset>> = asset
                                          /\ Via(r).waits /\ req[r].pc = "success" /\ tx[r] # "none"}) <= Funds
    BY DEF SuccessIsFunded
  <2> DEFINE f == [r \in Requests |-> req[r].amount]
             S == {r \in Requests : /\ <<Account(r), Via(r).asset>> = asset
                                    /\ Via(r).waits /\ req[r].pc = "success" /\ tx[r] # "none"}
  <2>1. \A r \in S : r \in Requests /\ f[r] = Spent(asset)[r]
    BY DEF FInv, WaitedOK, Spent, AssetOf
  <2>2. IsFiniteSet(Requests) /\ S \in SUBSET Requests /\ \A r \in Requests : Spent(asset)[r] \in Nat
    BY SpentFacts DEF IInv
  <2>3. IsFiniteSet(S)
    BY <2>2, FS_Subset
  <2> HIDE DEF f, S
  <2>4. SumFunctionOnSet(f, S) = SumFunctionOnSet(Spent(asset), S)
    BY <2>1, <2>3, SumEqual
  <2>5. SumFunctionOnSet(Spent(asset), S) <= SumFunctionOnSet(Spent(asset), Requests)
    BY <2>2, SumMonotonic
  <2>6. SumFunctionOnSet(Spent(asset), S) \in Int /\ SumFunctionOnSet(Spent(asset), Requests) \in Int
    <3>1. \A r \in S : Spent(asset)[r] \in Int
      BY <2>2
    <3>2. \A r \in Requests : Spent(asset)[r] \in Int
      BY <2>2
    <3> QED BY <2>2, <2>3, <3>1, <3>2, SumType
  <2>7. funds[asset] \in Nat /\ Funds \in Nat /\ funds[asset] + SumFunctionOnSet(Spent(asset), Requests) = Funds
    BY PayoutsAssumption DEF IInv, TypeOK, FInv, Ledger
  <2>8. SumFunctionOnSet(f, S) <= Funds
    BY <2>4, <2>5, <2>6, <2>7
  <2> QED BY <2>8 DEF f, S
<1> QED BY <1>1, <1>2, <1>3, PTL DEF PathSpec
=============================================================================
