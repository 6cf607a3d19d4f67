--------------------------- MODULE WithdrawalPath ---------------------------
(***************************************************************************)
(* A withdrawal from the request to its row, in the process that also      *)
(* follows rows up and books trades: Payouts and FollowUp share the table  *)
(* tbl_withdrawal, and both share the process with the trade queue of      *)
(* BinanceTrades.  saveWithdrawal hands a row over to the follow-up; when  *)
(* one of them ends the process, the requests under way are lost with it.  *)
(***************************************************************************)
EXTENDS Payouts, Functions

VARIABLES
  up,      \* the process runs
  others,  \* the trade queue has ended the process
  cut      \* requests cut off: a call failed, or the process ended before they had a row

pathVars == <<up, others, cut, vars>>

\* The network of a row, as the follow-up tells them apart.  It is the one the
\* client named, and it is taken to be that of the chain the transfer was made on.
NetworkOf(via) ==
  CASE via.account = "Bitcoin" -> "Bitcoin"
    [] via.account = "Beacon" -> "BEP2"
    [] OTHER -> "EVM"

\* tbl_withdrawal as the follow-up sees it.  Only a transaction on an Ethereum
\* node has a fate there, and the rows of those are saved as Approved.
Follow == INSTANCE FollowUp WITH
  Kept <- {},
  rows <- [r \in Requests |->
             IF rows[r] = NoRow THEN [network |-> "none", paid |-> FALSE, status |-> "none"]
             ELSE [network |-> NetworkOf(Via(r)), paid |-> rows[r].hash, status |-> rows[r].status]],
  fate <- [r \in Requests |-> "unknown"]

PathInit == Init /\ up = TRUE /\ others = FALSE /\ cut = {}

\* What a request, the database and the nodes do while the process runs.
Serve(r) ==
  /\ up
  /\ \/ (Ask(r) \/ Handler(r) \/ SequenceFails(r)) /\ UNCHANGED cut
     \/ Fail(r) /\ cut' = cut \cup {r}
  /\ UNCHANGED <<up, others>>

\* A block is mined whether or not the process runs.
Block(r) == Mine(r) /\ UNCHANGED <<up, others, cut>>

\* What was under way is lost, an insert that has not reached the table too.
UnderWay(r) == req[r].pc \notin {"idle", "success", "failed", "lost"}
Lose ==
  /\ up' = FALSE
  /\ req' = [r \in Requests |-> IF UnderWay(r) THEN [req[r] EXCEPT !.pc = "lost"] ELSE req[r]]
  /\ cut' = cut \cup {r \in Requests : UnderWay(r) \/ saving[r] # NoRow}
  /\ saving' = [r \in Requests |-> NoRow]
  /\ UNCHANGED <<chain, rows>>

\* saveWithdrawal fails, or the process is killed.
Crash ==
  /\ up
  /\ faults < MaxFaults
  /\ Lose
  /\ faults' = faults + 1
  /\ UNCHANGED others

\* The follow-up of a row ends the process: a row for the administrator or of
\* BEP2 has no receipt on Ethereum, and the webhook's decrement is refused.
EndByFollowUp ==
  /\ up
  /\ \E r \in Requests : Follow!Followed(r) \/ Follow!Hooked(r)
  /\ Lose
  /\ UNCHANGED <<faults, others>>

\* The trade queue of the same process ends it: its second callback finds no job
\* (BinanceTrades!FinishedThrows), or its consumer fails.
EndByTrades ==
  /\ up
  /\ Lose
  /\ others' = TRUE
  /\ UNCHANGED faults

Restart ==
  /\ ~up
  /\ up' = TRUE
  /\ UNCHANGED <<others, cut, vars>>

\* Slip: an unconfirmed transaction is approved, too.
HookUnconfirmed(r) ==
  /\ up
  /\ rows[r].hash /\ Account(r) = "Bitcoin"
  /\ rows' = [rows EXCEPT ![r].status = "Approved"]
  /\ UNCHANGED <<up, others, cut, req, chain, saving, faults>>

\* POST webhook.  The handler looks at the hash alone; that blockcypher is the one
\* who calls it, for a Bitcoin transaction that is in a block, is assumed.
Hook(r) ==
  /\ up
  /\ rows[r].hash /\ Account(r) = "Bitcoin" /\ tx[r] = "mined"
  /\ rows' = [rows EXCEPT ![r].status = "Approved"]
  /\ UNCHANGED <<up, others, cut, req, chain, saving, faults>>

PathNext ==
  \/ \E r \in Requests : Serve(r) \/ Block(r) \/ Hook(r)
  \/ Crash \/ EndByFollowUp \/ EndByTrades \/ Restart

\* Calls are answered while the process runs; the chain, the clients and who
\* starts the process owe nothing.
PathSpec ==
  /\ PathInit /\ [][PathNext]_pathVars
  /\ \A r \in Requests : WF_pathVars(up /\ Handler(r) /\ UNCHANGED <<up, others, cut>>)
-----------------------------------------------------------------------------
(* Properties.                                                             *)

\* Rows reach the follow-up as it expects them, and a row of its own, a failed
\* call and the trade queue are all that ends the process.
ImplementsFollowUp == Follow!Spec

\* A transfer that has paid is on its way to a row or has one, unless its own
\* handler was cut off: whatever other requests do to its nonce, its funds and
\* the process, it is not answered and forgotten (withdrawal).
PaidIsPursued ==
  \A r \in Requests :
    tx[r] = "mined" /\ Via(r).saves =>
      rows[r] # NoRow \/ saving[r] # NoRow \/ req[r].pc = "waiting" \/ r \in cut

\* Every withdrawal checks the same balance before it sends, and none reserves
\* anything: still the transfers answered with success on chains that are waited
\* for fit in what the account had, whichever requests met (tx.wait()).
SuccessIsFunded ==
  \A asset \in Assets :
    SumFunctionOnSet([r \in Requests |-> req[r].amount],
                     {r \in Requests : /\ <<Account(r), Via(r).asset>> = asset
                                       /\ Via(r).waits /\ req[r].pc = "success" /\ tx[r] # "none"})
      <= Funds

\* What has paid is in tbl_withdrawal in the end, unless one of its own calls
\* failed or the process ended under it, by whichever of its modules.
PaidIsRecorded ==
  \A r \in Requests : tx[r] = "mined" /\ Via(r).saves ~> rows[r] # NoRow \/ r \in cut
=============================================================================
