------------------------------ MODULE FollowUp ------------------------------
(***************************************************************************)
(* What the follow-up of withdrawals does to the table and to the process  *)
(* it shares with everything else.  A row that is saved undecided is       *)
(* decided once, as its transaction ends; a Bitcoin row is approved by the *)
(* webhook.  The process ends when a call fails, because of such a row -   *)
(* one that the cron job selects, or one the webhook has approved - or by  *)
(* another module that runs in it, and never otherwise.                    *)
(***************************************************************************)
EXTENDS Integers

CONSTANTS Requests, Kept   \* rows saved from now on, and rows pending from before

VARIABLES
  up,     \* the process runs
  rows,   \* tbl_withdrawal
  fate,   \* how the transaction of each row has ended
  faults, \* calls that failed
  others  \* another module has ended the process

vars == <<up, rows, fate, faults, others>>

Rows == Requests \cup Kept
Chains == {"Bitcoin", "BEP2", "EVM"}
NoRow == [network |-> "none", paid |-> FALSE, status |-> "none"]

\* The cron job selects a row that is saved as Pending, unless it is Bitcoin's.
Followed(r) ==
  /\ rows[r] # NoRow
  /\ rows[r].network # "Bitcoin"
  /\ r \in Requests => ~(rows[r].paid /\ rows[r].network = "EVM")

Hooked(r) == rows[r].network = "Bitcoin" /\ rows[r].paid /\ rows[r].status = "Approved"

Init ==
  /\ up = TRUE
  /\ rows = [r \in Rows |-> IF r \in Kept
                            THEN [network |-> "EVM", paid |-> TRUE, status |-> "Pending"]
                            ELSE NoRow]
  /\ fate = [r \in Rows |-> "unknown"]
  /\ faults = 0
  /\ others = FALSE

Insert(r) ==
  /\ up
  /\ rows[r] = NoRow
  /\ \E network \in Chains, paid \in BOOLEAN :
       rows' = [rows EXCEPT ![r] =
         [network |-> network, paid |-> paid,
          status |-> IF paid /\ network = "EVM" THEN "Approved" ELSE "Pending"]]
  /\ UNCHANGED <<up, fate, faults, others>>

\* The transaction of a row is as deep as it has to be.
Settle(r) ==
  /\ fate[r] = "unknown"
  /\ \E end \in {"succeeded", "failed"} : fate' = [fate EXCEPT ![r] = end]
  /\ UNCHANGED <<up, rows, faults, others>>

Decide(r) ==
  /\ up
  /\ Followed(r) /\ rows[r].status = "Pending" /\ fate[r] # "unknown"
  /\ rows' = [rows EXCEPT ![r].status = IF fate[r] = "succeeded" THEN "Approved" ELSE "Reverted"]
  /\ UNCHANGED <<up, fate, faults, others>>

Hook(r) ==
  /\ up
  /\ rows[r].network = "Bitcoin" /\ rows[r].paid
  /\ rows' = [rows EXCEPT ![r].status = "Approved"]
  /\ UNCHANGED <<up, fate, faults, others>>

End ==
  /\ up
  /\ \E r \in Rows : Followed(r) \/ Hooked(r)
  /\ up' = FALSE
  /\ UNCHANGED <<rows, fate, faults, others>>

EndElsewhere ==
  /\ up
  /\ up' = FALSE
  /\ others' = TRUE
  /\ UNCHANGED <<rows, fate, faults>>

Fail ==
  /\ up
  /\ up' \in BOOLEAN
  /\ faults' = faults + 1
  /\ UNCHANGED <<rows, fate, others>>

Restart ==
  /\ ~up
  /\ up' = TRUE
  /\ UNCHANGED <<rows, fate, faults, others>>

Next ==
  \/ \E r \in Requests : Insert(r)
  \/ \E r \in Kept : Settle(r)
  \/ \E r \in Rows : Decide(r) \/ Hook(r)
  \/ End \/ EndElsewhere \/ Fail \/ Restart

Spec == Init /\ [][Next]_vars
=============================================================================
