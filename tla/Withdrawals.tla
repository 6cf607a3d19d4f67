---------------------------- MODULE Withdrawals ----------------------------
(***************************************************************************)
(* How withdrawals are followed up: POST wallet/withdrawal saves a row and *)
(* starts the cron job withdrawal_cron (DatabaseService.saveWithdrawal);   *)
(* the cron job queues the pending rows (QueueService); the consumer asks  *)
(* the chain about each of them (WithdrawalConsumer, Web3Service) and      *)
(* writes its status.  The code between two awaits is one step.  The table *)
(* and the Bull queue outlive the process; cron job, withdrawal_job and    *)
(* everything that waits for an answer do not.                             *)
(***************************************************************************)
EXTENDS Integers

CONSTANTS
  Requests,    \* one POST wallet/withdrawal each
  Kept,        \* rows of tbl_withdrawal at the start, pending, with a hash
  Outcomes,    \* how the transactions of these rows may end, once mined
  Networks,    \* networks clients withdraw on, of {"Bitcoin", "BEP2", "EVM"}
  Target,      \* confirmations that settle a transaction: 12
  Ticks,       \* bound: runs of the cron callback at once
  Jobs,        \* bound: jobs in the queue at once
  NoJob,       \* null
  Aging,       \* bound: rows that may get older than six hours
  MaxFaults,   \* bound: statements and calls that fail, ends by other modules
  MaxRestarts  \* bound: restarts of the process

Rows == Requests \cup Kept

ASSUME WithdrawalsAssumption ==
  /\ Requests \cap Kept = {}
  /\ Outcomes \subseteq [depth: {0}, success: BOOLEAN, own: BOOLEAN]
  /\ Networks \subseteq {"Bitcoin", "BEP2", "EVM"}
  /\ Target \in Nat \ {0}
  /\ NoJob \notin Jobs
  /\ MaxFaults \in Nat /\ MaxRestarts \in Nat

VARIABLES
  up,        \* the process runs
  saving,    \* where saveWithdrawal of each request is
  rows,      \* tbl_withdrawal
  chain,     \* what the Ethereum node knows of the transaction of each row
  cron,      \* withdrawal_cron is running
  job,       \* this.withdrawal_job
  ticks,     \* where each run of initiateWithdrawalJob is
  jobs,      \* withdrawal_queue, in Redis
  checks,    \* the callbacks of forEach that wait for an answer
  hooks,     \* rows that a webhook has approved and is still working on
  faults,    \* calls that failed
  restarts   \* restarts so far

vars == <<up, saving, rows, chain, cron, job, ticks, jobs, checks, hooks, faults, restarts>>

\* A row; `recent` says that created_at is within the last 6 hours.
Row == [network: {"Bitcoin", "BEP2", "EVM"}, paid: BOOLEAN, recent: BOOLEAN,
        status: {"Pending", "Approved", "Reverted"}]
NoRow == [network |-> "none", paid |-> FALSE, recent |-> FALSE, status |-> "none"]

\* Blocks on top of the transaction, 0 when the node has none; whether it
\* succeeded and whether it was sent from from_address.
Transaction == [depth: 0 .. Target, success: BOOLEAN, own: BOOLEAN]
Unknown == [depth |-> 0, success |-> FALSE, own |-> FALSE]

IdleTick == [pc |-> "idle", list |-> {}, job |-> NoJob]
NoQueued == [state |-> "none", list |-> {}, awaited |-> FALSE]
Unheard == [state |-> "removed", list |-> {}, awaited |-> FALSE]

Pending ==
  {r \in Rows : /\ rows[r] # NoRow
                /\ rows[r].network # "Bitcoin"
                /\ rows[r].status = "Pending"
                /\ rows[r].recent}

Init ==
  /\ up = TRUE
  /\ saving = [w \in Requests |-> "idle"]
  /\ rows = [r \in Rows |-> IF r \in Kept THEN [network |-> "EVM", paid |-> TRUE, recent |-> TRUE,
                                                status |-> "Pending"]
                                          ELSE NoRow]
  /\ \E sent \in [Kept -> Outcomes] :
       chain = [r \in Rows |-> IF r \in Kept THEN sent[r] ELSE Unknown]
  /\ cron = TRUE
  /\ job = NoJob
  /\ ticks = [t \in Ticks |-> IdleTick]
  /\ jobs = [j \in Jobs |-> NoQueued]
  /\ checks = {}
  /\ hooks = {}
  /\ faults = 0
  /\ restarts = 0
-----------------------------------------------------------------------------
(* saveWithdrawal, which the handler calls without waiting for it.         *)

\* A transfer on an EVM chain was mined before its row is saved (`blockHash`);
\* one on BEP2 or Bitcoin was only broadcast; without a source address nothing
\* was sent and the row is meant for the administrator.
Insert(w) ==
  /\ up
  /\ saving[w] = "idle"
  /\ \E network \in Networks, paid \in BOOLEAN :
       rows' = [rows EXCEPT ![w] =
         [network |-> network, paid |-> paid, recent |-> TRUE,
          status |-> IF paid /\ network = "EVM" THEN "Approved" ELSE "Pending"]]
  /\ saving' = [saving EXCEPT ![w] = "inserted"]
  /\ UNCHANGED <<up, chain, cron, job, ticks, jobs, checks, hooks, faults, restarts>>

\* job.start(), a no-op while the cron job runs.
StartCron(w) ==
  /\ up
  /\ saving[w] = "inserted"
  /\ cron' = (cron \/ rows[w].network # "Bitcoin")
  /\ saving' = [saving EXCEPT ![w] = "done"]
  /\ UNCHANGED <<up, rows, chain, job, ticks, jobs, checks, hooks, faults, restarts>>
-----------------------------------------------------------------------------
(* initiateWithdrawalJob, one run every two seconds while the cron job     *)
(* runs, whether or not the run before has ended.                          *)

TickFires(t) ==
  /\ up /\ cron
  /\ ticks[t].pc = "idle"
  /\ ticks' = [ticks EXCEPT ![t].pc = "reading"]
  /\ UNCHANGED <<up, saving, rows, chain, cron, job, jobs, checks, hooks, faults, restarts>>

\* getPendingWithdrawal.
TickReads(t) ==
  /\ ticks[t].pc = "reading"
  /\ ticks' = [ticks EXCEPT ![t].pc = "read", ![t].list = Pending]
  /\ UNCHANGED <<up, saving, rows, chain, cron, job, jobs, checks, hooks, faults, restarts>>

\* Rows are pending and a job is known: 'wait then to add to q'.
TickWaits(t) ==
  /\ ticks[t].pc = "read" /\ ticks[t].list # {}
  /\ job # NoJob
  /\ ticks' = [ticks EXCEPT ![t] = IdleTick]
  /\ UNCHANGED <<up, saving, rows, chain, cron, job, jobs, checks, hooks, faults, restarts>>

\* Rows are pending and no job is known: the job reaches the queue.
TickAdds(t) ==
  /\ ticks[t].pc = "read" /\ ticks[t].list # {}
  /\ job = NoJob
  /\ \E j \in Jobs :
       /\ jobs[j].state \in {"none", "removed"}
       /\ \A c \in checks : c.job # j
       /\ \A u \in Ticks : ticks[u].job # j
       /\ jobs' = [jobs EXCEPT ![j] = [state |-> "waiting", list |-> ticks[t].list, awaited |-> FALSE]]
       /\ ticks' = [ticks EXCEPT ![t] = [IdleTick EXCEPT !.pc = "adding", !.job = j]]
  /\ UNCHANGED <<up, saving, rows, chain, cron, job, checks, hooks, faults, restarts>>

\* The answer of `add`: the job, which may have ended by now, is remembered.
TickRemembers(t) ==
  /\ ticks[t].pc = "adding"
  /\ job' = ticks[t].job
  /\ ticks' = [ticks EXCEPT ![t].pc = "subscribing"]
  /\ UNCHANGED <<up, saving, rows, chain, cron, jobs, checks, hooks, faults, restarts>>

\* finished() looks for the job and waits for its end; a job that is gone never
\* answers.
TickSubscribes(t) ==
  /\ ticks[t].pc = "subscribing"
  /\ jobs' = [jobs EXCEPT ![ticks[t].job].awaited = jobs[ticks[t].job].state # "removed"]
  /\ ticks' = [ticks EXCEPT ![t] = IdleTick]
  /\ UNCHANGED <<up, saving, rows, chain, cron, job, checks, hooks, faults, restarts>>

\* No row is pending: the job is forgotten and the cron job stopped.
TickStops(t) ==
  /\ ticks[t].pc = "read" /\ ticks[t].list = {}
  /\ job' = NoJob
  /\ cron' = FALSE
  /\ ticks' = [ticks EXCEPT ![t] = IdleTick]
  /\ UNCHANGED <<up, saving, rows, chain, jobs, checks, hooks, faults, restarts>>

\* The query or `add` fails, the latter perhaps after the job was queued.
TickFails(t) ==
  /\ faults < MaxFaults
  /\ ticks[t].pc \in {"reading", "adding"}
  /\ ticks' = [ticks EXCEPT ![t] = IdleTick]
  /\ faults' = faults + 1
  /\ UNCHANGED <<up, saving, rows, chain, cron, job, jobs, checks, hooks, restarts>>
-----------------------------------------------------------------------------
(* The process ends.                                                       *)

\* A promise was rejected and nobody catches it, here or in another module of
\* the process, or the process is killed.
Exit ==
  /\ up' = FALSE
  /\ cron' = FALSE
  /\ job' = NoJob
  /\ ticks' = [t \in Ticks |-> IdleTick]
  /\ checks' = {}
  /\ hooks' = {}
  /\ saving' = [w \in Requests |-> IF saving[w] = "inserted" THEN "done" ELSE saving[w]]
  /\ jobs' = [j \in Jobs |-> IF jobs[j].state \in {"completed", "removed"} THEN NoQueued
                             ELSE [jobs[j] EXCEPT !.awaited = FALSE]]

\* The statement of saveWithdrawal, a call about a transaction or saveError
\* fails, another module ends the process, or it is killed.
Crash ==
  /\ up
  /\ faults < MaxFaults
  /\ Exit
  /\ faults' = faults + 1
  /\ UNCHANGED <<rows, chain, restarts>>

\* The process starts again, and with it the cron job; jobs that were being
\* worked on have stalled and are given out again.
Restart ==
  /\ ~up
  /\ restarts < MaxRestarts
  /\ up' = TRUE
  /\ cron' = TRUE
  /\ jobs' = [j \in Jobs |-> IF jobs[j].state = "active" THEN [jobs[j] EXCEPT !.state = "waiting"]
                             ELSE jobs[j]]
  /\ restarts' = restarts + 1
  /\ UNCHANGED <<saving, rows, chain, job, ticks, checks, hooks, faults>>
-----------------------------------------------------------------------------
(* The queue and processWithdrawal.                                        *)

\* forEach starts one callback for each row of the job and waits for none.
StartJob(j) ==
  /\ up
  /\ jobs[j].state = "waiting"
  /\ jobs' = [jobs EXCEPT ![j].state = "active"]
  /\ checks' = checks \cup {[job |-> j, row |-> r, pc |-> "receipt"] : r \in jobs[j].list}
  /\ UNCHANGED <<up, saving, rows, chain, cron, job, ticks, hooks, faults, restarts>>

CompleteJob(j) ==
  /\ up
  /\ jobs[j].state = "active"
  /\ jobs' = [jobs EXCEPT ![j].state = "completed"]
  /\ UNCHANGED <<up, saving, rows, chain, cron, job, ticks, checks, hooks, faults, restarts>>

\* Slip: only the log line is left in the callback.
FinishedLogs(j) ==
  /\ jobs[j].state = "completed" /\ jobs[j].awaited
  /\ job # NoJob
  /\ jobs' = [jobs EXCEPT ![j] = NoQueued]
  /\ UNCHANGED <<up, saving, rows, chain, cron, job, ticks, checks, hooks, faults, restarts>>

\* The callback of finished() logs the id of the job that is known now, and
\* forgets it.
Finished(j) ==
  /\ jobs[j].state = "completed" /\ jobs[j].awaited
  /\ job # NoJob
  /\ job' = NoJob
  /\ jobs' = [jobs EXCEPT ![j] = NoQueued]
  /\ UNCHANGED <<up, saving, rows, chain, cron, ticks, checks, hooks, faults, restarts>>

\* None is known: reading its id is a TypeError.
FinishedTwice(j) ==
  /\ jobs[j].state = "completed" /\ jobs[j].awaited
  /\ job = NoJob
  /\ Exit
  /\ UNCHANGED <<rows, chain, faults, restarts>>

\* removeOnComplete: a job that nobody waits for when it completes is gone.
Removed(j) ==
  /\ jobs[j].state = "completed" /\ ~jobs[j].awaited
  /\ jobs' = [jobs EXCEPT ![j] = Unheard]
  /\ UNCHANGED <<up, saving, rows, chain, cron, job, ticks, checks, hooks, faults, restarts>>

\* Without a receipt Web3Service.receipt throws, and the table that saveError
\* writes to is not among the entities of the data source: it throws as well.
NoReceipt(c) ==
  /\ c.pc = "receipt"
  /\ chain[c.row].depth = 0
  /\ Exit
  /\ UNCHANGED <<rows, chain, faults, restarts>>

Receipt(c) ==
  /\ c.pc = "receipt"
  /\ chain[c.row].depth > 0
  /\ checks' = (checks \ {c}) \cup {[c EXCEPT !.pc = "confirmations"]}
  /\ UNCHANGED <<up, saving, rows, chain, cron, job, ticks, jobs, hooks, faults, restarts>>

\* Slip: the confirmations are not compared with the target.
ConfirmationsIgnored(c) ==
  /\ c.pc = "confirmations"
  /\ checks' = (checks \ {c}) \cup IF chain[c.row].own THEN {[c EXCEPT !.pc = "update"]} ELSE {}
  /\ UNCHANGED <<up, saving, rows, chain, cron, job, ticks, jobs, hooks, faults, restarts>>

\* Slip: more confirmations than the target are asked for.
ConfirmationsExceed(c) ==
  /\ c.pc = "confirmations"
  /\ checks' = (checks \ {c}) \cup
       IF chain[c.row].depth > Target /\ chain[c.row].own THEN {[c EXCEPT !.pc = "update"]} ELSE {}
  /\ UNCHANGED <<up, saving, rows, chain, cron, job, ticks, jobs, hooks, faults, restarts>>

\* Slip: receipts of other senders count as well.
ConfirmationsAnySender(c) ==
  /\ c.pc = "confirmations"
  /\ checks' = (checks \ {c}) \cup IF chain[c.row].depth >= Target THEN {[c EXCEPT !.pc = "update"]} ELSE {}
  /\ UNCHANGED <<up, saving, rows, chain, cron, job, ticks, jobs, hooks, faults, restarts>>

\* getConfirmations.  Below the target, and for a receipt of another sender,
\* `receipt` returns undefined and the callback ends.
Confirmations(c) ==
  /\ c.pc = "confirmations"
  /\ checks' = (checks \ {c}) \cup
       IF chain[c.row].depth >= Target /\ chain[c.row].own THEN {[c EXCEPT !.pc = "update"]} ELSE {}
  /\ UNCHANGED <<up, saving, rows, chain, cron, job, ticks, jobs, hooks, faults, restarts>>

\* updateWtihdrawalById.
Update(c) ==
  /\ c.pc = "update"
  /\ rows' = [rows EXCEPT ![c.row].status = IF chain[c.row].success THEN "Approved" ELSE "Reverted"]
  /\ checks' = checks \ {c}
  /\ UNCHANGED <<up, saving, chain, cron, job, ticks, jobs, hooks, faults, restarts>>
-----------------------------------------------------------------------------
(* POST webhook, which blockcypher calls for Bitcoin transactions.         *)

\* Slip: a status that the column does not have.
HookConfirms(r) ==
  /\ up
  /\ rows[r] # NoRow /\ rows[r].network = "Bitcoin" /\ rows[r].paid
  /\ r \notin hooks
  /\ rows' = [rows EXCEPT ![r].status = "Confirmed"]
  /\ hooks' = hooks \cup {r}
  /\ UNCHANGED <<up, saving, chain, cron, job, ticks, jobs, checks, faults, restarts>>

\* Slip: what blockcypher says of an unconfirmed transaction is written as well.
HookWritesAny(r) ==
  /\ up
  /\ rows[r] # NoRow /\ rows[r].network = "Bitcoin" /\ rows[r].paid
  /\ r \notin hooks
  /\ \E status \in {"Pending", "Approved"} : rows' = [rows EXCEPT ![r].status = status]
  /\ hooks' = hooks \cup {r}
  /\ UNCHANGED <<up, saving, chain, cron, job, ticks, jobs, checks, faults, restarts>>

\* The handler looks at the hash alone; that blockcypher is the one who calls it, for
\* a Bitcoin row that was paid, is assumed.
HookApproves(r) ==
  /\ up
  /\ rows[r] # NoRow /\ rows[r].network = "Bitcoin" /\ rows[r].paid
  /\ r \notin hooks
  /\ rows' = [rows EXCEPT ![r].status = "Approved"]
  /\ hooks' = hooks \cup {r}
  /\ UNCHANGED <<up, saving, chain, cron, job, ticks, jobs, checks, faults, restarts>>

\* tbl_wallet has no column `balance`: decrement throws.
HookDecrements(r) ==
  /\ r \in hooks
  /\ Exit
  /\ UNCHANGED <<rows, chain, faults, restarts>>
-----------------------------------------------------------------------------
(* The world.                                                              *)

\* The transaction of a row is included, or a block is added on top of it.
Mine(r) ==
  /\ r \in Kept
  /\ chain[r].depth < Target
  /\ chain' = [chain EXCEPT ![r].depth = @ + 1]
  /\ UNCHANGED <<up, saving, rows, cron, job, ticks, jobs, checks, hooks, faults, restarts>>

\* Six hours pass, which matters only to a row that is selected.
Expire(r) ==
  /\ r \in Aging \cap Pending
  /\ rows' = [rows EXCEPT ![r].recent = FALSE]
  /\ UNCHANGED <<up, saving, chain, cron, job, ticks, jobs, checks, hooks, faults, restarts>>

TickProgress(t) ==
  TickReads(t) \/ TickWaits(t) \/ TickAdds(t) \/ TickRemembers(t) \/ TickSubscribes(t) \/ TickStops(t)
JobProgress(j) ==
  StartJob(j) \/ CompleteJob(j) \/ Finished(j) \/ FinishedTwice(j) \/ Removed(j)
CheckProgress(c) == NoReceipt(c) \/ Receipt(c) \/ Confirmations(c) \/ Update(c)

Next ==
  \/ \E w \in Requests : Insert(w) \/ StartCron(w)
  \/ \E t \in Ticks : TickFires(t) \/ TickProgress(t) \/ TickFails(t)
  \/ \E j \in Jobs : JobProgress(j)
  \/ \E c \in checks : CheckProgress(c)
  \/ \E r \in Rows : HookApproves(r) \/ HookDecrements(r) \/ Mine(r) \/ Expire(r)
  \/ Crash \/ Restart

Spec == Init /\ [][Next]_vars

\* The timer of a running cron job goes off, Redis and the worker give out and
\* complete jobs and tell that they are finished, and every call is answered.
\* Nothing makes a block appear, a webhook arrive or the process start again.
Fairness ==
  /\ WF_vars(\E t \in Ticks : TickFires(t))
  /\ \A t \in Ticks : WF_vars(TickProgress(t))
  /\ \A j \in Jobs : WF_vars(JobProgress(j))
  /\ \A r \in Rows : WF_vars(\E c \in checks : c.row = r /\ CheckProgress(c))
  /\ \A w \in Requests : WF_vars(StartCron(w))
  /\ \A r \in Rows : WF_vars(HookDecrements(r))
FairSpec == Spec /\ Fairness
-----------------------------------------------------------------------------
(* Properties.                                                             *)

Tick == [pc: {"idle", "reading", "read", "adding", "subscribing"}, list: SUBSET Rows,
         job: Jobs \cup {NoJob}]
Queued == [state: {"none", "waiting", "active", "completed", "removed"}, list: SUBSET Rows,
           awaited: BOOLEAN]
Check == [job: Jobs, row: Rows, pc: {"receipt", "confirmations", "update"}]

\* The variables have the types the code gives them.
TypeOK ==
  /\ up \in BOOLEAN /\ cron \in BOOLEAN
  /\ saving \in [Requests -> {"idle", "inserted", "done"}]
  /\ rows \in [Rows -> Row \cup {NoRow}]
  /\ chain \in [Rows -> Transaction]
  /\ job \in Jobs \cup {NoJob}
  /\ ticks \in [Ticks -> Tick]
  /\ jobs \in [Jobs -> Queued]
  /\ checks \subseteq Check
  /\ hooks \subseteq Rows
  /\ faults \in Nat /\ restarts \in Nat

\* A withdrawal is decided only by the chain: an approved one was mined before
\* it was saved, was reported by the webhook, or its own transaction is Target
\* blocks deep and succeeded; a reverted one is as deep and failed.
DecidedByChain ==
  \A r \in Rows :
    LET settled == chain[r].depth >= Target /\ chain[r].own IN
    /\ rows[r].status = "Approved" =>
         \/ rows[r].paid /\ r \in Requests /\ rows[r].network \in {"EVM", "Bitcoin"}
         \/ settled /\ chain[r].success
    /\ rows[r].status = "Reverted" => settled /\ ~chain[r].success

\* The job that is known ended before finished() could wait for it.
Stalled == job # NoJob /\ jobs[job].state = "removed"

\* Somebody waits or is about to wait for the end of the job that is known,
\* however runs of the cron job overlap, unless it ended before that.
KnownJobAwaited ==
  job # NoJob =>
    \/ jobs[job].awaited /\ jobs[job].state # "none"
    \/ \E t \in Ticks : ticks[t].pc = "subscribing" /\ ticks[t].job = job
    \/ Stalled

\* A decision is final, however often a row is looked at: by overlapping jobs,
\* by a job that stalled and is given out again, or by the webhook.
DecisionIsFinal ==
  [][\A r \in Rows : rows[r].status \in {"Approved", "Reverted"} =>
                      rows'[r].status = rows[r].status]_vars

\* A job that is known is forgotten in the end, unless it ended before finished()
\* could wait for it: 'wait then to add to q' then waits for ever.
KnownJobEnds == job # NoJob ~> job = NoJob \/ Stalled

\* A pending row whose transaction is deep enough is decided in the end, unless
\* it gets too old, the cron job is stopped, the process ends or the job that is
\* known has stalled.
SettledIsDecided ==
  \A r \in Kept :
    r \in Pending /\ chain[r].depth >= Target /\ chain[r].own
      ~> rows[r].status # "Pending" \/ ~rows[r].recent \/ ~cron \/ Stalled

\* Seen from the table and the process, the cron job, the queue, the consumer
\* and the webhook together are the FollowUp: however runs overlap, jobs stall
\* and callbacks wait, a row is written only as its own transaction ended, and
\* the follow-up ends the process only when a call fails or by a row of its own.
\* Here Crash stands for the ends by other modules.
Promise == INSTANCE FollowUp WITH
  rows <- [r \in Rows |-> [network |-> rows[r].network, paid |-> rows[r].paid,
                           status |-> rows[r].status]],
  others <- FALSE,
  fate <- [r \in Rows |-> IF ~(chain[r].depth >= Target /\ chain[r].own) THEN "unknown"
                          ELSE IF chain[r].success THEN "succeeded" ELSE "failed"]

ImplementsFollowUp == Promise!Spec

\* "every time withdrwl save cron is started and loop trough pendni transaction"
\* (testing_coins.ts:53): a row that has been saved is looked at, unless it
\* gets too old, the process ends or the job that is known has stalled.
SavedIsLookedAt ==
  \A w \in Requests :
    saving[w] = "done" /\ w \in Pending
      ~> (\E c \in checks : c.row = w) \/ ~rows[w].recent \/ ~up \/ Stalled

\* 'wait then to add to q' (queue.provider.ts:36): a row that waits for the job
\* that is known is added afterwards and looked at, unless it is no longer
\* pending or the cron job is stopped.
WaitingIsAdded ==
  \A r \in Rows :
    (\E t \in Ticks : ticks[t].pc = "read" /\ r \in ticks[t].list /\ job # NoJob)
      ~> (\E c \in checks : c.row = r) \/ r \notin Pending \/ ~cron

\* 'wait then to add to q' (queue.provider.ts:36): as long as a job has not
\* ended, no other is added.
OneJobAtATime ==
  \A i, j \in Jobs : jobs[i].state \in {"waiting", "active"} /\ jobs[j].state \in {"waiting", "active"} => i = j
=============================================================================
