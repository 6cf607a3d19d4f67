------------------------- MODULE WithdrawalsProofs -------------------------
(***************************************************************************)
(* Proofs, for every number of withdrawals, runs of the cron job, jobs,    *)
(* faults and restarts, that Withdrawals has its types, that a status is   *)
(* what the chain says and stays so, that the known job is awaited, and    *)
(* that Withdrawals implements FollowUp.                                   *)
(***************************************************************************)
EXTENDS Withdrawals, TLAPS

\* The transaction of the row is deep enough and is the row's own.
Settled(r) == chain[r].depth >= Target /\ chain[r].own

\* Rows that a list of pending rows shows have been inserted.
Listed(list) == \A r \in list : rows[r] # NoRow

\* Lists are read from the table, of which no row is ever deleted.
ListsOK ==
  /\ \A t \in Ticks : Listed(ticks[t].list)
  /\ \A j \in Jobs : Listed(jobs[j].list)
  /\ \A c \in checks : rows[c.row] # NoRow

\* The run has added a job whose end it does not wait for yet.
Adds(t) == ticks[t].pc \in {"adding", "subscribing"}

\* The job that a run has added is its own, was queued and may be gone again, and
\* nobody waits for it yet; what is awaited is in the queue.
AddingOK ==
  /\ \A t \in Ticks : Adds(t) =>
       /\ ticks[t].job \in Jobs
       /\ jobs[ticks[t].job].state # "none"
       /\ ~jobs[ticks[t].job].awaited
  /\ \A t, u \in Ticks : Adds(t) /\ Adds(u) /\ t # u => ticks[t].job # ticks[u].job
  /\ \A j \in Jobs : jobs[j].awaited => jobs[j].state \notin {"none", "removed"}

\* A row that was pending at the start is on an EVM chain, and only the
\* transactions of such rows are still to be mined; a request saves one row.
RowsOK ==
  /\ \A w \in Requests : saving[w] = "idle" => rows[w] = NoRow
  /\ \A r \in Kept : rows[r].network = "EVM"
  /\ \A w \in Requests : chain[w] = Unknown

\* Who is about to write a status has seen the transaction settled.
UpdateOK == \A c \in checks : c.pc = "update" => Settled(c.row)

IInv == TypeOK /\ ListsOK /\ AddingOK /\ KnownJobAwaited /\ RowsOK /\ UpdateOK /\ DecidedByChain
-----------------------------------------------------------------------------
(* The values the steps start from, and what a step leaves alone.          *)

LEMMA ConstantFacts ==
  /\ NoRow \notin Row
  /\ Unknown \in Transaction /\ ~(Unknown.depth >= Target)
  /\ IdleTick \in Tick /\ IdleTick.pc = "idle" /\ IdleTick.list = {}
  /\ NoQueued \in Queued /\ ~NoQueued.awaited /\ NoQueued.list = {} /\ NoQueued.state = "none"
  /\ Unheard \in Queued /\ ~Unheard.awaited /\ Unheard.list = {} /\ Unheard.state = "removed"
  BY WithdrawalsAssumption
     DEF Row, NoRow, Transaction, Unknown, IdleTick, Tick, NoQueued, Unheard, Queued

LEMMA InitOK == Init => IInv
<1> SUFFICES ASSUME Init PROVE IInv
  OBVIOUS
<1>1. TypeOK
  <2>1. PICK sent \in [Kept -> Outcomes] :
          chain = [r \in Rows |-> IF r \in Kept THEN sent[r] ELSE Unknown]
    BY DEF Init
  <2>2. \A r \in Kept : sent[r] \in Transaction
    BY WithdrawalsAssumption DEF Transaction
  <2>3. chain \in [Rows -> Transaction]
    BY <2>1, <2>2, ConstantFacts
  <2> QED BY <2>3, ConstantFacts DEF Init, TypeOK, Row, Rows
<1>2. ListsOK /\ AddingOK /\ KnownJobAwaited /\ UpdateOK
  BY ConstantFacts DEF Init, ListsOK, Listed, AddingOK, Adds, KnownJobAwaited, UpdateOK
<1>3. RowsOK
  BY WithdrawalsAssumption DEF Init, RowsOK, Rows
<1>4. DecidedByChain
  BY DEF Init, DecidedByChain, NoRow
<1> QED BY <1>1, <1>2, <1>3, <1>4 DEF IInv

\* What concerns rows and the chain stays when neither changes and nobody
\* comes to the point of writing a status.
LEMMA RowsUntouched ==
  ASSUME IInv, UNCHANGED <<rows, chain>>,
         \A w \in Requests : saving'[w] = "idle" => saving[w] = "idle", NEW new, checks' = new,
         \A c \in new : c.pc = "update" => c \in checks
  PROVE  RowsOK' /\ UpdateOK' /\ DecidedByChain'
<1>1. RowsOK' /\ DecidedByChain'
  BY DEF IInv, RowsOK, DecidedByChain
<1>2. UpdateOK'
  BY DEF IInv, UpdateOK, Settled
<1> QED BY <1>1, <1>2

\* Rows keep their network, and one that is saved stays saved.
LEMMA ListsKept ==
  ASSUME IInv, \A r \in Rows : rows[r] # NoRow => rows'[r] # NoRow,
         UNCHANGED <<ticks, jobs>>, checks' \subseteq checks
  PROVE  ListsOK'
<1>1. \A t \in Ticks : ticks[t].list \subseteq Rows
  BY DEF IInv, TypeOK, Tick
<1>2. \A j \in Jobs : jobs[j].list \subseteq Rows
  BY DEF IInv, TypeOK, Queued
<1>3. \A c \in checks : c.row \in Rows
  BY DEF IInv, TypeOK, Check
<1> QED BY <1>1, <1>2, <1>3 DEF IInv, ListsOK, Listed

\* Runs of the cron job and jobs stay as they are.
LEMMA JobsUntouched ==
  ASSUME IInv, UNCHANGED <<job, ticks, jobs>>
  PROVE  AddingOK' /\ KnownJobAwaited'
  BY DEF IInv, AddingOK, Adds, KnownJobAwaited, Stalled

\* When the process ends everything that waits for an answer is gone.
LEMMA ExitStep ==
  ASSUME IInv, Exit, UNCHANGED <<rows, chain>>, faults' \in Nat, restarts' \in Nat
  PROVE  IInv'
<1>1. /\ job' = NoJob /\ checks' = {} /\ hooks' = {} /\ up' = FALSE /\ cron' = FALSE
      /\ ticks' = [t \in Ticks |-> IdleTick]
  BY DEF Exit
<1>2. /\ jobs' \in [Jobs -> Queued]
      /\ \A j \in Jobs : /\ ~jobs'[j].awaited
                         /\ jobs'[j].list \subseteq jobs[j].list
  <2> SUFFICES ASSUME NEW j \in Jobs
               PROVE  LET new == IF jobs[j].state \in {"completed", "removed"} THEN NoQueued
                                 ELSE [jobs[j] EXCEPT !.awaited = FALSE]
                      IN  new \in Queued /\ ~new.awaited /\ new.list \subseteq jobs[j].list
    BY DEF Exit
  <2>1. jobs[j] \in Queued
    BY DEF IInv, TypeOK
  <2> QED BY <2>1, ConstantFacts DEF Queued
<1>3. /\ saving' \in [Requests -> {"idle", "inserted", "done"}]
      /\ \A w \in Requests : saving'[w] = "idle" => saving[w] = "idle"
  BY DEF Exit, IInv, TypeOK
<1>4. TypeOK'
  BY <1>1, <1>2, <1>3, ConstantFacts DEF IInv, TypeOK
<1>5. ListsOK' /\ AddingOK' /\ KnownJobAwaited'
  BY <1>1, <1>2, ConstantFacts DEF IInv, ListsOK, Listed, AddingOK, Adds, KnownJobAwaited
<1> QED BY <1>1, <1>3, <1>4, <1>5, RowsUntouched DEF IInv

-----------------------------------------------------------------------------
(* saveWithdrawal.                                                         *)

LEMMA InsertStep ==
  ASSUME IInv, NEW w \in Requests, Insert(w)
  PROVE  IInv'
<1>1. PICK network \in Networks, paid \in BOOLEAN :
        rows' = [rows EXCEPT ![w] =
          [network |-> network, paid |-> paid, recent |-> TRUE,
           status |-> IF paid /\ network = "EVM" THEN "Approved" ELSE "Pending"]]
  BY DEF Insert
<1>2. w \in Rows /\ w \notin Kept
  BY WithdrawalsAssumption DEF Rows
<1>3. /\ rows'[w] \in Row /\ rows'[w].paid = paid /\ rows'[w].network = network
      /\ rows'[w].status = IF paid /\ network = "EVM" THEN "Approved" ELSE "Pending"
      /\ \A r \in Rows \ {w} : rows'[r] = rows[r]
      /\ DOMAIN rows' = Rows
  BY <1>1, <1>2, WithdrawalsAssumption DEF IInv, TypeOK, Row
<1>4. rows' \in [Rows -> Row \cup {NoRow}]
  BY <1>1, <1>3 DEF IInv, TypeOK
<1>5. TypeOK'
  BY <1>4 DEF Insert, IInv, TypeOK
<1>6. ListsOK'
  BY <1>2, <1>3, ListsKept, ConstantFacts DEF Insert
<1>7. AddingOK' /\ KnownJobAwaited'
  BY JobsUntouched DEF Insert
<1>8. \A v \in Requests : saving'[v] = "idle" => v # w /\ saving[v] = "idle"
  BY DEF Insert, IInv, TypeOK
<1>10. RowsOK' /\ UpdateOK'
  BY <1>2, <1>3, <1>8 DEF Insert, IInv, RowsOK, UpdateOK, Settled, Rows
<1>9. DecidedByChain'
  BY <1>3, <1>4 DEF Insert, IInv, DecidedByChain
<1> QED BY <1>5, <1>6, <1>7, <1>9, <1>10 DEF IInv

LEMMA StartCronStep ==
  ASSUME IInv, NEW w \in Requests, StartCron(w)
  PROVE  IInv'
<1>1. TypeOK'
  BY DEF StartCron, IInv, TypeOK
<1>2. ListsOK' /\ AddingOK' /\ KnownJobAwaited'
  BY ListsKept, JobsUntouched DEF StartCron
<1>3. \A v \in Requests : saving'[v] = "idle" => saving[v] = "idle"
  BY DEF StartCron, IInv, TypeOK
<1>4. RowsOK' /\ UpdateOK' /\ DecidedByChain'
  BY <1>3, RowsUntouched DEF StartCron
<1> QED BY <1>1, <1>2, <1>4 DEF IInv

-----------------------------------------------------------------------------
(* initiateWithdrawalJob.                                                  *)

\* A run goes on or ends; it neither waits for finished() nor comes to wait for
\* `add`.
LEMMA TickStep ==
  ASSUME IInv, NEW t \in Ticks, ticks[t].pc # "subscribing",
         NEW new \in Tick, new.pc \notin {"adding", "subscribing"}, Listed(new.list),
         ticks' = [ticks EXCEPT ![t] = new],
         cron' \in BOOLEAN, faults' \in Nat, job' \in {job, NoJob},
         UNCHANGED <<up, saving, rows, chain, jobs, checks, hooks, restarts>>
  PROVE  IInv'
<1>1. /\ ticks' \in [Ticks -> Tick] /\ ticks'[t] = new
      /\ \A u \in Ticks \ {t} : ticks'[u] = ticks[u]
  BY DEF IInv, TypeOK
<1>2. TypeOK'
  BY <1>1 DEF IInv, TypeOK
<1>3. ListsOK'
  BY <1>1 DEF IInv, ListsOK, Listed
<1>4. AddingOK' /\ KnownJobAwaited'
  <2>1. \A u \in Ticks : Adds(u)' => Adds(u) /\ ticks'[u] = ticks[u]
    BY <1>1 DEF Adds
  <2>2. AddingOK'
    BY <2>1 DEF IInv, AddingOK
  <2>3. ASSUME job' = NoJob PROVE KnownJobAwaited'
    BY <2>3 DEF KnownJobAwaited
  <2>4. ASSUME job' = job PROVE KnownJobAwaited'
    BY <1>1, <2>4 DEF IInv, KnownJobAwaited, Stalled
  <2> QED BY <2>2, <2>3, <2>4
<1>5. RowsOK' /\ UpdateOK' /\ DecidedByChain'
  BY RowsUntouched
<1> QED BY <1>2, <1>3, <1>4, <1>5 DEF IInv

LEMMA TickFiresStep ==
  ASSUME IInv, NEW t \in Ticks, TickFires(t)
  PROVE  IInv'
<1>1. ticks[t] \in Tick /\ Listed(ticks[t].list)
  BY DEF IInv, TypeOK, ListsOK
<1> DEFINE new == [ticks[t] EXCEPT !.pc = "reading"]
<1>2. new \in Tick /\ new.pc \notin {"adding", "subscribing"} /\ Listed(new.list)
  BY <1>1, ConstantFacts DEF Tick, Listed
<1>3. /\ ticks' = [ticks EXCEPT ![t] = new]
      /\ cron' \in BOOLEAN /\ faults' \in Nat /\ job' \in {job, NoJob}
      /\ UNCHANGED <<up, saving, rows, chain, jobs, checks, hooks, restarts>>
  BY DEF TickFires, IInv, TypeOK
<1>4. ticks[t].pc # "subscribing"
  BY DEF TickFires
<1> QED BY <1>2, <1>3, <1>4, TickStep

LEMMA TickReadsStep ==
  ASSUME IInv, NEW t \in Ticks, TickReads(t)
  PROVE  IInv'
<1>1. ticks[t] \in Tick /\ Listed(ticks[t].list)
  BY DEF IInv, TypeOK, ListsOK
<1> DEFINE new == [ticks[t] EXCEPT !.pc = "read", !.list = Pending]
<1>2. new \in Tick /\ new.pc \notin {"adding", "subscribing"} /\ Listed(new.list)
  BY <1>1, ConstantFacts DEF Tick, Listed, Pending
<1>3. /\ ticks' = [ticks EXCEPT ![t] = new]
      /\ cron' \in BOOLEAN /\ faults' \in Nat /\ job' \in {job, NoJob}
      /\ UNCHANGED <<up, saving, rows, chain, jobs, checks, hooks, restarts>>
  BY DEF TickReads, IInv, TypeOK
<1>4. ticks[t].pc # "subscribing"
  BY DEF TickReads
<1> QED BY <1>2, <1>3, <1>4, TickStep

LEMMA TickWaitsStep ==
  ASSUME IInv, NEW t \in Ticks, TickWaits(t)
  PROVE  IInv'
<1>1. /\ ticks' = [ticks EXCEPT ![t] = IdleTick]
      /\ cron' \in BOOLEAN /\ faults' \in Nat /\ job' \in {job, NoJob}
      /\ UNCHANGED <<up, saving, rows, chain, jobs, checks, hooks, restarts>>
  BY DEF TickWaits, IInv, TypeOK
<1>2. ticks[t].pc # "subscribing"
  BY DEF TickWaits
<1> QED BY <1>1, <1>2, TickStep, ConstantFacts DEF Listed

LEMMA TickStopsStep ==
  ASSUME IInv, NEW t \in Ticks, TickStops(t)
  PROVE  IInv'
<1>1. /\ ticks' = [ticks EXCEPT ![t] = IdleTick]
      /\ cron' \in BOOLEAN /\ faults' \in Nat /\ job' \in {job, NoJob}
      /\ UNCHANGED <<up, saving, rows, chain, jobs, checks, hooks, restarts>>
  BY DEF TickStops, IInv, TypeOK
<1>2. ticks[t].pc # "subscribing"
  BY DEF TickStops
<1> QED BY <1>1, <1>2, TickStep, ConstantFacts DEF Listed

LEMMA TickFailsStep ==
  ASSUME IInv, NEW t \in Ticks, TickFails(t)
  PROVE  IInv'
<1>1. /\ ticks' = [ticks EXCEPT ![t] = IdleTick]
      /\ cron' \in BOOLEAN /\ faults' \in Nat /\ job' \in {job, NoJob}
      /\ UNCHANGED <<up, saving, rows, chain, jobs, checks, hooks, restarts>>
  BY DEF TickFails, IInv, TypeOK
<1>2. ticks[t].pc # "subscribing"
  BY DEF TickFails
<1> QED BY <1>1, <1>2, TickStep, ConstantFacts DEF Listed

LEMMA TickAddsStep ==
  ASSUME IInv, NEW t \in Ticks, TickAdds(t)
  PROVE  IInv'
<1>1. PICK j \in Jobs :
        /\ \A u \in Ticks : ticks[u].job # j
        /\ jobs' = [jobs EXCEPT ![j] = [state |-> "waiting", list |-> ticks[t].list, awaited |-> FALSE]]
        /\ ticks' = [ticks EXCEPT ![t] = [IdleTick EXCEPT !.pc = "adding", !.job = j]]
  BY DEF TickAdds
<1>2. job = NoJob /\ UNCHANGED <<up, saving, rows, chain, cron, job, checks, hooks, faults, restarts>>
  BY DEF TickAdds
<1>3. ticks[t].list \subseteq Rows /\ Listed(ticks[t].list)
  BY DEF IInv, TypeOK, Tick, ListsOK
<1> DEFINE new == [state |-> "waiting", list |-> ticks[t].list, awaited |-> FALSE]
<1>4. /\ jobs' \in [Jobs -> Queued] /\ jobs'[j] = new
      /\ \A i \in Jobs \ {j} : jobs'[i] = jobs[i]
  <2>1. jobs' = [jobs EXCEPT ![j] = new]
    BY <1>1
  <2>2. new \in Queued
    BY <1>3 DEF Queued
  <2> HIDE DEF new
  <2> QED BY <2>1, <2>2 DEF IInv, TypeOK
<1>5. new.state \notin {"none", "removed"} /\ ~new.awaited /\ new.list = ticks[t].list
  OBVIOUS
<1> HIDE DEF new
<1>6. /\ ticks' \in [Ticks -> Tick] /\ ticks'[t].pc = "adding" /\ ticks'[t].job = j
      /\ ticks'[t].list = {}
      /\ \A u \in Ticks \ {t} : ticks'[u] = ticks[u]
  BY <1>1 DEF IInv, TypeOK, IdleTick, Tick
<1>7. TypeOK'
  BY <1>2, <1>4, <1>6 DEF IInv, TypeOK
<1>8. ListsOK'
  BY <1>2, <1>3, <1>4, <1>6, <1>5 DEF IInv, ListsOK, Listed
<1>9. \A u \in Ticks \ {t} : Adds(u)' => Adds(u) /\ ticks[u].job # j
  BY <1>1, <1>6 DEF Adds
<1>10. AddingOK' /\ KnownJobAwaited'
  BY <1>2, <1>4, <1>5, <1>6, <1>9 DEF IInv, AddingOK, KnownJobAwaited
<1>11. RowsOK' /\ UpdateOK' /\ DecidedByChain'
  BY <1>2, RowsUntouched
<1> QED BY <1>7, <1>8, <1>10, <1>11 DEF IInv

LEMMA TickRemembersStep ==
  ASSUME IInv, NEW t \in Ticks, TickRemembers(t)
  PROVE  IInv'
<1>1. /\ job' = ticks[t].job /\ ticks' = [ticks EXCEPT ![t].pc = "subscribing"]
      /\ UNCHANGED <<up, saving, rows, chain, cron, jobs, checks, hooks, faults, restarts>>
  BY DEF TickRemembers
<1>2. Adds(t) /\ ticks[t] \in Tick /\ ticks[t].job \in Jobs
  BY DEF TickRemembers, Adds, IInv, AddingOK, TypeOK
<1>3. /\ ticks' \in [Ticks -> Tick]
      /\ ticks'[t].pc = "subscribing" /\ ticks'[t].job = ticks[t].job /\ ticks'[t].list = ticks[t].list
      /\ \A u \in Ticks \ {t} : ticks'[u] = ticks[u]
  BY <1>1, <1>2 DEF IInv, TypeOK, Tick
<1>4. TypeOK'
  BY <1>1, <1>2, <1>3 DEF IInv, TypeOK
<1>5. ListsOK'
  BY <1>1, <1>3 DEF IInv, ListsOK, Listed
<1>6. AddingOK'
  <2>1. \A u \in Ticks : ticks'[u].job = ticks[u].job /\ (Adds(u)' => Adds(u))
    BY <1>2, <1>3 DEF Adds
  <2> QED BY <1>1, <2>1 DEF IInv, AddingOK
<1>7. KnownJobAwaited'
  BY <1>1, <1>3 DEF KnownJobAwaited
<1>8. RowsOK' /\ UpdateOK' /\ DecidedByChain'
  BY <1>1, RowsUntouched
<1> QED BY <1>4, <1>5, <1>6, <1>7, <1>8 DEF IInv

\* A job that is gone when finished() looks for it is one that Stalled tells of.
LEMMA TickSubscribesStep ==
  ASSUME IInv, NEW t \in Ticks, TickSubscribes(t)
  PROVE  IInv'
<1> DEFINE j == ticks[t].job
           heard == jobs[j].state # "removed"
<1>1. /\ j \in Jobs /\ jobs[j].state # "none" /\ jobs[j] \in Queued
      /\ \A u \in Ticks \ {t} : Adds(u) => ticks[u].job # j
  BY DEF TickSubscribes, Adds, IInv, AddingOK, TypeOK
<1>2. /\ jobs' = [jobs EXCEPT ![j].awaited = heard]
      /\ ticks' = [ticks EXCEPT ![t] = IdleTick]
      /\ UNCHANGED <<up, saving, rows, chain, cron, job, checks, hooks, faults, restarts>>
  BY DEF TickSubscribes
<1>3. /\ jobs' \in [Jobs -> Queued] /\ jobs'[j].awaited = heard
      /\ jobs'[j].state = jobs[j].state /\ jobs'[j].list = jobs[j].list
      /\ \A i \in Jobs \ {j} : jobs'[i] = jobs[i]
  <2>1. heard \in BOOLEAN
    OBVIOUS
  <2> HIDE DEF heard, j
  <2> QED BY <1>1, <1>2, <2>1 DEF IInv, TypeOK, Queued
<1>4. /\ ticks' \in [Ticks -> Tick] /\ ticks'[t] = IdleTick
      /\ \A u \in Ticks \ {t} : ticks'[u] = ticks[u]
  BY <1>2, ConstantFacts DEF IInv, TypeOK
<1>5. TypeOK'
  BY <1>2, <1>3, <1>4 DEF IInv, TypeOK
<1>6. ListsOK'
  BY <1>2, <1>3, <1>4, ConstantFacts DEF IInv, ListsOK, Listed
<1>7. AddingOK'
  <2>1. \A u \in Ticks : Adds(u)' => u # t /\ Adds(u) /\ ticks'[u] = ticks[u] /\ ticks[u].job # j
    BY <1>1, <1>4, ConstantFacts DEF Adds
  <2>2. jobs'[j].awaited => jobs'[j].state \notin {"none", "removed"}
    BY <1>1, <1>3
  <2> HIDE DEF j, heard
  <2> QED BY <1>3, <2>1, <2>2 DEF IInv, AddingOK
<1>8. KnownJobAwaited'
  <2>1. CASE job = j
    <3>1. (jobs'[j].awaited /\ jobs'[j].state # "none") \/ jobs'[j].state = "removed"
      BY <1>1, <1>3
    <3> QED BY <1>2, <2>1, <3>1 DEF KnownJobAwaited, Stalled
  <2>2. CASE job # j
    <3> HIDE DEF j
    <3> QED BY <1>2, <1>3, <1>4, <2>2 DEF j, IInv, TypeOK, KnownJobAwaited, Stalled
  <2> QED BY <2>1, <2>2
<1>9. RowsOK' /\ UpdateOK' /\ DecidedByChain'
  BY <1>2, RowsUntouched
<1> QED BY <1>5, <1>6, <1>7, <1>8, <1>9 DEF IInv

-----------------------------------------------------------------------------
(* The process ends and starts again.                                      *)

LEMMA CrashStep ==
  ASSUME IInv, Crash
  PROVE  IInv'
<1>1. Exit /\ UNCHANGED <<rows, chain>> /\ faults' \in Nat /\ restarts' \in Nat
  BY DEF Crash, IInv, TypeOK
<1> QED BY <1>1, ExitStep

LEMMA RestartStep ==
  ASSUME IInv, Restart
  PROVE  IInv'
<1>1. jobs' \in [Jobs -> Queued]
  BY DEF Restart, IInv, TypeOK, Queued
<1>2. \A j \in Jobs : /\ jobs'[j].list = jobs[j].list /\ jobs'[j].awaited = jobs[j].awaited
                     /\ \A state \in {"none", "removed"} : jobs'[j].state = state <=> jobs[j].state = state
  BY DEF Restart, IInv, TypeOK, Queued
<1>3. TypeOK'
  BY <1>1 DEF Restart, IInv, TypeOK
<1>4. ListsOK'
  BY <1>2 DEF Restart, IInv, ListsOK, Listed
<1>5. AddingOK' /\ KnownJobAwaited'
  BY <1>2 DEF Restart, IInv, TypeOK, AddingOK, Adds, KnownJobAwaited, Stalled
<1>6. RowsOK' /\ UpdateOK' /\ DecidedByChain'
  BY RowsUntouched DEF Restart
<1> QED BY <1>3, <1>4, <1>5, <1>6 DEF IInv

-----------------------------------------------------------------------------
(* The queue and processWithdrawal.                                        *)

\* A job moves on in the queue.
LEMMA JobMoves ==
  ASSUME IInv, NEW j \in Jobs, NEW state \in {"active", "completed"},
         jobs[j].state \in {"waiting", "active"}, jobs' = [jobs EXCEPT ![j].state = state],
         UNCHANGED <<up, saving, rows, chain, cron, job, ticks, hooks, faults, restarts>>
  PROVE  /\ jobs' \in [Jobs -> Queued]
         /\ \A i \in Jobs : jobs'[i].list = jobs[i].list
         /\ AddingOK' /\ KnownJobAwaited'
<1>1. jobs' \in [Jobs -> Queued]
  BY DEF IInv, TypeOK, Queued
<1>2. \A i \in Jobs : /\ jobs'[i].list = jobs[i].list /\ jobs'[i].awaited = jobs[i].awaited
                     /\ \A old \in {"none", "removed"} : jobs'[i].state = old <=> jobs[i].state = old
  BY DEF IInv, TypeOK, Queued
<1>3. AddingOK' /\ KnownJobAwaited'
  BY <1>2 DEF IInv, TypeOK, AddingOK, Adds, KnownJobAwaited, Stalled
<1> QED BY <1>1, <1>2, <1>3

LEMMA StartJobStep ==
  ASSUME IInv, NEW j \in Jobs, StartJob(j)
  PROVE  IInv'
<1> DEFINE started == {[job |-> j, row |-> r, pc |-> "receipt"] : r \in jobs[j].list}
<1>1. /\ jobs[j].state = "waiting" /\ jobs' = [jobs EXCEPT ![j].state = "active"]
      /\ checks' = checks \cup started
      /\ UNCHANGED <<up, saving, rows, chain, cron, job, ticks, hooks, faults, restarts>>
  BY DEF StartJob
<1>2. /\ jobs' \in [Jobs -> Queued] /\ AddingOK' /\ KnownJobAwaited'
      /\ \A i \in Jobs : jobs'[i].list = jobs[i].list
  BY <1>1, JobMoves
<1>3. jobs[j].list \subseteq Rows /\ Listed(jobs[j].list)
  BY DEF IInv, TypeOK, Queued, ListsOK
<1>4. /\ started \subseteq Check
      /\ \A c \in started : c.pc # "update" /\ rows[c.row] # NoRow
  BY <1>3 DEF Check, Listed
<1> HIDE DEF started
<1>5. TypeOK'
  BY <1>1, <1>2, <1>4 DEF IInv, TypeOK
<1>6. ListsOK'
  BY <1>1, <1>2, <1>4 DEF IInv, ListsOK, Listed
<1>7. RowsOK' /\ UpdateOK' /\ DecidedByChain'
  BY <1>1, <1>4, RowsUntouched
<1> QED BY <1>2, <1>5, <1>6, <1>7 DEF IInv

LEMMA CompleteJobStep ==
  ASSUME IInv, NEW j \in Jobs, CompleteJob(j)
  PROVE  IInv'
<1>1. /\ jobs[j].state = "active" /\ jobs' = [jobs EXCEPT ![j].state = "completed"]
      /\ UNCHANGED <<up, saving, rows, chain, cron, job, ticks, checks, hooks, faults, restarts>>
  BY DEF CompleteJob
<1>2. /\ jobs' \in [Jobs -> Queued] /\ AddingOK' /\ KnownJobAwaited'
      /\ \A i \in Jobs : jobs'[i].list = jobs[i].list
  BY <1>1, JobMoves
<1>3. TypeOK'
  BY <1>1, <1>2 DEF IInv, TypeOK
<1>4. ListsOK'
  BY <1>1, <1>2 DEF IInv, ListsOK, Listed
<1>5. RowsOK' /\ UpdateOK' /\ DecidedByChain'
  BY <1>1, RowsUntouched
<1> QED BY <1>2, <1>3, <1>4, <1>5 DEF IInv

\* A job leaves the queue: one that no run has just added, or one of which nobody
\* hears.
LEMMA JobLeaves ==
  ASSUME IInv, NEW j \in Jobs, NEW new \in {NoQueued, Unheard},
         jobs' = [jobs EXCEPT ![j] = new],
         job' \in {job, NoJob}, job' # j \/ new = Unheard,
         (\A t \in Ticks : Adds(t) => ticks[t].job # j) \/ new = Unheard,
         UNCHANGED <<up, saving, rows, chain, cron, ticks, checks, hooks, faults, restarts>>
  PROVE  IInv'
<1>1. /\ jobs' \in [Jobs -> Queued] /\ jobs'[j] = new
      /\ \A i \in Jobs \ {j} : jobs'[i] = jobs[i]
  BY ConstantFacts DEF IInv, TypeOK
<1>2. TypeOK'
  BY <1>1 DEF IInv, TypeOK
<1>3. ListsOK'
  BY <1>1, ConstantFacts DEF IInv, ListsOK, Listed
<1>4. AddingOK'
  BY <1>1, ConstantFacts DEF IInv, TypeOK, AddingOK, Adds
<1>6. KnownJobAwaited'
  <2>1. CASE job' = j
    BY <1>1, <2>1, ConstantFacts DEF KnownJobAwaited, Stalled
  <2>2. CASE job' # j
    BY <1>1, <2>2 DEF IInv, TypeOK, KnownJobAwaited, Stalled
  <2> QED BY <2>1, <2>2
<1>5. RowsOK' /\ UpdateOK' /\ DecidedByChain'
  BY RowsUntouched
<1> QED BY <1>2, <1>3, <1>4, <1>5, <1>6 DEF IInv

LEMMA FinishedStep ==
  ASSUME IInv, NEW j \in Jobs, Finished(j)
  PROVE  IInv'
<1>1. /\ jobs' = [jobs EXCEPT ![j] = NoQueued] /\ job' = NoJob /\ job' # j
      /\ UNCHANGED <<up, saving, rows, chain, cron, ticks, checks, hooks, faults, restarts>>
  BY WithdrawalsAssumption DEF Finished
<1>2. \A t \in Ticks : Adds(t) => ticks[t].job # j
  BY DEF Finished, IInv, AddingOK
<1> QED BY <1>1, <1>2, JobLeaves

LEMMA FinishedTwiceStep ==
  ASSUME IInv, NEW j \in Jobs, FinishedTwice(j)
  PROVE  IInv'
<1>1. Exit /\ UNCHANGED <<rows, chain>> /\ faults' \in Nat /\ restarts' \in Nat
  BY DEF FinishedTwice, IInv, TypeOK
<1> QED BY <1>1, ExitStep

LEMMA RemovedStep ==
  ASSUME IInv, NEW j \in Jobs, Removed(j)
  PROVE  IInv'
<1>1. /\ jobs' = [jobs EXCEPT ![j] = Unheard] /\ job' = job
      /\ UNCHANGED <<up, saving, rows, chain, cron, ticks, checks, hooks, faults, restarts>>
  BY DEF Removed
<1> QED BY <1>1, JobLeaves

LEMMA NoReceiptStep ==
  ASSUME IInv, NEW c \in checks, NoReceipt(c)
  PROVE  IInv'
<1>1. Exit /\ UNCHANGED <<rows, chain>> /\ faults' \in Nat /\ restarts' \in Nat
  BY DEF NoReceipt, IInv, TypeOK
<1> QED BY <1>1, ExitStep

\* A callback goes on, and comes to write a status only if it saw the
\* transaction settled.
LEMMA CheckMoves ==
  ASSUME IInv, NEW c \in checks, NEW pc \in {"receipt", "confirmations", "update"},
         pc = "update" => Settled(c.row),
         checks' \subseteq checks \cup {[c EXCEPT !.pc = pc]},
         UNCHANGED <<up, saving, rows, chain, cron, job, ticks, jobs, hooks, faults, restarts>>
  PROVE  IInv'
<1> DEFINE new == [c EXCEPT !.pc = pc]
<1>1. new \in Check /\ new.row = c.row /\ new.pc = pc
  BY DEF IInv, TypeOK, Check
<1>2. checks' \subseteq checks \cup {new}
  OBVIOUS
<1> HIDE DEF new
<1>3. TypeOK'
  BY <1>1, <1>2 DEF IInv, TypeOK
<1>4. ListsOK'
  BY <1>1, <1>2 DEF IInv, ListsOK, Listed
<1>5. AddingOK' /\ KnownJobAwaited'
  BY JobsUntouched
<1>6. RowsOK' /\ DecidedByChain'
  BY DEF IInv, RowsOK, DecidedByChain
<1>7. UpdateOK'
  BY <1>1, <1>2 DEF IInv, UpdateOK, Settled
<1> QED BY <1>3, <1>4, <1>5, <1>6, <1>7 DEF IInv

LEMMA ReceiptStep ==
  ASSUME IInv, NEW c \in checks, Receipt(c)
  PROVE  IInv'
<1>1. /\ checks' \subseteq checks \cup {[c EXCEPT !.pc = "confirmations"]}
      /\ UNCHANGED <<up, saving, rows, chain, cron, job, ticks, jobs, hooks, faults, restarts>>
  BY DEF Receipt
<1> QED BY <1>1, CheckMoves

LEMMA ConfirmationsStep ==
  ASSUME IInv, NEW c \in checks, Confirmations(c)
  PROVE  IInv'
<1>1. UNCHANGED <<up, saving, rows, chain, cron, job, ticks, jobs, hooks, faults, restarts>>
  BY DEF Confirmations
<1>2. CASE Settled(c.row)
  <2>1. checks' \subseteq checks \cup {[c EXCEPT !.pc = "update"]}
    BY <1>2 DEF Confirmations, Settled
  <2> QED BY <1>1, <1>2, <2>1, CheckMoves
<1>3. CASE ~Settled(c.row)
  <2>1. checks' \subseteq checks \cup {[c EXCEPT !.pc = "receipt"]}
    BY <1>3 DEF Confirmations, Settled
  <2> QED BY <1>1, <2>1, CheckMoves
<1> QED BY <1>2, <1>3

\* A row that is saved changes its status or its age.
LEMMA RowChanges ==
  ASSUME IInv, NEW r \in Rows, rows[r] # NoRow, NEW new \in Row,
         rows' = [rows EXCEPT ![r] = new],
         new.network = rows[r].network, new.paid = rows[r].paid,
         new.status = "Approved" =>
           \/ r \in Requests /\ new.paid /\ new.network \in {"EVM", "Bitcoin"}
           \/ Settled(r) /\ chain[r].success,
         new.status = "Reverted" => Settled(r) /\ ~chain[r].success,
         checks' \subseteq checks, hooks' \subseteq Rows,
         UNCHANGED <<up, saving, chain, cron, job, ticks, jobs, faults, restarts>>
  PROVE  IInv'
<1>1. /\ rows' \in [Rows -> Row \cup {NoRow}] /\ rows'[r] = new
      /\ \A q \in Rows \ {r} : rows'[q] = rows[q]
  BY DEF IInv, TypeOK
<1>2. TypeOK'
  BY <1>1 DEF IInv, TypeOK
<1>3. ListsOK'
  BY <1>1, ListsKept, ConstantFacts
<1>4. AddingOK' /\ KnownJobAwaited'
  BY JobsUntouched
<1>5. RowsOK' /\ UpdateOK'
  BY <1>1 DEF IInv, RowsOK, UpdateOK, Settled, Rows
<1>6. DecidedByChain'
  BY <1>1 DEF IInv, DecidedByChain, Settled
<1> QED BY <1>2, <1>3, <1>4, <1>5, <1>6 DEF IInv

LEMMA UpdateStep ==
  ASSUME IInv, NEW c \in checks, Update(c)
  PROVE  IInv'
<1> DEFINE r == c.row
           status == IF chain[r].success THEN "Approved" ELSE "Reverted"
           new == [rows[r] EXCEPT !.status = status]
<1>1. r \in Rows /\ rows[r] # NoRow /\ rows[r] \in Row
  BY DEF IInv, TypeOK, Check, ListsOK
<1>2. Settled(r)
  BY DEF Update, IInv, UpdateOK
<1>3. /\ rows' = [rows EXCEPT ![r] = new] /\ checks' \subseteq checks /\ hooks' \subseteq Rows
      /\ UNCHANGED <<up, saving, chain, cron, job, ticks, jobs, faults, restarts>>
  BY DEF Update, IInv, TypeOK
<1>4. /\ new \in Row /\ new.status = status
      /\ new.network = rows[r].network /\ new.paid = rows[r].paid
  BY <1>1 DEF Row
<1>5. /\ status = "Approved" => chain[r].success
      /\ status = "Reverted" => ~chain[r].success
  OBVIOUS
<1> HIDE DEF new, status, r
<1> QED BY <1>1, <1>2, <1>3, <1>4, <1>5, RowChanges

-----------------------------------------------------------------------------
(* The webhook and the world.                                              *)

LEMMA HookApprovesStep ==
  ASSUME IInv, NEW r \in Rows, HookApproves(r)
  PROVE  IInv'
<1> DEFINE new == [rows[r] EXCEPT !.status = "Approved"]
<1>1. rows[r] # NoRow /\ rows[r] \in Row /\ rows[r].network = "Bitcoin" /\ rows[r].paid
  BY DEF HookApproves, IInv, TypeOK
<1>2. r \in Requests
  BY <1>1 DEF IInv, RowsOK, Rows
<1>3. /\ rows' = [rows EXCEPT ![r] = new] /\ checks' \subseteq checks /\ hooks' \subseteq Rows
      /\ UNCHANGED <<up, saving, chain, cron, job, ticks, jobs, faults, restarts>>
  BY DEF HookApproves, IInv, TypeOK
<1>4. /\ new \in Row /\ new.status = "Approved"
      /\ new.network = rows[r].network /\ new.paid = rows[r].paid
  BY <1>1 DEF Row
<1> HIDE DEF new
<1> QED BY <1>1, <1>2, <1>3, <1>4, RowChanges

LEMMA HookDecrementsStep ==
  ASSUME IInv, NEW r \in Rows, HookDecrements(r)
  PROVE  IInv'
<1>1. Exit /\ UNCHANGED <<rows, chain>> /\ faults' \in Nat /\ restarts' \in Nat
  BY DEF HookDecrements, IInv, TypeOK
<1> QED BY <1>1, ExitStep

LEMMA MineStep ==
  ASSUME IInv, NEW r \in Rows, Mine(r)
  PROVE  IInv'
<1> DEFINE new == [chain[r] EXCEPT !.depth = chain[r].depth + 1]
<1>1. /\ r \in Kept /\ chain[r] \in Transaction /\ chain[r].depth < Target
      /\ chain' = [chain EXCEPT ![r] = new]
      /\ UNCHANGED <<up, saving, rows, cron, job, ticks, jobs, checks, hooks, faults, restarts>>
  BY DEF Mine, IInv, TypeOK
<1>2. /\ new \in Transaction /\ new.own = chain[r].own /\ new.success = chain[r].success
      /\ ~(chain[r].depth >= Target)
  BY <1>1, WithdrawalsAssumption DEF Transaction
<1> HIDE DEF new
<1>3. /\ chain' \in [Rows -> Transaction] /\ chain'[r] = new
      /\ \A q \in Rows \ {r} : chain'[q] = chain[q]
  BY <1>1, <1>2 DEF IInv, TypeOK
<1>4. TypeOK'
  BY <1>1, <1>3 DEF IInv, TypeOK
<1>5. ListsOK'
  BY <1>1, ListsKept
<1>6. AddingOK' /\ KnownJobAwaited'
  BY <1>1, JobsUntouched
<1>7. RowsOK'
  BY <1>1, <1>3, WithdrawalsAssumption DEF IInv, RowsOK, Rows
<1>8. \A q \in Rows : Settled(q) => q # r
  BY <1>2 DEF Settled
<1>9. UpdateOK'
  <2>1. \A c \in checks : c.row \in Rows
    BY DEF IInv, TypeOK, Check
  <2> QED BY <1>1, <1>3, <1>8, <2>1 DEF IInv, UpdateOK, Settled
<1>10. DecidedByChain'
  BY <1>1, <1>3, <1>8 DEF IInv, DecidedByChain, Settled
<1> QED BY <1>4, <1>5, <1>6, <1>7, <1>9, <1>10 DEF IInv

LEMMA ExpireStep ==
  ASSUME IInv, NEW r \in Rows, Expire(r)
  PROVE  IInv'
<1> DEFINE new == [rows[r] EXCEPT !.recent = FALSE]
<1>1. rows[r] # NoRow /\ rows[r] \in Row
  BY DEF Expire, Pending, IInv, TypeOK, NoRow
<1>2. /\ rows' = [rows EXCEPT ![r] = new] /\ checks' \subseteq checks /\ hooks' \subseteq Rows
      /\ UNCHANGED <<up, saving, chain, cron, job, ticks, jobs, faults, restarts>>
  BY DEF Expire, IInv, TypeOK
<1>3. /\ new \in Row /\ new.status = rows[r].status
      /\ new.network = rows[r].network /\ new.paid = rows[r].paid
  BY <1>1 DEF Row
<1>4. /\ new.status = "Approved" =>
           \/ r \in Requests /\ new.paid /\ new.network \in {"EVM", "Bitcoin"}
           \/ Settled(r) /\ chain[r].success
      /\ new.status = "Reverted" => Settled(r) /\ ~chain[r].success
  BY <1>3 DEF IInv, DecidedByChain, Settled
<1> HIDE DEF new
<1> QED BY <1>1, <1>2, <1>3, <1>4, RowChanges

-----------------------------------------------------------------------------
(* The theorems.                                                           *)

LEMMA NextStep ==
  ASSUME IInv, [Next]_vars
  PROVE  IInv'
<1>1. ASSUME NEW w \in Requests,
             Insert(w) \/ StartCron(w)
     PROVE  IInv'
  BY <1>1, InsertStep, StartCronStep
<1>2. ASSUME NEW t \in Ticks,
             TickFires(t) \/ TickReads(t) \/ TickWaits(t) \/ TickAdds(t) \/
             TickRemembers(t) \/ TickSubscribes(t) \/ TickStops(t) \/ TickFails(t)
     PROVE  IInv'
  BY <1>2, TickFiresStep, TickReadsStep, TickWaitsStep, TickAddsStep,
     TickRemembersStep, TickSubscribesStep, TickStopsStep, TickFailsStep
<1>3. ASSUME NEW j \in Jobs,
             StartJob(j) \/ CompleteJob(j) \/ Finished(j) \/ FinishedTwice(j) \/
             Removed(j)
     PROVE  IInv'
  BY <1>3, StartJobStep, CompleteJobStep, FinishedStep, FinishedTwiceStep,
     RemovedStep
<1>4. ASSUME NEW c \in checks,
             NoReceipt(c) \/ Receipt(c) \/ Confirmations(c) \/ Update(c)
     PROVE  IInv'
  BY <1>4, NoReceiptStep, ReceiptStep, ConfirmationsStep, UpdateStep
<1>5. ASSUME NEW r \in Rows,
             HookApproves(r) \/ HookDecrements(r) \/ Mine(r) \/ Expire(r)
     PROVE  IInv'
  BY <1>5, HookApprovesStep, HookDecrementsStep, MineStep, ExpireStep
<1>6. CASE Crash \/ Restart
  BY <1>6, CrashStep, RestartStep
<1>7. CASE UNCHANGED vars
  <2>1. TypeOK' /\ ListsOK' /\ RowsOK' /\ UpdateOK' /\ DecidedByChain'
    BY <1>7 DEF vars, IInv, TypeOK, ListsOK, Listed, RowsOK, UpdateOK, Settled, DecidedByChain
  <2>2. AddingOK' /\ KnownJobAwaited'
    BY <1>7, JobsUntouched DEF vars
  <2> QED BY <2>1, <2>2 DEF IInv
<1> QED BY <1>1, <1>2, <1>3, <1>4, <1>5, <1>6, <1>7
        DEF Next, TickProgress, JobProgress, CheckProgress

\* The inductive invariant holds in every reachable state: rows, jobs, runs of
\* the cron job and callbacks stay consistent over overlaps, faults and restarts.
THEOREM Invariant == Spec => []IInv
  BY InitOK, NextStep, PTL DEF Spec

\* The variables have the types of the code, for every number of withdrawals.
THEOREM TypeCorrect == Spec => []TypeOK
<1>1. IInv => TypeOK
  BY DEF IInv
<1> QED BY <1>1, Invariant, PTL

\* An approved or reverted withdrawal was decided by its own transaction, by
\* the payment itself or by the webhook (processWithdrawal, hook).
THEOREM StatusFromChain == Spec => []DecidedByChain
<1>1. IInv => DecidedByChain
  BY DEF IInv
<1> QED BY <1>1, Invariant, PTL

\* The job that keeps others from being queued is in the queue and its end is
\* awaited, or a run is about to wait for it, however many runs of the cron job
\* overlap, jobs end and processes restart; only a job that ended between `add`
\* and finished() is waited for in vain (initiateWithdrawalJob).
THEOREM JobsAreAwaited == Spec => []KnownJobAwaited
<1>1. IInv => KnownJobAwaited
  BY DEF IInv
<1> QED BY <1>1, Invariant, PTL

\* Once decided, a withdrawal is never decided otherwise, however many jobs,
\* stalled jobs and webhooks look at it again.
THEOREM DecisionsAreFinal == Spec => DecisionIsFinal
<1> DEFINE Final == \A r \in Rows : rows[r].status \in {"Approved", "Reverted"} =>
                                    rows'[r].status = rows[r].status
<1>1. IInv /\ [Next]_vars => [Final]_vars
  <2> SUFFICES ASSUME IInv, Next PROVE Final
    OBVIOUS
  <2>1. CASE UNCHANGED rows
    BY <2>1
  <2>2. ASSUME NEW w \in Requests, Insert(w)
        PROVE  Final
    <3>1. rows[w] = NoRow /\ \A r \in Rows \ {w} : rows'[r] = rows[r]
      BY <2>2 DEF Insert, IInv, RowsOK, TypeOK
    <3> QED BY <3>1 DEF NoRow
  <2>3. ASSUME NEW c \in checks, Update(c)
        PROVE  Final
    <3>1. c.row \in Rows /\ Settled(c.row) /\ c.row \notin Requests
      BY <2>3, ConstantFacts DEF Update, IInv, UpdateOK, RowsOK, TypeOK, Check, Settled
    <3>2. rows[c.row].status = "Approved" => chain[c.row].success
      BY <3>1 DEF IInv, DecidedByChain
    <3>3. rows[c.row].status = "Reverted" => ~chain[c.row].success
      BY <3>1 DEF IInv, DecidedByChain
    <3>4. rows' = [rows EXCEPT ![c.row].status = IF chain[c.row].success THEN "Approved" ELSE "Reverted"]
      BY <2>3 DEF Update
    <3>5. rows[c.row] \in Row
      BY <3>1 DEF IInv, TypeOK, ListsOK
    <3> QED BY <3>1, <3>2, <3>3, <3>4, <3>5 DEF IInv, TypeOK, Row
  <2>4. ASSUME NEW r \in Rows, HookApproves(r)
        PROVE  Final
    <3>1. r \in Requests /\ rows[r] \in Row
      BY <2>4 DEF HookApproves, IInv, RowsOK, TypeOK, Rows
    <3>2. rows[r].status # "Reverted"
      BY <3>1, ConstantFacts DEF IInv, RowsOK, DecidedByChain
    <3>3. rows' = [rows EXCEPT ![r].status = "Approved"]
      BY <2>4 DEF HookApproves
    <3> QED BY <3>1, <3>2, <3>3 DEF IInv, TypeOK, Row
  <2>5. ASSUME NEW r \in Rows, Expire(r)
        PROVE  Final
    <3>1. rows[r] \in Row
      BY <2>5 DEF Expire, Pending, IInv, TypeOK, NoRow
    <3>2. rows' = [rows EXCEPT ![r].recent = FALSE]
      BY <2>5 DEF Expire
    <3> QED BY <3>1, <3>2 DEF IInv, TypeOK, Row
  <2>6. \/ UNCHANGED rows
        \/ \E w \in Requests : Insert(w)
        \/ \E c \in checks : Update(c)
        \/ \E r \in Rows : HookApproves(r) \/ Expire(r)
    BY DEF Next, StartCron, TickFires, TickProgress, TickReads, TickWaits, TickAdds,
           TickRemembers, TickSubscribes, TickStops, TickFails, JobProgress, StartJob,
           CompleteJob, Finished, FinishedTwice, Removed, CheckProgress, NoReceipt, Receipt,
           Confirmations, HookDecrements, Mine, Crash, Restart
  <2> QED BY <2>1, <2>2, <2>3, <2>4, <2>5, <2>6
<1>2. Spec => [][Final]_vars
  BY <1>1, Invariant, PTL DEF Spec
<1> QED BY <1>2 DEF DecisionIsFinal

-----------------------------------------------------------------------------
(* Withdrawals implements FollowUp: a row is written only as its own       *)
(* transaction has ended, and the process ends only when a call fails or by *)
(* a row that it follows up.                                               *)

\* The cron job selects the row as long as it is pending and recent.
Tracked(r) ==
  /\ rows[r] # NoRow
  /\ rows[r].network # "Bitcoin"
  /\ r \in Requests => ~(rows[r].paid /\ rows[r].network = "EVM")

\* Nothing waits for an answer while the process does not run.
DownOK ==
  ~up => /\ checks = {} /\ hooks = {}
         /\ \A t \in Ticks : ticks[t].pc = "idle"
         /\ \A j \in Jobs : ~jobs[j].awaited

\* What was read, queued or is being asked about was selected.
TrackedOK ==
  /\ \A t \in Ticks : \A r \in ticks[t].list : Tracked(r)
  /\ \A j \in Jobs : \A r \in jobs[j].list : Tracked(r)
  /\ \A c \in checks : Tracked(c.row)

HooksOK ==
  \A r \in hooks : rows[r].network = "Bitcoin" /\ rows[r].paid /\ rows[r].status = "Approved"

\* A job is queued for some row.
InQueue(j) == jobs[j].state \notin {"none", "removed"}
NonEmpty == \A j \in Jobs : InQueue(j) => jobs[j].list # {}

\* What was mined before it was saved is not pending.
PaidOK == \A w \in Requests : rows[w].paid /\ rows[w].network = "EVM" => rows[w].status = "Approved"

FInv == DownOK /\ TrackedOK /\ HooksOK /\ NonEmpty /\ PaidOK
-----------------------------------------------------------------------------
(* What steps do to the rows.                                              *)

LEMMA RowWriters ==
  ASSUME [Next]_vars
  PROVE  \/ UNCHANGED rows
         \/ \E w \in Requests : Insert(w)
         \/ \E c \in checks : Update(c)
         \/ \E r \in Rows : HookApproves(r) \/ Expire(r)
BY DEF Next, StartCron, TickFires, TickProgress, TickReads, TickWaits, TickAdds, TickRemembers,
       TickSubscribes, TickStops, TickFails, JobProgress, StartJob, CompleteJob, Finished,
       FinishedTwice, Removed, CheckProgress, NoReceipt, Receipt, Confirmations, HookDecrements,
       Mine, Crash, Restart, vars

\* The row of w is new.
LEMMA InsertFacts ==
  ASSUME IInv, NEW w \in Requests, Insert(w)
  PROVE  /\ rows[w] = NoRow /\ rows'[w].network \in {"Bitcoin", "BEP2", "EVM"}
         /\ rows'[w].paid \in BOOLEAN
         /\ rows'[w].status = IF rows'[w].paid /\ rows'[w].network = "EVM" THEN "Approved" ELSE "Pending"
         /\ \A r \in Rows \ {w} : rows'[r] = rows[r]
<1>1. PICK network \in Networks, paid \in BOOLEAN :
        rows' = [rows EXCEPT ![w] =
          [network |-> network, paid |-> paid, recent |-> TRUE,
           status |-> IF paid /\ network = "EVM" THEN "Approved" ELSE "Pending"]]
  BY DEF Insert
<1>2. rows[w] = NoRow /\ w \in Rows /\ network \in {"Bitcoin", "BEP2", "EVM"}
  BY WithdrawalsAssumption DEF Insert, IInv, RowsOK, Rows
<1>3. rows'[w] = [network |-> network, paid |-> paid, recent |-> TRUE,
                  status |-> IF paid /\ network = "EVM" THEN "Approved" ELSE "Pending"]
  BY <1>1, <1>2 DEF IInv, TypeOK
<1> QED BY <1>1, <1>2, <1>3 DEF IInv, TypeOK

\* A status is written for a row of before, as its transaction ended.
LEMMA UpdateFacts ==
  ASSUME IInv, NEW c \in checks, Update(c)
  PROVE  /\ c.row \in Rows /\ c.row \in Kept /\ Settled(c.row) /\ rows[c.row] \in Row
         /\ rows' = [rows EXCEPT ![c.row] = [rows[c.row] EXCEPT !.status =
                                               IF chain[c.row].success THEN "Approved" ELSE "Reverted"]]
<1>1. c.row \in Rows /\ Settled(c.row) /\ c.row \notin Requests
  BY ConstantFacts DEF Update, IInv, UpdateOK, RowsOK, TypeOK, Check, Settled
<1>2. rows[c.row] \in Row
  BY <1>1 DEF IInv, TypeOK, ListsOK
<1> QED BY <1>1, <1>2 DEF Update, Rows

\* Rows keep their network; their status is written by the follow-up of a row of
\* before, or by the webhook.
LEMMA RowSteps ==
  ASSUME IInv, [Next]_vars, NEW r \in Rows, rows[r] # NoRow
  PROVE  /\ rows'[r] # NoRow /\ rows'[r].network = rows[r].network /\ rows'[r].paid = rows[r].paid
         /\ \/ rows'[r].status = rows[r].status
            \/ r \in Kept
            \/ rows[r].network = "Bitcoin" /\ rows'[r].status = "Approved"
<1>1. rows \in [Rows -> Row \cup {NoRow}] /\ rows[r] \in Row
  BY DEF IInv, TypeOK
<1>2. CASE UNCHANGED rows
  BY <1>2
<1>3. ASSUME NEW w \in Requests, Insert(w)
      PROVE  rows'[r] = rows[r]
  BY <1>3, InsertFacts
<1>4. ASSUME NEW q \in Rows, NEW status \in {"Approved", "Reverted"},
             rows' = [rows EXCEPT ![q] = [rows[q] EXCEPT !.status = status]],
             q \in Kept \/ (rows[q].network = "Bitcoin" /\ status = "Approved")
      PROVE  /\ rows'[r] # NoRow /\ rows'[r].network = rows[r].network /\ rows'[r].paid = rows[r].paid
             /\ \/ rows'[r].status = rows[r].status
                \/ r \in Kept
                \/ rows[r].network = "Bitcoin" /\ rows'[r].status = "Approved"
  <2>1. CASE q = r
    <3>1. rows'[r] = [rows[r] EXCEPT !.status = status]
      BY <1>1, <1>4, <2>1
    <3> QED BY <1>1, <1>4, <2>1, <3>1 DEF Row, NoRow
  <2>2. CASE q # r
    BY <1>1, <1>4, <2>2
  <2> QED BY <2>1, <2>2
<1>5. ASSUME NEW c \in checks, Update(c)
      PROVE  \E q \in Rows, status \in {"Approved", "Reverted"} :
               /\ rows' = [rows EXCEPT ![q] = [rows[q] EXCEPT !.status = status]]
               /\ q \in Kept
  <2>1. PICK status \in {"Approved", "Reverted"} :
          rows' = [rows EXCEPT ![c.row] = [rows[c.row] EXCEPT !.status = status]]
    BY <1>5, UpdateFacts
  <2> QED BY <1>5, <2>1, UpdateFacts
<1>6. ASSUME NEW q \in Rows, HookApproves(q)
      PROVE  /\ rows' = [rows EXCEPT ![q] = [rows[q] EXCEPT !.status = "Approved"]]
             /\ rows[q].network = "Bitcoin"
  BY <1>6 DEF HookApproves
<1>7. ASSUME NEW q \in Rows, Expire(q)
      PROVE  /\ rows'[r] # NoRow /\ rows'[r].network = rows[r].network /\ rows'[r].paid = rows[r].paid
             /\ rows'[r].status = rows[r].status
  <2>1. CASE q = r
    <3>1. rows'[r] = [rows[r] EXCEPT !.recent = FALSE]
      BY <1>1, <1>7, <2>1 DEF Expire
    <3> QED BY <1>1, <3>1 DEF Row, NoRow
  <2>2. CASE q # r
    BY <1>1, <1>7, <2>2 DEF Expire
  <2> QED BY <2>1, <2>2
<1> QED BY <1>2, <1>3, <1>4, <1>5, <1>6, <1>7, RowWriters

LEMMA TrackedStays ==
  ASSUME IInv, [Next]_vars, NEW r \in Rows, Tracked(r)
  PROVE  Tracked(r)'
  BY RowSteps DEF Tracked

\* What the cron job selects is tracked.
LEMMA PendingTracked ==
  ASSUME PaidOK, NEW r \in Pending
  PROVE  Tracked(r)
  BY DEF PaidOK, Pending, Tracked
-----------------------------------------------------------------------------
(* The invariant.                                                          *)

LEMMA FInit == Init => FInv
<1> SUFFICES ASSUME Init PROVE FInv
  OBVIOUS
<1>1. up /\ checks = {} /\ hooks = {} /\ \A j \in Jobs : jobs[j] = NoQueued
  BY DEF Init
<1>2. \A t \in Ticks : ticks[t].list = {}
  BY ConstantFacts DEF Init
<1>3. \A w \in Requests : rows[w] = NoRow
  BY WithdrawalsAssumption DEF Init, Rows
<1>4. NoQueued.state = "none" /\ NoQueued.list = {} /\ ~NoRow.paid
  BY DEF NoQueued, NoRow
<1> QED BY <1>1, <1>2, <1>3, <1>4 DEF FInv, DownOK, TrackedOK, HooksOK, NonEmpty, InQueue, PaidOK

LEMMA PaidStep ==
  ASSUME IInv, PaidOK, [Next]_vars
  PROVE  PaidOK'
<1> SUFFICES ASSUME NEW w \in Requests, rows'[w].paid, rows'[w].network = "EVM"
             PROVE  rows'[w].status = "Approved"
  BY DEF PaidOK
<1>1. w \in Rows /\ w \notin Kept
  BY WithdrawalsAssumption DEF Rows
<1>2. CASE rows[w] # NoRow
  BY <1>1, <1>2, RowSteps DEF PaidOK
<1>3. CASE rows[w] = NoRow
  <2>1. CASE \E v \in Requests : Insert(v)
    <3>1. PICK v \in Requests : Insert(v)
      BY <2>1
    <3>2. CASE v = w
      BY <3>1, <3>2, InsertFacts
    <3>3. CASE v # w
      BY <1>1, <1>3, <3>1, <3>3, InsertFacts DEF NoRow
    <3> QED BY <3>2, <3>3
  <2>2. CASE ~\E v \in Requests : Insert(v)
    <3>1. rows'[w] = rows[w]
      <4>1. CASE \E c \in checks : Update(c)
        <5>1. PICK c \in checks : Update(c)
          BY <4>1
        <5>2. c.row # w /\ \E new : rows' = [rows EXCEPT ![c.row] = new]
          BY <1>1, <5>1, UpdateFacts
        <5> QED BY <1>1, <5>2 DEF IInv, TypeOK
      <4>2. ASSUME NEW r \in Rows, HookApproves(r) \/ Expire(r)
            PROVE  rows'[w] = rows[w]
        <5>1. r # w
          BY <1>3, <4>2 DEF HookApproves, Expire, Pending, NoRow
        <5> QED BY <4>2, <5>1, <1>1 DEF HookApproves, Expire, IInv, TypeOK
      <4> QED BY <2>2, <4>1, <4>2, RowWriters
    <3> QED BY <1>3, <3>1 DEF NoRow
  <2> QED BY <2>1, <2>2
<1> QED BY <1>2, <1>3

\* Where the rows of lists come from.
LEMMA TickLists ==
  ASSUME IInv, [Next]_vars, NEW t \in Ticks, NEW r \in ticks'[t].list
  PROVE  r \in ticks[t].list \/ r \in Pending
<1>1. ticks \in [Ticks -> Tick] /\ IdleTick.list = {}
  BY ConstantFacts DEF IInv, TypeOK
<1>2. CASE UNCHANGED ticks
  BY <1>2
<1>3. CASE Exit
  BY <1>1, <1>3 DEF Exit
<1>4. ASSUME NEW u \in Ticks, NEW new,
             ticks' = [ticks EXCEPT ![u] = new], new.list \in {ticks[u].list, Pending, {}}
      PROVE  r \in ticks[t].list \/ r \in Pending
  <2>1. CASE u = t
    BY <1>1, <1>4, <2>1
  <2>2. CASE u # t
    BY <1>1, <1>4, <2>2
  <2> QED BY <2>1, <2>2
<1>5. ASSUME NEW u \in Ticks, TickFires(u) \/ TickReads(u)
      PROVE  \E new : ticks' = [ticks EXCEPT ![u] = new] /\ new.list \in {ticks[u].list, Pending, {}}
  <2>1. ticks[u] \in Tick
    BY <1>1
  <2>2. CASE TickFires(u)
    <3> DEFINE new == [ticks[u] EXCEPT !.pc = "reading"]
    <3>1. ticks' = [ticks EXCEPT ![u] = new] /\ new.list = ticks[u].list
      BY <2>1, <2>2 DEF TickFires, Tick
    <3> QED BY <3>1
  <2>3. CASE TickReads(u)
    <3> DEFINE new == [ticks[u] EXCEPT !.pc = "read", !.list = Pending]
    <3>1. ticks' = [ticks EXCEPT ![u] = new] /\ new.list = Pending
      BY <2>1, <2>3 DEF TickReads, Tick
    <3> QED BY <3>1
  <2> QED BY <1>5, <2>2, <2>3
<1>6. ASSUME NEW u \in Ticks,
             \/ TickWaits(u) \/ TickAdds(u) \/ TickRemembers(u) \/ TickSubscribes(u)
             \/ TickStops(u) \/ TickFails(u)
      PROVE  \E new : ticks' = [ticks EXCEPT ![u] = new] /\ new.list \in {ticks[u].list, Pending, {}}
  <2>1. \A j : [IdleTick EXCEPT !.pc = "adding", !.job = j].list = {}
    BY DEF IdleTick
  <2>2. \/ ticks' = [ticks EXCEPT ![u] = IdleTick]
        \/ \E j : ticks' = [ticks EXCEPT ![u] = [IdleTick EXCEPT !.pc = "adding", !.job = j]]
        \/ ticks' = [ticks EXCEPT ![u] = [ticks[u] EXCEPT !.pc = "subscribing"]]
    BY <1>6 DEF TickWaits, TickAdds, TickRemembers, TickSubscribes, TickStops, TickFails
  <2>3. [ticks[u] EXCEPT !.pc = "subscribing"].list = ticks[u].list
    BY <1>1 DEF Tick
  <2> QED BY <1>1, <2>1, <2>2, <2>3
<1>7. \/ UNCHANGED ticks \/ Exit
      \/ \E u \in Ticks : \/ TickFires(u) \/ TickReads(u) \/ TickWaits(u) \/ TickAdds(u)
                          \/ TickRemembers(u) \/ TickSubscribes(u) \/ TickStops(u) \/ TickFails(u)
  BY DEF Next, Insert, StartCron, TickProgress, JobProgress, StartJob, CompleteJob, Finished,
         FinishedTwice, Removed, CheckProgress, NoReceipt, Receipt, Confirmations, Update,
         HookApproves, HookDecrements, Mine, Expire, Crash, Restart, vars
<1> QED BY <1>2, <1>3, <1>4, <1>5, <1>6, <1>7

\* A job keeps its list while it is in the queue; it is given the rows that a run
\* has read, of which there is one at least.
LEMMA JobLists ==
  ASSUME IInv, [Next]_vars, NEW j \in Jobs
  PROVE  \/ jobs'[j].list = jobs[j].list /\ (InQueue(j)' => InQueue(j))
         \/ jobs'[j] \in {NoQueued, Unheard}
         \/ \E t \in Ticks : jobs'[j].list = ticks[t].list /\ ticks[t].list # {}
<1>1. jobs \in [Jobs -> Queued]
  BY DEF IInv, TypeOK
<1>2. CASE UNCHANGED jobs
  BY <1>2 DEF InQueue
<1>3. CASE Exit \/ Restart
  BY <1>1, <1>3 DEF Exit, Restart, Queued, InQueue
<1>4. ASSUME NEW t \in Ticks, TickAdds(t)
      PROVE  jobs'[j] = jobs[j] \/ (jobs'[j].list = ticks[t].list /\ ticks[t].list # {})
  BY <1>1, <1>4 DEF TickAdds
<1>5. ASSUME NEW t \in Ticks, TickSubscribes(t)
      PROVE  jobs'[j].list = jobs[j].list /\ jobs'[j].state = jobs[j].state
  BY <1>1, <1>5 DEF TickSubscribes, Queued
<1>6. ASSUME NEW i \in Jobs, StartJob(i) \/ CompleteJob(i)
      PROVE  jobs'[j].list = jobs[j].list /\ (InQueue(j)' => InQueue(j))
  BY <1>1, <1>6 DEF StartJob, CompleteJob, Queued, InQueue
<1>7. ASSUME NEW i \in Jobs, Finished(i) \/ Removed(i)
      PROVE  jobs'[j] \in {jobs[j], NoQueued, Unheard}
  BY <1>1, <1>7 DEF Finished, Removed
<1>8. \/ UNCHANGED jobs \/ Exit \/ Restart
      \/ \E t \in Ticks : TickAdds(t) \/ TickSubscribes(t)
      \/ \E i \in Jobs : StartJob(i) \/ CompleteJob(i) \/ Finished(i) \/ Removed(i)
  BY DEF Next, Insert, StartCron, TickFires, TickProgress, TickReads, TickWaits, TickRemembers,
         TickStops, TickFails, JobProgress, FinishedTwice, CheckProgress, NoReceipt, Receipt,
         Confirmations, Update, HookApproves, HookDecrements, Mine, Expire, Crash, vars
<1> QED BY <1>2, <1>3, <1>4, <1>5, <1>6, <1>7, <1>8 DEF InQueue

\* A callback is of a row of its job.
LEMMA CheckRows ==
  ASSUME IInv, [Next]_vars, NEW c \in checks'
  PROVE  (\E d \in checks : d.row = c.row) \/ \E j \in Jobs : c.row \in jobs[j].list
<1>1. checks \subseteq Check
  BY DEF IInv, TypeOK
<1>2. CASE checks' \subseteq checks
  BY <1>2
<1>3. ASSUME NEW j \in Jobs, StartJob(j)
      PROVE  c \in checks \/ c.row \in jobs[j].list
  BY <1>3 DEF StartJob
<1>4. ASSUME NEW d \in checks, Receipt(d) \/ Confirmations(d)
      PROVE  c \in checks \/ c.row = d.row
  <2>1. \A pc : [d EXCEPT !.pc = pc].row = d.row
    BY <1>1 DEF Check
  <2> QED BY <1>4, <2>1 DEF Receipt, Confirmations
<1>5. \/ checks' \subseteq checks
      \/ \E j \in Jobs : StartJob(j)
      \/ \E d \in checks : Receipt(d) \/ Confirmations(d)
  BY DEF Next, Insert, StartCron, TickFires, TickProgress, TickReads, TickWaits, TickAdds,
         TickRemembers, TickSubscribes, TickStops, TickFails, JobProgress, CompleteJob, Finished,
         FinishedTwice, Removed, CheckProgress, NoReceipt, Update, Exit, HookApproves,
         HookDecrements, Mine, Expire, Crash, Restart, vars
<1> QED BY <1>2, <1>3, <1>4, <1>5

LEMMA TrackedStep ==
  ASSUME IInv, TrackedOK, PaidOK, [Next]_vars
  PROVE  TrackedOK'
<1>1. /\ \A t \in Ticks : ticks[t].list \subseteq Rows
      /\ \A j \in Jobs : jobs[j].list \subseteq Rows
      /\ \A c \in checks : c.row \in Rows
      /\ Pending \subseteq Rows
  BY DEF IInv, TypeOK, Tick, Queued, Check, Pending
<1>2. ASSUME NEW t \in Ticks, NEW r \in ticks'[t].list
      PROVE  Tracked(r)'
  <2>1. r \in Rows /\ Tracked(r)
    BY <1>1, TickLists, PendingTracked DEF TrackedOK
  <2> QED BY <2>1, TrackedStays
<1>3. ASSUME NEW j \in Jobs, NEW r \in jobs'[j].list
      PROVE  Tracked(r)'
  <2>1. r \in jobs[j].list \/ \E t \in Ticks : r \in ticks[t].list
    BY JobLists, ConstantFacts
  <2>2. r \in Rows /\ Tracked(r)
    BY <1>1, <2>1 DEF TrackedOK
  <2> QED BY <2>2, TrackedStays
<1>4. ASSUME NEW c \in checks'
      PROVE  Tracked(c.row)'
  <2>1. c.row \in Rows /\ Tracked(c.row)
    BY <1>1, CheckRows DEF TrackedOK
  <2> QED BY <2>1, TrackedStays
<1> QED BY <1>2, <1>3, <1>4 DEF TrackedOK

LEMMA HooksStep ==
  ASSUME IInv, HooksOK, [Next]_vars
  PROVE  HooksOK'
<1> SUFFICES ASSUME NEW r \in hooks'
             PROVE  rows'[r].network = "Bitcoin" /\ rows'[r].paid /\ rows'[r].status = "Approved"
  BY DEF HooksOK
<1>1. CASE r \in hooks
  <2>1. r \in Rows /\ rows[r].network = "Bitcoin" /\ rows[r].paid /\ rows[r].status = "Approved"
    BY <1>1 DEF HooksOK, IInv, TypeOK
  <2>2. rows[r] # NoRow /\ r \notin Kept
    BY <2>1 DEF NoRow, IInv, RowsOK
  <2> QED BY <2>1, <2>2, RowSteps
<1>2. CASE r \notin hooks
  <2>1. HookApproves(r) /\ r \in Rows
    BY <1>2 DEF Next, Insert, StartCron, TickFires, TickProgress, TickReads, TickWaits, TickAdds,
           TickRemembers, TickSubscribes, TickStops, TickFails, JobProgress, StartJob,
           CompleteJob, Finished, FinishedTwice, Removed, CheckProgress, NoReceipt, Receipt,
           Confirmations, Update, Exit, HookApproves, HookDecrements, Mine, Expire, Crash,
           Restart, vars
  <2>2. rows[r] \in Row /\ rows' = [rows EXCEPT ![r] = [rows[r] EXCEPT !.status = "Approved"]]
    BY <2>1 DEF HookApproves, IInv, TypeOK
  <2>3. rows'[r] = [rows[r] EXCEPT !.status = "Approved"]
    BY <2>1, <2>2 DEF IInv, TypeOK
  <2> QED BY <2>1, <2>2, <2>3 DEF HookApproves, Row
<1> QED BY <1>1, <1>2

LEMMA NonEmptyStep ==
  ASSUME IInv, NonEmpty, [Next]_vars
  PROVE  NonEmpty'
<1>1. \A new \in {NoQueued, Unheard} : new.state \in {"none", "removed"}
  BY ConstantFacts
<1> QED BY <1>1, JobLists DEF NonEmpty, InQueue

LEMMA DownStep ==
  ASSUME IInv, DownOK, [Next]_vars
  PROVE  DownOK'
<1>1. ~NoQueued.awaited /\ ~Unheard.awaited /\ IdleTick.pc = "idle" /\ jobs \in [Jobs -> Queued]
  BY ConstantFacts DEF IdleTick, IInv, TypeOK
<1>2. CASE Exit
  BY <1>1, <1>2 DEF Exit, DownOK, Queued
<1>3. CASE up'
  BY <1>3 DEF DownOK
<1>4. ASSUME ~up, UNCHANGED <<up, checks, hooks, ticks>>,
             \A j \in Jobs : jobs'[j] \in {jobs[j], Unheard}
      PROVE  DownOK'
  BY <1>1, <1>4 DEF DownOK
<1>5. ASSUME ~up, NEW j \in Jobs, Removed(j)
      PROVE  UNCHANGED <<up, checks, hooks, ticks>> /\ \A i \in Jobs : jobs'[i] \in {jobs[i], Unheard}
  BY <1>1, <1>5 DEF Removed
<1>6. ASSUME ~up, ~Exit, ~up'
      PROVE  UNCHANGED <<up, checks, hooks, ticks, jobs>> \/ \E j \in Jobs : Removed(j)
  <2>1. ASSUME NEW t \in Ticks
        PROVE  ~(TickFires(t) \/ TickProgress(t) \/ TickFails(t))
    BY <1>6 DEF DownOK, TickFires, TickProgress, TickReads, TickWaits, TickAdds, TickRemembers,
           TickSubscribes, TickStops, TickFails
  <2>2. ASSUME NEW j \in Jobs, JobProgress(j)
        PROVE  Removed(j)
    BY <1>6, <2>2 DEF DownOK, JobProgress, StartJob, CompleteJob, Finished, FinishedTwice
  <2>3. checks = {} /\ hooks = {}
    BY <1>6 DEF DownOK
  <2> QED BY <1>6, <2>1, <2>2, <2>3 DEF Next, Insert, StartCron, HookApproves, HookDecrements,
         Mine, Expire, Crash, Restart, vars
<1>7. ASSUME up, ~Exit
      PROVE  up'
  BY <1>7 DEF Next, Insert, StartCron, TickFires, TickProgress, TickReads, TickWaits, TickAdds,
         TickRemembers, TickSubscribes, TickStops, TickFails, JobProgress, StartJob, CompleteJob,
         Finished, FinishedTwice, Removed, CheckProgress, NoReceipt, Receipt, Confirmations,
         Update, HookApproves, HookDecrements, Mine, Expire, Crash, Restart, vars
<1> QED BY <1>2, <1>3, <1>4, <1>5, <1>6, <1>7

LEMMA FStep ==
  ASSUME IInv, FInv, [Next]_vars
  PROVE  FInv'
  BY DownStep, TrackedStep, HooksStep, NonEmptyStep, PaidStep DEF FInv
-----------------------------------------------------------------------------
(* The steps, as FollowUp sees them.                                       *)

\* The row and the fate of its transaction, as FollowUp sees them.
Shown(r) == [network |-> rows[r].network, paid |-> rows[r].paid, status |-> rows[r].status]
Fate(r) == IF ~Settled(r) THEN "unknown" ELSE IF chain[r].success THEN "succeeded" ELSE "failed"
ShownRows == [r \in Rows |-> Shown(r)]
Fates == [r \in Rows |-> Fate(r)]

LEMMA FollowedFacts ==
  ASSUME IInv, NEW r \in Rows
  PROVE  /\ Shown(r) = Promise!NoRow <=> rows[r] = NoRow
         /\ Promise!Followed(r) <=> Tracked(r)
         /\ Promise!Hooked(r) <=> rows[r].network = "Bitcoin" /\ rows[r].paid /\ rows[r].status = "Approved"
<1>1. Shown(r) = Promise!NoRow <=> rows[r] = NoRow
  <2>1. CASE rows[r] = NoRow
    BY <2>1 DEF Shown, Promise!NoRow, NoRow
  <2>2. CASE rows[r] # NoRow
    <3>1. rows[r].network # "none"
      BY <2>2 DEF IInv, TypeOK, Row
    <3>2. Shown(r).network # "none" /\ Promise!NoRow.network = "none"
      BY <3>1 DEF Shown, Promise!NoRow
    <3> QED BY <2>2, <3>2
  <2> QED BY <2>1, <2>2
<1>2. Promise!Followed(r) <=>
        /\ Shown(r) # Promise!NoRow /\ rows[r].network # "Bitcoin"
        /\ r \in Requests => ~(rows[r].paid /\ rows[r].network = "EVM")
  BY DEF Promise!Followed, Shown
<1>3. Promise!Hooked(r) <=> rows[r].network = "Bitcoin" /\ rows[r].paid /\ rows[r].status = "Approved"
  BY DEF Promise!Hooked
<1> QED BY <1>1, <1>2, <1>3 DEF Tracked

LEMMA FollowInit == Init => Promise!Init
<1> SUFFICES ASSUME Init PROVE Promise!Init
  OBVIOUS
<1>1. \A r \in Rows : ~Settled(r)
  BY WithdrawalsAssumption, ConstantFacts DEF Init, Settled
<1>2. \A r \in Rows : Shown(r) = IF r \in Kept THEN [network |-> "EVM", paid |-> TRUE, status |-> "Pending"]
                                 ELSE Promise!NoRow
  BY DEF Init, Shown, NoRow, Promise!NoRow
<1>3. ShownRows = [r \in Rows |-> IF r \in Kept THEN [network |-> "EVM", paid |-> TRUE, status |-> "Pending"]
                                  ELSE Promise!NoRow]
      /\ Fates = [r \in Rows |-> "unknown"]
  BY <1>1, <1>2 DEF ShownRows, Fates, Fate
<1> QED BY <1>3 DEF Init, Promise!Init, Promise!Rows, Rows, ShownRows, Shown, Fates, Fate, Settled

\* The process ends by a row that is followed up, or that a webhook is working on.
LEMMA EndFollows ==
  ASSUME IInv, up, Exit, UNCHANGED <<rows, chain, faults>>, NEW r \in Rows,
         Tracked(r) \/ (rows[r].network = "Bitcoin" /\ rows[r].paid /\ rows[r].status = "Approved")
  PROVE  Promise!End
<1>1. r \in Promise!Rows /\ (Promise!Followed(r) \/ Promise!Hooked(r))
  BY FollowedFacts DEF Promise!Rows, Rows
<1>2. up' = FALSE
  BY DEF Exit
<1> QED BY <1>1, <1>2 DEF Promise!End

LEMMA ExitFollows ==
  ASSUME IInv, FInv,
         \/ \E j \in Jobs : FinishedTwice(j)
         \/ \E c \in checks : NoReceipt(c)
         \/ \E r \in Rows : HookDecrements(r)
  PROVE  Promise!End
<1>1. ASSUME NEW j \in Jobs, FinishedTwice(j)
      PROVE  Promise!End
  <2>1. up /\ Exit /\ UNCHANGED <<rows, chain, faults>> /\ jobs[j].state = "completed"
    BY <1>1 DEF FinishedTwice, FInv, DownOK
  <2>2. PICK r \in jobs[j].list : Tracked(r)
    BY <2>1 DEF FInv, NonEmpty, InQueue, TrackedOK
  <2>3. r \in Rows
    BY <2>2 DEF IInv, TypeOK, Queued
  <2> QED BY <2>1, <2>2, <2>3, EndFollows
<1>2. ASSUME NEW c \in checks, NoReceipt(c)
      PROVE  Promise!End
  <2>1. up /\ Exit /\ UNCHANGED <<rows, chain, faults>>
    BY <1>2 DEF NoReceipt, FInv, DownOK
  <2>2. c.row \in Rows /\ Tracked(c.row)
    BY DEF FInv, TrackedOK, IInv, TypeOK, Check
  <2> QED BY <2>1, <2>2, EndFollows
<1>3. ASSUME NEW r \in Rows, HookDecrements(r)
      PROVE  Promise!End
  <2>1. up /\ Exit /\ UNCHANGED <<rows, chain, faults>> /\ r \in hooks
    BY <1>3 DEF HookDecrements, FInv, DownOK
  <2> QED BY <2>1, EndFollows DEF FInv, HooksOK
<1> QED BY <1>1, <1>2, <1>3

LEMMA InsertFollows ==
  ASSUME IInv, NEW w \in Requests, Insert(w)
  PROVE  Promise!Insert(w)
<1>1. w \in Rows /\ Shown(w) = Promise!NoRow
  BY InsertFacts, FollowedFacts DEF Rows
<1> DEFINE network == rows'[w].network
           paid == rows'[w].paid
           new == [network |-> network, paid |-> paid,
                   status |-> IF paid /\ network = "EVM" THEN "Approved" ELSE "Pending"]
<1>2. network \in Promise!Chains /\ paid \in BOOLEAN
  BY InsertFacts DEF Promise!Chains
<1>3. Shown(w)' = new /\ \A r \in Rows \ {w} : Shown(r)' = Shown(r)
  BY InsertFacts DEF Shown
<1>4. ShownRows' = [ShownRows EXCEPT ![w] = new]
  BY <1>1, <1>3 DEF ShownRows
<1>5. \E n \in Promise!Chains, p \in BOOLEAN :
        ShownRows' = [ShownRows EXCEPT ![w] =
          [network |-> n, paid |-> p, status |-> IF p /\ n = "EVM" THEN "Approved" ELSE "Pending"]]
  BY <1>2, <1>4
<1>6. ShownRows[w] = Promise!NoRow
  BY <1>1 DEF ShownRows
<1>7. up /\ UNCHANGED <<up, chain, faults>>
  BY DEF Insert
<1>8. Fates' = Fates
  BY <1>7 DEF Fates, Fate, Settled
<1> QED BY <1>5, <1>6, <1>7, <1>8 DEF Promise!Insert, ShownRows, Shown, Fates, Fate, Settled

\* One status is written.
LEMMA StatusShown ==
  ASSUME IInv, NEW r \in Rows, rows[r] \in Row, NEW status,
         rows' = [rows EXCEPT ![r] = [rows[r] EXCEPT !.status = status]]
  PROVE  ShownRows' = [ShownRows EXCEPT ![r].status = status]
<1>1. rows'[r] = [rows[r] EXCEPT !.status = status] /\ \A q \in Rows \ {r} : rows'[q] = rows[q]
  BY DEF IInv, TypeOK
<1>2. /\ rows'[r].network = rows[r].network /\ rows'[r].paid = rows[r].paid /\ rows'[r].status = status
  BY <1>1 DEF Row
<1>3. Shown(r)' = [network |-> rows[r].network, paid |-> rows[r].paid, status |-> status]
  BY <1>2 DEF Shown
<1>4. \A n, p, s : [[network |-> n, paid |-> p, status |-> s] EXCEPT !.status = status]
                   = [network |-> n, paid |-> p, status |-> status]
  OBVIOUS
<1>5. [Shown(r) EXCEPT !.status = status] = [network |-> rows[r].network, paid |-> rows[r].paid, status |-> status]
  BY <1>4, Zenon DEF Shown
<1>6. Shown(r)' = [Shown(r) EXCEPT !.status = status] /\ \A q \in Rows \ {r} : Shown(q)' = Shown(q)
  BY <1>1, <1>3, <1>5 DEF Shown
<1> QED BY <1>6 DEF ShownRows

LEMMA UpdateFollows ==
  ASSUME IInv, FInv, NEW c \in checks, Update(c)
  PROVE  Promise!Decide(c.row) \/ UNCHANGED Promise!vars
<1> DEFINE r == c.row
           status == IF chain[r].success THEN "Approved" ELSE "Reverted"
<1>1. /\ r \in Rows /\ Settled(r) /\ rows[r] \in Row
      /\ rows' = [rows EXCEPT ![r] = [rows[r] EXCEPT !.status = status]]
  BY UpdateFacts
<1>2. up /\ Tracked(r) /\ UNCHANGED <<up, chain, faults>>
  BY DEF Update, FInv, DownOK, TrackedOK
<1>3. ShownRows' = [ShownRows EXCEPT ![r].status = status] /\ Fates' = Fates
  <2>1. \A s : rows' = [rows EXCEPT ![r] = [rows[r] EXCEPT !.status = s]] =>
               ShownRows' = [ShownRows EXCEPT ![r].status = s]
    BY <1>1, StatusShown
  <2> QED BY <1>1, <1>2, <2>1 DEF Fates, Fate, Settled
<1>4. Fates[r] # "unknown" /\ status = IF Fates[r] = "succeeded" THEN "Approved" ELSE "Reverted"
  BY <1>1 DEF Fates, Fate
<1>5. Promise!Followed(r)
  BY <1>1, <1>2, FollowedFacts
<1>6. CASE rows[r].status = "Pending"
  <2>1. ShownRows[r].status = "Pending"
    BY <1>1, <1>6 DEF ShownRows, Shown
  <2>2. ShownRows' = [ShownRows EXCEPT ![r].status = IF Fates[r] = "succeeded" THEN "Approved" ELSE "Reverted"]
    BY <1>3, <1>4
  <2>3. Promise!Decide(r)
    BY <1>2, <1>3, <1>4, <1>5, <2>1, <2>2 DEF Promise!Decide, ShownRows, Shown, Fates, Fate, Settled
  <2> QED BY <2>3
<1>7. CASE rows[r].status # "Pending"
  <2>1. rows[r].status = status
    <3>1. r \notin Requests
      BY <1>1, ConstantFacts DEF IInv, RowsOK, Settled
    <3> QED BY <1>1, <1>7, <3>1 DEF Row, IInv, DecidedByChain
  <2>2. rows'[r].network = rows[r].network /\ rows'[r].paid = rows[r].paid /\ rows'[r].status = rows[r].status
    BY <1>1, <2>1 DEF IInv, TypeOK, Row
  <2>3. \A q \in Rows : Shown(q)' = Shown(q)
    BY <1>1, <2>2 DEF Shown, IInv, TypeOK
  <2>4. ShownRows' = ShownRows
    BY <2>3 DEF ShownRows
  <2> QED BY <1>2, <1>3, <2>4 DEF Promise!vars, ShownRows, Shown, Fates, Fate, Settled
<1> QED BY <1>6, <1>7

LEMMA HookFollows ==
  ASSUME IInv, NEW r \in Rows, HookApproves(r)
  PROVE  Promise!Hook(r)
<1>1. /\ rows[r] \in Row /\ rows[r].network = "Bitcoin" /\ rows[r].paid /\ up
      /\ rows' = [rows EXCEPT ![r] = [rows[r] EXCEPT !.status = "Approved"]]
      /\ UNCHANGED <<up, chain, faults>>
  BY DEF HookApproves, IInv, TypeOK
<1>2. ShownRows' = [ShownRows EXCEPT ![r].status = "Approved"] /\ Fates' = Fates
  BY <1>1, StatusShown DEF Fates, Fate, Settled
<1>3. ShownRows[r].network = "Bitcoin" /\ ShownRows[r].paid
  BY <1>1 DEF ShownRows, Shown
<1> QED BY <1>1, <1>2, <1>3 DEF Promise!Hook, ShownRows, Shown, Fates, Fate, Settled

\* A transaction ends once, when it is deep enough.
LEMMA MineFollows ==
  ASSUME IInv, NEW r \in Rows, Mine(r)
  PROVE  Promise!Settle(r) \/ UNCHANGED Promise!vars
<1>1. /\ chain[r] \in Transaction /\ chain[r].depth < Target /\ chain[r].depth \in Nat
      /\ chain' = [chain EXCEPT ![r] = [chain[r] EXCEPT !.depth = chain[r].depth + 1]]
      /\ UNCHANGED <<up, rows, faults>>
  BY WithdrawalsAssumption DEF Mine, IInv, TypeOK, Transaction
<1>2. Fate(r) = "unknown" /\ \A q \in Rows \ {r} : Fate(q)' = Fate(q)
  BY <1>1, WithdrawalsAssumption DEF Fate, Settled, IInv, TypeOK
<1>3. Fate(r)' \in {"unknown", "succeeded", "failed"}
  BY DEF Fate
<1>4. Fates' = [Fates EXCEPT ![r] = Fate(r)'] /\ ShownRows' = ShownRows
  BY <1>1, <1>2 DEF Fates, ShownRows, Shown
<1>5. CASE Fate(r)' = "unknown"
  <2>1. Fates' = Fates
    BY <1>2, <1>5 DEF Fates
  <2> QED BY <1>1, <1>4, <2>1 DEF Promise!vars, ShownRows, Shown, Fates, Fate, Settled
<1>6. CASE Fate(r)' # "unknown"
  <2>1. \E end \in {"succeeded", "failed"} : Fates' = [Fates EXCEPT ![r] = end]
    BY <1>3, <1>4, <1>6
  <2>2. Fates[r] = "unknown"
    BY <1>2 DEF Fates
  <2> QED BY <1>1, <1>4, <2>1, <2>2 DEF Promise!Settle, ShownRows, Shown, Fates, Fate, Settled
<1> QED BY <1>5, <1>6

\* That a row gets older is not seen.
LEMMA ExpireFollows ==
  ASSUME IInv, NEW r \in Rows, Expire(r)
  PROVE  UNCHANGED Promise!vars
<1>1. /\ rows[r] \in Row /\ rows' = [rows EXCEPT ![r] = [rows[r] EXCEPT !.recent = FALSE]]
      /\ UNCHANGED <<up, chain, faults>>
  BY DEF Expire, Pending, IInv, TypeOK, NoRow
<1>2. rows'[r] = [rows[r] EXCEPT !.recent = FALSE] /\ \A q \in Rows \ {r} : rows'[q] = rows[q]
  BY <1>1 DEF IInv, TypeOK
<1>3. \A q \in Rows : Shown(q)' = Shown(q)
  BY <1>1, <1>2 DEF Shown, Row
<1>4. ShownRows' = ShownRows /\ Fates' = Fates
  BY <1>1, <1>3 DEF ShownRows, Fates, Fate, Settled
<1> QED BY <1>1, <1>4 DEF Promise!vars, ShownRows, Shown, Fates, Fate, Settled

\* Steps of the cron job, the queue and the callbacks that write nothing.
LEMMA QuietFollows ==
  ASSUME UNCHANGED <<up, rows, chain, faults>>
  PROVE  UNCHANGED Promise!vars
<1>1. ShownRows' = ShownRows /\ Fates' = Fates
  BY DEF ShownRows, Shown, Fates, Fate, Settled
<1> QED BY <1>1 DEF Promise!vars, ShownRows, Shown, Fates, Fate, Settled

LEMMA FailFollows ==
  ASSUME up, up' \in BOOLEAN, faults' = faults + 1, UNCHANGED <<rows, chain>>
  PROVE  Promise!Fail
<1>1. ShownRows' = ShownRows /\ Fates' = Fates
  BY DEF ShownRows, Shown, Fates, Fate, Settled
<1> QED BY <1>1 DEF Promise!Fail, ShownRows, Shown, Fates, Fate, Settled

LEMMA RestartFollows ==
  ASSUME Restart
  PROVE  Promise!Restart
<1>1. ~up /\ up' = TRUE /\ UNCHANGED <<rows, chain, faults>>
  BY DEF Restart
<1>2. ShownRows' = ShownRows /\ Fates' = Fates
  BY <1>1 DEF ShownRows, Shown, Fates, Fate, Settled
<1> QED BY <1>1, <1>2 DEF Promise!Restart, ShownRows, Shown, Fates, Fate, Settled

LEMMA StepFollows ==
  ASSUME IInv, FInv, [Next]_vars
  PROVE  [Promise!Next]_(Promise!vars)
<1>1. Rows = Promise!Rows
  BY DEF Rows, Promise!Rows
<1>2. ASSUME NEW w \in Requests, Insert(w)
      PROVE  Promise!Next
  BY <1>2, InsertFollows DEF Promise!Next
<1>3. ASSUME \/ \E j \in Jobs : FinishedTwice(j)
             \/ \E c \in checks : NoReceipt(c)
             \/ \E r \in Rows : HookDecrements(r)
      PROVE  Promise!Next
  BY <1>3, ExitFollows DEF Promise!Next
<1>4. ASSUME NEW c \in checks, Update(c)
      PROVE  [Promise!Next]_(Promise!vars)
  BY <1>1, <1>4, UpdateFollows, UpdateFacts DEF Promise!Next
<1>5. ASSUME NEW r \in Rows, HookApproves(r)
      PROVE  Promise!Next
  BY <1>1, <1>5, HookFollows DEF Promise!Next
<1>6. ASSUME NEW r \in Rows, Mine(r)
      PROVE  [Promise!Next]_(Promise!vars)
  <2>1. r \in Kept
    BY <1>6 DEF Mine
  <2> QED BY <1>6, <2>1, MineFollows DEF Promise!Next
<1>7. ASSUME NEW t \in Ticks, TickFails(t)
      PROVE  Promise!Next
  <2>1. up /\ up' = up /\ faults' = faults + 1 /\ UNCHANGED <<rows, chain>>
    BY <1>7 DEF TickFails, FInv, DownOK
  <2>2. Promise!Fail
    BY <2>1, FailFollows
  <2> QED BY <2>2 DEF Promise!Next
<1>8. CASE Crash
  <2>1. up /\ up' = FALSE /\ faults' = faults + 1 /\ UNCHANGED <<rows, chain>>
    BY <1>8 DEF Crash, Exit
  <2>2. Promise!Fail
    BY <2>1, FailFollows
  <2> QED BY <2>2 DEF Promise!Next
<1>9. CASE Restart
  BY <1>9, RestartFollows DEF Promise!Next
<1>10. ASSUME NEW r \in Rows, Expire(r)
       PROVE  UNCHANGED Promise!vars
  BY <1>10, ExpireFollows
<1>11. CASE UNCHANGED <<up, rows, chain, faults>>
  BY <1>11, QuietFollows
<1>12. \/ \E w \in Requests : Insert(w)
       \/ \E j \in Jobs : FinishedTwice(j)
       \/ \E c \in checks : NoReceipt(c) \/ Update(c)
       \/ \E r \in Rows : HookDecrements(r) \/ HookApproves(r) \/ Mine(r) \/ Expire(r)
       \/ \E t \in Ticks : TickFails(t)
       \/ Crash \/ Restart
       \/ UNCHANGED <<up, rows, chain, faults>>
  BY DEF Next, StartCron, TickFires, TickProgress, TickReads, TickWaits, TickAdds, TickRemembers,
         TickSubscribes, TickStops, JobProgress, StartJob, CompleteJob, Finished, Removed,
         CheckProgress, Receipt, Confirmations, vars
<1> QED BY <1>2, <1>3, <1>4, <1>5, <1>6, <1>7, <1>8, <1>9, <1>10, <1>11, <1>12

\* The follow-up keeps to FollowUp, however runs of the cron job overlap, jobs
\* stall and are given out again, and callbacks and webhooks interleave.
THEOREM FollowsUp == Spec => ImplementsFollowUp
<1>1. Init => IInv /\ FInv
  BY InitOK, FInit
<1>2. IInv /\ FInv /\ [Next]_vars => IInv' /\ FInv'
  BY NextStep, FStep
<1> QED BY <1>1, <1>2, FollowInit, StepFollows, PTL DEF Spec, ImplementsFollowUp, Promise!Spec
=============================================================================
