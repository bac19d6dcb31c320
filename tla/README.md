# Verification of the infrastructure optimizer service

TLA+ models of the server in `src/server`, checked with TLC, with theorems
checked by TLAPS. This file lists the system's parts, says which module models
which part and how, what each run checks and shows, what is proved, and what is
left out.

## 1. The system

A web service computes base-management schedules. A request becomes a row of
`optimize_jobs`; worker processes poll the table, run the optimizer in a worker
thread or process, and write the result. The API process runs a maintenance
loop. All durable state is in PostgreSQL; processes share nothing else.

| Component | State it keeps | Operations | Interacts with | Hard behaviour |
|---|---|---|---|---|
| Job store (`storage/optimize-job-store.ts`) | `optimize_jobs`, `optimize_job_attempts`, `optimize_dispatch_state`, `optimization_dead_letters`, idempotency and submission rows | admit, claim, preempt, heartbeat, complete, fail, retry, release, cancel, recover, expire, clean up, reconcile, replay, discard | ledger, inventory, CDK (reservations); runner; maintenance; account deletion | concurrent claims, late calls, crashes, lost leases, retry budgets, fairness between priorities |
| Runner (`optimize-job-runner.ts`) | active attempts, worker threads, timers, shutdown flag | pump the queue, heartbeat, settle a worker message, cancel, time out, shut down | job store, optimizer thread | interleaving at every await, shutdown, preemption of its own attempts |
| Queue maintenance (`optimize-queue-maintenance.ts`) | advisory leader lock | recover, expire, reconcile, apply effects, clean up, every minute | job store, effects | one failing step ends the run |
| Completion effects (`optimization/jobs/job-effects.ts`) | `optimization_job_effects` | apply pending effects | usage log, CDK count, behaviour events | two appliers without a lock, crashes between steps |
| Worker registration | `optimize_worker_registry` | register, refresh, drain | claim priority, capacity, autoscaler | stale rows |
| Background worker runtime | timer, run in flight, stopped | initialize, run, stop | every periodic loop | stop and the timer while a run is in flight |
| Autoscaler, ECS controller | idle window, last power operation, in each process | read the load and the status, start, stop | cloud API, queue, advisory lock | lost answers, stale memory, several processes |
| Balance ledger (`storage/balance-store.ts`) | accounts, transactions, operations, reservations, what was reversed of each credit | credit, debit, reserve, settle, release, reverse | job store, CDK, account deletion | reversal of spent credit, debt, repeated requests |
| Metered billing, profiles | quotes, tiers, profiles | quote, confirm, archive | ledger, job store | quotes used once, price changes |
| CDK | `cdk_records` | redeem, freeze, revoke, count usage, scenario quota | job store, effects, inventory | double redemption, quota reservation |
| Inventory, campaigns | grants, reservations, campaigns | grant, reserve, commit, release, use, deliver | job store, ledger | expiry, delivery exactly once |
| Account deletion (`account-data-lifecycle.ts`) | deletion requests, records, receipt outbox | request, restore, claim, delete, send the receipt | users, ledger, job store | leases, late reports, registration and login at the same time |
| Invitations (`storage/invitation-store.ts`) | `invitations`, daily limit of rewards | register, activate, claim, settle, replay | users, inventory | leases, concurrent settlements of one inviter |
| E-mail, QQ bot, sessions, rate limits, behaviour risk | their own tables | | | windows, deduplication |
| Front end, HTTP routing, content settings, cultivation planner, schema | | | | not state of the core |

What makes the core correct: rows and attempts agree; a settled job stays
settled; cancellation wins; every accepted job ends; reservations are consumed
by success and released by every other end; limits hold under concurrent
claims; retries are counted right; effects are applied exactly once; records
are deleted in the end and not before they were used.

Around the core: an account's points equal its log, nothing is spent that was
not credited and nothing charged that was not accepted; a credit is reversed at
most once; the autoscaler never contradicts the instance's state and never
leaves work without one; a stopped background worker stays stopped; a deleted
account never comes back, and none is deleted that was taken back; an
invitation is settled once and rewarded within the day's limit. Not covered: an
item is granted, reserved and used once; a campaign is delivered once.
`PROJECT.json` lists the hazards of the code at their
lines with the properties that cover them.

## 2. Modules

| Module | Stands for | Status |
|---|---|---|
| `OptimizeJobQueue` | the PostgreSQL job store, one action per transaction | checked, proved |
| `JobSettlement` | the abstract promise: what each submission costs and brings | implemented by `OptimizeJobQueue`, checked and proved |
| `OptimizeJobQueueProofs`, `OptimizeJobLimitsProofs`, `OptimizeJobSettlementProofs` | theorems about the store | proved |
| `OptimizeJobRunner` | one worker process composed with the store | checked, proved |
| `OptimizeJobRunnerProofs` | the process uses the store as specified and keeps its own promises | proved |
| `JobAftermath` | completion effects, usage count, dead letters, retention, erasure | checked, proved (`JobAftermathProofs`), findings |
| `BalanceLedger` | the points ledger, quotes, balance codes | checked, proved |
| `PointsWallet` | the abstract promise of the ledger | implemented by `BalanceLedger`, checked and proved |
| `BalanceLedgerProofs` | theorems about the ledger | proved |
| `BackgroundWorker` | the periodic worker of a process | composed into `WorkerAutoscaler` |
| `WorkerAutoscaler` | the autoscaler in every API process, with queue, lock and cloud | checked, proved |
| `WorkerAutoscalerProofs` | theorems about both | proved |
| `AccountLifecycle` | deletion of accounts on request, with registration, freeze and restore | checked, proved (`AccountsAndInvitationsProofs`), finding |
| `InvitationSettlement` | settlement of invitations under claims | composed into the next |
| `AccountsAndInvitations` | both in one database | checked, proved (`AccountsAndInvitationsProofs`) |
| `MC...` | instances for TLC | |

### OptimizeJobQueue

Variables are tables: `jobs` (rows of `optimize_jobs`), `attempts`
(`optimize_job_attempts`), `holds` (item and balance reservations of a job),
`letters` and `replayedAs` (`optimization_dead_letters`), `streak`
(`optimize_dispatch_state`), `live` (`optimize_worker_registry`).

One action is one committed transaction. That is the right grain because the
store runs at READ COMMITTED and every transaction takes the job's row lock,
the dispatch row lock or the admission advisory lock before it decides, and
repeats its conditions in the WHERE clause of the write. Two transactions do not,
and the second of their two statements sees commits made after the first.
`recoverExpiredAttempts` is therefore two actions. `requestAccountDeletion`
(`account-data-lifecycle.ts`) fails the running attempts of the user's jobs and
then ends the open jobs, without the dispatch lock. What it wrote becomes visible
only when it commits, so it is one action, but one that may miss attempts: those
of jobs claimed after the first statement looked. They go on running, on a
job that ended, until the owner comes back and asks again; the worker's calls
for them are refused. The request also ends a job whose cancellation was
requested, and counts no failure. The status it writes is `failed`; the model
calls it `withdrawn` to tell such a job from one that failed.

| Code | Action |
|---|---|
| `admitJob` | `AdmitJob` |
| `claimNextJob`, `preemptFreeJobForPaid` | `ClaimNextJob`, `PreemptFreeJobForPaid` |
| `heartbeatAttempt`, `completeAttempt`, `failAttempt`, `retryFailedAttempt`, `releaseInterruptedAttempt`, `cancelAttempt` | the same names |
| `requestCancel` | `RequestCancelQueued`, `RequestCancelRunning` |
| `recoverExpiredAttempts` | `RecoverCancellations`, `RecoverExpiredAttempts` |
| `expireQueuedJobs` | `ExpireQueuedJobs` |
| replay and discard of dead letters | `ReplayDeadLetter`, `DiscardDeadLetter`, `DiscardAllDeadLetters` |
| `requestAccountDeletion`, as far as it concerns jobs | `RequestAccountDeletion` |
| worker registration | `RegisterWorker`, `LeaveRegistry` |

What is abstracted. Time: a timestamp column has the phases the SQL tells apart
(a lease is absent, held or expired; `next_attempt_at` null, later, reached, or
reached a preemption grace ago; `started_at` null, within the hard timeout or
beyond), moved by clock actions in any order; `created_at` is the rank within a
priority. A lock token is unique per claim, so the pair (job, attempt number)
stands for it. A repeated idempotency key and every refusal that writes nothing
is a stutter. The batch limit of 100 and SKIP LOCKED of the recovery are left
out: a recovery takes all that is due. The two resources are items and balance.
A result that does not parse is `FailAttempt`. A user's jobs are those `UserOf`
gives, where the code looks at the payer, the profile and the owner key. The
victim of a preemption is any of the candidates, where the code takes the
youngest. The streak saturates where the code compares it.
Rows are not deleted here: what the retention and the erasure of an account delete
is the subject of `JobAftermath`.

### OptimizeJobRunner

EXTENDS the store and conjoins its actions with the process's state: `pump`
(where `pumpQueue` awaits), `registry` (`activeAttempts`, by job), `local`
(per job the attempt objects, which outlive their registry entry, at their
attempt numbers), `stage` and
`remaining` (shutdown), `faults`. An action is the code between two awaits, or
the commit of an awaited call together with its answer being on the way; a call
may also fail before or after its commit. A settlement is a read (which may
find a cancellation) and a write, and anything may commit between them.

Covered: `initializeOptimizeJobProcessing` and its pump, claims and preemptions
answered after shutdown began, `spawnObservedWorker` overwriting an older entry
of the same job, heartbeats and what a refused or failed one does, thread
results, errors and exits, the hard timeout, in-process cancellation, the three
settling functions, shutdown with its grace period and forced release, exit and
crash. Beside it other worker processes act on the tables (`RivalStep`): they
claim, preempt, renew and settle as the store allows their ids, so a job this one
lost may be run elsewhere and come back; their own state and registration are
left out. Not covered: the inline mode used in tests, stage reports, the delay
between terminating a thread and its end. The model shows, without calling it
an error, that a settlement whose write is refused because a cancellation
committed after its read leaves the job to the lease recovery, and that the
shutdown does not wait for an attempt that already settles when the grace
period ends.

### JobAftermath

A successful completion leaves an effect row; the runner and the maintenance
leader both apply pending effects, each in several transactions and without a
lock. The model has one program counter per call, crashes at every step, calls
of the database that fail, a mark 'applied' that is committed and whose answer is
lost, a CDK that is frozen and unfrozen, effects whose owner is gone (`Orphan`,
they always fail), `cleanupOldJobs`, and the erasure of an account with its
letters, jobs and effect rows while calls hold them. A job's rows are those of
the effect types `schedule_completion` and `workspace_schedule_result`, written
together (`effect`), and the marker `cdk_schedule_generate` (`counted`). Only the
first ever has a status, and the retention takes a row without one as pending
(`LacksStatus`). Jobs that end without such rows (failed, cancelled, another kind
of job, a comparison) are `plain`. A call of the maintenance reads a batch
in the order of `applied_at`; timestamps are not kept, only whose effect row has
an earlier one (`earlier`), since only their order is read.

### BalanceLedger

Variables are the columns of `user_balance_accounts` (`available`, `reserved`,
`credited`, `reversed`, `debt`), the log (`logged`, the sum of
`user_balance_transactions` by kind), `credit` and `clawed` (each credit and
what was reversed of it), `operation` (idempotency keys), `code`, `quote`,
`reservation` and `job`. An action is one transaction: each takes the user's
row and then the account's, so only their order is open.

| Code | Action |
|---|---|
| `adjustBalance` | `AdminCredit`, `AdminDebit` |
| `reverseQualificationCredit` | `ReverseCredit` |
| `redeemCdkAtomically` for balance codes | `RedeemCode` |
| `issueMeteredScheduleQuote`, `confirmMeteredQuoteInTransaction` | `IssueQuote`, `Confirmed` within `AdmitJob` |
| `reserveScheduleBalanceInTransaction` and its settlement and release | `AdmitJob`, `SettleJob`, `ReleaseJob` |
| `requestAccountDeletion`, `deleteUserAccountInTransaction` | `ReleaseJobsOf`, `DeleteUserRows` |
| retention of ended jobs | `ForgetJob` |

`repayDebtAfterCreditInTransaction` is part of every credit. What a deletion
request releases is the sum over the user's rows, written as the number of
points in `PointsHeld`, a set that names each point by its row. Amounts are whole
points; the store's `holds` of "balance" in `OptimizeJobQueue` is the status of
`reservation` here. Every job here is billed in points. The operations with a
fixed price of their own count as the personal one. `reconcileBilling`, which
repairs what earlier versions left behind, and the operations with list prices
and discounts are not modelled.

### BackgroundWorker and WorkerAutoscaler

`BackgroundWorker` has the variables of `createBackgroundWorker` for each
process: `stopped`, `initialized`, `timer`, `running`. Delays, jitter and
back-off are left out: a timer fires some time after it was set.
`WorkerAutoscaler` EXTENDS it with what a run does: take the advisory lock
without waiting, read the load, ask for the status, perhaps start or stop the
instance. Each await is a step (`tick`), so the queue, the instance and the
other process move in between. `lowQueueSince` (whether a window is open) and
`powerOperation` are variables of a process and die with it. The cloud is
external: it refuses a call that does not fit the instance, a call can fail
with or without its effect, and a status may be unknown. A call that timed out
takes effect at once or never, and a status shows every call before it: nothing
in `src/` says otherwise, and `PowerCallsFitInstance` rests on it. Not covered: a
process that lives on while the database session of its lock is lost; then a
second leader may act beside it, and the cloud refuses the call that comes too
late.

### AccountLifecycle, InvitationSettlement, AccountsAndInvitations

`account`, `request`, `records` and `outbox` are tables keyed by e-mail address,
`hand` what each process works on, `registering` the registrations that hold the
address's advisory lock between their check and their insert. A lease token is
the process that drew it. A claim is `lost` when its lease ran out or its row
went away; a claim that is not lost cannot be taken over. A process that dies
(`DropsClaim`) leaves a lease that others may take after it ran out, for which
the model does not make them wait.

`InvitationSettlement` names an invitation by the invited friend. A claim is
the pair (invitation, attempt count), as in the code; settling is two steps,
the reads under the locks of the row and of the inviter's account, and the
commit; a settlement that is late goes on, as in the code. `Activates` stands
for the friend's own request and for the batch that reconciles.

`AccountsAndInvitations` puts both in one database: a change of an account waits
for a settlement that holds its row, and a deleted account leaves its
invitations without an inviter (`ON DELETE SET NULL`).

Abstracted: the campaign is enabled and rewards both sides; the items granted;
a friend's account goes at any time (`FriendLeaves`) instead of by name; retry
delays; the older cancellation e-mails, which the code only deletes. How often
a receipt is sent is not counted: one whose row could not be deleted is sent
again, by design of the outbox. The status 'revoked' is read by the code and
written by none of it for accounts.

## 3. Runs

| Run | Instance | Shows |
|---|---|---|
| `queue_pair` | free preview and paid job of one user, two workers of unequal claim priority, 2 failures, 1 interruption | rows, attempts and reservations agree; finished is finished; cancellation wins |
| `queue_replay` | one job and its replay, one worker, 2 failures, 2 interruptions, fairness | retry budget, dead letters, `JobSettlement` implemented, every job ends |
| `queue_rivals` | three jobs, two of one owner who may queue 1, two of one user, two on one account, 2 global slots | per-owner, per-account, global limits; backlog within admission's limit |
| `runner_solo` | one job, one process and a rival's calls, 2 failures, 1 interruption, 1 fault, fairness | nothing claimed is dropped, forgotten threads decide nothing, shutdown leaves no thread, jobs given up come back, cancellation is noticed |
| `runner_preempt` | free and paid job, 2 local slots, 1 global, threads that fail, lost leases and hard timeouts, fairness | the paid job gets the slot |
| `aftermath` | three jobs, batch of 2, 2 faults, fairness | effects counted once and in the end; what is deleted stays deleted; plain jobs are deleted |
| `ledger` | one user, two jobs, two quotes, three keys, one code, amounts 1 and 3, two tiers | columns, log and rows agree; reversals, prices, `PointsWallet` implemented |
| `autoscaler` | two processes, two jobs, one failing call, one end of a process, fairness | calls fit the instance, stop is final, waiting work gets it |
| `accounts` | one account whose owner invited two friends, two processes that delete and two that settle, two attempts of each, a limit of one reward a day | claims, leases, restoring and deleting, rewards |
| `aftermath_letter` | the same as `aftermath` | **violation**: see findings |
| `aftermath_retention` | the same as `aftermath` | **violation**: see findings |
| `accounts_review` | one account, two processes | **violation**: see findings |

Bounds and why they are enough. Two jobs let one claim, preempt or wait for the
other; the limits need three, because a limit of two is reached with two and
broken with a third. Two failures distinguish "retry" from "give up", one more
attempt repeats the first case. `AttemptBound` limits interruptions only
(shutdown and preemption do not count as failures, so the program has no bound
of its own); one interruption followed by a retry already has a late caller of
every kind. `FaultBound` counts failed calls, crashes and missed
deadlines: one fault reaches every error path from every state. `ThreadOutcome` and
`Disturbed` say which ends of a thread and which troubles an instance has:
`runner_solo` has threads that complete (a result that is refused is a failure
too), cancellation and lost leases; `runner_preempt` threads that fail, lost
leases and the hard timeout. `RivalPlan` says how other processes settle: in
`runner_solo` in every way but giving back, which only repeats the interruption
of a lost lease and doubles the states; in `runner_preempt` there is no rival.
The proofs have every plan and any number of processes. The account whose deletion
may be requested owns every job in `queue_pair`, `queue_replay` and `runner_solo`,
the two commercial jobs in `queue_rivals` and none in `runner_preempt`; a request
may come at any time and again. Retries for a transient error or a crashed thread
take the same path as the retry of a job given back, which differs in the
budget only; `queue_replay` has all four kinds.
In the effects' run `BatchLimit` (25 in the code) is one more than the number
of orphans: with as many orphans as a batch holds, later effects starve, which
the property's assumption states. One account has the job to be applied and the
dead-lettered one, so that its erasure takes a letter too; another has the orphan.

`OwnerQueuedLimit` of one in `queue_rivals` lets the backlog be exceeded by the
first requeued job. In `ledger` users share no row, so one user is enough (the
proofs have any number); three keys and a code allow two credits, a reversal and
another reversal of the same credit; amounts of 1 and 3 leave a debt, and the
two tiers make the price fall with a credit and rise with a reversal. In
`autoscaler` one job is below the threshold and two are above; two processes
are enough for a second leader; a fault and an end of a process each occur once,
at any point. In `accounts` two processes contend for one row, a third would
repeat either; a limit of one reward is exceeded by two friends; two attempts
are a retry and a last attempt. `accounts` uses symmetry of the processes and of
the friends, and checks safety only. The other runs do not use symmetry: they
check liveness or give the jobs different roles.

Deadlock is not checked in the runs of the queue, the runner, the ledger and the
accounts: when all jobs ended and the submissions, keys or addresses are used up
nothing more happens.

Every property has a mutant (definitions marked "Faulty" in the modules) that
makes it fail in the same run.

## 4. Fairness

Queue: time passes (weak fairness of the clock), the maintenance of the API
process runs every minute and repeats after an error, live workers poll every
second; strong fairness of claims, since another worker may take the one free
slot again and again in between. No worker needs to answer, renew or cancel:
`EveryJobEnds` and `CancelRequestIsHonoured` rest on recovery alone.

Runner: its timers fire and awaited calls are answered or fail (weak fairness of
the pump, of heartbeats and of settlements per job), leases expire, maintenance
runs. Threads need not end and the hard timeout is not assumed to fire, so the
properties do not rest on it.

Aftermath: maintenance starts and its call goes on, cleanup runs, jobs age. The
runner's call is not fair: it may be lost. Faults are bounded, so they stop.

Autoscaler: timers fire, calls are answered, a process that ended is started
again, and the cloud brings the instance to the state it was asked for. A
process tries for the lock with every run and runs hold it for moments, so it
finds it free and gets it again and again (strong fairness). Nobody needs to
claim or finish jobs.

Ledger, accounts and invitations are checked for safety only: what a user, an
administrator or a reviewer does is not fair, the retries end after a fixed
number of attempts by design, and with symmetry liveness cannot be checked.

## 5. Proofs

Assumptions: `JobAssumption`, `WorkerAssumption`, `LimitAssumption` of the
store (a finite set of jobs, any workers, owners, accounts and limits);
`RunnerAssumption` of the process; `AftermathAssumption` (a finite set of jobs,
any orphans, batch limit and number of faults); `AmountAssumption`,
`SourceAssumption`, `NullAssumption` of the ledger (positive amounts and prices,
any users, jobs, quotes and keys); `ThresholdAssumption` of the autoscaler; `AttemptsAssumption`, `InvitationAssumption` (a finite set of
invitations), `RowAssumption` and the second `NullAssumption` of accounts and
invitations.

`OptimizeJobQueueProofs`. `IInv == RowsOK /\ RestOK`: for each job `RowMatches`
relates the row to its list of attempts (types, number of attempts, which is
running, who holds the lock), and the other tables have their types. The type
invariant alone is not inductive: that a settlement ends the running attempt
needs to know that the row's attempt is the newest and the only running one.
Lemmas about the row operators (`Unlocked`, `Retried`, `Claimed`, ...) and about
ending and beginning an attempt carry the action lemmas, one per action.
Theorems: `TypeCorrect`, `AttemptsMatchRows`. Only the newest attempt may run, and
only while the job runs or after the deletion of the account missed it; the guard
of every settlement asks for a running job, so such an attempt is never settled. With the second invariant
`WaitingNotCancelled` (no queued row carries a cancel request, otherwise a claim
could follow one) the action properties `FinishedStays` and `CancelWins` follow,
again action by action; what the deletion of the account does to a cancelled job
is in the statement of `CancelWins`.

`OptimizeJobLimitsProofs`. Seen from one job a step is one of few things: the
job keeps its place, ends, waits again, starts, or is new (`Keeps`, `Ends`,
`Requeues`, `Starts`, `Opens`), and its failures stay counted (`CountKept`). Every
action but claim, preemption, admission and replay is quiet, that is no job starts
or is new (`NextSteps`, one lemma per action). The limits follow from the sizes of
the sets a step may enlarge: a claim adds one job to an owner with none running,
a preemption swaps two (`LimitsHold`); an admission finds room, and a replay is not
counted (`BacklogBounded`, which needs `LettersMatch`: a letter under review names no
replay yet). `QueuedClaimable` is inductive once it also speaks of running rows
(`BudgetLeft`), `LettersMatch` once every replay has a row (`ReplaysExist`).
`FailuresCounted` allows the one attempt that a deletion failed without counting
it: an open job has none (`FailuresKnown`), and an ended one gets no more.
`OutcomesExplained` reads off the same list: whatever takes a job from its worker
is quiet for it or requeues it, and both say what the ended attempt shows.

`OptimizeJobSettlementProofs`. Each action is a `Move`: submit one, deliver one,
abandon a set, reopen one, or nothing, stated on rows and reservations
(`NextMoves`). Moves preserve `SInv` (what is held fits status and needs, a
letter that names a replay is marked replayed), which gives
`ReservationsFollow`; and a move is a step of `JobSettlement` under the
refinement mapping, which gives `StoreImplementsSettlement`.

`OptimizeJobRunnerProofs`. Every step of the process is a step of the store or
leaves the tables alone (`RunnerImplementsStore`), so everything proved of the
store holds with the process running: `CancelWinsInProcess` and
`ReservationsFollowInProcess` are drawn from it. The process's own promises rest
on `RInv`, which relates each attempt object to the row. `EntriesFit`: what is
registered computes or is being settled; what computes is registered or belongs
to an attempt the row has left behind; a settlement that is to write 'cancelled'
has seen the request; nothing registered computes once the grace period ended.
`PumpFits`: the pump holds an attempt that is newer than every object of its job
(the newest of all unless another process has claimed the job since) and a victim
that runs here no more. `NothingDropped`: a job running here that nobody asked
to cancel is held by the pump, registered, or being settled, until a call fails.
None of the four checked invariants is inductive alone: that a forgotten thread
has lost its job needs to know that the pump's attempt is newer, and that nothing
is dropped when a settlement is refused needs that only an attempt the row has
left behind is refused (`RefusedIsOver`). To the process a step of the store is
one of three things: a claim of its own (`Starting`), a claim of another process,
after which the job does not run here (`StartsElsewhere`), or one that leaves every
attempt that is over, over (`Steady`); all come from the store's step lemmas. An
action of the process replaces one object (`Moves`), which gives `EntriesFit` and,
with `GoesOn`, `NothingDropped` once for all of them. From `RInv` follow
`RunnerTypeCorrect`, `NoJobDropped`, `ForgottenSettleNothing` and
`NothingComputesAfterShutdown`.

`JobAftermathProofs`. `CountedOnce` is about rows; what makes it inductive is
about the calls in between (`IInv`): a call past the count works on a row that
counted or is gone (`CallsCounted`), which survives whatever the other calls do
because no deleted job comes back and nothing is counted back (`TablesGrow`); the
marker and the count agree while the job's row exists (`CountsMatch`); a job
without a row has no effect rows and no letter (`GoneHaveNothing`). A step moves
one call (`CallGoes`) and changes the tables (`TablesSound`), each shown apart.
`CountsOnce` and `DeletedForGood` follow.

`BalanceLedgerProofs`. `LedgerInv` adds to the types, `LedgerBalances` and
`ReversedWithinCredit` what makes them inductive: `CreditsHaveOrigin` (only a
credit that was logged can be reversed), `QuotesAdmitOnce` (no two quotes
admitted the same job, and none a job that was never admitted) and
`RowsHaveQuotes` (a reservation has its quote, at no higher a price). One lemma
per transaction and conjunct group; `LedgerImplementsWallet` maps each
transaction to a step of `PointsWallet`. `ReservedAlwaysMatchesRows` is about a
sum over rows, which would need an induction over the set of rows; the model
counts points instead (`PointsHeld` pairs each row with a number per point), so
that the sum is a cardinality, and a transaction that adds or ends a row adds or
removes a disjoint set (`MorePoints`, `FewerPoints`).

`WorkerAutoscalerProofs`. `LockHeld` (a run past the lock holds it) makes the
status a process read still true when it calls, as long as only the leader calls
and a stopped or running instance changes by calls only: `PowerCallsAlwaysFit`.
`TimersAreWanted` (no timer on a stopped worker) gives `StopIsFinal`.

`AccountsAndInvitationsProofs`, accounts. `AccountInv` strengthens `DeletedStaysDeleted` and
`HolderKeepsClaim` with the lock of the address (`DeletedAreNotRegistering`),
`ReceiptsFollowDeletion` (a deletion finds no receipt in its way, so it does not
take one from the process that sends it) and `ProcessedIsDue`, from which
`RemovedOnRequest` follows. `GivenUpSound` says what a claiming statement does to
the rows it does not claim: the rows it gives up are held by nobody.

The same module, invitations. The composition implements `AccountSpec`
(`AccountsGoOn`), so these theorems hold of it. `InvitationInv`: a process that
settles has the claim on its row, no two settle one invitation or invitations of
one inviter, and what was read about the inviter still holds
(`RewardsStayDue`). `SettlersUndisturbed` reduces most steps to showing that they
leave alone what the settlements in progress have read; `RewardsAreDue` and
`SettledIsFinal` follow action by action.

Only model-checked: the eight liveness properties (`EveryJobEnds`,
`CancelRequestIsHonoured`, `GivenUpJobsComeBack`, `CancelIsNoticed`,
`PaidWorkGetsASlot`, `EffectsGetApplied`, `PlainJobsGetDeletedWithoutLetters`,
`WaitingWorkGetsAnInstance`), for which the prover has no rule of fairness and
ENABLED. Every invariant and every action property of the passing runs is proved.

## 6. Findings

1. `cleanupOldJobs` deletes dead-lettered jobs in the same statement as all
   others, but `optimization_dead_letters.job_id` refers to them ON DELETE
   RESTRICT, and reviewing a letter keeps it. One old dead-lettered job makes
   every later cleanup fail, until the account of the letter is erased
   (`aftermath_letter`, which shows it on jobs that left no effect).
2. `cleanupOldJobs` keeps a job while one of its effect rows reads as pending, and
   a row without a status does. `workspace_schedule_result`, of every successful
   schedule, and `cdk_schedule_generate` are written without one and never get
   one, so no successful schedule is ever deleted by the retention, with or
   without letters (`aftermath_retention`). The test that expects the deletion
   sets the status of all rows by hand.
3. A reviewer's freeze takes an account that waits for its deletion, an
   administrator's unfreeze makes it active, and the pending request deletes it
   when due although its owner logged in meanwhile (`accounts_review`).

Read and not checked: `admitJob` reserves a scenario quota, inserting an effect row
that refers to the job, before it inserts the job
(`storage/optimize-job-store.ts:490-517`); on a card with a quota the foreign key
makes every scenario comparison fail.

Met while modelling, and not violations of anything the repository states:
a deletion request can leave an attempt running on a job it ended (the worker
notices with its next heartbeat, the row of the attempt stays until the account
is erased or the request is repeated); it ends a job whose cancellation was
requested as failed, and its failed attempt is not in `failure_count`;
a second deletion request is answered as accepted also when the first one has
failed for good; an invitation's attempt count starts again from zero on a
replay, so the pair (invitation, attempt) names a claim only as long as no
claim survives a replay; the count of today's rewards falls when a rewarded
friend's account is deleted; an idle window that is open while the status query
fails stays open.

## 7. Not modelled, and the plan

Not modelled because there is nothing of the kind to check: the front end,
HTTP routing, content settings, schema migration, the in-memory store (a
development stand-in), the Skland client, the game data and the arithmetic of
the optimizer and the planner, which is most of the repository by size. Of the
database code, listings, filters and administration pages are most of each
store's lines.

Not modelled yet, in the order worth doing:

1. `ItemInventory`: grants, reservations with expiry, use; campaign delivery.
2. Session rotation and rate limit windows; e-mail quota; QQ bot verification.
3. Admission in detail: idempotency rows and submission counters;
   `reconcileBilling`.
4. The scenario quota: reservation, settlement, release.
5. `QueueEstimate`: the wait estimate as functions against a simulation.
6. The autoscaler with a process that lives on after it lost the session of its
   lock.

The runs take up to three minutes each. A new component shares a run with one it
interacts with, as the accounts and the invitations do.
