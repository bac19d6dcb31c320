------------------------- MODULE OptimizeJobQueue -------------------------
(***************************************************************************)
(* The PostgreSQL optimize job store: admission, dispatch to workers,      *)
(* leases, settlement, cancellation, lease recovery, queue expiry, dead    *)
(* letters and their replay, and what the deletion request of an account   *)
(* does to its jobs.  One action is one committed transaction: the store   *)
(* runs READ COMMITTED and takes a row lock (or the dispatch_state lock, or *)
(* the admission advisory lock) before it decides.  Two transactions of    *)
(* several statements see what others commit between them: the lease       *)
(* recovery is two actions, and the deletion request chooses what its      *)
(* first statement was too early to see.                                   *)
(*                                                                         *)
(* Time is abstracted to the comparisons the SQL makes.  A timestamp       *)
(* column is one of a few phases, moved forward by the clock actions, in   *)
(* any order and at any time.  A lock token is unique per claim, so it is  *)
(* identified with the pair (job, attempt number).                         *)
(***************************************************************************)
EXTENDS Integers, FiniteSets, Sequences, Functions

CONSTANTS
    Job,            \* ids a job row can have; never reused
    NoJob,
    Worker,         \* optimize worker processes (processWorkerId)
    NoWorker,
    Owner,          \* owner_key
    Account,        \* user accounts
    NoAccount,
    OwnerOf,        \* [Job -> Owner]
    AccountOf,      \* [Job -> Account \cup {NoAccount}], billing_user_id
    UserOf,         \* [Job -> Account \cup {NoAccount}], who pays for the job or
                    \* whose profile it is for
    CommercialJob,  \* jobs whose billing_kind is 'metered_commercial'
    PriorityOf,     \* [Job -> Int]: 0 free, 5 analysis, 10 paid, 20 coupon
    PreviewJob,     \* jobs whose source is 'free_preview'
    AnalysisJob,    \* jobs whose source is 'scenario_comparison'
    Needs,          \* [Job -> SUBSET Resource] held while the job is open
    ClaimPriorityOf,\* [Worker -> Nat], the worker-claim-priority capability
    Concurrency,    \* [Worker -> Nat], registered concurrency
    MaxFailures,    \* getOptimizeJobMaxAttempts()
    MaxGlobalRunning,    \* getOptimizeGlobalWorkerConcurrency()
    OwnerQueuedLimit,    \* 3 in the code
    AccountRunningLimit, \* 2 in the code
    AccountQueuedLimit,  \* 8 in the code
    GlobalQueueLimit,    \* 200 in the code
    AnalysisQueueLimit,  \* 40 in the code
    StandardTurn,        \* 3 in the code: prioritized claims before a forced turn
    AttemptBound         \* bound of the model: attempts after which no worker
                         \* interrupts the job again (shutdown or preemption)

Resource == {"items", "balance"}

ASSUME JobAssumption ==
    /\ NoJob \notin Job
    /\ NoWorker \notin Worker
    /\ NoAccount \notin Account
    /\ IsFiniteSet(Job)
    /\ OwnerOf \in [Job -> Owner]
    /\ AccountOf \in [Job -> Account \cup {NoAccount}]
    /\ UserOf \in [Job -> Account \cup {NoAccount}]
    /\ \A j \in Job : AccountOf[j] # NoAccount => UserOf[j] = AccountOf[j]
    /\ CommercialJob \subseteq {j \in Job : AccountOf[j] # NoAccount}
    /\ PriorityOf \in [Job -> Int]
    /\ PreviewJob \subseteq Job
    /\ AnalysisJob \subseteq Job
    /\ Needs \in [Job -> SUBSET Resource]
    /\ \A j \in Job : "balance" \in Needs[j] => AccountOf[j] # NoAccount

ASSUME WorkerAssumption ==
    /\ ClaimPriorityOf \in [Worker -> Nat]
    /\ Concurrency \in [Worker -> Nat]

ASSUME LimitAssumption ==
    /\ MaxFailures \in Nat \ {0}
    /\ MaxGlobalRunning \in Nat \ {0}
    /\ OwnerQueuedLimit \in Nat \ {0}
    /\ AccountRunningLimit \in Nat \ {0}
    /\ AccountQueuedLimit \in Nat
    /\ GlobalQueueLimit \in Nat
    /\ AnalysisQueueLimit \in Nat
    /\ StandardTurn \in Nat
    /\ AttemptBound \in Nat

VARIABLES
    jobs,         \* [Job -> JobRow], table optimize_jobs
    attempts,     \* [Job -> Seq(Attempt)], table optimize_job_attempts
    holds,        \* [Job -> [Resource -> HoldStatus]], reservations of a job
    letters,      \* [Job -> LetterStatus], table optimization_dead_letters
    replayedAs,   \* [Job -> Job \cup {NoJob}], replayed_job_id of the letter
    streak,       \* optimize_dispatch_state.prioritized_streak, up to StandardTurn
    live          \* workers whose optimize_worker_registry row counts: neither
                  \* draining nor older than the staleness window

vars == <<jobs, attempts, holds, letters, replayedAs, streak, live>>

-----------------------------------------------------------------------------
(* Types *)

\* "withdrawn" is the status 'failed' with the error_message of the deletion of
\* the account; nothing in the store tells it from other failures.
TerminalStatus ==
    {"succeeded", "failed", "cancelled", "dead_lettered", "withdrawn"}
JobStatus == {"absent", "queued", "running"} \cup TerminalStatus

FailedAttemptStatus == {"failed", "timed_out", "lease_lost"}
AttemptStatus ==
    {"running", "succeeded", "interrupted", "cancelled"} \cup FailedAttemptStatus

HoldStatus == {"none", "reserved", "consumed", "released"}
LetterStatus == {"none", "pending_review", "replayed", "discarded"}

\* worker_crash, transient_error and lease_lost share one retry budget.
RetryKind == {"timed_out", "lease_lost", "failed"}

JobRow ==
    [status: JobStatus,
     attempt_count: Nat,
     failure_count: Nat,
     worker_id: Worker \cup {NoWorker},
     \* lock_expires_at: null, in the future, in the past
     lease: {"none", "held", "expired"},
     \* next_attempt_at: null, later, reached, reached a preemption grace ago
     next_attempt: {"none", "later", "now", "waited"},
     \* expires_at: null, in the future, in the past
     queue_expiry: {"none", "pending", "past"},
     \* started_at: null, within the hard timeout, beyond it
     started: {"none", "within", "overtime"},
     cancel_requested: BOOLEAN,
     created_at: Nat]

Attempt == [worker: Worker, status: AttemptStatus]

AbsentRow ==
    [status |-> "absent", attempt_count |-> 0, failure_count |-> 0,
     worker_id |-> NoWorker, lease |-> "none", next_attempt |-> "none",
     queue_expiry |-> "none", started |-> "none",
     cancel_requested |-> FALSE, created_at |-> 0]

-----------------------------------------------------------------------------
(* Derived state *)

IsFree(j) == PriorityOf[j] <= 0
IsStandard(j) == PriorityOf[j] > 0 /\ PriorityOf[j] < 10
IsPrioritized(j) == PriorityOf[j] >= 10

With(status) == {j \in Job : jobs[j].status = status}
OwnedBy(o, status) == {j \in With(status) : OwnerOf[j] = o}
BilledTo(acct, status) == {j \in With(status) : AccountOf[j] = acct}

Active(j) == jobs[j].status \in {"queued", "running"}

CurrentAttempt(j) == jobs[j].attempt_count

RegisteredConcurrency == FoldFunctionOnSet(+, 0, Concurrency, live)

HasHigherPriorityPeer(w) ==
    \E peer \in live \ {w} : ClaimPriorityOf[peer] > ClaimPriorityOf[w]

\* Faulty: a WHERE clause without the lock token.
OwnsAnyAttempt(j, a, w) == jobs[j].status = "running" /\ jobs[j].worker_id = w

\* The condition every per-attempt call puts in its WHERE clause.
Owns(j, a, w) ==
    /\ jobs[j].status = "running"
    /\ jobs[j].attempt_count = a
    /\ jobs[j].worker_id = w

\* Handles (job, attempt, worker) that some worker process was given.
Issued(j, a, w) == a \in DOMAIN attempts[j] /\ attempts[j][a].worker = w

\* Faulty: the settlement does not look at cancel_requested_at.
SettlesDespiteCancel(j, a, w) == Issued(j, a, w) /\ Owns(j, a, w)

\* The attempt still decides the fate of its job.
Settles(j, a, w) ==
    Issued(j, a, w) /\ Owns(j, a, w) /\ ~jobs[j].cancel_requested

-----------------------------------------------------------------------------
(* Row updates *)

\* A row that left its worker: worker_id, lock_token, lock_expires_at null.
Unlocked(row, status) ==
    [row EXCEPT !.status = status, !.worker_id = NoWorker, !.lease = "none",
                !.next_attempt = "none"]

\* Faulty: the lock columns survive the requeue.
RequeuedStillLocked(row, when) ==
    [row EXCEPT !.status = "queued", !.next_attempt = when]

\* Faulty: every requeue counts as a failure.
RequeuedAsFailure(row, when) ==
    [Unlocked(row, "queued") EXCEPT !.next_attempt = when, !.failure_count = @ + 1]

Requeued(row, when) ==
    [Unlocked(row, "queued") EXCEPT !.next_attempt = when]

Failed(row, status) ==
    [Unlocked(row, status) EXCEPT !.failure_count = @ + 1]

\* Faulty: the budget is compared before the failure is counted.
RetriedOnceMore(row, budget) ==
    IF row.failure_count >= budget
    THEN Failed(row, "dead_lettered")
    ELSE [Requeued(row, "later") EXCEPT !.failure_count = @ + 1]

\* Retry with back-off, or give up once the budget is spent.
Retried(row, budget) ==
    IF row.failure_count + 1 >= budget
    THEN Failed(row, "dead_lettered")
    ELSE [Requeued(row, "later") EXCEPT !.failure_count = @ + 1]

\* Faulty: a status the table does not know.
MisspelledCancelledRow(row) ==
    [Unlocked(row, "canceled") EXCEPT !.queue_expiry = "none"]

CancelledRow(row) ==
    [Unlocked(row, "cancelled") EXCEPT !.queue_expiry = "none"]

\* next_attempt_at, expires_at and failure_count stay as they are.
Withdrawn(row) ==
    [row EXCEPT !.status = "withdrawn", !.worker_id = NoWorker, !.lease = "none"]

\* A new attempt: status, attempt_count, worker_id, lock_token, lock_expires_at.
Locked(row, w) ==
    [row EXCEPT !.status = "running", !.attempt_count = @ + 1,
                !.worker_id = w, !.lease = "held"]

Claimed(row, w) ==
    [Locked(row, w) EXCEPT !.next_attempt = "none", !.queue_expiry = "none",
                           !.started = IF @ = "none" THEN "within" ELSE @]

Ended(j, a, status) == [attempts[j] EXCEPT ![a].status = status]

\* The attempts of a job, those that run ended.
RunningEnded(j, status) ==
    [a \in DOMAIN attempts[j] |->
        IF attempts[j][a].status = "running"
        THEN [attempts[j][a] EXCEPT !.status = status]
        ELSE attempts[j][a]]

\* Faulty: item reservations are forgotten.
ResolveBalanceOnly(hold, status) ==
    IF hold["balance"] = "reserved" THEN [hold EXCEPT !["balance"] = status] ELSE hold

Resolve(hold, status) ==
    [r \in Resource |-> IF hold[r] = "reserved" THEN status ELSE hold[r]]

\* Faulty: reservations are looked up by owner instead of job.
ReleaseHoldsOfOwners(S) ==
    holds' = [j \in Job |-> IF \E k \in S : OwnerOf[k] = OwnerOf[j]
                            THEN Resolve(holds[j], "released") ELSE holds[j]]

\* releaseOptimizationJobReservationsInTransaction, for the jobs in S.
ReleaseHolds(S) ==
    holds' = [j \in Job |-> IF j \in S THEN Resolve(holds[j], "released")
                                       ELSE holds[j]]

\* Faulty: a timed out job gets no letter.
CreateLettersOfRepeatedFailures(S) ==
    letters' = [j \in Job |-> IF j \in S /\ jobs'[j].failure_count >= MaxFailures
                              THEN "pending_review" ELSE letters[j]]

\* The upsert of createDeadLetterInTransaction, for the jobs in S.
CreateLetters(S) ==
    letters' = [j \in Job |-> IF j \in S /\ letters[j] = "none"
                              THEN "pending_review" ELSE letters[j]]

NextStreak(j) ==
    IF ~IsPrioritized(j) THEN 0
    ELSE IF streak < StandardTurn THEN streak + 1 ELSE streak

-----------------------------------------------------------------------------
(* Admission *)

\* Creation times are only compared within a priority, so they count there.
NewRow(j) ==
    [AbsentRow EXCEPT
        !.status = "queued", !.next_attempt = "now", !.queue_expiry = "pending",
        !.created_at = Cardinality({k \in Job \ With("absent") :
                                       PriorityOf[k] = PriorityOf[j]}) + 1]

\* Faulty: the running job of the owner is not counted.
HasOwnerQueueCapacity(j) ==
    Cardinality(OwnedBy(OwnerOf[j], "queued")) < OwnerQueuedLimit

HasOwnerCapacity(j) ==
    LET o == OwnerOf[j] IN
    IF j \in PreviewJob
    THEN OwnedBy(o, "running") \cup OwnedBy(o, "queued") = {}
    ELSE /\ OwnedBy(o, "running") = {}
         /\ Cardinality(OwnedBy(o, "queued")) < OwnerQueuedLimit

HasAccountCapacity(j) ==
    j \in CommercialJob =>
        /\ Cardinality(BilledTo(AccountOf[j], "running")) < AccountRunningLimit
        /\ Cardinality(BilledTo(AccountOf[j], "queued")) < AccountQueuedLimit

HasGlobalCapacity(j) ==
    /\ Cardinality(With("queued")) < GlobalQueueLimit
    /\ j \in AnalysisJob =>
           Cardinality(With("queued") \cap AnalysisJob) < AnalysisQueueLimit

\* Submission of a new idempotency key; a repeated key finds the row (status
\* is no longer "absent") and changes nothing.  Rate limits, the quote and the
\* wait estimate may refuse a submission, which changes nothing either.
AdmitJob(j) ==
    /\ jobs[j].status = "absent"
    /\ HasGlobalCapacity(j)
    /\ HasOwnerCapacity(j)
    /\ HasAccountCapacity(j)
    /\ jobs' = [jobs EXCEPT ![j] = NewRow(j)]
    /\ holds' = [holds EXCEPT ![j] =
                    [r \in Resource |-> IF r \in Needs[j] THEN "reserved" ELSE "none"]]
    /\ UNCHANGED <<attempts, letters, replayedAs, streak, live>>

-----------------------------------------------------------------------------
(* Dispatch; every claim locks the dispatch_state row first *)

\* Faulty: the owner's running job does not hold back the next one.
ClaimableBesideRunning(j) ==
    /\ jobs[j].status = "queued"
    /\ ~jobs[j].cancel_requested
    /\ jobs[j].failure_count < MaxFailures
    /\ jobs[j].next_attempt # "later"

\* Faulty: a job beyond its hard timeout is not worth another attempt.
ClaimableBeforeDeadline(j) ==
    /\ ClaimableBesideRunning(j)
    /\ OwnedBy(OwnerOf[j], "running") = {}
    /\ jobs[j].started # "overtime"

Claimable(j) ==
    /\ jobs[j].status = "queued"
    /\ ~jobs[j].cancel_requested
    /\ jobs[j].failure_count < MaxFailures
    /\ jobs[j].next_attempt # "later"
    /\ OwnedBy(OwnerOf[j], "running") = {}
    /\ j \in CommercialJob =>
           Cardinality(BilledTo(AccountOf[j], "running")) < AccountRunningLimit

\* order by priority desc, created_at asc; creation times are distinct here.
Before(j, k) ==
    \/ PriorityOf[j] > PriorityOf[k]
    \/ PriorityOf[j] = PriorityOf[k] /\ jobs[j].created_at < jobs[k].created_at

\* After StandardTurn prioritized claims in a row a standard job goes first.
DispatchedBefore(j, k) ==
    IF streak >= StandardTurn /\ (IsStandard(j) # IsStandard(k))
    THEN IsStandard(j)
    ELSE Before(j, k)

BeginAttempt(j, w) ==
    Append(attempts[j], [worker |-> w, status |-> "running"])

ClaimNextJob(w, j) ==
    /\ ~HasHigherPriorityPeer(w)
    /\ Cardinality(With("running")) < MaxGlobalRunning
    /\ Claimable(j)
    /\ \A k \in Job \ {j} : Claimable(k) => DispatchedBefore(j, k)
    /\ jobs' = [jobs EXCEPT ![j] = Claimed(@, w)]
    /\ attempts' = [attempts EXCEPT ![j] = BeginAttempt(j, w)]
    /\ streak' = NextStreak(j)
    /\ UNCHANGED <<holds, letters, replayedAs, live>>

EffectiveCapacity ==
    LET running == Cardinality(With("running"))
        registered == IF RegisteredConcurrency > 0 THEN RegisteredConcurrency
                      ELSE IF running > 1 THEN running ELSE 1
    IN IF registered < MaxGlobalRunning THEN registered ELSE MaxGlobalRunning

PaidCandidate(j) ==
    Claimable(j) /\ ~IsFree(j) /\ jobs[j].next_attempt = "waited"

\* The victim is any free running job of this worker: the runner leaves the
\* attempts it is already settling out of candidateJobIds.
PreemptFreeJobForPaid(w, paid, victim) ==
    /\ CurrentAttempt(victim) < AttemptBound
    /\ ~HasHigherPriorityPeer(w)
    /\ Cardinality(With("running")) >= EffectiveCapacity
    /\ PaidCandidate(paid)
    /\ \A k \in Job \ {paid} : PaidCandidate(k) => Before(paid, k)
    /\ Owns(victim, CurrentAttempt(victim), w)
    /\ IsFree(victim)
    /\ ~jobs[victim].cancel_requested
    /\ jobs' = [jobs EXCEPT
          ![victim] = [Requeued(@, "now") EXCEPT !.queue_expiry = "none",
                                                 !.started = "none"],
          ![paid] = Claimed(@, w)]
    /\ attempts' = [attempts EXCEPT
          ![victim] = Ended(victim, CurrentAttempt(victim), "interrupted"),
          ![paid] = BeginAttempt(paid, w)]
    /\ streak' = NextStreak(paid)
    /\ UNCHANGED <<holds, letters, replayedAs, live>>

-----------------------------------------------------------------------------
(* Calls of the worker that holds attempt a of job j *)

\* Renews the lease, an expired one too as long as nobody recovered the job.
HeartbeatAttempt(j, a, w) ==
    /\ Settles(j, a, w)
    /\ jobs' = [jobs EXCEPT ![j].lease = "held"]
    /\ UNCHANGED <<attempts, holds, letters, replayedAs, streak, live>>

CompleteAttempt(j, a, w) ==
    /\ Settles(j, a, w)
    /\ jobs' = [jobs EXCEPT ![j] = Unlocked(@, "succeeded")]
    /\ attempts' = [attempts EXCEPT ![j] = Ended(j, a, "succeeded")]
    /\ holds' = [holds EXCEPT ![j] = Resolve(@, "consumed")]
    /\ UNCHANGED <<letters, replayedAs, streak, live>>

\* failAttempt, and completeAttempt with a result that does not parse.
FailAttempt(j, a, w) ==
    /\ Settles(j, a, w)
    /\ jobs' = [jobs EXCEPT ![j] = Failed(@, "failed")]
    /\ attempts' = [attempts EXCEPT ![j] = Ended(j, a, "failed")]
    /\ ReleaseHolds({j})
    /\ UNCHANGED <<letters, replayedAs, streak, live>>

\* Faulty: the two budgets are swapped.
RetryBudgetSwapped(kind) == IF kind = "timed_out" THEN MaxFailures ELSE 1

\* The runner passes maxFailures = 1 for a timed out attempt.
RetryBudget(kind) == IF kind = "timed_out" THEN 1 ELSE MaxFailures

RetryFailedAttempt(j, a, w, kind) ==
    /\ Settles(j, a, w)
    /\ LET row == Retried(jobs[j], RetryBudget(kind))
            dead == {k \in {j} : row.status = "dead_lettered"}
       IN /\ jobs' = [jobs EXCEPT ![j] = row]
          /\ ReleaseHolds(dead)
          /\ CreateLetters(dead)
    /\ attempts' = [attempts EXCEPT ![j] = Ended(j, a, kind)]
    /\ UNCHANGED <<replayedAs, streak, live>>

\* Shutdown gives the job back, or cancels it when that was requested.
ReleaseInterruptedAttempt(j, a, w) ==
    /\ a < AttemptBound
    /\ Issued(j, a, w)
    /\ Owns(j, a, w)
    /\ IF jobs[j].cancel_requested
       THEN /\ jobs' = [jobs EXCEPT ![j] = CancelledRow(@)]
            /\ attempts' = [attempts EXCEPT ![j] = Ended(j, a, "cancelled")]
            /\ ReleaseHolds({j})
       ELSE /\ jobs' = [jobs EXCEPT ![j] =
                           [Requeued(@, "now") EXCEPT !.queue_expiry = "none"]]
            /\ attempts' = [attempts EXCEPT ![j] = Ended(j, a, "interrupted")]
            /\ UNCHANGED holds
    /\ UNCHANGED <<letters, replayedAs, streak, live>>

CancelAttempt(j, a, w) ==
    /\ Issued(j, a, w)
    /\ Owns(j, a, w)
    /\ jobs[j].cancel_requested
    /\ jobs' = [jobs EXCEPT ![j] = CancelledRow(@)]
    /\ attempts' = [attempts EXCEPT ![j] = Ended(j, a, "cancelled")]
    /\ ReleaseHolds({j})
    /\ UNCHANGED <<letters, replayedAs, streak, live>>

-----------------------------------------------------------------------------
(* The user *)

RequestCancelQueued(j) ==
    /\ jobs[j].status = "queued"
    /\ jobs' = [jobs EXCEPT ![j] =
                   [CancelledRow(@) EXCEPT !.cancel_requested = TRUE]]
    /\ ReleaseHolds({j})
    /\ UNCHANGED <<attempts, letters, replayedAs, streak, live>>

RequestCancelRunning(j) ==
    /\ jobs[j].status = "running"
    /\ ~jobs[j].cancel_requested
    /\ jobs' = [jobs EXCEPT ![j].cancel_requested = TRUE]
    /\ UNCHANGED <<attempts, holds, letters, replayedAs, streak, live>>

RequestCancel(j) == RequestCancelQueued(j) \/ RequestCancelRunning(j)

-----------------------------------------------------------------------------
(* The deletion of an account *)

JobsOf(u) == {j \in Job : UserOf[j] = u}

\* requestAccountDeletion, the part that concerns jobs.  Its first statement
\* fails the running attempts of the user's jobs, its second ends the open jobs
\* themselves, whether their cancellation was requested or not.  The first
\* keeps every attempt it saw locked, so all that can happen to such a job in
\* between is a request to cancel it; but jobs it does not lock may be claimed.
\* Their attempts are missed: the second statement ends the job and leaves the
\* attempt running, until the user restores the account and asks again.  The
\* missed are any of the running jobs: how long the second statement waits for
\* its locks, and so what became of them since the claim, is open.
RequestAccountDeletion(u) ==
    LET due == {j \in JobsOf(u) : Active(j)} IN
    /\ \E j \in JobsOf(u) :
          \/ Active(j)
          \/ \E a \in DOMAIN attempts[j] : attempts[j][a].status = "running"
    /\ \E missed \in SUBSET {j \in due : jobs[j].status = "running"} :
          attempts' = [j \in Job |-> IF j \in JobsOf(u) \ missed
                                     THEN RunningEnded(j, "failed") ELSE attempts[j]]
    /\ jobs' = [j \in Job |-> IF j \in due THEN Withdrawn(jobs[j]) ELSE jobs[j]]
    /\ ReleaseHolds(due)
    /\ UNCHANGED <<letters, replayedAs, streak, live>>

-----------------------------------------------------------------------------
(* Queue maintenance.  recoverExpiredAttempts runs two statements; a cancel  *)
(* request may commit between them, so each is a step of its own.            *)

\* Faulty: only a lost lease counts, not the hard timeout.
AbandonedByLease(j) == jobs[j].status = "running" /\ jobs[j].lease = "expired"

Abandoned(j) ==
    /\ jobs[j].status = "running"
    /\ jobs[j].lease = "expired" \/ jobs[j].started = "overtime"

CancelDue(j) ==
    jobs[j].cancel_requested /\ (jobs[j].status = "queued" \/ Abandoned(j))

RecoverCancellations ==
    LET due == {j \in Job : CancelDue(j)} IN
    /\ due # {}
    /\ jobs' = [j \in Job |-> IF j \in due THEN CancelledRow(jobs[j]) ELSE jobs[j]]
    /\ attempts' = [j \in Job |->
          IF j \in due THEN RunningEnded(j, "cancelled") ELSE attempts[j]]
    /\ ReleaseHolds(due)
    /\ UNCHANGED <<letters, replayedAs, streak, live>>

RecoverDue(j) == Abandoned(j) /\ ~jobs[j].cancel_requested

RecoveryKind(j) ==
    IF jobs[j].started = "overtime" THEN "timed_out" ELSE "lease_lost"

RecoverExpiredAttempts ==
    LET due == {j \in Job : RecoverDue(j)}
        row(j) == Retried(jobs[j], RetryBudget(RecoveryKind(j)))
        dead == {j \in due : row(j).status = "dead_lettered"}
    IN
    /\ due # {}
    /\ jobs' = [j \in Job |-> IF j \in due THEN row(j) ELSE jobs[j]]
    /\ attempts' = [j \in Job |->
          IF j \in due THEN Ended(j, CurrentAttempt(j), RecoveryKind(j))
                       ELSE attempts[j]]
    /\ ReleaseHolds(dead)
    /\ CreateLetters(dead)
    /\ UNCHANGED <<replayedAs, streak, live>>

ExpireDue(j) ==
    /\ jobs[j].status = "queued"
    /\ jobs[j].attempt_count = 0
    /\ jobs[j].queue_expiry = "past"

ExpireQueuedJobs ==
    LET due == {j \in Job : ExpireDue(j)} IN
    /\ due # {}
    /\ jobs' = [j \in Job |->
          IF j \in due
          THEN [Unlocked(jobs[j], "failed") EXCEPT !.queue_expiry = "none"]
          ELSE jobs[j]]
    /\ ReleaseHolds(due)
    /\ UNCHANGED <<attempts, letters, replayedAs, streak, live>>

-----------------------------------------------------------------------------
(* Dead-letter review by an administrator *)

SameRequest(j, k) ==
    /\ OwnerOf[j] = OwnerOf[k]
    /\ AccountOf[j] = AccountOf[k]
    /\ UserOf[j] = UserOf[k]
    /\ PriorityOf[j] = PriorityOf[k]
    /\ (j \in PreviewJob) = (k \in PreviewJob)
    /\ (j \in AnalysisJob) = (k \in AnalysisJob)

\* The replay is a new row with the same request and no reservation; a billed
\* job (billing_json present) is never replayed.
ReplayDeadLetter(j, k) ==
    /\ letters[j] = "pending_review"
    /\ jobs[j].status = "dead_lettered"
    /\ AccountOf[j] = NoAccount
    /\ jobs[k].status = "absent"
    /\ SameRequest(j, k)
    /\ jobs' = [jobs EXCEPT ![k] = NewRow(k)]
    /\ letters' = [letters EXCEPT ![j] = "replayed"]
    /\ replayedAs' = [replayedAs EXCEPT ![j] = k]
    /\ UNCHANGED <<attempts, holds, streak, live>>

DiscardLetters(S) ==
    /\ letters' = [j \in Job |-> IF j \in S THEN "discarded" ELSE letters[j]]
    /\ UNCHANGED <<jobs, attempts, holds, replayedAs, streak, live>>

PendingReview == {j \in Job : letters[j] = "pending_review"}

DiscardDeadLetter(j) == j \in PendingReview /\ DiscardLetters({j})

DiscardAllDeadLetters == PendingReview # {} /\ DiscardLetters(PendingReview)

-----------------------------------------------------------------------------
(* Worker registration *)

RegisterWorker(w) ==
    /\ w \notin live
    /\ live' = live \cup {w}
    /\ UNCHANGED <<jobs, attempts, holds, letters, replayedAs, streak>>

\* The worker drains or stops, or its row is not refreshed in time.
LeaveRegistry(w) ==
    /\ w \in live
    /\ live' = live \ {w}
    /\ UNCHANGED <<jobs, attempts, holds, letters, replayedAs, streak>>

-----------------------------------------------------------------------------
(* The clock *)

\* The times of an ended job are not read any more.
Ticks(j, column, from, to) ==
    /\ Active(j)
    /\ jobs[j][column] = from
    /\ jobs' = [jobs EXCEPT ![j][column] = to]
    /\ UNCHANGED <<attempts, holds, letters, replayedAs, streak, live>>

LeaseExpires(j) == Ticks(j, "lease", "held", "expired")

RetryTimeComes(j) == Ticks(j, "next_attempt", "later", "now")

\* The preemption grace is read of paid rows only.
GraceElapses(j) == ~IsFree(j) /\ Ticks(j, "next_attempt", "now", "waited")

HardTimeoutElapses(j) == Ticks(j, "started", "within", "overtime")

QueueExpiryComes(j) == Ticks(j, "queue_expiry", "pending", "past")

TimePasses(j) ==
    \/ LeaseExpires(j)
    \/ RetryTimeComes(j)
    \/ GraceElapses(j)
    \/ HardTimeoutElapses(j)
    \/ QueueExpiryComes(j)

-----------------------------------------------------------------------------
(* Specification *)

Init ==
    /\ jobs = [j \in Job |-> AbsentRow]
    /\ attempts = [j \in Job |-> <<>>]
    /\ holds = [j \in Job |-> [r \in Resource |-> "none"]]
    /\ letters = [j \in Job |-> "none"]
    /\ replayedAs = [j \in Job |-> NoJob]
    /\ streak = 0
    /\ live = {}

WorkerCall(j, a, w) ==
    \/ HeartbeatAttempt(j, a, w)
    \/ CompleteAttempt(j, a, w)
    \/ FailAttempt(j, a, w)
    \/ \E kind \in RetryKind : RetryFailedAttempt(j, a, w, kind)
    \/ ReleaseInterruptedAttempt(j, a, w)
    \/ CancelAttempt(j, a, w)

Dispatch(w) ==
    \/ \E j \in Job : ClaimNextJob(w, j)
    \/ \E paid, victim \in Job : PreemptFreeJobForPaid(w, paid, victim)

Maintenance ==
    RecoverCancellations \/ RecoverExpiredAttempts \/ ExpireQueuedJobs

RegistryStep(w) == RegisterWorker(w) \/ LeaveRegistry(w)

Next ==
    \/ \E j \in Job : AdmitJob(j) \/ RequestCancel(j) \/ DiscardDeadLetter(j)
    \/ \E j, k \in Job : ReplayDeadLetter(j, k)
    \/ DiscardAllDeadLetters
    \/ \E u \in Account : RequestAccountDeletion(u)
    \/ \E w \in Worker : Dispatch(w) \/ RegistryStep(w)
    \/ \E j \in Job, w \in Worker : \E a \in DOMAIN attempts[j] : WorkerCall(j, a, w)
    \/ Maintenance
    \/ \E j \in Job : TimePasses(j)

Spec == Init /\ [][Next]_vars

\* Fairness the deployment provides: time passes, the maintenance worker of the
\* API process runs every minute, live workers poll for work every second.
Fairness ==
    /\ \A j \in Job : /\ WF_vars(RetryTimeComes(j))
                      /\ WF_vars(HardTimeoutElapses(j))
                      /\ WF_vars(QueueExpiryComes(j))
    /\ WF_vars(RecoverCancellations)
    /\ WF_vars(RecoverExpiredAttempts)
    /\ WF_vars(ExpireQueuedJobs)
    /\ SF_vars(\E w \in Worker, j \in Job : ClaimNextJob(w, j))

FairSpec == Spec /\ Fairness

-----------------------------------------------------------------------------
(* Properties *)

Terminal(j) == jobs[j].status \in TerminalStatus
IsReplay(k) == \E j \in Job : replayedAs[j] = k

\* Every variable keeps its type: rows, attempts, reservations, letters.
TypeOK ==
    /\ jobs \in [Job -> JobRow]
    /\ attempts \in [Job -> Seq(Attempt)]
    /\ holds \in [Job -> [Resource -> HoldStatus]]
    /\ letters \in [Job -> LetterStatus]
    /\ replayedAs \in [Job -> Job \cup {NoJob}]
    /\ streak \in 0..StandardTurn
    /\ live \subseteq Worker

\* A running job has exactly one running attempt, its newest, held by the
\* worker on the row under a lease; no other job has a lock.  Claim, preemption,
\* every settlement, both recovery statements and the deletion of an account
\* must keep the two tables in step.  An attempt only ever runs without its job
\* running when the deletion of the account missed it, and then it is the newest.
RunningAttemptMatchesRow ==
    \A j \in Job :
        /\ jobs[j].attempt_count = Len(attempts[j])
        /\ \A a \in DOMAIN attempts[j] :
              attempts[j][a].status = "running" =>
                  jobs[j].status \in {"running", "withdrawn"} /\ a = Len(attempts[j])
        /\ IF jobs[j].status = "running"
           THEN /\ Len(attempts[j]) > 0
                /\ attempts[j][Len(attempts[j])].status = "running"
                /\ jobs[j].worker_id = attempts[j][Len(attempts[j])].worker
                /\ jobs[j].lease # "none"
                /\ jobs[j].started # "none"
           ELSE jobs[j].worker_id = NoWorker /\ jobs[j].lease = "none"

\* What a job holds is reserved while the job is open, consumed exactly when it
\* succeeded and given back on every other end, whichever of the ten paths
\* ended it: no user pays for a failed job or keeps points locked by a dead one.
ReservationFollowsJob ==
    \A j \in Job, r \in Resource :
        /\ Active(j) => holds[j][r] \in {"none", "reserved"}
        /\ jobs[j].status = "succeeded" => holds[j][r] \in {"none", "consumed"}
        /\ Terminal(j) /\ jobs[j].status # "succeeded" =>
              holds[j][r] \in {"none", "released"}
        /\ (jobs[j].status # "absent" /\ ~IsReplay(j)) =>
              (holds[j][r] = "none" <=> r \notin Needs[j])

\* One running job per owner, AccountRunningLimit per commercial account and
\* MaxGlobalRunning overall, although claims come from several processes and
\* preemption claims one job while it requeues another.
ConcurrencyLimits ==
    /\ \A o \in Owner : Cardinality(OwnedBy(o, "running")) <= 1
    /\ \A acct \in Account :
          Cardinality(BilledTo(acct, "running") \cap CommercialJob)
              <= AccountRunningLimit
    /\ Cardinality(With("running")) <= MaxGlobalRunning

\* A queued job can always be claimed again later: it is not cancelled, its
\* failures are below the limit of claimNextJob and it has a next attempt.  A
\* row requeued without one of these would wait forever, because queue expiry
\* only covers jobs that were never attempted.
QueuedJobsStayClaimable ==
    \A j \in Job : jobs[j].status = "queued" =>
        /\ ~jobs[j].cancel_requested
        /\ jobs[j].failure_count < MaxFailures
        /\ jobs[j].next_attempt # "none"
        /\ jobs[j].attempt_count = 0 => jobs[j].queue_expiry # "none"

\* failure_count counts the failed, timed out and lost attempts and nothing
\* else: a shutdown or a preemption never eats the retry budget.  Only the
\* attempt that the deletion of the account failed is not counted.
FailureBudgetCountsFailures ==
    \A j \in Job :
        LET uncounted == Cardinality({a \in DOMAIN attempts[j] :
                            attempts[j][a].status \in FailedAttemptStatus})
                         - jobs[j].failure_count
        IN /\ uncounted \in {0, 1}
           /\ uncounted = 1 => jobs[j].status = "withdrawn"

\* A job is dead-lettered exactly when it has a letter, and only a replayed
\* letter names a new job, each replay its own.
DeadLettersMatchJobs ==
    /\ \A j \in Job :
          /\ letters[j] # "none" <=> jobs[j].status = "dead_lettered"
          /\ letters[j] = "replayed" <=> replayedAs[j] # NoJob
    /\ \A i, j \in Job : replayedAs[i] = replayedAs[j] /\ i # j => replayedAs[i] = NoJob

\* Retries, preemption and shutdown put running jobs back into the queue of an
\* owner; the owner still never has more open jobs than admission allows to
\* queue, replays by an administrator aside.
OwnerBacklogBounded ==
    \A o \in Owner :
        Cardinality({j \in OwnedBy(o, "queued") \cup OwnedBy(o, "running") :
                        ~IsReplay(j)}) <= OwnerQueuedLimit

\* A late call of a worker whose attempt was recovered, preempted or cancelled
\* changes nothing: finished jobs, their reservations and finished attempts
\* stay as they are.
FinishedStaysFinished ==
    [][\A j \in Job :
          /\ Terminal(j) => /\ jobs'[j].status = jobs[j].status
                            /\ holds'[j] = holds[j]
          /\ \A a \in DOMAIN attempts[j] :
                attempts[j][a].status # "running" =>
                    a \in DOMAIN attempts'[j] /\ attempts'[j][a] = attempts[j][a]]_vars

\* Once the user asked for cancellation the job can only become cancelled, even
\* if a result, a failure, a preemption or a lost lease arrives first.  The one
\* thing that still overtakes the request is the deletion of the account.
CancelRequestWins ==
    [][\A j \in Job :
          jobs[j].cancel_requested /\ jobs'[j].status # jobs[j].status =>
              jobs'[j].status \in {"cancelled", "withdrawn"}]_vars

\* A job that leaves its worker says why in the attempt it ends: success only
\* with a succeeded attempt, a requeue without a failure only with an
\* interrupted one, a dead letter only after a timeout or a spent budget.  Where
\* the deletion of the account missed the attempt, it still runs.
OutcomeMatchesAttempt ==
    [][\A j \in Job :
          jobs[j].status = "running" /\ jobs'[j].status # "running" =>
              LET ended == attempts'[j][Len(attempts[j])].status
                  new == jobs'[j] IN
              /\ new.status = "succeeded" <=> ended = "succeeded"
              /\ new.status = "cancelled" <=> ended = "cancelled"
              /\ ended = "interrupted" =>
                    /\ new.status = "queued"
                    /\ new.failure_count = jobs[j].failure_count
              /\ new.status = "dead_lettered" =>
                    ended = "timed_out" \/ new.failure_count >= MaxFailures]_vars

\* Every accepted job ends, whatever workers, users and leases do.
EveryJobEnds == \A j \in Job : Active(j) ~> Terminal(j)

\* A requested cancellation is carried out even if the worker that should do it
\* died or keeps the lease alive, unless the account is deleted before.
CancelRequestIsHonoured ==
    \A j \in Job :
        jobs[j].cancel_requested ~> jobs[j].status \in {"cancelled", "withdrawn"}

-----------------------------------------------------------------------------
(* The store implements JobSettlement *)

OutcomeOf(status) ==
    CASE status = "absent" -> "none"
      [] status \in {"queued", "running"} -> "open"
      [] status = "succeeded" -> "delivered"
      [] OTHER -> "abandoned"

HeldAs(j, status) == {r \in Resource : holds[j][r] = status}

Settlement == INSTANCE JobSettlement WITH
    outcome <- [j \in Job |-> OutcomeOf(jobs[j].status)],
    reserved <- [j \in Job |-> HeldAs(j, "reserved")],
    spent <- [j \in Job |-> HeldAs(j, "consumed")],
    reopenedAs <- replayedAs

\* Behind all attempts, leases and retries a submission is a simple thing: its
\* resources are spent in the step that delivers it or given back in the step
\* that abandons it, and a dead letter is replayed at most once and never for
\* a submission paid from a balance.
ImplementsSettlement == Settlement!Spec
=============================================================================
