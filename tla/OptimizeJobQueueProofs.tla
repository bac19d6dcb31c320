---------------------- MODULE OptimizeJobQueueProofs ----------------------
(***************************************************************************)
(* Proofs about OptimizeJobQueue for every finite set of jobs and every     *)
(* choice of workers, owners, limits and budgets.                           *)
(***************************************************************************)
EXTENDS OptimizeJobQueue, SequenceTheorems, FiniteSetTheorems, TLAPS

-----------------------------------------------------------------------------
(* Rows *)

\* A row agrees with the attempts of its job; only a withdrawn job may have a
\* running attempt without running itself.
RowMatches(row, att) ==
    /\ row.attempt_count = Len(att)
    /\ \A a \in DOMAIN att :
          att[a].status = "running" =>
              row.status \in {"running", "withdrawn"} /\ a = Len(att)
    /\ IF row.status = "running"
       THEN /\ Len(att) > 0
            /\ att[Len(att)].status = "running"
            /\ row.worker_id = att[Len(att)].worker
            /\ row.lease # "none"
            /\ row.started # "none"
       ELSE row.worker_id = NoWorker /\ row.lease = "none"

\* A row that left its worker keeps its type, is unlocked and keeps its counters.
LEMMA UnlockedRow ==
    ASSUME NEW row \in JobRow, NEW s \in JobStatus
    PROVE  /\ Unlocked(row, s) \in JobRow
           /\ Unlocked(row, s).status = s
           /\ Unlocked(row, s).worker_id = NoWorker
           /\ Unlocked(row, s).lease = "none"
           /\ Unlocked(row, s).attempt_count = row.attempt_count
           /\ Unlocked(row, s).failure_count = row.failure_count
           /\ Unlocked(row, s).cancel_requested = row.cancel_requested
  BY DEF JobRow, Unlocked

\* The same of a requeued row.
LEMMA RequeuedRow ==
    ASSUME NEW row \in JobRow, NEW when \in {"later", "now"}
    PROVE  /\ Requeued(row, when) \in JobRow
           /\ Requeued(row, when).status = "queued"
           /\ Requeued(row, when).worker_id = NoWorker
           /\ Requeued(row, when).lease = "none"
           /\ Requeued(row, when).attempt_count = row.attempt_count
           /\ Requeued(row, when).failure_count = row.failure_count
           /\ Requeued(row, when).cancel_requested = row.cancel_requested
  <1>1. "queued" \in JobStatus
    BY DEF JobStatus
  <1>2. QED
    BY <1>1, UnlockedRow DEF JobRow, Requeued

\* The same of a failed row, whose failure was counted.
LEMMA FailedRow ==
    ASSUME NEW row \in JobRow, NEW s \in TerminalStatus
    PROVE  /\ Failed(row, s) \in JobRow
           /\ Failed(row, s).status = s
           /\ Failed(row, s).worker_id = NoWorker
           /\ Failed(row, s).lease = "none"
           /\ Failed(row, s).attempt_count = row.attempt_count
           /\ Failed(row, s).failure_count = row.failure_count + 1
           /\ Failed(row, s).cancel_requested = row.cancel_requested
  <1>1. s \in JobStatus
    BY DEF JobStatus
  <1>2. QED
    BY <1>1, UnlockedRow DEF JobRow, Failed

\* A retried row is queued again or dead-lettered, never running.
LEMMA RetriedRow ==
    ASSUME NEW row \in JobRow, NEW budget \in Nat
    PROVE  /\ Retried(row, budget) \in JobRow
           /\ Retried(row, budget).status \in {"queued", "dead_lettered"}
           /\ Retried(row, budget).worker_id = NoWorker
           /\ Retried(row, budget).lease = "none"
           /\ Retried(row, budget).attempt_count = row.attempt_count
           /\ Retried(row, budget).failure_count = row.failure_count + 1
           /\ Retried(row, budget).cancel_requested = row.cancel_requested
  <1>1. CASE row.failure_count + 1 >= budget
    <2>1. Retried(row, budget) = Failed(row, "dead_lettered")
      BY <1>1 DEF Retried
    <2>2. QED
      BY <2>1, FailedRow DEF TerminalStatus
  <1>2. CASE ~(row.failure_count + 1 >= budget)
    <2>1. Retried(row, budget) =
            [Requeued(row, "later") EXCEPT !.failure_count = @ + 1]
      BY <1>2 DEF Retried
    <2>2. QED
      BY <2>1, RequeuedRow DEF JobRow
  <1>3. QED
    BY <1>1, <1>2

\* A cancelled row.
LEMMA CancelledRowFacts ==
    ASSUME NEW row \in JobRow
    PROVE  /\ CancelledRow(row) \in JobRow
           /\ CancelledRow(row).status = "cancelled"
           /\ CancelledRow(row).worker_id = NoWorker
           /\ CancelledRow(row).lease = "none"
           /\ CancelledRow(row).attempt_count = row.attempt_count
  <1>1. "cancelled" \in JobStatus
    BY DEF JobStatus, TerminalStatus
  <1>2. QED
    BY <1>1, UnlockedRow DEF JobRow, CancelledRow

\* A withdrawn row is unlocked and keeps its counters and the request to cancel.
LEMMA WithdrawnRow ==
    ASSUME NEW row \in JobRow
    PROVE  /\ Withdrawn(row) \in JobRow
           /\ Withdrawn(row).status = "withdrawn"
           /\ Withdrawn(row).worker_id = NoWorker
           /\ Withdrawn(row).lease = "none"
           /\ Withdrawn(row).attempt_count = row.attempt_count
           /\ Withdrawn(row).failure_count = row.failure_count
  BY DEF JobRow, Withdrawn, JobStatus, TerminalStatus

\* A claimed row is locked by its worker and counts one more attempt.
LEMMA ClaimedRow ==
    ASSUME NEW row \in JobRow, NEW w \in Worker
    PROVE  /\ Claimed(row, w) \in JobRow
           /\ Claimed(row, w).status = "running"
           /\ Claimed(row, w).worker_id = w
           /\ Claimed(row, w).lease = "held"
           /\ Claimed(row, w).started # "none"
           /\ Claimed(row, w).attempt_count = row.attempt_count + 1
  <1> DEFINE locked == Locked(row, w)
             st == IF locked.started = "none" THEN "within" ELSE locked.started
  <1>1. "running" \in JobStatus
    BY DEF JobStatus
  <1>2. /\ locked \in JobRow
        /\ locked.status = "running" /\ locked.worker_id = w
        /\ locked.lease = "held"
        /\ locked.attempt_count = row.attempt_count + 1
    <2> DEFINE n == row.attempt_count + 1
    <2>1. n \in Nat /\ w \in Worker \cup {NoWorker}
      BY DEF JobRow
    <2>2. locked = [row EXCEPT !.status = "running", !.attempt_count = n,
                               !.worker_id = w, !.lease = "held"]
      BY DEF Locked
    <2> HIDE DEF n, locked
    <2>3. locked \in JobRow
      BY <1>1, <2>1, <2>2 DEF JobRow
    <2>4. /\ locked.status = "running" /\ locked.worker_id = w
          /\ locked.lease = "held" /\ locked.attempt_count = n
      BY <2>2 DEF JobRow
    <2>5. QED
      BY <2>3, <2>4 DEF n
  <1>3. Claimed(row, w) = [locked EXCEPT !.next_attempt = "none",
                                        !.queue_expiry = "none", !.started = st]
    BY DEF Claimed
  <1> HIDE DEF locked
  <1>4. st \in {"within", "overtime"}
    BY <1>2 DEF JobRow
  <1> HIDE DEF st
  <1>5. QED
    BY <1>2, <1>3, <1>4 DEF JobRow

-----------------------------------------------------------------------------
(* Attempts *)

\* Ending an attempt changes its status and no other attempt.
LEMMA EndedAttempt ==
    ASSUME NEW att \in Seq(Attempt), NEW a \in DOMAIN att, NEW s \in AttemptStatus
    PROVE  LET e == [att EXCEPT ![a].status = s] IN
           /\ e \in Seq(Attempt)
           /\ Len(e) = Len(att)
           /\ DOMAIN e = DOMAIN att
           /\ e[a].status = s
           /\ e[a].worker = att[a].worker
           /\ \A b \in DOMAIN att : b # a => e[b] = att[b]
  <1>1. a \in 1..Len(att) /\ att[a] \in Attempt
    BY LenProperties, ElementOfSeq
  <1>2. [att[a] EXCEPT !.status = s] \in Attempt
    BY <1>1 DEF Attempt
  <1>3. [att EXCEPT ![a].status = s] = [att EXCEPT ![a] = [att[a] EXCEPT !.status = s]]
    OBVIOUS
  <1>4. [att[a] EXCEPT !.status = s].status = s /\ [att[a] EXCEPT !.status = s].worker = att[a].worker
    BY <1>1 DEF Attempt
  <1>5. QED
    <2> DEFINE new == [att[a] EXCEPT !.status = s]
    <2>1. new \in Attempt /\ new.status = s /\ new.worker = att[a].worker
      BY <1>2, <1>4
    <2> HIDE DEF new
    <2>2. /\ [att EXCEPT ![a] = new] \in Seq(Attempt)
          /\ Len([att EXCEPT ![a] = new]) = Len(att)
          /\ \A b \in 1..Len(att) :
                [att EXCEPT ![a] = new][b] = IF b = a THEN new ELSE att[b]
      BY <1>1, <2>1, ExceptSeq
    <2>3. DOMAIN att = 1..Len(att) /\ DOMAIN [att EXCEPT ![a] = new] = 1..Len(att)
      BY <2>2, LenProperties
    <2>4. QED
      BY <1>1, <1>3, <2>1, <2>2, <2>3 DEF new

\* Ending what runs changes nothing else, and nothing runs afterwards.
LEMMA RunningEndedAttempts ==
    ASSUME NEW j \in Job, attempts[j] \in Seq(Attempt), NEW s \in AttemptStatus \ {"running"}
    PROVE  LET e == RunningEnded(j, s) IN
           /\ e \in Seq(Attempt)
           /\ Len(e) = Len(attempts[j])
           /\ DOMAIN e = DOMAIN attempts[j]
           /\ \A a \in DOMAIN attempts[j] :
                 /\ e[a].status # "running"
                 /\ attempts[j][a].status = "running" => e[a].status = s
                 /\ attempts[j][a].status # "running" => e[a] = attempts[j][a]
  <1> DEFINE att == attempts[j]
             e == RunningEnded(j, s)
  <1>1. /\ DOMAIN att = 1..Len(att) /\ Len(att) \in Nat
        /\ \A a \in DOMAIN att : att[a] \in Attempt
    BY LenProperties, ElementOfSeq
  <1>2. e = [a \in DOMAIN att |-> IF att[a].status = "running"
                                  THEN [att[a] EXCEPT !.status = s] ELSE att[a]]
    BY DEF RunningEnded
  <1> HIDE DEF e, att
  <1>3. DOMAIN e = DOMAIN att
    BY <1>2
  <1>4. ASSUME NEW a \in DOMAIN att
        PROVE  /\ e[a] \in Attempt
               /\ e[a].status # "running"
               /\ att[a].status = "running" => e[a].status = s
               /\ att[a].status # "running" => e[a] = att[a]
    <2>1. att[a] \in Attempt /\ e[a] = IF att[a].status = "running"
                                       THEN [att[a] EXCEPT !.status = s] ELSE att[a]
      BY <1>1, <1>2
    <2>2. [att[a] EXCEPT !.status = s] \in Attempt /\ [att[a] EXCEPT !.status = s].status = s
      BY <2>1 DEF Attempt
    <2>3. QED
      BY <2>1, <2>2
  <1>5. e \in Seq(Attempt) /\ Len(e) = Len(att)
    <2>1. e \in [1..Len(att) -> Attempt]
      <3>1. e = [a \in 1..Len(att) |-> e[a]]
        BY <1>1, <1>2
      <3>2. QED
        BY <1>1, <1>4, <3>1
    <2>2. e \in Seq(Attempt)
      BY <1>1, <2>1, SeqDef
    <2>3. QED
      BY <1>1, <1>3, <2>2, LenProperties
  <1>6. QED
    BY <1>3, <1>4, <1>5 DEF e, att

\* A claim appends a running attempt.
LEMMA BegunAttempt ==
    ASSUME NEW att \in Seq(Attempt), NEW w \in Worker
    PROVE  LET e == Append(att, [worker |-> w, status |-> "running"]) IN
           /\ e \in Seq(Attempt)
           /\ Len(e) = Len(att) + 1
           /\ DOMAIN e = 1..(Len(att) + 1)
           /\ e[Len(att) + 1] = [worker |-> w, status |-> "running"]
           /\ \A b \in DOMAIN att : e[b] = att[b]
  <1>1. [worker |-> w, status |-> "running"] \in Attempt
    BY DEF Attempt, AttemptStatus
  <1>2. QED
    BY <1>1, LenProperties

-----------------------------------------------------------------------------
(* What the three kinds of step do to a row and its attempts *)

\* A claim keeps them in step.
LEMMA ClaimMatches ==
    ASSUME NEW row \in JobRow, NEW att \in Seq(Attempt), NEW w \in Worker,
           RowMatches(row, att), row.status = "queued"
    PROVE  RowMatches(Claimed(row, w),
                      Append(att, [worker |-> w, status |-> "running"]))
  <1> DEFINE e == Append(att, [worker |-> w, status |-> "running"])
             new == Claimed(row, w)
  <1>1. /\ Len(e) = Len(att) + 1
        /\ DOMAIN e = 1..(Len(att) + 1)
        /\ e[Len(att) + 1] = [worker |-> w, status |-> "running"]
        /\ \A b \in DOMAIN att : e[b] = att[b]
    BY BegunAttempt
  <1>2. /\ new.status = "running" /\ new.worker_id = w
        /\ new.lease = "held" /\ new.started # "none"
        /\ new.attempt_count = row.attempt_count + 1
    BY ClaimedRow
  <1>3. Len(att) \in Nat /\ DOMAIN att = 1..Len(att)
    BY LenProperties
  <1> HIDE DEF e, new
  <1>4. \A a \in DOMAIN e : e[a].status = "running" <=> a = Len(e)
    BY <1>1, <1>3 DEF RowMatches
  <1>5. RowMatches(new, e)
    BY <1>1, <1>2, <1>3, <1>4 DEF RowMatches
  <1>6. QED
    BY <1>5 DEF e, new

\* A row that stops running together with its newest attempt.
LEMMA EndMatches ==
    ASSUME NEW row \in JobRow, NEW att \in Seq(Attempt), NEW new,
           NEW s \in AttemptStatus \ {"running"},
           RowMatches(row, att), row.status = "running",
           new.status # "running", new.worker_id = NoWorker, new.lease = "none",
           new.attempt_count = row.attempt_count
    PROVE  RowMatches(new, [att EXCEPT ![row.attempt_count].status = s])
  <1> DEFINE a == row.attempt_count
             e == [att EXCEPT ![a].status = s]
  <1>1. a \in DOMAIN att /\ a = Len(att)
    BY LenProperties DEF RowMatches
  <1>2. /\ Len(e) = Len(att)
        /\ DOMAIN e = DOMAIN att
        /\ e[a].status = s
        /\ \A b \in DOMAIN att : b # a => e[b] = att[b]
    BY <1>1, EndedAttempt
  <1> HIDE DEF e
  <1>3. QED
    BY <1>1, <1>2 DEF RowMatches, e

\* A row that waited and does not run, with the same attempts.
LEMMA IdleMatches ==
    ASSUME NEW row, NEW att, NEW new,
           RowMatches(row, att), row.status = "queued",
           new.status # "running", new.worker_id = NoWorker, new.lease = "none",
           new.attempt_count = row.attempt_count
    PROVE  RowMatches(new, att)
  BY DEF RowMatches

-----------------------------------------------------------------------------
(* The inductive invariant *)

RowsOK ==
    /\ jobs \in [Job -> JobRow]
    /\ attempts \in [Job -> Seq(Attempt)]
    /\ \A j \in Job : RowMatches(jobs[j], attempts[j])
    /\ \A j \in Job : jobs[j].status = "absent" => attempts[j] = <<>>

RestOK ==
    /\ holds \in [Job -> [Resource -> HoldStatus]]
    /\ letters \in [Job -> LetterStatus]
    /\ replayedAs \in [Job -> Job \cup {NoJob}]
    /\ streak \in 0..StandardTurn
    /\ live \subseteq Worker

IInv == RowsOK /\ RestOK

\* It implies the type invariant and the agreement of rows and attempts.
LEMMA IInvMeaning == IInv => TypeOK /\ RunningAttemptMatchesRow
  <1>1. RunningAttemptMatchesRow <=> \A j \in Job : RowMatches(jobs[j], attempts[j])
    BY DEF RunningAttemptMatchesRow, RowMatches
  <1>2. QED
    BY <1>1 DEF IInv, RowsOK, RestOK, TypeOK

\* Rewriting one row and its attempts keeps all rows well.
LEMMA OneRow ==
    ASSUME RowsOK, NEW j \in Job, NEW new \in JobRow, NEW att \in Seq(Attempt),
           RowMatches(new, att), new.status # "absent",
           jobs' = [jobs EXCEPT ![j] = new],
           attempts' = [attempts EXCEPT ![j] = att]
    PROVE  RowsOK'
  BY DEF RowsOK

\* The same when the attempts stay as they are.
LEMMA OneRowSameAttempts ==
    ASSUME RowsOK, NEW j \in Job, NEW new \in JobRow,
           RowMatches(new, attempts[j]), new.status # "absent",
           jobs' = [jobs EXCEPT ![j] = new], UNCHANGED attempts
    PROVE  RowsOK'
  BY DEF RowsOK

\* Nothing about rows changes.
LEMMA SameRows ==
    ASSUME RowsOK, UNCHANGED <<jobs, attempts>>
    PROVE  RowsOK'
  BY DEF RowsOK

\* Giving reservations back keeps their type.
LEMMA ReleaseHoldsType ==
    ASSUME RestOK, NEW S, ReleaseHolds(S)
    PROVE  holds' \in [Job -> [Resource -> HoldStatus]]
  BY DEF RestOK, ReleaseHolds, Resolve, HoldStatus

\* Creating letters keeps their type.
LEMMA CreateLettersType ==
    ASSUME RestOK, NEW S, CreateLetters(S)
    PROVE  letters' \in [Job -> LetterStatus]
  BY DEF RestOK, CreateLetters, LetterStatus

\* The streak stays within its bound.
LEMMA NextStreakType ==
    ASSUME RestOK, NEW j \in Job
    PROVE  NextStreak(j) \in 0..StandardTurn
  BY LimitAssumption DEF RestOK, NextStreak

\* Rows of a running job: its current attempt exists and runs.
LEMMA RunningRow ==
    ASSUME RowsOK, NEW j \in Job, jobs[j].status = "running"
    PROVE  /\ jobs[j] \in JobRow
           /\ attempts[j] \in Seq(Attempt)
           /\ jobs[j].attempt_count \in DOMAIN attempts[j]
           /\ RowMatches(jobs[j], attempts[j])
  <1>1. /\ jobs[j] \in JobRow
        /\ attempts[j] \in Seq(Attempt)
        /\ RowMatches(jobs[j], attempts[j])
    BY DEF RowsOK
  <1>2. QED
    BY <1>1, LenProperties DEF RowMatches

\* A job that leaves its worker and stops running, its attempt ended.
LEMMA RowLeaves ==
    ASSUME RowsOK, NEW j \in Job, jobs[j].status = "running",
           NEW new \in JobRow, NEW s \in AttemptStatus \ {"running"},
           new.status \notin {"running", "absent"},
           new.worker_id = NoWorker, new.lease = "none",
           new.attempt_count = jobs[j].attempt_count,
           jobs' = [jobs EXCEPT ![j] = new],
           attempts' = [attempts EXCEPT ![j] = Ended(j, jobs[j].attempt_count, s)]
    PROVE  RowsOK'
  <1>1. RowMatches(new, [attempts[j] EXCEPT ![jobs[j].attempt_count].status = s])
    BY RunningRow, EndMatches
  <1>2. [attempts[j] EXCEPT ![jobs[j].attempt_count].status = s] \in Seq(Attempt)
    BY RunningRow, EndedAttempt
  <1>3. QED
    BY <1>1, <1>2, OneRow DEF Ended

-----------------------------------------------------------------------------
(* Every action preserves it *)

\* A new row is queued, unlocked and without attempts.
LEMMA NewRowFacts ==
    ASSUME IInv, NEW j \in Job
    PROVE  /\ NewRow(j) \in JobRow
           /\ NewRow(j).status = "queued"
           /\ jobs[j].status = "absent" => RowMatches(NewRow(j), attempts[j])
  <1>1. NewRow(j) \in JobRow
    <2>1. {k \in Job \ With("absent") : PriorityOf[k] = PriorityOf[j]} \subseteq Job
      OBVIOUS
    <2>2. Cardinality({k \in Job \ With("absent") :
                          PriorityOf[k] = PriorityOf[j]}) + 1 \in Nat
      BY <2>1, JobAssumption, FS_Subset, FS_CardinalityType
    <2>3. QED
      BY <2>2 DEF NewRow, AbsentRow, JobRow, JobStatus
  <1>2. /\ NewRow(j).status = "queued" /\ NewRow(j).worker_id = NoWorker
        /\ NewRow(j).lease = "none" /\ NewRow(j).attempt_count = 0
    BY DEF NewRow, AbsentRow
  <1>3. ASSUME jobs[j].status = "absent"
        PROVE  RowMatches(NewRow(j), attempts[j])
    <2>1. attempts[j] = <<>> /\ RowMatches(jobs[j], attempts[j])
      BY <1>3 DEF IInv, RowsOK
    <2>2. QED
      BY <1>2, <1>3, <2>1 DEF RowMatches
  <1>4. QED
    BY <1>1, <1>2, <1>3

\* Admission inserts one new row.
LEMMA AdmitJobInv ==
    ASSUME IInv, NEW j \in Job, AdmitJob(j)
    PROVE  IInv'
  <1>1. /\ jobs[j].status = "absent" /\ jobs' = [jobs EXCEPT ![j] = NewRow(j)]
        /\ UNCHANGED attempts
    BY DEF AdmitJob
  <1>2. RowsOK'
    BY <1>1, NewRowFacts, OneRowSameAttempts DEF IInv
  <1>3. RestOK'
    BY DEF AdmitJob, IInv, RestOK, HoldStatus
  <1>4. QED
    BY <1>2, <1>3 DEF IInv

\* A claim turns one waiting row into a running one and appends its attempt.
LEMMA ClaimNextJobInv ==
    ASSUME IInv, NEW w \in Worker, NEW j \in Job, ClaimNextJob(w, j)
    PROVE  IInv'
  <1>1. /\ jobs[j].status = "queued"
        /\ jobs' = [jobs EXCEPT ![j] = Claimed(jobs[j], w)]
        /\ attempts' = [attempts EXCEPT ![j] = BeginAttempt(j, w)]
        /\ streak' = NextStreak(j)
    BY DEF ClaimNextJob, Claimable
  <1>2. /\ jobs[j] \in JobRow /\ attempts[j] \in Seq(Attempt)
        /\ RowMatches(jobs[j], attempts[j])
    BY DEF IInv, RowsOK
  <1>3. /\ Claimed(jobs[j], w) \in JobRow
        /\ Claimed(jobs[j], w).status = "running"
    BY <1>2, ClaimedRow
  <1>4. /\ BeginAttempt(j, w) \in Seq(Attempt)
        /\ RowMatches(Claimed(jobs[j], w), BeginAttempt(j, w))
    BY <1>1, <1>2, BegunAttempt, ClaimMatches DEF BeginAttempt
  <1>5. RowsOK'
    BY <1>1, <1>3, <1>4, OneRow DEF IInv
  <1>6. RestOK'
    BY <1>1, NextStreakType DEF ClaimNextJob, IInv, RestOK
  <1>7. QED
    BY <1>5, <1>6 DEF IInv

\* Preemption requeues the victim and claims the paid job in the same step.
LEMMA PreemptFreeJobForPaidInv ==
    ASSUME IInv, NEW w \in Worker, NEW paid \in Job, NEW victim \in Job,
           PreemptFreeJobForPaid(w, paid, victim)
    PROVE  IInv'
  <1> DEFINE idle == [Requeued(jobs[victim], "now") EXCEPT !.queue_expiry = "none",
                                                           !.started = "none"]
             n == jobs[victim].attempt_count
  <1>1. /\ jobs[paid].status = "queued" /\ jobs[victim].status = "running"
        /\ jobs' = [jobs EXCEPT ![victim] = idle, ![paid] = Claimed(jobs[paid], w)]
        /\ attempts' = [attempts EXCEPT ![victim] = Ended(victim, n, "interrupted"),
                                        ![paid] = BeginAttempt(paid, w)]
        /\ streak' = NextStreak(paid)
    <2>1. paid # victim
      BY DEF PreemptFreeJobForPaid, PaidCandidate, Claimable, Owns
    <2>2. QED
      BY <2>1 DEF PreemptFreeJobForPaid, PaidCandidate, Claimable, Owns, CurrentAttempt
  <1>2. /\ jobs[paid] \in JobRow /\ attempts[paid] \in Seq(Attempt)
        /\ RowMatches(jobs[paid], attempts[paid])
    BY DEF IInv, RowsOK
  <1>3. /\ jobs[victim] \in JobRow /\ attempts[victim] \in Seq(Attempt)
        /\ RowMatches(jobs[victim], attempts[victim])
        /\ n \in DOMAIN attempts[victim]
    BY <1>1, RunningRow DEF IInv
  <1>4. /\ Claimed(jobs[paid], w) \in JobRow
        /\ Claimed(jobs[paid], w).status = "running"
        /\ BeginAttempt(paid, w) \in Seq(Attempt)
        /\ RowMatches(Claimed(jobs[paid], w), BeginAttempt(paid, w))
    BY <1>1, <1>2, ClaimedRow, BegunAttempt, ClaimMatches DEF BeginAttempt
  <1>5. /\ idle \in JobRow /\ idle.status = "queued"
        /\ idle.worker_id = NoWorker /\ idle.lease = "none"
        /\ idle.attempt_count = n
    <2> DEFINE r == Requeued(jobs[victim], "now")
    <2>1. /\ r \in JobRow /\ r.status = "queued" /\ r.worker_id = NoWorker
          /\ r.lease = "none" /\ r.attempt_count = n
      BY <1>3, RequeuedRow
    <2> HIDE DEF r
    <2>2. idle = [r EXCEPT !.queue_expiry = "none", !.started = "none"]
      BY DEF r
    <2> HIDE DEF idle
    <2>3. QED
      BY <2>1, <2>2 DEF JobRow
  <1> HIDE DEF idle
  <1>6. /\ Ended(victim, n, "interrupted") \in Seq(Attempt)
        /\ RowMatches(idle, Ended(victim, n, "interrupted"))
    BY <1>1, <1>3, <1>5, EndedAttempt, EndMatches DEF Ended, AttemptStatus
  <1>7. RowsOK'
    BY <1>1, <1>4, <1>5, <1>6 DEF IInv, RowsOK
  <1>8. RestOK'
    BY <1>1, NextStreakType DEF PreemptFreeJobForPaid, IInv, RestOK
  <1>9. QED
    BY <1>7, <1>8 DEF IInv

\* What an attempt that settles knows: it is the current one.
LEMMA SettlingRow ==
    ASSUME IInv, NEW j \in Job, NEW w \in Worker, NEW a, Issued(j, a, w), Owns(j, a, w)
    PROVE  /\ jobs[j].status = "running" /\ a = jobs[j].attempt_count
           /\ jobs[j] \in JobRow
           /\ RowsOK /\ RestOK
  BY RunningRow DEF IInv, Owns

\* A heartbeat only renews the lease.
LEMMA HeartbeatAttemptInv ==
    ASSUME IInv, NEW j \in Job, NEW w \in Worker, NEW a, HeartbeatAttempt(j, a, w)
    PROVE  IInv'
  <1>1. jobs[j].status = "running" /\ jobs[j] \in JobRow
    BY SettlingRow DEF HeartbeatAttempt, Settles
  <1> DEFINE new == [jobs[j] EXCEPT !.lease = "held"]
  <1>2. jobs' = [jobs EXCEPT ![j] = new] /\ UNCHANGED attempts
    BY DEF HeartbeatAttempt
  <1>3. new \in JobRow /\ new.status = "running"
    BY <1>1 DEF JobRow
  <1>4. RowMatches(new, attempts[j])
    <2>1. RowMatches(jobs[j], attempts[j])
      BY DEF IInv, RowsOK
    <2>2. QED
      BY <1>1, <2>1 DEF RowMatches, JobRow
  <1> HIDE DEF new
  <1>5. RowsOK'
    BY <1>2, <1>3, <1>4, OneRowSameAttempts DEF IInv
  <1>6. QED
    BY <1>5 DEF HeartbeatAttempt, IInv, RestOK

\* A result ends the newest attempt and unlocks the row.
LEMMA CompleteAttemptInv ==
    ASSUME IInv, NEW j \in Job, NEW w \in Worker, NEW a, CompleteAttempt(j, a, w)
    PROVE  IInv'
  <1>1. jobs[j].status = "running" /\ a = jobs[j].attempt_count /\ jobs[j] \in JobRow
    BY SettlingRow DEF CompleteAttempt, Settles
  <1> DEFINE new == Unlocked(jobs[j], "succeeded")
  <1>2. /\ new \in JobRow /\ new.status = "succeeded" /\ new.worker_id = NoWorker
        /\ new.lease = "none" /\ new.attempt_count = jobs[j].attempt_count
    BY <1>1, UnlockedRow DEF JobStatus, TerminalStatus
  <1>3. /\ jobs' = [jobs EXCEPT ![j] = new]
        /\ attempts' = [attempts EXCEPT ![j] = Ended(j, jobs[j].attempt_count, "succeeded")]
    BY <1>1 DEF CompleteAttempt
  <1> HIDE DEF new
  <1>4. RowsOK'
    BY <1>1, <1>2, <1>3, RowLeaves DEF IInv, AttemptStatus
  <1>5. RestOK'
    BY DEF CompleteAttempt, IInv, RestOK, Resolve, HoldStatus
  <1>6. QED
    BY <1>4, <1>5 DEF IInv

\* So does a final failure.
LEMMA FailAttemptInv ==
    ASSUME IInv, NEW j \in Job, NEW w \in Worker, NEW a, FailAttempt(j, a, w)
    PROVE  IInv'
  <1>1. jobs[j].status = "running" /\ a = jobs[j].attempt_count /\ jobs[j] \in JobRow
    BY SettlingRow DEF FailAttempt, Settles
  <1> DEFINE new == Failed(jobs[j], "failed")
  <1>2. /\ new \in JobRow /\ new.status = "failed" /\ new.worker_id = NoWorker
        /\ new.lease = "none" /\ new.attempt_count = jobs[j].attempt_count
    BY <1>1, FailedRow DEF TerminalStatus
  <1>3. /\ jobs' = [jobs EXCEPT ![j] = new]
        /\ attempts' = [attempts EXCEPT ![j] = Ended(j, jobs[j].attempt_count, "failed")]
    BY <1>1 DEF FailAttempt
  <1> HIDE DEF new
  <1>4. RowsOK'
    BY <1>1, <1>2, <1>3, RowLeaves DEF IInv, AttemptStatus, FailedAttemptStatus
  <1>5. RestOK'
    BY ReleaseHoldsType DEF FailAttempt, IInv, RestOK
  <1>6. QED
    BY <1>4, <1>5 DEF IInv

\* A retry unlocks the row, queued again or dead-lettered.
LEMMA RetryFailedAttemptInv ==
    ASSUME IInv, NEW j \in Job, NEW w \in Worker, NEW a, NEW kind \in RetryKind,
           RetryFailedAttempt(j, a, w, kind)
    PROVE  IInv'
  <1>1. jobs[j].status = "running" /\ a = jobs[j].attempt_count /\ jobs[j] \in JobRow
    BY SettlingRow DEF RetryFailedAttempt, Settles
  <1> DEFINE new == Retried(jobs[j], RetryBudget(kind))
             dead == {k \in {j} : new.status = "dead_lettered"}
  <1>2. RetryBudget(kind) \in Nat
    BY LimitAssumption DEF RetryBudget
  <1>3. /\ new \in JobRow /\ new.status \in {"queued", "dead_lettered"}
        /\ new.worker_id = NoWorker
        /\ new.lease = "none" /\ new.attempt_count = jobs[j].attempt_count
    BY <1>1, <1>2, RetriedRow
  <1>4. /\ jobs' = [jobs EXCEPT ![j] = new]
        /\ attempts' = [attempts EXCEPT ![j] = Ended(j, jobs[j].attempt_count, kind)]
        /\ ReleaseHolds(dead) /\ CreateLetters(dead)
    BY <1>1 DEF RetryFailedAttempt
  <1> HIDE DEF new, dead
  <1>5. RowsOK'
    BY <1>1, <1>3, <1>4, RowLeaves DEF IInv, AttemptStatus, FailedAttemptStatus, RetryKind
  <1>6. RestOK'
    BY <1>4, ReleaseHoldsType, CreateLettersType DEF RetryFailedAttempt, IInv, RestOK
  <1>7. QED
    BY <1>5, <1>6 DEF IInv

\* A running job that is cancelled, by its worker or by shutdown.
LEMMA CancelRunningInv ==
    ASSUME IInv, NEW j \in Job, NEW w \in Worker, NEW a, Issued(j, a, w), Owns(j, a, w),
           jobs' = [jobs EXCEPT ![j] = CancelledRow(@)],
           attempts' = [attempts EXCEPT ![j] = Ended(j, a, "cancelled")],
           ReleaseHolds({j}), UNCHANGED <<letters, replayedAs, streak, live>>
    PROVE  IInv'
  <1>1. jobs[j].status = "running" /\ a = jobs[j].attempt_count /\ jobs[j] \in JobRow
    BY SettlingRow
  <1> DEFINE new == CancelledRow(jobs[j])
  <1>2. /\ new \in JobRow /\ new.status = "cancelled" /\ new.worker_id = NoWorker
        /\ new.lease = "none" /\ new.attempt_count = jobs[j].attempt_count
    BY <1>1, CancelledRowFacts
  <1>3. /\ jobs' = [jobs EXCEPT ![j] = new]
        /\ attempts' = [attempts EXCEPT ![j] = Ended(j, jobs[j].attempt_count, "cancelled")]
    BY <1>1
  <1> HIDE DEF new
  <1>7. "cancelled" \in AttemptStatus \ {"running"} /\ new.status \notin {"running", "absent"}
    BY <1>2 DEF AttemptStatus
  <1>8. RowsOK
    BY DEF IInv
  <1>4. RowsOK'
    BY <1>1, <1>2, <1>3, <1>7, <1>8, RowLeaves
  <1>5. RestOK'
    BY ReleaseHoldsType DEF IInv, RestOK
  <1>6. QED
    BY <1>4, <1>5 DEF IInv

\* The worker carries out a requested cancellation.
LEMMA CancelAttemptInv ==
    ASSUME IInv, NEW j \in Job, NEW w \in Worker, NEW a, CancelAttempt(j, a, w)
    PROVE  IInv'
  BY CancelRunningInv DEF CancelAttempt

\* Shutdown gives the job back, or cancels it.
LEMMA ReleaseInterruptedAttemptInv ==
    ASSUME IInv, NEW j \in Job, NEW w \in Worker, NEW a,
           ReleaseInterruptedAttempt(j, a, w)
    PROVE  IInv'
  <1>1. CASE jobs[j].cancel_requested
    BY <1>1, CancelRunningInv DEF ReleaseInterruptedAttempt
  <1>2. CASE ~jobs[j].cancel_requested
    <2>1. jobs[j].status = "running" /\ a = jobs[j].attempt_count /\ jobs[j] \in JobRow
      BY SettlingRow DEF ReleaseInterruptedAttempt
    <2> DEFINE r == Requeued(jobs[j], "now")
               new == [r EXCEPT !.queue_expiry = "none"]
    <2>2. /\ r \in JobRow /\ r.status = "queued" /\ r.worker_id = NoWorker
          /\ r.lease = "none" /\ r.attempt_count = jobs[j].attempt_count
      BY <2>1, RequeuedRow
    <2>3. /\ jobs' = [jobs EXCEPT ![j] = new]
          /\ attempts' = [attempts EXCEPT
                 ![j] = Ended(j, jobs[j].attempt_count, "interrupted")]
      BY <1>2, <2>1 DEF ReleaseInterruptedAttempt
    <2> HIDE DEF r
    <2>4. /\ new \in JobRow /\ new.status = "queued" /\ new.worker_id = NoWorker
          /\ new.lease = "none" /\ new.attempt_count = jobs[j].attempt_count
      BY <2>2 DEF JobRow
    <2> HIDE DEF new
    <2>5. RowsOK'
      BY <2>1, <2>3, <2>4, RowLeaves DEF IInv, AttemptStatus
    <2>6. RestOK'
      BY <1>2 DEF ReleaseInterruptedAttempt, IInv, RestOK
    <2>7. QED
      BY <2>5, <2>6 DEF IInv
  <1>3. QED
    BY <1>1, <1>2

\* A request cancels a queued row and marks a running one.
LEMMA RequestCancelInv ==
    ASSUME IInv, NEW j \in Job, RequestCancel(j)
    PROVE  IInv'
  <1>1. jobs[j] \in JobRow /\ RowMatches(jobs[j], attempts[j])
    BY DEF IInv, RowsOK
  <1>2. CASE RequestCancelQueued(j)
    <2> DEFINE c == CancelledRow(jobs[j])
               new == [c EXCEPT !.cancel_requested = TRUE]
    <2>1. jobs[j].status = "queued" /\ jobs' = [jobs EXCEPT ![j] = new] /\ UNCHANGED attempts
      BY <1>2 DEF RequestCancelQueued
    <2>2. /\ c \in JobRow /\ c.status = "cancelled" /\ c.worker_id = NoWorker
          /\ c.lease = "none" /\ c.attempt_count = jobs[j].attempt_count
      BY <1>1, CancelledRowFacts
    <2> HIDE DEF c
    <2>3. /\ new \in JobRow /\ new.status = "cancelled" /\ new.worker_id = NoWorker
          /\ new.lease = "none" /\ new.attempt_count = jobs[j].attempt_count
      BY <2>2 DEF JobRow
    <2> HIDE DEF new
    <2>4. RowMatches(new, attempts[j])
      BY <1>1, <2>1, <2>3, IdleMatches
    <2>5. RowsOK'
      BY <2>1, <2>3, <2>4, OneRowSameAttempts DEF IInv
    <2>6. RestOK'
      BY <1>2, ReleaseHoldsType DEF RequestCancelQueued, IInv, RestOK
    <2>7. QED
      BY <2>5, <2>6 DEF IInv
  <1>3. CASE RequestCancelRunning(j)
    <2> DEFINE new == [jobs[j] EXCEPT !.cancel_requested = TRUE]
    <2>1. /\ jobs[j].status = "running" /\ jobs' = [jobs EXCEPT ![j] = new]
          /\ UNCHANGED attempts
      BY <1>3 DEF RequestCancelRunning
    <2>2. new \in JobRow /\ new.status = "running" /\ RowMatches(new, attempts[j])
      BY <1>1, <2>1 DEF JobRow, RowMatches
    <2> HIDE DEF new
    <2>3. RowsOK'
      BY <2>1, <2>2, OneRowSameAttempts DEF IInv
    <2>4. QED
      BY <1>3, <2>3 DEF RequestCancelRunning, IInv, RestOK
  <1>4. QED
    BY <1>2, <1>3 DEF RequestCancel

\* The recovery of cancelled jobs ends whatever attempt of theirs still runs.
LEMMA RecoverCancellationsInv ==
    ASSUME IInv, RecoverCancellations
    PROVE  IInv'
  <1> DEFINE due == {j \in Job : CancelDue(j)}
             ended(j) == RunningEnded(j, "cancelled")
  <1>1. /\ jobs' = [j \in Job |-> IF j \in due THEN CancelledRow(jobs[j]) ELSE jobs[j]]
        /\ attempts' = [j \in Job |-> IF j \in due THEN ended(j) ELSE attempts[j]]
        /\ ReleaseHolds(due)
        /\ UNCHANGED <<letters, replayedAs, streak, live>>
    BY DEF RecoverCancellations
  <1>2. ASSUME NEW j \in Job, j \in due
        PROVE  /\ CancelledRow(jobs[j]) \in JobRow
               /\ CancelledRow(jobs[j]).status = "cancelled"
               /\ ended(j) \in Seq(Attempt)
               /\ RowMatches(CancelledRow(jobs[j]), ended(j))
    <2>1. /\ jobs[j] \in JobRow /\ attempts[j] \in Seq(Attempt)
          /\ RowMatches(jobs[j], attempts[j])
      BY DEF IInv, RowsOK
    <2> DEFINE c == CancelledRow(jobs[j])
    <2>2. /\ c \in JobRow /\ c.status = "cancelled" /\ c.worker_id = NoWorker
          /\ c.lease = "none" /\ c.attempt_count = jobs[j].attempt_count
      BY <2>1, CancelledRowFacts
    <2>3. "cancelled" \in AttemptStatus \ {"running"}
      BY DEF AttemptStatus
    <2>4. /\ ended(j) \in Seq(Attempt) /\ Len(ended(j)) = Len(attempts[j])
          /\ DOMAIN ended(j) = DOMAIN attempts[j]
          /\ \A a \in DOMAIN attempts[j] : ended(j)[a].status # "running"
      BY <2>1, <2>3, RunningEndedAttempts
    <2> HIDE DEF c, ended
    <2>5. RowMatches(c, ended(j))
      BY <2>1, <2>2, <2>4 DEF RowMatches
    <2>6. QED
      BY <2>2, <2>4, <2>5 DEF c
  <1> HIDE DEF due, ended
  <1>3. RowsOK'
    BY <1>1, <1>2 DEF IInv, RowsOK
  <1>4. RestOK'
    BY <1>1, ReleaseHoldsType DEF IInv, RestOK
  <1>5. QED
    BY <1>3, <1>4 DEF IInv

\* The deletion of an account withdraws its open jobs; their attempts end, but
\* for the newest ones of the jobs it missed.
LEMMA RequestAccountDeletionInv ==
    ASSUME IInv, NEW u \in Account, RequestAccountDeletion(u)
    PROVE  IInv'
  <1> DEFINE due == {j \in JobsOf(u) : Active(j)}
             ended(j) == RunningEnded(j, "failed")
  <1>1. PICK missed \in SUBSET {j \in due : jobs[j].status = "running"} :
           attempts' = [j \in Job |-> IF j \in JobsOf(u) \ missed
                                      THEN ended(j) ELSE attempts[j]]
    BY DEF RequestAccountDeletion
  <1>2. /\ jobs' = [j \in Job |-> IF j \in due THEN Withdrawn(jobs[j]) ELSE jobs[j]]
        /\ ReleaseHolds(due)
        /\ UNCHANGED <<letters, replayedAs, streak, live>>
    BY DEF RequestAccountDeletion
  <1>3. ASSUME NEW j \in Job
        PROVE  /\ jobs'[j] \in JobRow /\ attempts'[j] \in Seq(Attempt)
               /\ RowMatches(jobs'[j], attempts'[j])
               /\ jobs'[j].status = "absent" => attempts'[j] = <<>>
    <2>1. /\ jobs[j] \in JobRow /\ attempts[j] \in Seq(Attempt)
          /\ RowMatches(jobs[j], attempts[j])
          /\ jobs[j].status = "absent" => attempts[j] = <<>>
      BY DEF IInv, RowsOK
    <2>2. "failed" \in AttemptStatus \ {"running"}
      BY DEF AttemptStatus, FailedAttemptStatus
    <2>3. /\ ended(j) \in Seq(Attempt) /\ Len(ended(j)) = Len(attempts[j])
          /\ DOMAIN ended(j) = DOMAIN attempts[j]
          /\ \A a \in DOMAIN attempts[j] : ended(j)[a].status # "running"
      BY <2>1, <2>2, RunningEndedAttempts
    <2> DEFINE row == Withdrawn(jobs[j])
    <2>4. /\ row \in JobRow /\ row.status = "withdrawn" /\ row.worker_id = NoWorker
          /\ row.lease = "none" /\ row.attempt_count = jobs[j].attempt_count
      BY <2>1, WithdrawnRow
    <2> HIDE DEF row, ended
    <2>5. CASE j \in due
      <3>1. jobs'[j] = row /\ attempts'[j] \in {ended(j), attempts[j]}
        BY <1>1, <1>2, <2>5 DEF row
      <3>2. RowMatches(row, attempts[j])
        BY <2>1, <2>4 DEF RowMatches
      <3>3. RowMatches(row, ended(j))
        BY <2>1, <2>3, <2>4 DEF RowMatches
      <3>4. QED
        BY <2>1, <2>3, <2>4, <3>1, <3>2, <3>3
    <2>6. CASE j \in JobsOf(u) \ due
      <3>1. jobs'[j] = jobs[j] /\ attempts'[j] = ended(j)
        BY <1>1, <1>2, <2>6
      <3>2. jobs[j].status # "running"
        BY <2>6 DEF Active
      <3>3. RowMatches(jobs[j], ended(j))
        BY <2>1, <2>3, <3>2 DEF RowMatches
      <3>4. jobs[j].status = "absent" => ended(j) = <<>>
        BY <2>1, <2>3
      <3>5. QED
        BY <2>1, <2>3, <3>1, <3>3, <3>4
    <2>7. CASE j \notin JobsOf(u)
      BY <1>1, <1>2, <2>1, <2>7
    <2>8. QED
      BY <2>5, <2>6, <2>7
  <1> HIDE DEF due, ended
  <1>4. RowsOK'
    BY <1>1, <1>2, <1>3 DEF RowsOK
  <1>5. RestOK'
    BY <1>2, ReleaseHoldsType DEF IInv, RestOK
  <1>6. QED
    BY <1>4, <1>5 DEF IInv

\* Lease recovery ends the newest attempt of every abandoned job.
LEMMA RecoverExpiredAttemptsInv ==
    ASSUME IInv, RecoverExpiredAttempts
    PROVE  IInv'
  <1> DEFINE due == {j \in Job : RecoverDue(j)}
             row(j) == Retried(jobs[j], RetryBudget(RecoveryKind(j)))
             dead == {j \in due : row(j).status = "dead_lettered"}
             ended(j) == Ended(j, CurrentAttempt(j), RecoveryKind(j))
  <1>1. /\ jobs' = [j \in Job |-> IF j \in due THEN row(j) ELSE jobs[j]]
        /\ attempts' = [j \in Job |-> IF j \in due THEN ended(j) ELSE attempts[j]]
        /\ ReleaseHolds(dead) /\ CreateLetters(dead)
        /\ UNCHANGED <<replayedAs, streak, live>>
    BY DEF RecoverExpiredAttempts
  <1>2. ASSUME NEW j \in Job, j \in due
        PROVE  /\ row(j) \in JobRow
               /\ row(j).status # "absent"
               /\ ended(j) \in Seq(Attempt)
               /\ RowMatches(row(j), ended(j))
    <2>1. jobs[j].status = "running"
      BY <1>2 DEF RecoverDue, Abandoned
    <2>2. /\ jobs[j] \in JobRow /\ attempts[j] \in Seq(Attempt)
          /\ jobs[j].attempt_count \in DOMAIN attempts[j]
          /\ RowMatches(jobs[j], attempts[j])
      BY <2>1, RunningRow DEF IInv
    <2>3. RetryBudget(RecoveryKind(j)) \in Nat
      BY LimitAssumption DEF RetryBudget
    <2>4. /\ row(j) \in JobRow /\ row(j).status \in {"queued", "dead_lettered"}
          /\ row(j).worker_id = NoWorker /\ row(j).lease = "none"
          /\ row(j).attempt_count = jobs[j].attempt_count
      BY <2>2, <2>3, RetriedRow
    <2>5. RecoveryKind(j) \in AttemptStatus \ {"running"}
      BY DEF RecoveryKind, AttemptStatus, FailedAttemptStatus
    <2> HIDE DEF row
    <2>6. ended(j) \in Seq(Attempt)
      BY <2>2, <2>5, EndedAttempt DEF Ended, CurrentAttempt
    <2>7. RowMatches(row(j), ended(j))
      BY <2>1, <2>2, <2>4, <2>5, EndMatches DEF Ended, CurrentAttempt
    <2>8. QED
      BY <2>4, <2>6, <2>7
  <1> HIDE DEF due, row, dead, ended
  <1>3. RowsOK'
    BY <1>1, <1>2 DEF IInv, RowsOK
  <1>4. RestOK'
    BY <1>1, ReleaseHoldsType, CreateLettersType DEF IInv, RestOK
  <1>5. QED
    BY <1>3, <1>4 DEF IInv

\* Queue expiry ends jobs that no worker ever claimed.
LEMMA ExpireQueuedJobsInv ==
    ASSUME IInv, ExpireQueuedJobs
    PROVE  IInv'
  <1> DEFINE due == {j \in Job : ExpireDue(j)}
             row(j) == [Unlocked(jobs[j], "failed") EXCEPT !.queue_expiry = "none"]
  <1>1. /\ jobs' = [j \in Job |-> IF j \in due THEN row(j) ELSE jobs[j]]
        /\ ReleaseHolds(due)
        /\ UNCHANGED <<attempts, letters, replayedAs, streak, live>>
    BY DEF ExpireQueuedJobs
  <1>2. ASSUME NEW j \in Job, j \in due
        PROVE  /\ row(j) \in JobRow
               /\ row(j).status # "absent"
               /\ RowMatches(row(j), attempts[j])
    <2> DEFINE u == Unlocked(jobs[j], "failed")
    <2>1. jobs[j] \in JobRow /\ RowMatches(jobs[j], attempts[j])
      BY DEF IInv, RowsOK
    <2>2. /\ u \in JobRow /\ u.status = "failed" /\ u.worker_id = NoWorker
          /\ u.lease = "none" /\ u.attempt_count = jobs[j].attempt_count
      BY <2>1, UnlockedRow DEF JobStatus, TerminalStatus
    <2>3. row(j) = [u EXCEPT !.queue_expiry = "none"]
      OBVIOUS
    <2> HIDE DEF u, row
    <2>4. /\ row(j) \in JobRow /\ row(j).status = "failed"
          /\ row(j).worker_id = NoWorker /\ row(j).lease = "none"
          /\ row(j).attempt_count = jobs[j].attempt_count
      BY <2>2, <2>3 DEF JobRow
    <2>5. jobs[j].status = "queued"
      BY <1>2 DEF ExpireDue
    <2>6. RowMatches(row(j), attempts[j])
      BY <2>1, <2>4, <2>5, IdleMatches
    <2>7. QED
      BY <2>4, <2>6
  <1> HIDE DEF due, row
  <1>3. RowsOK'
    BY <1>1, <1>2 DEF IInv, RowsOK
  <1>4. RestOK'
    BY <1>1, ReleaseHoldsType DEF IInv, RestOK
  <1>5. QED
    BY <1>3, <1>4 DEF IInv

\* A replay inserts the row of a job that was absent.
LEMMA ReplayDeadLetterInv ==
    ASSUME IInv, NEW j \in Job, NEW k \in Job, ReplayDeadLetter(j, k)
    PROVE  IInv'
  <1>1. jobs[k].status = "absent" /\ jobs' = [jobs EXCEPT ![k] = NewRow(k)] /\ UNCHANGED attempts
    BY DEF ReplayDeadLetter
  <1>2. NewRow(k) \in JobRow /\ NewRow(k).status = "queued"
    BY NewRowFacts
  <1>3. RowMatches(NewRow(k), attempts[k])
    BY <1>1, NewRowFacts
  <1>4. RowsOK'
    BY <1>1, <1>2, <1>3, OneRowSameAttempts DEF IInv
  <1>5. RestOK'
    BY DEF ReplayDeadLetter, IInv, RestOK, LetterStatus
  <1>6. QED
    BY <1>4, <1>5 DEF IInv

\* Discarding letters touches nothing else.
LEMMA DiscardLettersInv ==
    ASSUME IInv, NEW S, DiscardLetters(S)
    PROVE  IInv'
  <1>1. RowsOK'
    BY SameRows DEF DiscardLetters, IInv
  <1>2. QED
    BY <1>1 DEF DiscardLetters, IInv, RestOK, LetterStatus

\* Neither do workers that come and go.
LEMMA RegistryStepInv ==
    ASSUME IInv, NEW w \in Worker, RegistryStep(w)
    PROVE  IInv'
  <1>1. RowsOK'
    BY SameRows DEF RegistryStep, RegisterWorker, LeaveRegistry, IInv
  <1>2. QED
    BY <1>1 DEF RegistryStep, RegisterWorker, LeaveRegistry, IInv, RestOK

\* The clock moves one column of one row and keeps whether it is null.
LEMMA TimePassesInv ==
    ASSUME IInv, NEW j \in Job, TimePasses(j)
    PROVE  IInv'
  <1>1. jobs[j] \in JobRow /\ RowMatches(jobs[j], attempts[j])
    BY DEF IInv, RowsOK
  <1>2. UNCHANGED <<attempts, holds, letters, replayedAs, streak, live>>
    BY DEF TimePasses, LeaseExpires, RetryTimeComes, GraceElapses,
           HardTimeoutElapses, QueueExpiryComes, Ticks
  <1>3. PICK new \in JobRow :
           /\ jobs' = [jobs EXCEPT ![j] = new]
           /\ RowMatches(new, attempts[j])
           /\ new.status = jobs[j].status
    <2>1. CASE LeaseExpires(j)
      <3> DEFINE new == [jobs[j] EXCEPT !.lease = "expired"]
      <3>1. jobs[j].lease = "held" /\ jobs' = [jobs EXCEPT ![j] = new]
        BY <2>1 DEF LeaseExpires, Ticks
      <3>2. new \in JobRow /\ new.status = jobs[j].status
        BY <1>1 DEF JobRow
      <3>3. RowMatches(new, attempts[j])
        BY <1>1, <3>1 DEF RowMatches, JobRow
      <3>4. QED
        BY <3>1, <3>2, <3>3
    <2>2. CASE RetryTimeComes(j)
      <3> DEFINE new == [jobs[j] EXCEPT !.next_attempt = "now"]
      <3>1. jobs' = [jobs EXCEPT ![j] = new]
        BY <2>2 DEF RetryTimeComes, Ticks
      <3>2. new \in JobRow /\ new.status = jobs[j].status
        BY <1>1 DEF JobRow
      <3>3. RowMatches(new, attempts[j])
        BY <1>1 DEF RowMatches, JobRow
      <3>4. QED
        BY <3>1, <3>2, <3>3
    <2>3. CASE GraceElapses(j)
      <3> DEFINE new == [jobs[j] EXCEPT !.next_attempt = "waited"]
      <3>1. jobs' = [jobs EXCEPT ![j] = new]
        BY <2>3 DEF GraceElapses, Ticks
      <3>2. new \in JobRow /\ new.status = jobs[j].status
        BY <1>1 DEF JobRow
      <3>3. RowMatches(new, attempts[j])
        BY <1>1 DEF RowMatches, JobRow
      <3>4. QED
        BY <3>1, <3>2, <3>3
    <2>4. CASE HardTimeoutElapses(j)
      <3> DEFINE new == [jobs[j] EXCEPT !.started = "overtime"]
      <3>1. jobs' = [jobs EXCEPT ![j] = new]
        BY <2>4 DEF HardTimeoutElapses, Ticks
      <3>2. new \in JobRow /\ new.status = jobs[j].status
        BY <1>1 DEF JobRow
      <3>3. RowMatches(new, attempts[j])
        BY <1>1 DEF RowMatches, JobRow
      <3>4. QED
        BY <3>1, <3>2, <3>3
    <2>5. CASE QueueExpiryComes(j)
      <3> DEFINE new == [jobs[j] EXCEPT !.queue_expiry = "past"]
      <3>1. jobs' = [jobs EXCEPT ![j] = new]
        BY <2>5 DEF QueueExpiryComes, Ticks
      <3>2. new \in JobRow /\ new.status = jobs[j].status
        BY <1>1 DEF JobRow
      <3>3. RowMatches(new, attempts[j])
        BY <1>1 DEF RowMatches, JobRow
      <3>4. QED
        BY <3>1, <3>2, <3>3
    <2>6. QED
      BY <2>1, <2>2, <2>3, <2>4, <2>5 DEF TimePasses
  <1>4. RowsOK'
    BY <1>2, <1>3 DEF IInv, RowsOK
  <1>5. QED
    BY <1>2, <1>4 DEF IInv, RestOK

-----------------------------------------------------------------------------
(* Every behaviour keeps it *)

\* It holds of the empty tables.
LEMMA InitInv == Init => IInv
  <1> SUFFICES ASSUME Init PROVE IInv
    OBVIOUS
  <1>1. AbsentRow \in JobRow
    BY DEF AbsentRow, JobRow, JobStatus
  <1>2. <<>> \in Seq(Attempt) /\ Len(<<>>) = 0 /\ DOMAIN <<>> = {}
    OBVIOUS
  <1>3. RowMatches(AbsentRow, <<>>)
    BY <1>2 DEF RowMatches, AbsentRow
  <1>4. RowsOK
    BY <1>1, <1>2, <1>3 DEF Init, RowsOK
  <1>5. RestOK
    BY LimitAssumption DEF Init, RestOK, HoldStatus, LetterStatus
  <1>6. QED
    BY <1>4, <1>5 DEF IInv

\* Every step keeps it.
LEMMA NextInv == IInv /\ [Next]_vars => IInv'
  <1> SUFFICES ASSUME IInv, [Next]_vars PROVE IInv'
    OBVIOUS
  <1>1. CASE UNCHANGED vars
    BY <1>1 DEF vars, IInv, RowsOK, RestOK
  <1>2. ASSUME NEW j \in Job, AdmitJob(j) \/ RequestCancel(j) \/ DiscardDeadLetter(j)
        PROVE  IInv'
    BY <1>2, AdmitJobInv, RequestCancelInv, DiscardLettersInv DEF DiscardDeadLetter
  <1>3. ASSUME NEW j \in Job, NEW k \in Job, ReplayDeadLetter(j, k)
        PROVE  IInv'
    BY <1>3, ReplayDeadLetterInv
  <1>4. CASE DiscardAllDeadLetters
    BY <1>4, DiscardLettersInv DEF DiscardAllDeadLetters
  <1>5. ASSUME NEW w \in Worker, Dispatch(w)
        PROVE  IInv'
    BY <1>5, ClaimNextJobInv, PreemptFreeJobForPaidInv DEF Dispatch
  <1>6. ASSUME NEW w \in Worker, RegistryStep(w)
        PROVE  IInv'
    BY <1>6, RegistryStepInv
  <1>7. ASSUME NEW j \in Job, NEW w \in Worker, NEW a \in DOMAIN attempts[j],
               WorkerCall(j, a, w)
        PROVE  IInv'
    BY <1>7, HeartbeatAttemptInv, CompleteAttemptInv, FailAttemptInv,
       RetryFailedAttemptInv, ReleaseInterruptedAttemptInv, CancelAttemptInv
       DEF WorkerCall
  <1>8. CASE Maintenance
    BY <1>8, RecoverCancellationsInv, RecoverExpiredAttemptsInv, ExpireQueuedJobsInv
       DEF Maintenance
  <1>9. ASSUME NEW j \in Job, TimePasses(j)
        PROVE  IInv'
    BY <1>9, TimePassesInv
  <1>10. ASSUME NEW u \in Account, RequestAccountDeletion(u)
         PROVE  IInv'
    BY <1>10, RequestAccountDeletionInv
  <1>11. QED
    BY <1>1, <1>2, <1>3, <1>4, <1>5, <1>6, <1>7, <1>8, <1>9, <1>10 DEF Next

\* The inductive invariant holds of every behaviour of the job store.
THEOREM IInvAlways == Spec => []IInv
  <1>1. QED
    BY InitInv, NextInv, PTL DEF Spec

\* Every table keeps its type, for any number of jobs, workers and owners.
THEOREM TypeCorrect == Spec => []TypeOK
  <1>1. IInv => TypeOK
    BY IInvMeaning
  <1>2. QED
    BY <1>1, IInvAlways, PTL

\* Rows and attempts stay in step through every claim, preemption, settlement,
\* recovery and deletion of an account, for any number of jobs, workers and owners.
THEOREM AttemptsMatchRows == Spec => []RunningAttemptMatchesRow
  <1>1. IInv => RunningAttemptMatchesRow
    BY IInvMeaning
  <1>2. QED
    BY <1>1, IInvAlways, PTL

-----------------------------------------------------------------------------
(* What a step may never do *)

\* A cancelled request leaves the queue at once, so rows that wait, and rows
\* that are still to come, carry none.
WaitingNotCancelled ==
    \A j \in Job : jobs[j].status \in {"absent", "queued"} => ~jobs[j].cancel_requested

\* Job j through one step: a finished one keeps its outcome and reservations,
\* a finished attempt stays as it is, a requested cancellation leaves no other
\* change of status but the withdrawal, and a waiting row carries no request.
OutcomeKept(j) ==
    Terminal(j) => jobs'[j].status = jobs[j].status /\ holds'[j] = holds[j]

AttemptsKept(j) ==
    \A a \in DOMAIN attempts[j] :
        attempts[j][a].status # "running" =>
            a \in DOMAIN attempts'[j] /\ attempts'[j][a] = attempts[j][a]

CancelKept(j) ==
    jobs[j].cancel_requested /\ jobs'[j].status # jobs[j].status =>
        jobs'[j].status \in {"cancelled", "withdrawn"}

StaysWaiting(j) ==
    jobs'[j].status \in {"absent", "queued"} => ~jobs'[j].cancel_requested

StepOK(j) == OutcomeKept(j) /\ AttemptsKept(j) /\ CancelKept(j) /\ StaysWaiting(j)

\* A job the step does not touch.
LEMMA UntouchedOK ==
    ASSUME WaitingNotCancelled, NEW j \in Job,
           jobs'[j] = jobs[j], holds'[j] = holds[j], attempts'[j] = attempts[j]
    PROVE  StepOK(j)
  BY DEF WaitingNotCancelled, StepOK, OutcomeKept, AttemptsKept, CancelKept, StaysWaiting

\* A running job that leaves its worker because it was cancelled, or without a
\* request to cancel it.
LEMMA LeavingOK ==
    ASSUME IInv, NEW j \in Job, jobs[j].status = "running",
           NEW s, attempts'[j] = Ended(j, jobs[j].attempt_count, s),
           \/ jobs'[j].status = "cancelled"
           \/ ~jobs[j].cancel_requested /\ ~jobs'[j].cancel_requested
    PROVE  StepOK(j)
  <1>1. ~Terminal(j)
    BY DEF Terminal, TerminalStatus
  <1>2. /\ attempts[j] \in Seq(Attempt)
        /\ jobs[j].attempt_count \in DOMAIN attempts[j]
        /\ RowMatches(jobs[j], attempts[j])
    BY RunningRow DEF IInv
  <1>3. AttemptsKept(j)
    <2>1. attempts[j][jobs[j].attempt_count].status = "running"
      BY <1>2 DEF RowMatches
    <2>2. QED
      BY <1>2, <2>1 DEF AttemptsKept, Ended
  <1>4. QED
    BY <1>1, <1>3 DEF StepOK, OutcomeKept, CancelKept, StaysWaiting

\* A waiting job that is claimed, its new attempt after the old ones.
LEMMA ClaimingOK ==
    ASSUME IInv, NEW j \in Job, NEW w \in Worker, Claimable(j),
           jobs'[j] = Claimed(jobs[j], w), attempts'[j] = BeginAttempt(j, w)
    PROVE  StepOK(j)
  <1>1. jobs[j] \in JobRow /\ attempts[j] \in Seq(Attempt)
    BY DEF IInv, RowsOK
  <1>2. jobs[j].status = "queued" /\ ~jobs[j].cancel_requested
    BY DEF Claimable
  <1>3. jobs'[j].status = "running"
    BY <1>1, ClaimedRow
  <1>4. ~Terminal(j)
    BY <1>2 DEF Terminal, TerminalStatus
  <1>5. AttemptsKept(j)
    BY <1>1, BegunAttempt, LenProperties DEF AttemptsKept, BeginAttempt
  <1>6. QED
    BY <1>2, <1>3, <1>4, <1>5 DEF StepOK, OutcomeKept, CancelKept, StaysWaiting

\* A job that was not finished and whose attempts stay, cancelled or without a
\* request to cancel it before and after.
LEMMA SameAttemptsOK ==
    ASSUME NEW j \in Job, ~Terminal(j), attempts'[j] = attempts[j],
           \/ jobs'[j].status = "cancelled"
           \/ ~jobs[j].cancel_requested /\ ~jobs'[j].cancel_requested
           \/ jobs[j].status = "running" /\ jobs'[j].status = "running"
    PROVE  StepOK(j)
  BY DEF StepOK, OutcomeKept, AttemptsKept, CancelKept, StaysWaiting

\* A step that touches one job only.
LEMMA OneJobOK ==
    ASSUME WaitingNotCancelled, NEW j \in Job, StepOK(j),
           \A k \in Job \ {j} : /\ jobs'[k] = jobs[k]
                                /\ holds'[k] = holds[k]
                                /\ attempts'[k] = attempts[k]
    PROVE  \A k \in Job : StepOK(k)
  <1>1. ASSUME NEW k \in Job, k # j
        PROVE  StepOK(k)
    BY <1>1, UntouchedOK
  <1>2. QED
    BY <1>1

\* Admission inserts a row that carries no request.
LEMMA AdmitJobOK ==
    ASSUME IInv, WaitingNotCancelled, NEW j \in Job, AdmitJob(j)
    PROVE  \A k \in Job : StepOK(k)
  <1>1. /\ jobs[j].status = "absent" /\ ~jobs[j].cancel_requested
        /\ jobs'[j].status = "queued" /\ ~jobs'[j].cancel_requested
    BY DEF AdmitJob, IInv, RowsOK, WaitingNotCancelled, NewRow, AbsentRow
  <1>2. StepOK(j)
    BY <1>1, SameAttemptsOK DEF AdmitJob, Terminal, TerminalStatus
  <1>3. QED
    BY <1>2, OneJobOK DEF AdmitJob, IInv, RowsOK, RestOK

\* A claim takes a waiting job without a request.
LEMMA ClaimNextJobOK ==
    ASSUME IInv, WaitingNotCancelled, NEW w \in Worker, NEW j \in Job,
           ClaimNextJob(w, j)
    PROVE  \A k \in Job : StepOK(k)
  <1>1. /\ Claimable(j)
        /\ jobs'[j] = Claimed(jobs[j], w)
        /\ attempts'[j] = BeginAttempt(j, w)
    BY DEF ClaimNextJob, IInv, RowsOK
  <1>2. StepOK(j)
    BY <1>1, ClaimingOK
  <1>3. QED
    BY <1>2, OneJobOK DEF ClaimNextJob, IInv, RowsOK, RestOK

\* Preemption spares a victim whose cancellation was requested.
LEMMA PreemptFreeJobForPaidOK ==
    ASSUME IInv, WaitingNotCancelled, NEW w \in Worker, NEW paid \in Job,
           NEW victim \in Job, PreemptFreeJobForPaid(w, paid, victim)
    PROVE  \A k \in Job : StepOK(k)
  <1> DEFINE r == Requeued(jobs[victim], "now")
             idle == [r EXCEPT !.queue_expiry = "none", !.started = "none"]
  <1>1. /\ Claimable(paid) /\ paid # victim
        /\ jobs[victim].status = "running" /\ ~jobs[victim].cancel_requested
    BY DEF PreemptFreeJobForPaid, PaidCandidate, Claimable, Owns
  <1>2. /\ jobs'[victim] = idle /\ jobs'[paid] = Claimed(jobs[paid], w)
        /\ attempts'[victim] = Ended(victim, jobs[victim].attempt_count, "interrupted")
        /\ attempts'[paid] = BeginAttempt(paid, w)
    BY <1>1 DEF PreemptFreeJobForPaid, IInv, RowsOK, CurrentAttempt
  <1>3. \A k \in Job \ {paid, victim} :
           /\ jobs'[k] = jobs[k] /\ holds'[k] = holds[k] /\ attempts'[k] = attempts[k]
    BY DEF PreemptFreeJobForPaid, IInv, RowsOK, RestOK
  <1>4. ~jobs'[victim].cancel_requested
    <2>1. r \in JobRow /\ r.cancel_requested = jobs[victim].cancel_requested
      BY RequeuedRow DEF IInv, RowsOK
    <2> HIDE DEF r
    <2>2. idle.cancel_requested = r.cancel_requested
      BY <2>1 DEF JobRow
    <2>3. QED
      BY <1>1, <1>2, <2>1, <2>2
  <1>5. StepOK(victim)
    BY <1>1, <1>2, <1>4, LeavingOK
  <1>6. StepOK(paid)
    BY <1>1, <1>2, ClaimingOK
  <1>7. ASSUME NEW k \in Job, k # paid, k # victim
        PROVE  StepOK(k)
    BY <1>3, <1>7, UntouchedOK
  <1>8. QED
    BY <1>5, <1>6, <1>7

\* A running job that leaves its worker, nothing else changing but reservations
\* of that job and letters.
LEMMA LeavingAloneOK ==
    ASSUME IInv, WaitingNotCancelled, NEW j \in Job, jobs[j].status = "running",
           NEW new, jobs' = [jobs EXCEPT ![j] = new],
           NEW s, attempts' = [attempts EXCEPT
                                  ![j] = Ended(j, jobs[j].attempt_count, s)],
           \A k \in Job \ {j} : holds'[k] = holds[k],
           \/ new.status = "cancelled"
           \/ ~jobs[j].cancel_requested /\ ~new.cancel_requested
    PROVE  \A k \in Job : StepOK(k)
  <1>1. /\ jobs'[j] = new
        /\ attempts'[j] = Ended(j, jobs[j].attempt_count, s)
        /\ \A k \in Job \ {j} : jobs'[k] = jobs[k] /\ attempts'[k] = attempts[k]
    BY DEF IInv, RowsOK
  <1>2. StepOK(j)
    BY <1>1, LeavingOK
  <1>3. QED
    BY <1>1, <1>2, OneJobOK

\* Giving the reservations of one job back touches no other job's.
LEMMA OneRelease ==
    ASSUME NEW S, NEW j \in Job, S \subseteq {j}, ReleaseHolds(S)
    PROVE  \A k \in Job \ {j} : holds'[k] = holds[k]
  BY DEF ReleaseHolds

\* A heartbeat renews the lease of a running job and nothing else.
LEMMA HeartbeatAttemptOK ==
    ASSUME IInv, WaitingNotCancelled, NEW j \in Job, NEW w \in Worker, NEW a,
           HeartbeatAttempt(j, a, w)
    PROVE  \A k \in Job : StepOK(k)
  <1>1. jobs[j].status = "running" /\ jobs[j] \in JobRow
    BY SettlingRow DEF HeartbeatAttempt, Settles
  <1>2. jobs'[j].status = "running"
    BY <1>1 DEF HeartbeatAttempt, IInv, RowsOK, JobRow
  <1>3. StepOK(j)
    BY <1>1, <1>2, SameAttemptsOK DEF HeartbeatAttempt, Terminal, TerminalStatus
  <1>4. QED
    BY <1>3, OneJobOK DEF HeartbeatAttempt, IInv, RowsOK

\* A result is accepted only without a request to cancel.
LEMMA CompleteAttemptOK ==
    ASSUME IInv, WaitingNotCancelled, NEW j \in Job, NEW w \in Worker, NEW a,
           CompleteAttempt(j, a, w)
    PROVE  \A k \in Job : StepOK(k)
  <1>1. /\ jobs[j].status = "running" /\ a = jobs[j].attempt_count
        /\ jobs[j] \in JobRow /\ ~jobs[j].cancel_requested
    BY SettlingRow DEF CompleteAttempt, Settles
  <1>2. ~Unlocked(jobs[j], "succeeded").cancel_requested
    BY <1>1, UnlockedRow DEF JobStatus, TerminalStatus
  <1>3. /\ jobs' = [jobs EXCEPT ![j] = Unlocked(jobs[j], "succeeded")]
        /\ attempts' = [attempts EXCEPT ![j] = Ended(j, jobs[j].attempt_count, "succeeded")]
        /\ \A k \in Job \ {j} : holds'[k] = holds[k]
    BY <1>1 DEF CompleteAttempt, IInv, RestOK
  <1>4. QED
    BY <1>1, <1>2, <1>3, LeavingAloneOK

\* So is a final failure.
LEMMA FailAttemptOK ==
    ASSUME IInv, WaitingNotCancelled, NEW j \in Job, NEW w \in Worker, NEW a,
           FailAttempt(j, a, w)
    PROVE  \A k \in Job : StepOK(k)
  <1>1. /\ jobs[j].status = "running" /\ a = jobs[j].attempt_count
        /\ jobs[j] \in JobRow /\ ~jobs[j].cancel_requested
    BY SettlingRow DEF FailAttempt, Settles
  <1>2. ~Failed(jobs[j], "failed").cancel_requested
    BY <1>1, FailedRow DEF TerminalStatus
  <1>3. /\ jobs' = [jobs EXCEPT ![j] = Failed(jobs[j], "failed")]
        /\ attempts' = [attempts EXCEPT ![j] = Ended(j, jobs[j].attempt_count, "failed")]
        /\ \A k \in Job \ {j} : holds'[k] = holds[k]
    BY <1>1, OneRelease DEF FailAttempt
  <1>4. QED
    BY <1>1, <1>2, <1>3, LeavingAloneOK

\* And a retry.
LEMMA RetryFailedAttemptOK ==
    ASSUME IInv, WaitingNotCancelled, NEW j \in Job, NEW w \in Worker, NEW a,
           NEW kind \in RetryKind, RetryFailedAttempt(j, a, w, kind)
    PROVE  \A k \in Job : StepOK(k)
  <1> DEFINE new == Retried(jobs[j], RetryBudget(kind))
             dead == {k \in {j} : new.status = "dead_lettered"}
  <1>1. /\ jobs[j].status = "running" /\ a = jobs[j].attempt_count
        /\ jobs[j] \in JobRow /\ ~jobs[j].cancel_requested
    BY SettlingRow DEF RetryFailedAttempt, Settles
  <1>2. RetryBudget(kind) \in Nat
    BY LimitAssumption DEF RetryBudget
  <1>3. ~new.cancel_requested
    BY <1>1, <1>2, RetriedRow
  <1>4. /\ jobs' = [jobs EXCEPT ![j] = new]
        /\ attempts' = [attempts EXCEPT ![j] = Ended(j, jobs[j].attempt_count, kind)]
        /\ ReleaseHolds(dead)
    BY <1>1 DEF RetryFailedAttempt
  <1>5. \A k \in Job \ {j} : holds'[k] = holds[k]
    BY <1>4, OneRelease
  <1> HIDE DEF new, dead
  <1>6. QED
    BY <1>1, <1>3, <1>4, <1>5, LeavingAloneOK

\* The worker's own cancellation, whatever the attempt had done so far.
LEMMA CancelAttemptOK ==
    ASSUME IInv, WaitingNotCancelled, NEW j \in Job, NEW w \in Worker, NEW a,
           CancelAttempt(j, a, w)
    PROVE  \A k \in Job : StepOK(k)
  <1>1. jobs[j].status = "running" /\ a = jobs[j].attempt_count /\ jobs[j] \in JobRow
    BY SettlingRow DEF CancelAttempt
  <1>2. CancelledRow(jobs[j]).status = "cancelled"
    BY <1>1, CancelledRowFacts
  <1>3. /\ jobs' = [jobs EXCEPT ![j] = CancelledRow(jobs[j])]
        /\ attempts' = [attempts EXCEPT ![j] = Ended(j, jobs[j].attempt_count, "cancelled")]
        /\ \A k \in Job \ {j} : holds'[k] = holds[k]
    BY <1>1, OneRelease DEF CancelAttempt
  <1>4. QED
    BY <1>1, <1>2, <1>3, LeavingAloneOK

\* Shutdown cancels where that was requested and requeues elsewhere.
LEMMA ReleaseInterruptedAttemptOK ==
    ASSUME IInv, WaitingNotCancelled, NEW j \in Job, NEW w \in Worker, NEW a,
           ReleaseInterruptedAttempt(j, a, w)
    PROVE  \A k \in Job : StepOK(k)
  <1>1. CASE jobs[j].cancel_requested
    BY <1>1, CancelAttemptOK DEF ReleaseInterruptedAttempt, CancelAttempt
  <1>2. CASE ~jobs[j].cancel_requested
    <2> DEFINE r == Requeued(jobs[j], "now")
               new == [r EXCEPT !.queue_expiry = "none"]
    <2>1. jobs[j].status = "running" /\ a = jobs[j].attempt_count /\ jobs[j] \in JobRow
      BY SettlingRow DEF ReleaseInterruptedAttempt
    <2>2. r \in JobRow /\ ~r.cancel_requested
      BY <1>2, <2>1, RequeuedRow
    <2>3. /\ jobs' = [jobs EXCEPT ![j] = new]
          /\ attempts' = [attempts EXCEPT
                 ![j] = Ended(j, jobs[j].attempt_count, "interrupted")]
          /\ \A k \in Job \ {j} : holds'[k] = holds[k]
      BY <1>2, <2>1 DEF ReleaseInterruptedAttempt
    <2> HIDE DEF r
    <2>4. ~new.cancel_requested
      BY <2>2 DEF JobRow
    <2> HIDE DEF new
    <2>5. QED
      BY <1>2, <2>1, <2>3, <2>4, LeavingAloneOK
  <1>3. QED
    BY <1>1, <1>2

\* A row whose status and request stay, with its attempts and reservations.
LEMMA SameStatusOK ==
    ASSUME WaitingNotCancelled, NEW j \in Job,
           jobs'[j].status = jobs[j].status,
           jobs'[j].cancel_requested = jobs[j].cancel_requested,
           holds'[j] = holds[j], attempts'[j] = attempts[j]
    PROVE  StepOK(j)
  BY DEF WaitingNotCancelled, StepOK, OutcomeKept, AttemptsKept, CancelKept, StaysWaiting

\* A request cancels a queued job and marks a running one.
LEMMA RequestCancelOK ==
    ASSUME IInv, WaitingNotCancelled, NEW j \in Job, RequestCancel(j)
    PROVE  \A k \in Job : StepOK(k)
  <1>1. jobs[j] \in JobRow
    BY DEF IInv, RowsOK
  <1>2. CASE RequestCancelQueued(j)
    <2> DEFINE c == CancelledRow(jobs[j])
    <2>1. c \in JobRow /\ c.status = "cancelled"
      BY <1>1, CancelledRowFacts
    <2>2. jobs' = [jobs EXCEPT ![j] = [c EXCEPT !.cancel_requested = TRUE]]
      BY <1>2 DEF RequestCancelQueued
    <2> HIDE DEF c
    <2>3. jobs'[j].status = "cancelled"
      BY <2>1, <2>2 DEF IInv, RowsOK, JobRow
    <2>4. StepOK(j)
      BY <1>2, <2>3, SameAttemptsOK DEF RequestCancelQueued, Terminal, TerminalStatus
    <2>5. \A k \in Job \ {j} : holds'[k] = holds[k]
      BY <1>2, OneRelease DEF RequestCancelQueued
    <2>6. QED
      BY <1>2, <2>2, <2>4, <2>5, OneJobOK DEF RequestCancelQueued, IInv, RowsOK
  <1>3. CASE RequestCancelRunning(j)
    <2>1. jobs[j].status = "running" /\ jobs'[j].status = "running"
      BY <1>1, <1>3 DEF RequestCancelRunning, IInv, RowsOK, JobRow
    <2>2. StepOK(j)
      BY <1>3, <2>1, SameAttemptsOK DEF RequestCancelRunning, Terminal, TerminalStatus
    <2>3. QED
      BY <1>3, <2>2, OneJobOK DEF RequestCancelRunning, IInv, RowsOK
  <1>4. QED
    BY <1>2, <1>3 DEF RequestCancel

\* Ending the running attempts of a job keeps the others.
LEMMA EndingKeepsAttempts ==
    ASSUME IInv, NEW j \in Job, NEW s \in AttemptStatus \ {"running"},
           attempts'[j] = RunningEnded(j, s)
    PROVE  AttemptsKept(j)
  <1>1. attempts[j] \in Seq(Attempt)
    BY DEF IInv, RowsOK
  <1>2. QED
    BY <1>1, RunningEndedAttempts DEF AttemptsKept

\* The deletion of an account leaves finished jobs and attempts alone.
LEMMA RequestAccountDeletionOK ==
    ASSUME IInv, WaitingNotCancelled, NEW u \in Account, RequestAccountDeletion(u)
    PROVE  \A k \in Job : StepOK(k)
  <1> SUFFICES ASSUME NEW k \in Job PROVE StepOK(k)
    OBVIOUS
  <1>1. AttemptsKept(k)
    <2>1. attempts'[k] \in {RunningEnded(k, "failed"), attempts[k]}
      BY DEF RequestAccountDeletion
    <2>2. CASE attempts'[k] = attempts[k]
      BY <2>2 DEF AttemptsKept
    <2>3. CASE attempts'[k] = RunningEnded(k, "failed")
      BY <2>3, EndingKeepsAttempts DEF AttemptStatus, FailedAttemptStatus
    <2>4. QED
      BY <2>1, <2>2, <2>3
  <1>2. CASE k \in JobsOf(u) /\ Active(k)
    <2>1. jobs'[k] = Withdrawn(jobs[k]) /\ jobs[k] \in JobRow
      BY <1>2 DEF RequestAccountDeletion, IInv, RowsOK
    <2>2. jobs'[k].status = "withdrawn"
      BY <2>1, WithdrawnRow
    <2>3. ~Terminal(k)
      BY <1>2 DEF Active, Terminal, TerminalStatus
    <2>4. QED
      BY <1>1, <2>2, <2>3 DEF StepOK, OutcomeKept, CancelKept, StaysWaiting
  <1>3. CASE ~(k \in JobsOf(u) /\ Active(k))
    <2>1. jobs'[k] = jobs[k] /\ holds'[k] = holds[k]
      BY <1>3 DEF RequestAccountDeletion, ReleaseHolds
    <2>2. QED
      BY <1>1, <2>1 DEF StepOK, OutcomeKept, CancelKept, StaysWaiting, WaitingNotCancelled
  <1>4. QED
    BY <1>2, <1>3

\* The first recovery statement cancels, and ends running attempts only.
LEMMA RecoverCancellationsOK ==
    ASSUME IInv, WaitingNotCancelled, RecoverCancellations
    PROVE  \A k \in Job : StepOK(k)
  <1> SUFFICES ASSUME NEW k \in Job PROVE StepOK(k)
    OBVIOUS
  <1> DEFINE due == {j \in Job : CancelDue(j)}
  <1>1. CASE k \in due
    <2>1. ~Terminal(k)
      BY <1>1 DEF CancelDue, Abandoned, Terminal, TerminalStatus
    <2>2. jobs'[k].status = "cancelled"
      <3>1. jobs'[k] = CancelledRow(jobs[k]) /\ jobs[k] \in JobRow
        BY <1>1 DEF RecoverCancellations, IInv, RowsOK
      <3>2. QED
        BY <3>1, CancelledRowFacts
    <2>3. AttemptsKept(k)
      <3>1. attempts'[k] = RunningEnded(k, "cancelled")
        BY <1>1 DEF RecoverCancellations
      <3>2. QED
        BY <3>1, EndingKeepsAttempts DEF AttemptStatus
    <2>4. QED
      BY <2>1, <2>2, <2>3 DEF StepOK, OutcomeKept, CancelKept, StaysWaiting
  <1>2. CASE k \notin due
    BY <1>2, UntouchedOK DEF RecoverCancellations, ReleaseHolds
  <1>3. QED
    BY <1>1, <1>2

\* The second one retries abandoned jobs without a request.
LEMMA RecoverExpiredAttemptsOK ==
    ASSUME IInv, WaitingNotCancelled, RecoverExpiredAttempts
    PROVE  \A k \in Job : StepOK(k)
  <1> SUFFICES ASSUME NEW k \in Job PROVE StepOK(k)
    OBVIOUS
  <1> DEFINE row(j) == Retried(jobs[j], RetryBudget(RecoveryKind(j)))
  <1>1. CASE RecoverDue(k)
    <2>1. jobs[k] \in JobRow /\ jobs[k].status = "running" /\ ~jobs[k].cancel_requested
      BY <1>1 DEF IInv, RowsOK, RecoverDue, Abandoned
    <2>2. /\ jobs'[k] = row(k)
          /\ attempts'[k] = Ended(k, jobs[k].attempt_count, RecoveryKind(k))
      BY <1>1 DEF RecoverExpiredAttempts, CurrentAttempt
    <2>3. RetryBudget(RecoveryKind(k)) \in Nat
      BY LimitAssumption DEF RetryBudget
    <2>4. ~row(k).cancel_requested
      BY <2>1, <2>3, RetriedRow
    <2> HIDE DEF row
    <2>5. QED
      BY <2>1, <2>2, <2>4, LeavingOK
  <1>2. CASE ~RecoverDue(k)
    BY <1>2, UntouchedOK DEF RecoverExpiredAttempts, ReleaseHolds
  <1>3. QED
    BY <1>1, <1>2

\* Queue expiry fails waiting jobs, none of which carries a request.
LEMMA ExpireQueuedJobsOK ==
    ASSUME IInv, WaitingNotCancelled, ExpireQueuedJobs
    PROVE  \A k \in Job : StepOK(k)
  <1> SUFFICES ASSUME NEW k \in Job PROVE StepOK(k)
    OBVIOUS
  <1>1. CASE ExpireDue(k)
    <2> DEFINE r == Unlocked(jobs[k], "failed")
    <2>1. /\ jobs[k] \in JobRow /\ jobs[k].status = "queued"
          /\ ~jobs[k].cancel_requested
      BY <1>1 DEF IInv, RowsOK, ExpireDue, WaitingNotCancelled
    <2>2. jobs'[k] = [r EXCEPT !.queue_expiry = "none"] /\ attempts'[k] = attempts[k]
      BY <1>1 DEF ExpireQueuedJobs
    <2>3. r \in JobRow /\ ~r.cancel_requested
      BY <2>1, UnlockedRow DEF JobStatus, TerminalStatus
    <2> HIDE DEF r
    <2>4. ~jobs'[k].cancel_requested
      BY <2>2, <2>3 DEF JobRow
    <2>5. QED
      BY <2>1, <2>2, <2>4, SameAttemptsOK DEF Terminal, TerminalStatus
  <1>2. CASE ~ExpireDue(k)
    BY <1>2, UntouchedOK DEF ExpireQueuedJobs, ReleaseHolds
  <1>3. QED
    BY <1>1, <1>2

\* A replay leaves the dead-lettered job alone and inserts a new row.
LEMMA ReplayDeadLetterOK ==
    ASSUME IInv, WaitingNotCancelled, NEW j \in Job, NEW k \in Job,
           ReplayDeadLetter(j, k)
    PROVE  \A i \in Job : StepOK(i)
  <1>1. /\ jobs[k].status = "absent" /\ ~jobs[k].cancel_requested
        /\ jobs'[k].status = "queued" /\ ~jobs'[k].cancel_requested
    BY DEF ReplayDeadLetter, IInv, RowsOK, WaitingNotCancelled, NewRow, AbsentRow
  <1>2. StepOK(k)
    BY <1>1, SameAttemptsOK DEF ReplayDeadLetter, Terminal, TerminalStatus
  <1>3. QED
    BY <1>2, OneJobOK DEF ReplayDeadLetter, IInv, RowsOK

\* A step that leaves rows, attempts and reservations alone.
LEMMA SameTablesOK ==
    ASSUME WaitingNotCancelled, UNCHANGED <<jobs, attempts, holds>>
    PROVE  \A k \in Job : StepOK(k)
  BY UntouchedOK

\* The clock moves one timestamp column of one row.
LEMMA TicksOK ==
    ASSUME IInv, WaitingNotCancelled, NEW j \in Job,
           NEW column \in {"lease", "next_attempt", "started", "queue_expiry"},
           NEW from, NEW to, Ticks(j, column, from, to)
    PROVE  \A k \in Job : StepOK(k)
  <1> DEFINE new == [jobs[j] EXCEPT ![column] = to]
  <1>1. /\ jobs'[j] = new
        /\ \A k \in Job \ {j} : jobs'[k] = jobs[k]
        /\ UNCHANGED <<attempts, holds>>
    BY DEF Ticks, IInv, RowsOK
  <1>2. /\ new.status = jobs[j].status
        /\ new.cancel_requested = jobs[j].cancel_requested
    <2>1. jobs[j] \in JobRow
      BY DEF IInv, RowsOK
    <2>2. QED
      BY <2>1 DEF JobRow
  <1> HIDE DEF new
  <1>3. StepOK(j)
    BY <1>1, <1>2, SameStatusOK
  <1>4. QED
    BY <1>1, <1>3, OneJobOK

\* Every tick of the clock.
LEMMA TimePassesOK ==
    ASSUME IInv, WaitingNotCancelled, NEW j \in Job, TimePasses(j)
    PROVE  \A k \in Job : StepOK(k)
  BY TicksOK DEF TimePasses, LeaseExpires, RetryTimeComes, GraceElapses,
                 HardTimeoutElapses, QueueExpiryComes

\* The empty tables carry no request.
LEMMA InitWaiting == Init => WaitingNotCancelled
  BY DEF Init, WaitingNotCancelled, AbsentRow

\* Every step treats every job as it must.
LEMMA NextOK ==
    ASSUME IInv, WaitingNotCancelled, [Next]_vars
    PROVE  \A i \in Job : StepOK(i)
  <1>1. CASE UNCHANGED vars
    BY <1>1, SameTablesOK DEF vars
  <1>2. ASSUME NEW j \in Job, AdmitJob(j) \/ RequestCancel(j) \/ DiscardDeadLetter(j)
        PROVE  \A i \in Job : StepOK(i)
    BY <1>2, AdmitJobOK, RequestCancelOK, SameTablesOK
       DEF DiscardDeadLetter, DiscardLetters
  <1>3. ASSUME NEW j \in Job, NEW k \in Job, ReplayDeadLetter(j, k)
        PROVE  \A i \in Job : StepOK(i)
    BY <1>3, ReplayDeadLetterOK
  <1>4. CASE DiscardAllDeadLetters
    BY <1>4, SameTablesOK DEF DiscardAllDeadLetters, DiscardLetters
  <1>5. ASSUME NEW w \in Worker, Dispatch(w)
        PROVE  \A i \in Job : StepOK(i)
    BY <1>5, ClaimNextJobOK, PreemptFreeJobForPaidOK DEF Dispatch
  <1>6. ASSUME NEW w \in Worker, RegistryStep(w)
        PROVE  \A i \in Job : StepOK(i)
    BY <1>6, SameTablesOK DEF RegistryStep, RegisterWorker, LeaveRegistry
  <1>7. ASSUME NEW j \in Job, NEW w \in Worker, NEW a \in DOMAIN attempts[j],
               WorkerCall(j, a, w)
        PROVE  \A i \in Job : StepOK(i)
    BY <1>7, HeartbeatAttemptOK, CompleteAttemptOK, FailAttemptOK,
       RetryFailedAttemptOK, ReleaseInterruptedAttemptOK, CancelAttemptOK
       DEF WorkerCall
  <1>8. CASE Maintenance
    BY <1>8, RecoverCancellationsOK, RecoverExpiredAttemptsOK, ExpireQueuedJobsOK
       DEF Maintenance
  <1>9. ASSUME NEW j \in Job, TimePasses(j)
        PROVE  \A i \in Job : StepOK(i)
    BY <1>9, TimePassesOK
  <1>10. ASSUME NEW u \in Account, RequestAccountDeletion(u)
         PROVE  \A i \in Job : StepOK(i)
    BY <1>10, RequestAccountDeletionOK
  <1>11. QED
    BY <1>1, <1>2, <1>3, <1>4, <1>5, <1>6, <1>7, <1>8, <1>9, <1>10 DEF Next

\* No row ever waits with a request to cancel it.
THEOREM WaitingAlways == Spec => []WaitingNotCancelled
  <1>1. IInv /\ WaitingNotCancelled /\ [Next]_vars => WaitingNotCancelled'
    BY NextOK DEF StepOK, StaysWaiting, WaitingNotCancelled
  <1>2. QED
    BY InitWaiting, IInvAlways, <1>1, PTL DEF Spec

\* A late call of a worker whose attempt was recovered, preempted or cancelled
\* changes no finished job, reservation or attempt, for any number of each.
THEOREM FinishedStays == Spec => FinishedStaysFinished
  <1> DEFINE Kept == \A j \in Job : OutcomeKept(j) /\ AttemptsKept(j)
  <1>1. IInv /\ WaitingNotCancelled /\ [Next]_vars => Kept
    BY NextOK DEF StepOK
  <1>2. Kept <=> \A j \in Job :
          /\ Terminal(j) => /\ jobs'[j].status = jobs[j].status
                            /\ holds'[j] = holds[j]
          /\ \A a \in DOMAIN attempts[j] :
                attempts[j][a].status # "running" =>
                    a \in DOMAIN attempts'[j] /\ attempts'[j][a] = attempts[j][a]
    BY DEF OutcomeKept, AttemptsKept
  <1> HIDE DEF Kept
  <1>3. QED
    BY <1>1, <1>2, IInvAlways, WaitingAlways, PTL DEF Spec, FinishedStaysFinished

\* Once cancellation was requested a job can only become cancelled, whatever
\* arrives first except the deletion of its account, for any number of jobs and
\* workers.
THEOREM CancelWins == Spec => CancelRequestWins
  <1> DEFINE Kept == \A j \in Job : CancelKept(j)
  <1>1. IInv /\ WaitingNotCancelled /\ [Next]_vars => Kept
    BY NextOK DEF StepOK
  <1>2. Kept <=> \A j \in Job :
          jobs[j].cancel_requested /\ jobs'[j].status # jobs[j].status =>
              jobs'[j].status \in {"cancelled", "withdrawn"}
    BY DEF CancelKept
  <1> HIDE DEF Kept
  <1>3. QED
    BY <1>1, <1>2, IInvAlways, WaitingAlways, PTL DEF Spec, CancelRequestWins
=============================================================================
