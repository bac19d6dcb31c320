---------------------- MODULE OptimizeJobLimitsProofs ----------------------
(***************************************************************************)
(* The limits of the job store, its retry budget and its dead letters, for *)
(* every finite set of jobs and every choice of the constants: how many    *)
(* jobs run and wait, that a waiting job can be claimed, what a failure    *)
(* costs, and which jobs have a letter.                                    *)
(*                                                                         *)
(* Every step but a claim, an admission and a replay is quiet: no job      *)
(* starts or is new.  The invariants follow from that and from the three.  *)
(***************************************************************************)
EXTENDS OptimizeJobQueueProofs

-----------------------------------------------------------------------------
(* What a step does to one job.                                            *)

\* Its place in the queue, its counters and its letter stay, but for a review.
Keeps(k) ==
    /\ jobs'[k].status = jobs[k].status
    /\ jobs'[k].failure_count = jobs[k].failure_count
    /\ jobs'[k].attempt_count = jobs[k].attempt_count
    /\ jobs'[k].worker_id = jobs[k].worker_id
    /\ jobs[k].cancel_requested => jobs'[k].cancel_requested
    /\ jobs[k].next_attempt # "none" => jobs'[k].next_attempt # "none"
    /\ jobs[k].queue_expiry # "none" => jobs'[k].queue_expiry # "none"
    /\ \/ letters'[k] = letters[k]
       \/ letters[k] = "pending_review" /\ letters'[k] = "discarded"

\* It ends, with a letter if it is dead-lettered.
Ends(k) ==
    /\ jobs[k].status \in {"queued", "running"}
    /\ jobs'[k].status \in TerminalStatus
    /\ jobs'[k].attempt_count = jobs[k].attempt_count
    /\ letters'[k] = IF jobs'[k].status = "dead_lettered" /\ letters[k] = "none"
                     THEN "pending_review" ELSE letters[k]

\* It leaves its worker and waits for another attempt.
Requeues(k) ==
    /\ jobs[k].status = "running" /\ jobs'[k].status = "queued"
    /\ ~jobs[k].cancel_requested
    /\ jobs'[k].attempt_count = jobs[k].attempt_count
    /\ jobs'[k].next_attempt # "none"
    /\ jobs'[k].failure_count = jobs[k].failure_count \/ jobs'[k].failure_count < MaxFailures
    /\ letters'[k] = letters[k]

\* It is claimed.
Starts(k) ==
    /\ jobs[k].status = "queued" /\ jobs'[k].status = "running"
    /\ ~jobs[k].cancel_requested
    /\ jobs'[k].attempt_count = jobs[k].attempt_count + 1
    /\ jobs'[k].failure_count = jobs[k].failure_count
    /\ letters'[k] = letters[k]

\* Its row is inserted.
Opens(k) ==
    /\ jobs[k].status = "absent" /\ jobs'[k].status = "queued"
    /\ jobs'[k].attempt_count = jobs[k].attempt_count
    /\ jobs'[k].failure_count = 0
    /\ jobs'[k].next_attempt # "none"
    /\ jobs'[k].queue_expiry # "none"
    /\ letters'[k] = letters[k]

Failures(att) == {a \in DOMAIN att : att[a].status \in FailedAttemptStatus}

CountsFailures(k) == jobs[k].failure_count = Cardinality(Failures(attempts[k]))

Rests(k) == \A a \in DOMAIN attempts[k] : attempts[k][a].status # "running"

\* Every failure is counted, or all but the one that the deletion of the account
\* put on the newest attempt of a job it withdrew.
FailuresKnown(k) ==
    \/ CountsFailures(k)
    \/ /\ jobs[k].status = "withdrawn" /\ Rests(k)
       /\ jobs[k].failure_count + 1 = Cardinality(Failures(attempts[k]))

CountKept(k) == FailuresKnown(k) => FailuresKnown(k)'

\* The status s of the attempt that ends says what becomes of the job.
Explains(row, s, new) ==
    /\ new.status = "succeeded" <=> s = "succeeded"
    /\ new.status = "cancelled" <=> s = "cancelled"
    /\ s = "interrupted" => new.status = "queued" /\ new.failure_count = row.failure_count
    /\ new.status = "dead_lettered" => s = "timed_out" \/ new.failure_count >= MaxFailures

Explained(k) ==
    jobs[k].status = "running" /\ jobs'[k].status # "running" =>
        Explains(jobs[k], attempts'[k][Len(attempts[k])].status, jobs'[k])

Quiet(k) == (Keeps(k) \/ Ends(k) \/ Requeues(k)) /\ CountKept(k) /\ Explained(k)

AllQuiet == (\A k \in Job : Quiet(k)) /\ UNCHANGED replayedAs

-----------------------------------------------------------------------------
(* Rows that wait, and failures that are counted.                          *)

\* A row that goes back to the queue has a next attempt.
LEMMA RequeuedWaits ==
    ASSUME NEW row \in JobRow, NEW when \in {"later", "now"}
    PROVE  Requeued(row, when).next_attempt = when
  <1>1. Unlocked(row, "queued") \in JobRow
    BY UnlockedRow DEF JobStatus
  <1>2. QED
    BY <1>1 DEF JobRow, Requeued

\* A retried row that waits is within its budget.
LEMMA RetriedWaits ==
    ASSUME NEW row \in JobRow, NEW budget \in Nat, Retried(row, budget).status = "queued"
    PROVE  /\ Retried(row, budget).next_attempt = "later"
           /\ Retried(row, budget).failure_count < budget
  <1> DEFINE r == Requeued(row, "later")
  <1>1. row.failure_count \in Nat
    BY DEF JobRow
  <1>2. row.failure_count + 1 < budget
    <2>1. CASE row.failure_count + 1 >= budget
      <3>1. Retried(row, budget) = Failed(row, "dead_lettered")
        BY <2>1 DEF Retried
      <3>2. Failed(row, "dead_lettered").status = "dead_lettered"
        BY FailedRow DEF TerminalStatus
      <3>3. QED
        BY <3>1, <3>2
    <2>2. QED
      BY <1>1, <2>1
  <1>3. Retried(row, budget) = [r EXCEPT !.failure_count = @ + 1]
    BY <1>1, <1>2 DEF Retried
  <1>4. r \in JobRow /\ r.next_attempt = "later" /\ r.failure_count = row.failure_count
    BY RequeuedRow, RequeuedWaits
  <1> HIDE DEF r
  <1>5. QED
    BY <1>2, <1>3, <1>4 DEF JobRow

\* A retried row is dead-lettered when its budget is spent.
LEMMA RetriedDead ==
    ASSUME NEW row \in JobRow, NEW budget \in Nat, Retried(row, budget).status = "dead_lettered"
    PROVE  Retried(row, budget).failure_count >= budget
  <1>1. row.failure_count \in Nat
    BY DEF JobRow
  <1>2. CASE row.failure_count + 1 >= budget
    BY <1>2, RetriedRow
  <1>3. CASE row.failure_count + 1 < budget
    <2> DEFINE r == Requeued(row, "later")
    <2>1. Retried(row, budget) = [r EXCEPT !.failure_count = @ + 1]
      BY <1>1, <1>3 DEF Retried
    <2>2. r \in JobRow /\ r.status = "queued"
      BY RequeuedRow
    <2> HIDE DEF r
    <2>3. Retried(row, budget).status = "queued"
      BY <2>1, <2>2 DEF JobRow
    <2>4. QED
      BY <2>3
  <1>4. QED
    BY <1>1, <1>2, <1>3

\* A cancelled row keeps its failures.
LEMMA CancelledFailures ==
    ASSUME NEW row \in JobRow
    PROVE  CancelledRow(row).failure_count = row.failure_count
  <1> DEFINE u == Unlocked(row, "cancelled")
  <1>1. u \in JobRow /\ u.failure_count = row.failure_count
    BY UnlockedRow DEF JobStatus, TerminalStatus
  <1>2. CancelledRow(row) = [u EXCEPT !.queue_expiry = "none"]
    BY DEF CancelledRow
  <1> HIDE DEF u
  <1>3. QED
    BY <1>1, <1>2 DEF JobRow

\* A claimed row keeps its failures.
LEMMA ClaimedFailures ==
    ASSUME NEW row \in JobRow, NEW w \in Worker
    PROVE  Claimed(row, w).failure_count = row.failure_count
  <1> DEFINE n == row.attempt_count + 1
             locked == Locked(row, w)
             st == IF locked.started = "none" THEN "within" ELSE locked.started
  <1>1. locked = [row EXCEPT !.status = "running", !.attempt_count = n,
                             !.worker_id = w, !.lease = "held"]
    BY DEF Locked
  <1>2. Claimed(row, w) = [locked EXCEPT !.next_attempt = "none",
                                        !.queue_expiry = "none", !.started = st]
    BY DEF Claimed
  <1> HIDE DEF n, locked, st
  <1>3. Claimed(row, w).failure_count = row.failure_count
    BY <1>1, <1>2 DEF JobRow
  <1>4. QED
    BY <1>3

\* Ending the running attempt adds a failure if it failed, and nothing else.
LEMMA EndedFailures ==
    ASSUME NEW att \in Seq(Attempt), NEW a \in DOMAIN att, att[a].status = "running",
           NEW s \in AttemptStatus
    PROVE  LET n == Cardinality(Failures(att))
               m == Cardinality(Failures([att EXCEPT ![a].status = s]))
           IN  n \in Nat /\ m = IF s \in FailedAttemptStatus THEN n + 1 ELSE n
  <1> DEFINE e == [att EXCEPT ![a].status = s]
  <1>1. /\ DOMAIN e = DOMAIN att
        /\ e[a].status = s
        /\ \A b \in DOMAIN att : b # a => e[b] = att[b]
    BY EndedAttempt
  <1>2. a \notin Failures(att)
    BY DEF Failures, FailedAttemptStatus
  <1>3. IsFiniteSet(Failures(att)) /\ Cardinality(Failures(att)) \in Nat
    <2>1. DOMAIN att = 1..Len(att) /\ Len(att) \in Nat
      BY LenProperties
    <2>2. IsFiniteSet(1..Len(att))
      BY <2>1, FS_Interval
    <2>3. Failures(att) \subseteq 1..Len(att)
      BY <2>1 DEF Failures
    <2>4. QED
      BY <2>2, <2>3, FS_Subset, FS_CardinalityType
  <1> HIDE DEF e
  <1>4. CASE s \in FailedAttemptStatus
    <2>1. Failures(e) = Failures(att) \cup {a}
      BY <1>1, <1>4 DEF Failures
    <2>2. QED
      BY <1>2, <1>3, <1>4, <2>1, FS_AddElement DEF e
  <1>5. CASE s \notin FailedAttemptStatus
    <2>1. Failures(e) = Failures(att)
      BY <1>1, <1>2, <1>5 DEF Failures
    <2>2. QED
      BY <1>3, <1>5, <2>1 DEF e
  <1>6. QED
    BY <1>4, <1>5

\* A job whose attempt ended, its failures counted.
LEMMA LeavingCounts ==
    ASSUME IInv, NEW j \in Job, jobs[j].status = "running", NEW s \in AttemptStatus,
           attempts'[j] = Ended(j, jobs[j].attempt_count, s),
           jobs'[j].failure_count = IF s \in FailedAttemptStatus
                                    THEN jobs[j].failure_count + 1 ELSE jobs[j].failure_count
    PROVE  CountKept(j)
  <1> DEFINE a == jobs[j].attempt_count
  <1>1. attempts[j] \in Seq(Attempt) /\ a \in DOMAIN attempts[j]
        /\ attempts[j][a].status = "running"
    BY RunningRow DEF IInv, RowMatches
  <1>2. CountsFailures(j) => CountsFailures(j)'
    BY <1>1, EndedFailures DEF CountsFailures, Ended
  <1>3. QED
    BY <1>2 DEF CountKept, FailuresKnown

\* A job whose attempts and failures stay.
LEMMA SameCounts ==
    ASSUME NEW j, attempts'[j] = attempts[j], jobs'[j].failure_count = jobs[j].failure_count,
           jobs[j].status = "withdrawn" => jobs'[j].status = "withdrawn"
    PROVE  CountKept(j)
  BY DEF CountKept, CountsFailures, FailuresKnown, Rests

\* A job whose attempt ended with a status that explains what became of it.
LEMMA LeavingExplained ==
    ASSUME IInv, NEW j \in Job, jobs[j].status = "running", NEW s \in AttemptStatus,
           attempts'[j] = Ended(j, jobs[j].attempt_count, s),
           Explains(jobs[j], s, jobs'[j])
    PROVE  Explained(j)
  <1>1. /\ attempts[j] \in Seq(Attempt) /\ jobs[j].attempt_count \in DOMAIN attempts[j]
        /\ jobs[j].attempt_count = Len(attempts[j])
    BY RunningRow DEF IInv, RowMatches
  <1>2. attempts'[j][Len(attempts[j])].status = s
    BY <1>1, EndedAttempt DEF Ended
  <1>3. QED
    BY <1>2 DEF Explained

LEMMA UntouchedQuiet ==
    ASSUME NEW k, jobs'[k] = jobs[k], attempts'[k] = attempts[k], letters'[k] = letters[k]
    PROVE  Quiet(k)
  BY SameCounts DEF Quiet, Keeps, Explained

\* A step that touches one job only.
LEMMA OneQuiet ==
    ASSUME NEW j \in Job, Quiet(j), UNCHANGED replayedAs,
           \A k \in Job \ {j} : /\ jobs'[k] = jobs[k]
                                /\ attempts'[k] = attempts[k]
                                /\ letters'[k] = letters[k]
    PROVE  AllQuiet
  BY UntouchedQuiet DEF AllQuiet

-----------------------------------------------------------------------------
(* The quiet steps.                                                        *)

LEMMA HeartbeatAttemptQuiet ==
    ASSUME IInv, NEW j \in Job, NEW w \in Worker, NEW a, HeartbeatAttempt(j, a, w)
    PROVE  AllQuiet
  <1> DEFINE new == [jobs[j] EXCEPT !.lease = "held"]
  <1>1. jobs[j] \in JobRow
    BY SettlingRow DEF HeartbeatAttempt, Settles
  <1>2. jobs' = [jobs EXCEPT ![j] = new] /\ UNCHANGED <<attempts, letters, replayedAs>>
    BY DEF HeartbeatAttempt
  <1>3. /\ new.status = jobs[j].status /\ new.failure_count = jobs[j].failure_count
        /\ new.attempt_count = jobs[j].attempt_count
        /\ new.next_attempt = jobs[j].next_attempt /\ new.queue_expiry = jobs[j].queue_expiry
        /\ new.worker_id = jobs[j].worker_id /\ new.cancel_requested = jobs[j].cancel_requested
    BY <1>1 DEF JobRow
  <1> HIDE DEF new
  <1>4. jobs'[j] = new /\ \A k \in Job \ {j} : jobs'[k] = jobs[k]
    BY <1>2 DEF IInv, RowsOK
  <1>5. Quiet(j)
    BY <1>2, <1>3, <1>4, SameCounts DEF Quiet, Keeps, Explained
  <1>6. QED
    BY <1>2, <1>4, <1>5, OneQuiet

\* A running job ends or waits again, nothing else changing but its letter.
LEMMA LeavingQuiet ==
    ASSUME IInv, NEW j \in Job, jobs[j].status = "running", UNCHANGED replayedAs,
           NEW new, jobs' = [jobs EXCEPT ![j] = new],
           NEW s \in AttemptStatus,
           attempts' = [attempts EXCEPT ![j] = Ended(j, jobs[j].attempt_count, s)],
           new.failure_count = IF s \in FailedAttemptStatus
                               THEN jobs[j].failure_count + 1 ELSE jobs[j].failure_count,
           new.attempt_count = jobs[j].attempt_count, Explains(jobs[j], s, new),
           \A k \in Job \ {j} : letters'[k] = letters[k],
           \/ /\ new.status \in TerminalStatus
              /\ letters'[j] = IF new.status = "dead_lettered" /\ letters[j] = "none"
                               THEN "pending_review" ELSE letters[j]
           \/ /\ new.status = "queued" /\ letters'[j] = letters[j]
              /\ ~jobs[j].cancel_requested /\ new.next_attempt # "none"
              /\ new.failure_count = jobs[j].failure_count \/ new.failure_count < MaxFailures
    PROVE  AllQuiet
  <1>1. /\ jobs'[j] = new
        /\ attempts'[j] = Ended(j, jobs[j].attempt_count, s)
        /\ \A k \in Job \ {j} : jobs'[k] = jobs[k] /\ attempts'[k] = attempts[k]
    BY DEF IInv, RowsOK
  <1>2. CountKept(j) /\ Explained(j)
    BY <1>1, LeavingCounts, LeavingExplained
  <1>3. Ends(j) \/ Requeues(j)
    BY <1>1 DEF Ends, Requeues
  <1>4. QED
    BY <1>1, <1>2, <1>3, OneQuiet DEF Quiet

LEMMA CompleteAttemptQuiet ==
    ASSUME IInv, NEW j \in Job, NEW w \in Worker, NEW a, CompleteAttempt(j, a, w)
    PROVE  AllQuiet
  <1> DEFINE new == Unlocked(jobs[j], "succeeded")
  <1>1. jobs[j].status = "running" /\ a = jobs[j].attempt_count /\ jobs[j] \in JobRow
    BY SettlingRow DEF CompleteAttempt, Settles
  <1>2. /\ new.status = "succeeded" /\ new.failure_count = jobs[j].failure_count
        /\ new.attempt_count = jobs[j].attempt_count
    BY <1>1, UnlockedRow DEF JobStatus, TerminalStatus
  <1>3. /\ jobs' = [jobs EXCEPT ![j] = new]
        /\ attempts' = [attempts EXCEPT ![j] = Ended(j, jobs[j].attempt_count, "succeeded")]
        /\ UNCHANGED <<letters, replayedAs>>
    BY <1>1 DEF CompleteAttempt
  <1> HIDE DEF new
  <1>4. "succeeded" \in AttemptStatus \ FailedAttemptStatus /\ "succeeded" \in TerminalStatus
    BY DEF AttemptStatus, FailedAttemptStatus, TerminalStatus
  <1>5. QED
    BY <1>1, <1>2, <1>3, <1>4, LeavingQuiet DEF Explains

LEMMA FailAttemptQuiet ==
    ASSUME IInv, NEW j \in Job, NEW w \in Worker, NEW a, FailAttempt(j, a, w)
    PROVE  AllQuiet
  <1> DEFINE new == Failed(jobs[j], "failed")
  <1>1. jobs[j].status = "running" /\ a = jobs[j].attempt_count /\ jobs[j] \in JobRow
    BY SettlingRow DEF FailAttempt, Settles
  <1>2. /\ new.status = "failed" /\ new.failure_count = jobs[j].failure_count + 1
        /\ new.attempt_count = jobs[j].attempt_count
    BY <1>1, FailedRow DEF TerminalStatus
  <1>3. /\ jobs' = [jobs EXCEPT ![j] = new]
        /\ attempts' = [attempts EXCEPT ![j] = Ended(j, jobs[j].attempt_count, "failed")]
        /\ UNCHANGED <<letters, replayedAs>>
    BY <1>1 DEF FailAttempt
  <1> HIDE DEF new
  <1>4. "failed" \in AttemptStatus /\ "failed" \in FailedAttemptStatus /\ "failed" \in TerminalStatus
    BY DEF AttemptStatus, FailedAttemptStatus, TerminalStatus
  <1>5. QED
    BY <1>1, <1>2, <1>3, <1>4, LeavingQuiet DEF Explains

LEMMA RetryFailedAttemptQuiet ==
    ASSUME IInv, NEW j \in Job, NEW w \in Worker, NEW a, NEW kind \in RetryKind,
           RetryFailedAttempt(j, a, w, kind)
    PROVE  AllQuiet
  <1> DEFINE new == Retried(jobs[j], RetryBudget(kind))
             dead == {k \in {j} : new.status = "dead_lettered"}
  <1>1. /\ jobs[j].status = "running" /\ a = jobs[j].attempt_count /\ jobs[j] \in JobRow
        /\ ~jobs[j].cancel_requested
    BY SettlingRow DEF RetryFailedAttempt, Settles
  <1>2. RetryBudget(kind) \in Nat /\ RetryBudget(kind) <= MaxFailures
    BY LimitAssumption DEF RetryBudget
  <1>3. /\ jobs' = [jobs EXCEPT ![j] = new]
        /\ attempts' = [attempts EXCEPT ![j] = Ended(j, jobs[j].attempt_count, kind)]
        /\ CreateLetters(dead) /\ UNCHANGED replayedAs
    BY <1>1 DEF RetryFailedAttempt
  <1>4. /\ new.status \in {"queued", "dead_lettered"}
        /\ new.attempt_count = jobs[j].attempt_count
        /\ new.failure_count = jobs[j].failure_count + 1
        /\ new.failure_count \in Nat
    BY <1>1, <1>2, RetriedRow DEF JobRow
  <1>5. new.status = "queued" => new.next_attempt # "none" /\ new.failure_count < MaxFailures
    <2>1. new.status = "queued" => new.next_attempt = "later"
                                   /\ new.failure_count < RetryBudget(kind)
      BY <1>1, <1>2, RetriedWaits
    <2> HIDE DEF new
    <2>2. QED
      BY <1>2, <1>4, <2>1, LimitAssumption
  <1>6. kind \in AttemptStatus /\ kind \in FailedAttemptStatus
    BY DEF AttemptStatus, FailedAttemptStatus, RetryKind
  <1>7. /\ \A k \in Job \ {j} : letters'[k] = letters[k]
        /\ letters'[j] = IF new.status = "dead_lettered" /\ letters[j] = "none"
                         THEN "pending_review" ELSE letters[j]
    BY <1>3 DEF CreateLetters
  <1>8. new.status = "dead_lettered" => kind = "timed_out" \/ new.failure_count >= MaxFailures
    <2>1. new.status = "dead_lettered" => new.failure_count >= RetryBudget(kind)
      BY <1>1, <1>2, RetriedDead
    <2> HIDE DEF new
    <2>2. QED
      BY <2>1 DEF RetryBudget
  <1> HIDE DEF new, dead
  <1>9. Explains(jobs[j], kind, new)
    BY <1>4, <1>8 DEF Explains, RetryKind
  <1>10. "dead_lettered" \in TerminalStatus
    BY DEF TerminalStatus
  <1>11. QED
    BY <1>1, <1>3, <1>4, <1>5, <1>6, <1>7, <1>9, <1>10, LeavingQuiet

LEMMA CancelAttemptQuiet ==
    ASSUME IInv, NEW j \in Job, NEW w \in Worker, NEW a, CancelAttempt(j, a, w)
    PROVE  AllQuiet
  <1> DEFINE new == CancelledRow(jobs[j])
  <1>1. jobs[j].status = "running" /\ a = jobs[j].attempt_count /\ jobs[j] \in JobRow
    BY SettlingRow DEF CancelAttempt
  <1>2. /\ new.status = "cancelled" /\ new.failure_count = jobs[j].failure_count
        /\ new.attempt_count = jobs[j].attempt_count
    BY <1>1, CancelledFailures, CancelledRowFacts
  <1>3. /\ jobs' = [jobs EXCEPT ![j] = new]
        /\ attempts' = [attempts EXCEPT ![j] = Ended(j, jobs[j].attempt_count, "cancelled")]
        /\ UNCHANGED <<letters, replayedAs>>
    BY <1>1 DEF CancelAttempt
  <1> HIDE DEF new
  <1>4. "cancelled" \in AttemptStatus \ FailedAttemptStatus /\ "cancelled" \in TerminalStatus
    BY DEF AttemptStatus, FailedAttemptStatus, TerminalStatus
  <1>5. QED
    BY <1>1, <1>2, <1>3, <1>4, LeavingQuiet DEF Explains

LEMMA ReleaseInterruptedAttemptQuiet ==
    ASSUME IInv, NEW j \in Job, NEW w \in Worker, NEW a, ReleaseInterruptedAttempt(j, a, w)
    PROVE  AllQuiet
  <1>1. CASE jobs[j].cancel_requested
    BY <1>1, CancelAttemptQuiet DEF ReleaseInterruptedAttempt, CancelAttempt
  <1>2. CASE ~jobs[j].cancel_requested
    <2> DEFINE r == Requeued(jobs[j], "now")
               new == [r EXCEPT !.queue_expiry = "none"]
    <2>1. jobs[j].status = "running" /\ a = jobs[j].attempt_count /\ jobs[j] \in JobRow
      BY SettlingRow DEF ReleaseInterruptedAttempt
    <2>2. /\ r \in JobRow /\ r.status = "queued" /\ r.next_attempt = "now"
          /\ r.attempt_count = jobs[j].attempt_count
          /\ r.failure_count = jobs[j].failure_count
      BY <2>1, RequeuedRow, RequeuedWaits
    <2>3. /\ jobs' = [jobs EXCEPT ![j] = new]
          /\ attempts' = [attempts EXCEPT ![j] = Ended(j, jobs[j].attempt_count, "interrupted")]
          /\ UNCHANGED <<letters, replayedAs>>
      BY <1>2, <2>1 DEF ReleaseInterruptedAttempt
    <2> HIDE DEF r
    <2>4. /\ new.status = "queued" /\ new.next_attempt = "now"
          /\ new.attempt_count = jobs[j].attempt_count
          /\ new.failure_count = jobs[j].failure_count
      BY <2>2 DEF JobRow
    <2> HIDE DEF new
    <2>5. "interrupted" \in AttemptStatus \ FailedAttemptStatus
      BY DEF AttemptStatus, FailedAttemptStatus
    <2>6. QED
      BY <1>2, <2>1, <2>3, <2>4, <2>5, LeavingQuiet DEF Explains
  <1>3. QED
    BY <1>1, <1>2

LEMMA RequestCancelQuiet ==
    ASSUME IInv, NEW j \in Job, RequestCancel(j)
    PROVE  AllQuiet
  <1>1. jobs[j] \in JobRow
    BY DEF IInv, RowsOK
  <1>2. CASE RequestCancelQueued(j)
    <2> DEFINE c == CancelledRow(jobs[j])
               new == [c EXCEPT !.cancel_requested = TRUE]
    <2>1. /\ c \in JobRow /\ c.status = "cancelled" /\ c.failure_count = jobs[j].failure_count
          /\ c.attempt_count = jobs[j].attempt_count
      BY <1>1, CancelledRowFacts, CancelledFailures
    <2>2. /\ jobs' = [jobs EXCEPT ![j] = new] /\ jobs[j].status = "queued"
          /\ UNCHANGED <<attempts, letters, replayedAs>>
      BY <1>2 DEF RequestCancelQueued
    <2> HIDE DEF c
    <2>3. /\ new.status = "cancelled" /\ new.failure_count = jobs[j].failure_count
          /\ new.attempt_count = jobs[j].attempt_count
      BY <2>1 DEF JobRow
    <2> HIDE DEF new
    <2>4. jobs'[j] = new /\ \A k \in Job \ {j} : jobs'[k] = jobs[k]
      BY <2>2 DEF IInv, RowsOK
    <2>5. Quiet(j)
      BY <2>2, <2>3, <2>4, SameCounts DEF Quiet, Ends, TerminalStatus, Explained
    <2>6. QED
      BY <2>2, <2>4, <2>5, OneQuiet
  <1>3. CASE RequestCancelRunning(j)
    <2> DEFINE new == [jobs[j] EXCEPT !.cancel_requested = TRUE]
    <2>1. jobs' = [jobs EXCEPT ![j] = new] /\ UNCHANGED <<attempts, letters, replayedAs>>
      BY <1>3 DEF RequestCancelRunning
    <2>2. /\ new.status = jobs[j].status /\ new.failure_count = jobs[j].failure_count
          /\ new.attempt_count = jobs[j].attempt_count
          /\ new.next_attempt = jobs[j].next_attempt /\ new.queue_expiry = jobs[j].queue_expiry
          /\ new.worker_id = jobs[j].worker_id /\ new.cancel_requested
      BY <1>1 DEF JobRow
    <2> HIDE DEF new
    <2>3. jobs'[j] = new /\ \A k \in Job \ {j} : jobs'[k] = jobs[k]
      BY <2>1 DEF IInv, RowsOK
    <2>4. Quiet(j)
      BY <2>1, <2>2, <2>3, SameCounts DEF Quiet, Keeps, Explained
    <2>5. QED
      BY <2>1, <2>3, <2>4, OneQuiet
  <1>4. QED
    BY <1>2, <1>3 DEF RequestCancel

\* Cancelling every running attempt of a list adds no failure.
LEMMA CancelledAttempts ==
    ASSUME NEW att, NEW e, DOMAIN e = DOMAIN att,
           \A a \in DOMAIN att :
               /\ att[a].status = "running" => e[a].status = "cancelled"
               /\ att[a].status # "running" => e[a] = att[a]
    PROVE  Failures(e) = Failures(att)
  BY DEF Failures, FailedAttemptStatus

\* Failing the attempts that run adds at most the failure of the newest.
LEMMA FailedAttempts ==
    ASSUME IInv, NEW k \in Job
    PROVE  LET e == RunningEnded(k, "failed") IN
           /\ \A a \in DOMAIN e : e[a].status # "running"
           /\ \/ Cardinality(Failures(e)) = Cardinality(Failures(attempts[k])) /\ Rests(k)
              \/ Cardinality(Failures(e)) = Cardinality(Failures(attempts[k])) + 1
                 /\ jobs[k].status \in {"running", "withdrawn"} /\ ~Rests(k)
  <1> DEFINE att == attempts[k]
             e == RunningEnded(k, "failed")
  <1>1. att \in Seq(Attempt) /\ RowMatches(jobs[k], att)
    BY DEF IInv, RowsOK
  <1>2. "failed" \in AttemptStatus \ {"running"} /\ "failed" \in FailedAttemptStatus
    BY DEF AttemptStatus, FailedAttemptStatus
  <1>3. /\ DOMAIN e = DOMAIN att
        /\ \A a \in DOMAIN att :
              /\ e[a].status # "running"
              /\ att[a].status = "running" => e[a].status = "failed"
              /\ att[a].status # "running" => e[a] = att[a]
    BY <1>1, <1>2, RunningEndedAttempts
  <1>4. IsFiniteSet(Failures(att)) /\ Cardinality(Failures(att)) \in Nat
    <2>1. DOMAIN att = 1..Len(att) /\ Len(att) \in Nat
      BY <1>1, LenProperties
    <2>2. IsFiniteSet(1..Len(att))
      BY <2>1, FS_Interval
    <2>3. Failures(att) \subseteq 1..Len(att)
      BY <2>1 DEF Failures
    <2>4. QED
      BY <2>2, <2>3, FS_Subset, FS_CardinalityType
  <1>5. \A a \in DOMAIN att : att[a].status = "running" =>
            a = Len(att) /\ jobs[k].status \in {"running", "withdrawn"}
    BY <1>1 DEF RowMatches
  <1>6. Rests(k) <=> \A a \in DOMAIN att : att[a].status # "running"
    BY DEF Rests
  <1> HIDE DEF e, att
  <1>7. CASE Rests(k)
    <2>1. Failures(e) = Failures(att)
      BY <1>3, <1>6, <1>7 DEF Failures
    <2>2. QED
      BY <1>3, <1>7, <2>1 DEF e, att
  <1>8. CASE ~Rests(k)
    <2>1. PICK a \in DOMAIN att : att[a].status = "running"
      BY <1>6, <1>8
    <2>2. a \notin Failures(att)
      BY <2>1 DEF Failures, FailedAttemptStatus
    <2>3. \A b \in DOMAIN att : att[b].status = "running" => b = a
      BY <1>5, <2>1
    <2>4. e[a].status \in FailedAttemptStatus
      BY <1>2, <1>3, <2>1
    <2>5. Failures(e) = Failures(att) \cup {a}
      BY <1>3, <2>1, <2>3, <2>4 DEF Failures
    <2>6. Cardinality(Failures(e)) = Cardinality(Failures(att)) + 1
      BY <1>4, <2>2, <2>5, FS_AddElement
    <2>7. jobs[k].status \in {"running", "withdrawn"}
      BY <1>5, <2>1
    <2>8. QED
      BY <1>3, <1>8, <2>6, <2>7 DEF e, att
  <1>9. QED
    BY <1>7, <1>8

\* The deletion of the account withdraws what is open and counts no failure.
LEMMA RequestAccountDeletionQuiet ==
    ASSUME IInv, NEW u \in Account, RequestAccountDeletion(u)
    PROVE  AllQuiet
  <1> SUFFICES ASSUME NEW k \in Job PROVE Quiet(k)
    BY DEF AllQuiet, RequestAccountDeletion
  <1> DEFINE e == RunningEnded(k, "failed")
             open == k \in JobsOf(u) /\ Active(k)
  <1>1. /\ jobs'[k] = IF open THEN Withdrawn(jobs[k]) ELSE jobs[k]
        /\ attempts'[k] \in {e, attempts[k]}
        /\ letters'[k] = letters[k]
    BY DEF RequestAccountDeletion
  <1>2. /\ jobs[k] \in JobRow /\ attempts[k] \in Seq(Attempt)
        /\ RowMatches(jobs[k], attempts[k])
    BY DEF IInv, RowsOK
  <1>3. /\ \A a \in DOMAIN e : e[a].status # "running"
        /\ \/ Cardinality(Failures(e)) = Cardinality(Failures(attempts[k])) /\ Rests(k)
           \/ Cardinality(Failures(e)) = Cardinality(Failures(attempts[k])) + 1
              /\ jobs[k].status \in {"running", "withdrawn"} /\ ~Rests(k)
    BY FailedAttempts
  <1>4. open => jobs[k].status \in {"queued", "running"}
    BY DEF Active
  <1>5. /\ jobs'[k].failure_count = jobs[k].failure_count
        /\ jobs'[k].attempt_count = jobs[k].attempt_count
        /\ jobs'[k].status = IF open THEN "withdrawn" ELSE jobs[k].status
    BY <1>1, <1>2, WithdrawnRow
  <1>6. Explained(k)
    <2>1. CASE jobs[k].status = "running" /\ open
      <3>1. Len(attempts[k]) \in DOMAIN attempts[k]
            /\ attempts[k][Len(attempts[k])].status = "running"
        BY <1>2, <2>1, LenProperties DEF RowMatches
      <3>2. e[Len(attempts[k])].status = "failed"
        <4>1. "failed" \in AttemptStatus \ {"running"}
          BY DEF AttemptStatus, FailedAttemptStatus
        <4>2. QED
          BY <1>2, <3>1, <4>1, RunningEndedAttempts
      <3> HIDE DEF e
      <3>3. attempts'[k][Len(attempts[k])].status \in {"failed", "running"}
        BY <1>1, <3>1, <3>2
      <3>4. QED
        BY <1>5, <2>1, <3>3 DEF Explained, Explains
    <2>2. CASE ~(jobs[k].status = "running" /\ open)
      BY <1>5, <2>2 DEF Explained
    <2>3. QED
      BY <2>1, <2>2
  <1> HIDE DEF e
  <1>7. CountKept(k)
    <2> DEFINE n == Cardinality(Failures(attempts[k]))
               m == Cardinality(Failures(attempts'[k]))
    <2>1. CASE attempts'[k] = attempts[k]
      BY <1>4, <1>5, <2>1, SameCounts
    <2>2. CASE attempts'[k] = e
      <3>1. Rests(k)'
        BY <1>3, <2>2 DEF Rests
      <3>2. (m = n /\ Rests(k)) \/ (m = n + 1 /\ ~Rests(k)
                /\ jobs[k].status \in {"running", "withdrawn"})
        BY <1>3, <2>2
      <3> HIDE DEF n, m
      <3>3. /\ CountsFailures(k) <=> jobs[k].failure_count = n
            /\ CountsFailures(k)' <=> jobs'[k].failure_count = m
            /\ FailuresKnown(k) <=> \/ CountsFailures(k)
                                    \/ /\ jobs[k].status = "withdrawn" /\ Rests(k)
                                       /\ jobs[k].failure_count + 1 = n
            /\ FailuresKnown(k)' <=> \/ CountsFailures(k)'
                                     \/ /\ jobs'[k].status = "withdrawn" /\ Rests(k)'
                                        /\ jobs'[k].failure_count + 1 = m
        BY DEF FailuresKnown, CountsFailures, n, m
      <3>4. jobs[k].status = "withdrawn" => jobs'[k].status = "withdrawn"
        BY <1>4, <1>5
      <3>5. jobs[k].status = "running" => jobs'[k].status = "withdrawn" \/ ~open
        BY <1>5
      <3>6. jobs[k].status = "running" /\ ~open => Rests(k)
        <4>1. k \in JobsOf(u) \/ attempts'[k] = attempts[k]
          BY DEF RequestAccountDeletion
        <4>2. ~Rests(k) => e # attempts[k]
          BY <1>3 DEF Rests
        <4>3. QED
          BY <2>2, <4>1, <4>2 DEF Active
      <3> HIDE DEF open
      <3>7. QED
        BY <1>5, <3>1, <3>2, <3>3, <3>4, <3>5, <3>6 DEF CountKept
    <2>3. QED
      BY <1>1, <2>1, <2>2
  <1>8. Keeps(k) \/ Ends(k)
    <2>1. CASE open
      <3>1. jobs'[k].status = "withdrawn" /\ "withdrawn" \in TerminalStatus
        BY <1>5, <2>1 DEF TerminalStatus
      <3>2. QED
        BY <1>1, <1>4, <1>5, <2>1, <3>1 DEF Ends
    <2>2. CASE ~open
      BY <1>1, <2>2 DEF Keeps
    <2>3. QED
      BY <2>1, <2>2
  <1>9. QED
    BY <1>6, <1>7, <1>8 DEF Quiet

LEMMA RecoverCancellationsQuiet ==
    ASSUME IInv, RecoverCancellations
    PROVE  AllQuiet
  <1> SUFFICES ASSUME NEW k \in Job PROVE Quiet(k)
    BY DEF AllQuiet, RecoverCancellations
  <1>1. CASE CancelDue(k)
    <2> DEFINE e == RunningEnded(k, "cancelled")
    <2>1. /\ jobs'[k] = CancelledRow(jobs[k]) /\ jobs[k] \in JobRow
          /\ attempts'[k] = e /\ letters'[k] = letters[k]
      BY <1>1 DEF RecoverCancellations, IInv, RowsOK
    <2>2. jobs[k].status \in {"queued", "running"}
      BY <1>1 DEF CancelDue, Abandoned
    <2>3. /\ jobs'[k].status = "cancelled" /\ jobs'[k].failure_count = jobs[k].failure_count
          /\ jobs'[k].attempt_count = jobs[k].attempt_count
      BY <2>1, CancelledRowFacts, CancelledFailures
    <2>4. attempts[k] \in Seq(Attempt) /\ "cancelled" \in AttemptStatus \ {"running"}
      BY DEF IInv, RowsOK, AttemptStatus
    <2>5. /\ DOMAIN e = DOMAIN attempts[k]
          /\ \A a \in DOMAIN attempts[k] :
                /\ attempts[k][a].status = "running" => e[a].status = "cancelled"
                /\ attempts[k][a].status # "running" => e[a] = attempts[k][a]
      BY <2>4, RunningEndedAttempts
    <2>6. Failures(e) = Failures(attempts[k])
      BY <2>5, CancelledAttempts
    <2>7. Explained(k)
      <3>1. CASE jobs[k].status = "running"
        <4>1. /\ jobs[k].attempt_count = Len(attempts[k])
              /\ jobs[k].attempt_count \in DOMAIN attempts[k]
              /\ attempts[k][Len(attempts[k])].status = "running"
          BY <3>1, RunningRow DEF IInv, RowMatches
        <4>2. attempts'[k][Len(attempts[k])].status = "cancelled"
          BY <2>1, <2>5, <4>1
        <4>3. QED
          BY <2>3, <4>2 DEF Explained, Explains
      <3>2. CASE jobs[k].status # "running"
        BY <3>2 DEF Explained
      <3>3. QED
        BY <3>1, <3>2
    <2> HIDE DEF e
    <2>8. QED
      BY <2>1, <2>2, <2>3, <2>6, <2>7
         DEF Quiet, Ends, TerminalStatus, CountKept, CountsFailures, FailuresKnown
  <1>2. CASE ~CancelDue(k)
    BY <1>2, UntouchedQuiet DEF RecoverCancellations
  <1>3. QED
    BY <1>1, <1>2

LEMMA RecoverExpiredAttemptsQuiet ==
    ASSUME IInv, RecoverExpiredAttempts
    PROVE  AllQuiet
  <1> SUFFICES ASSUME NEW k \in Job PROVE Quiet(k)
    BY DEF AllQuiet, RecoverExpiredAttempts
  <1> DEFINE row(j) == Retried(jobs[j], RetryBudget(RecoveryKind(j)))
  <1>1. CASE RecoverDue(k)
    <2> DEFINE new == row(k)
               kind == RecoveryKind(k)
    <2>1. jobs[k] \in JobRow /\ jobs[k].status = "running" /\ ~jobs[k].cancel_requested
      BY <1>1 DEF IInv, RowsOK, RecoverDue, Abandoned
    <2>2. /\ jobs'[k] = new
          /\ attempts'[k] = Ended(k, jobs[k].attempt_count, kind)
          /\ letters'[k] = IF new.status = "dead_lettered" /\ letters[k] = "none"
                           THEN "pending_review" ELSE letters[k]
      BY <1>1 DEF RecoverExpiredAttempts, CurrentAttempt, CreateLetters
    <2>3. RetryBudget(kind) \in Nat /\ RetryBudget(kind) <= MaxFailures
      BY LimitAssumption DEF RetryBudget
    <2>4. /\ new.status \in {"queued", "dead_lettered"}
          /\ new.attempt_count = jobs[k].attempt_count
          /\ new.failure_count = jobs[k].failure_count + 1
          /\ new.failure_count \in Nat
      BY <2>1, <2>3, RetriedRow DEF JobRow
    <2>5. new.status = "queued" => new.next_attempt # "none" /\ new.failure_count < MaxFailures
      <3>1. new.status = "queued" => new.next_attempt = "later"
                                     /\ new.failure_count < RetryBudget(kind)
        BY <2>1, <2>3, RetriedWaits
      <3> HIDE DEF row, new
      <3>2. QED
        BY <2>3, <2>4, <3>1, LimitAssumption
    <2>6. kind \in AttemptStatus /\ kind \in FailedAttemptStatus
      BY DEF RecoveryKind, AttemptStatus, FailedAttemptStatus
    <2>d. new.status = "dead_lettered" => new.failure_count >= RetryBudget(kind)
      BY <2>1, <2>3, RetriedDead
    <2>e. kind \in {"timed_out", "lease_lost"}
      BY DEF RecoveryKind
    <2> HIDE DEF row, new, kind
    <2>7. CountKept(k) /\ Explained(k)
      <3>1. Explains(jobs[k], kind, new)
        BY <2>4, <2>d, <2>e DEF Explains, RetryBudget
      <3>2. QED
        BY <2>1, <2>2, <2>4, <2>6, <3>1, LeavingCounts, LeavingExplained
    <2>8. Ends(k) \/ Requeues(k)
      BY <2>1, <2>2, <2>4, <2>5 DEF Ends, Requeues, TerminalStatus
    <2>9. QED
      BY <2>7, <2>8 DEF Quiet
  <1>2. CASE ~RecoverDue(k)
    BY <1>2, UntouchedQuiet DEF RecoverExpiredAttempts, CreateLetters
  <1>3. QED
    BY <1>1, <1>2

LEMMA ExpireQueuedJobsQuiet ==
    ASSUME IInv, ExpireQueuedJobs
    PROVE  AllQuiet
  <1> SUFFICES ASSUME NEW k \in Job PROVE Quiet(k)
    BY DEF AllQuiet, ExpireQueuedJobs
  <1>1. CASE ExpireDue(k)
    <2> DEFINE r == Unlocked(jobs[k], "failed")
    <2>1. jobs[k] \in JobRow /\ jobs[k].status = "queued"
      BY <1>1 DEF IInv, RowsOK, ExpireDue
    <2>2. /\ jobs'[k] = [r EXCEPT !.queue_expiry = "none"]
          /\ attempts'[k] = attempts[k] /\ letters'[k] = letters[k]
      BY <1>1 DEF ExpireQueuedJobs
    <2>3. /\ r \in JobRow /\ r.status = "failed" /\ r.failure_count = jobs[k].failure_count
          /\ r.attempt_count = jobs[k].attempt_count
      BY <2>1, UnlockedRow DEF JobStatus, TerminalStatus
    <2> HIDE DEF r
    <2>4. /\ jobs'[k].status = "failed" /\ jobs'[k].failure_count = jobs[k].failure_count
          /\ jobs'[k].attempt_count = jobs[k].attempt_count
      BY <2>2, <2>3 DEF JobRow
    <2>5. QED
      BY <2>1, <2>2, <2>4, SameCounts DEF Quiet, Ends, TerminalStatus, Explained
  <1>2. CASE ~ExpireDue(k)
    BY <1>2, UntouchedQuiet DEF ExpireQueuedJobs
  <1>3. QED
    BY <1>1, <1>2

LEMMA DiscardLettersQuiet ==
    ASSUME NEW S, \A j \in S : letters[j] = "pending_review", DiscardLetters(S)
    PROVE  AllQuiet
  <1> SUFFICES ASSUME NEW k \in Job PROVE Quiet(k)
    BY DEF AllQuiet, DiscardLetters
  <1>1. jobs' = jobs /\ attempts' = attempts
        /\ letters'[k] = IF k \in S THEN "discarded" ELSE letters[k]
    BY DEF DiscardLetters
  <1>2. QED
    BY <1>1, SameCounts DEF Quiet, Keeps, Explained

LEMMA TicksQuiet ==
    ASSUME IInv, NEW j \in Job,
           NEW column \in {"lease", "next_attempt", "started", "queue_expiry"},
           NEW from, NEW to, to # "none", Ticks(j, column, from, to)
    PROVE  AllQuiet
  <1> DEFINE new == [jobs[j] EXCEPT ![column] = to]
  <1>1. /\ jobs'[j] = new
        /\ \A k \in Job \ {j} : jobs'[k] = jobs[k]
        /\ UNCHANGED <<attempts, letters, replayedAs>>
    BY DEF Ticks, IInv, RowsOK
  <1>2. /\ new.status = jobs[j].status
        /\ new.failure_count = jobs[j].failure_count
        /\ new.attempt_count = jobs[j].attempt_count
        /\ new.next_attempt = jobs[j].next_attempt \/ new.next_attempt = to
        /\ new.queue_expiry = jobs[j].queue_expiry \/ new.queue_expiry = to
        /\ new.worker_id = jobs[j].worker_id /\ new.cancel_requested = jobs[j].cancel_requested
    <2>1. jobs[j] \in JobRow
      BY DEF IInv, RowsOK
    <2>2. QED
      BY <2>1 DEF JobRow
  <1> HIDE DEF new
  <1>3. Quiet(j)
    BY <1>1, <1>2, SameCounts DEF Quiet, Keeps, Explained
  <1>4. QED
    BY <1>1, <1>3, OneQuiet

LEMMA TimePassesQuiet ==
    ASSUME IInv, NEW j \in Job, TimePasses(j)
    PROVE  AllQuiet
  BY TicksQuiet DEF TimePasses, LeaseExpires, RetryTimeComes, GraceElapses,
                    HardTimeoutElapses, QueueExpiryComes

\* Tables that stay.
LEMMA SameTablesQuiet ==
    ASSUME UNCHANGED <<jobs, attempts, letters, replayedAs>>
    PROVE  AllQuiet
  BY UntouchedQuiet DEF AllQuiet

-----------------------------------------------------------------------------
(* The steps that start or insert a job.                                   *)

\* One job is new, no other changes; a replay marks the letter of another.
OpensOne(k) == Opens(k) /\ CountsFailures(k)' /\ \A i \in Job \ {k} : jobs'[i] = jobs[i]

LEMMA InsertedRow ==
    ASSUME IInv, NEW k \in Job, jobs[k].status = "absent",
           jobs' = [jobs EXCEPT ![k] = NewRow(k)], UNCHANGED attempts,
           letters'[k] = letters[k]
    PROVE  OpensOne(k) /\ \A i \in Job \ {k} : CountKept(i)
  <1>1. /\ jobs'[k] = NewRow(k) /\ \A i \in Job \ {k} : jobs'[i] = jobs[i]
        /\ attempts[k] = <<>>
    BY DEF IInv, RowsOK
  <1>0. jobs[k].attempt_count = 0
    <2>1. jobs[k].attempt_count = Len(attempts[k])
      BY DEF IInv, RowsOK, RowMatches
    <2>2. QED
      BY <1>1, <2>1
  <1>2. /\ NewRow(k).status = "queued" /\ NewRow(k).failure_count = 0
        /\ NewRow(k).attempt_count = 0
        /\ NewRow(k).next_attempt = "now" /\ NewRow(k).queue_expiry = "pending"
    BY DEF NewRow, AbsentRow
  <1>3. Cardinality(Failures(attempts'[k])) = 0
    <2>1. Failures(attempts'[k]) = {}
      BY <1>1 DEF Failures
    <2>2. QED
      BY <2>1, FS_EmptySet
  <1>4. \A i \in Job \ {k} : CountKept(i)
    BY <1>1, SameCounts
  <1>5. QED
    BY <1>0, <1>1, <1>2, <1>3, <1>4 DEF OpensOne, Opens, CountsFailures

\* A claimed job, its failures as before.
LEMMA ClaimedStarts ==
    ASSUME IInv, NEW j \in Job, NEW w \in Worker, Claimable(j),
           jobs'[j] = Claimed(jobs[j], w), attempts'[j] = BeginAttempt(j, w),
           letters'[j] = letters[j]
    PROVE  Starts(j) /\ CountKept(j)
  <1>1. /\ jobs[j] \in JobRow /\ attempts[j] \in Seq(Attempt)
        /\ jobs[j].status = "queued" /\ ~jobs[j].cancel_requested
    BY DEF IInv, RowsOK, Claimable
  <1>2. /\ jobs'[j].status = "running" /\ jobs'[j].failure_count = jobs[j].failure_count
        /\ jobs'[j].attempt_count = jobs[j].attempt_count + 1
    <2>1. Claimed(jobs[j], w).status = "running"
          /\ Claimed(jobs[j], w).attempt_count = jobs[j].attempt_count + 1
      BY <1>1, ClaimedRow
    <2>2. Claimed(jobs[j], w).failure_count = jobs[j].failure_count
      BY <1>1, ClaimedFailures
    <2>3. QED
      BY <2>1, <2>2
  <1>3. Failures(attempts'[j]) = Failures(attempts[j])
    <2> DEFINE e == BeginAttempt(j, w)
    <2>1. /\ DOMAIN e = 1..(Len(attempts[j]) + 1)
          /\ e[Len(attempts[j]) + 1] = [worker |-> w, status |-> "running"]
          /\ \A b \in DOMAIN attempts[j] : e[b] = attempts[j][b]
      BY <1>1, BegunAttempt DEF BeginAttempt
    <2>2. DOMAIN attempts[j] = 1..Len(attempts[j]) /\ Len(attempts[j]) \in Nat
      BY <1>1, LenProperties
    <2> HIDE DEF e
    <2>3. DOMAIN e = DOMAIN attempts[j] \cup {Len(attempts[j]) + 1}
      BY <2>1, <2>2
    <2>4. Len(attempts[j]) + 1 \notin Failures(e)
      BY <2>1 DEF Failures, FailedAttemptStatus
    <2>5. Failures(e) = Failures(attempts[j])
      BY <2>1, <2>3, <2>4 DEF Failures
    <2>6. QED
      BY <2>5 DEF e
  <1>4. QED
    BY <1>1, <1>2, <1>3 DEF Starts, CountKept, CountsFailures, FailuresKnown

\* What a claim relies on: the owner has nothing running, the account has room.
StartsOne(j) ==
    /\ Claimable(j) /\ Starts(j) /\ CountKept(j)
    /\ Cardinality(With("running")) < MaxGlobalRunning
    /\ \A i \in Job \ {j} : Quiet(i)
    /\ UNCHANGED replayedAs

LEMMA ClaimNextJobStarts ==
    ASSUME IInv, NEW w \in Worker, NEW j \in Job, ClaimNextJob(w, j)
    PROVE  StartsOne(j)
  <1>1. /\ Claimable(j) /\ Cardinality(With("running")) < MaxGlobalRunning
        /\ jobs'[j] = Claimed(jobs[j], w) /\ attempts'[j] = BeginAttempt(j, w)
        /\ UNCHANGED <<letters, replayedAs>>
        /\ \A i \in Job \ {j} : jobs'[i] = jobs[i] /\ attempts'[i] = attempts[i]
    BY DEF ClaimNextJob, IInv, RowsOK
  <1>2. Starts(j) /\ CountKept(j)
    BY <1>1, ClaimedStarts
  <1>3. \A i \in Job \ {j} : Quiet(i)
    BY <1>1, UntouchedQuiet
  <1>4. QED
    BY <1>1, <1>2, <1>3 DEF StartsOne

\* Preemption: one job waits again and another starts.
Swaps(victim, paid) ==
    /\ Claimable(paid) /\ Starts(paid) /\ CountKept(paid)
    /\ Requeues(victim) /\ CountKept(victim) /\ Explained(victim)
    /\ \A i \in Job \ {paid, victim} : Quiet(i)
    /\ UNCHANGED replayedAs

LEMMA PreemptFreeJobForPaidSwaps ==
    ASSUME IInv, NEW w \in Worker, NEW paid \in Job, NEW victim \in Job,
           PreemptFreeJobForPaid(w, paid, victim)
    PROVE  Swaps(victim, paid)
  <1> DEFINE r == Requeued(jobs[victim], "now")
             idle == [r EXCEPT !.queue_expiry = "none", !.started = "none"]
  <1>1. /\ Claimable(paid) /\ paid # victim /\ jobs[victim].status = "running"
        /\ ~jobs[victim].cancel_requested
    BY DEF PreemptFreeJobForPaid, PaidCandidate, Claimable, Owns
  <1>2. /\ jobs'[victim] = idle /\ jobs'[paid] = Claimed(jobs[paid], w)
        /\ attempts'[victim] = Ended(victim, jobs[victim].attempt_count, "interrupted")
        /\ attempts'[paid] = BeginAttempt(paid, w)
        /\ UNCHANGED <<letters, replayedAs>>
        /\ \A i \in Job \ {paid, victim} : jobs'[i] = jobs[i] /\ attempts'[i] = attempts[i]
    BY <1>1 DEF PreemptFreeJobForPaid, IInv, RowsOK, CurrentAttempt
  <1>3. /\ r \in JobRow /\ r.status = "queued" /\ r.next_attempt = "now"
        /\ r.attempt_count = jobs[victim].attempt_count
        /\ r.failure_count = jobs[victim].failure_count
    BY RequeuedRow, RequeuedWaits DEF IInv, RowsOK
  <1> HIDE DEF r
  <1>4. /\ idle.status = "queued" /\ idle.next_attempt = "now"
        /\ idle.attempt_count = jobs[victim].attempt_count
        /\ idle.failure_count = jobs[victim].failure_count
    BY <1>3 DEF JobRow
  <1> HIDE DEF idle
  <1>5. "interrupted" \in AttemptStatus \ FailedAttemptStatus
    BY DEF AttemptStatus, FailedAttemptStatus
  <1>6. Requeues(victim) /\ CountKept(victim) /\ Explained(victim)
    <2>1. Explains(jobs[victim], "interrupted", idle)
      BY <1>4 DEF Explains
    <2>2. QED
      BY <1>1, <1>2, <1>4, <1>5, <2>1, LeavingCounts, LeavingExplained DEF Requeues
  <1>7. Starts(paid) /\ CountKept(paid)
    BY <1>1, <1>2, ClaimedStarts
  <1>8. \A i \in Job \ {paid, victim} : Quiet(i)
    BY <1>2, UntouchedQuiet
  <1>9. QED
    BY <1>1, <1>2, <1>6, <1>7, <1>8 DEF Swaps

Admits(j) ==
    /\ HasOwnerCapacity(j)
    /\ OpensOne(j) /\ \A i \in Job \ {j} : CountKept(i)
    /\ UNCHANGED <<letters, replayedAs>>

Replays(j, k) ==
    /\ letters[j] = "pending_review" /\ jobs[j].status = "dead_lettered"
    /\ OpensOne(k) /\ \A i \in Job \ {k} : CountKept(i)
    /\ letters' = [letters EXCEPT ![j] = "replayed"]
    /\ replayedAs' = [replayedAs EXCEPT ![j] = k]

\* Every step is quiet, starts a job, swaps two, or inserts one.
LEMMA NextSteps ==
    ASSUME IInv, [Next]_vars
    PROVE  \/ AllQuiet
           \/ \E j \in Job : StartsOne(j) \/ Admits(j)
           \/ \E j, k \in Job : Swaps(j, k) \/ Replays(j, k)
  <1>1. CASE UNCHANGED vars
    BY <1>1, SameTablesQuiet DEF vars
  <1>2. ASSUME NEW j \in Job, AdmitJob(j) PROVE Admits(j)
    BY <1>2, InsertedRow DEF AdmitJob, Admits
  <1>3. ASSUME NEW j \in Job, NEW k \in Job, ReplayDeadLetter(j, k) PROVE Replays(j, k)
    <2>1. letters'[k] = letters[k]
      BY <1>3 DEF ReplayDeadLetter, IInv, RestOK
    <2>2. QED
      BY <1>3, <2>1, InsertedRow DEF ReplayDeadLetter, Replays
  <1>4. ASSUME NEW j \in Job, RequestCancel(j) \/ DiscardDeadLetter(j) PROVE AllQuiet
    BY <1>4, RequestCancelQuiet, DiscardLettersQuiet DEF DiscardDeadLetter, PendingReview
  <1>5. CASE DiscardAllDeadLetters
    BY <1>5, DiscardLettersQuiet DEF DiscardAllDeadLetters, PendingReview
  <1>6. ASSUME NEW w \in Worker, Dispatch(w)
        PROVE  \/ \E j \in Job : StartsOne(j)
               \/ \E j, k \in Job : Swaps(j, k)
    BY <1>6, ClaimNextJobStarts, PreemptFreeJobForPaidSwaps DEF Dispatch
  <1>7. ASSUME NEW w \in Worker, RegistryStep(w) PROVE AllQuiet
    BY <1>7, SameTablesQuiet DEF RegistryStep, RegisterWorker, LeaveRegistry
  <1>8. ASSUME NEW j \in Job, NEW w \in Worker, NEW a \in DOMAIN attempts[j],
               WorkerCall(j, a, w)
        PROVE  AllQuiet
    BY <1>8, HeartbeatAttemptQuiet, CompleteAttemptQuiet, FailAttemptQuiet,
       RetryFailedAttemptQuiet, ReleaseInterruptedAttemptQuiet, CancelAttemptQuiet
       DEF WorkerCall
  <1>9. CASE Maintenance
    BY <1>9, RecoverCancellationsQuiet, RecoverExpiredAttemptsQuiet, ExpireQueuedJobsQuiet
       DEF Maintenance
  <1>10. ASSUME NEW j \in Job, TimePasses(j) PROVE AllQuiet
    BY <1>10, TimePassesQuiet
  <1>11. ASSUME NEW u \in Account, RequestAccountDeletion(u) PROVE AllQuiet
    BY <1>11, RequestAccountDeletionQuiet
  <1>12. QED
    BY <1>1, <1>2, <1>3, <1>4, <1>5, <1>6, <1>7, <1>8, <1>9, <1>10, <1>11 DEF Next

-----------------------------------------------------------------------------
(* Sizes of sets of jobs.                                                  *)

LEMMA FewerJobs ==
    ASSUME NEW S \in SUBSET Job, NEW T \in SUBSET S
    PROVE  Cardinality(S) \in Nat /\ Cardinality(T) \in Nat /\ Cardinality(T) <= Cardinality(S)
  <1>1. IsFiniteSet(S)
    BY FS_Subset, JobAssumption
  <1>2. IsFiniteSet(T) /\ Cardinality(T) <= Cardinality(S)
    BY <1>1, FS_Subset
  <1>3. QED
    BY <1>1, <1>2, FS_CardinalityType

LEMMA OneMoreJob ==
    ASSUME NEW S \in SUBSET Job, NEW j \in Job, NEW T \in SUBSET (S \cup {j})
    PROVE  Cardinality(S) \in Nat /\ Cardinality(T) \in Nat
           /\ Cardinality(T) <= Cardinality(S) + 1
  <1>1. IsFiniteSet(S) /\ Cardinality(S) \in Nat
    BY FS_Subset, FS_CardinalityType, JobAssumption
  <1>2. /\ Cardinality(S \cup {j}) \in Nat
        /\ Cardinality(S \cup {j}) <= Cardinality(S) + 1
    <2>1. Cardinality(S \cup {j}) = IF j \in S THEN Cardinality(S) ELSE Cardinality(S) + 1
      BY <1>1, FS_AddElement
    <2>2. QED
      BY <1>1, <2>1
  <1>3. S \cup {j} \in SUBSET Job
    OBVIOUS
  <1>4. Cardinality(T) \in Nat /\ Cardinality(T) <= Cardinality(S \cup {j})
    BY <1>3, FewerJobs
  <1>5. QED
    BY <1>1, <1>2, <1>4

LEMMA OneForAnother ==
    ASSUME NEW S \in SUBSET Job, NEW v \in S, NEW j \in Job, NEW T \in SUBSET ((S \ {v}) \cup {j})
    PROVE  Cardinality(T) <= Cardinality(S)
  <1>1. IsFiniteSet(S) /\ Cardinality(S) \in Nat
    BY FS_Subset, FS_CardinalityType, JobAssumption
  <1>2. Cardinality(S \ {v}) = Cardinality(S) - 1
    BY <1>1, FS_RemoveElement
  <1>3. Cardinality(T) \in Nat /\ Cardinality(T) <= Cardinality(S \ {v}) + 1
    BY OneMoreJob
  <1>4. QED
    BY <1>1, <1>2, <1>3

-----------------------------------------------------------------------------
(* Concurrency.                                                            *)

RunningJobs == With("running")

\* Only a claim, alone or in a preemption, makes a job run.
LEMMA RunningGrows ==
    ASSUME IInv, Cardinality(RunningJobs) <= MaxGlobalRunning, [Next]_vars
    PROVE  \/ RunningJobs' \subseteq RunningJobs
           \/ \E j \in Job : /\ Claimable(j) /\ RunningJobs' \subseteq RunningJobs \cup {j}
                             /\ Cardinality(RunningJobs') <= MaxGlobalRunning
  <1>1. \A k : Quiet(k) /\ jobs'[k].status = "running" => jobs[k].status = "running"
    BY DEF Quiet, Keeps, Ends, Requeues, TerminalStatus
  <1>2. CASE AllQuiet
    BY <1>1, <1>2 DEF AllQuiet, RunningJobs, With
  <1>3. ASSUME NEW j \in Job, StartsOne(j)
        PROVE  RunningJobs' \subseteq RunningJobs \cup {j} /\ Cardinality(RunningJobs') <= MaxGlobalRunning
    <2>1. RunningJobs' \subseteq RunningJobs \cup {j}
      BY <1>1, <1>3 DEF StartsOne, RunningJobs, With
    <2>2. RunningJobs \in SUBSET Job
      BY DEF RunningJobs, With
    <2>3. Cardinality(RunningJobs) < MaxGlobalRunning
      BY <1>3 DEF StartsOne, RunningJobs
    <2>4. /\ Cardinality(RunningJobs) \in Nat /\ Cardinality(RunningJobs') \in Nat
          /\ Cardinality(RunningJobs') <= Cardinality(RunningJobs) + 1
      BY <2>1, <2>2, OneMoreJob
    <2>5. QED
      BY <2>1, <2>3, <2>4, LimitAssumption
  <1>4. ASSUME NEW v \in Job, NEW j \in Job, Swaps(v, j)
        PROVE  RunningJobs' \subseteq RunningJobs \cup {j} /\ Cardinality(RunningJobs') <= MaxGlobalRunning
    <2>1. v \in RunningJobs /\ RunningJobs' \subseteq (RunningJobs \ {v}) \cup {j}
      BY <1>1, <1>4 DEF Swaps, Requeues, RunningJobs, With
    <2>2. RunningJobs \in SUBSET Job
      BY DEF RunningJobs, With
    <2>3. Cardinality(RunningJobs') <= Cardinality(RunningJobs)
      BY <2>1, <2>2, OneForAnother
    <2>4. Cardinality(RunningJobs) \in Nat /\ Cardinality(RunningJobs') \in Nat
      <3>1. RunningJobs' \in SUBSET Job
        BY <2>1, <2>2
      <3>2. QED
        BY <2>2, <3>1, FewerJobs
    <2>5. QED
      BY <2>1, <2>3, <2>4, LimitAssumption
  <1>5. ASSUME NEW k \in Job, OpensOne(k) PROVE RunningJobs' \subseteq RunningJobs
    BY <1>5 DEF OpensOne, Opens, RunningJobs, With
  <1>6. QED
    BY <1>2, <1>3, <1>4, <1>5, NextSteps DEF StartsOne, Swaps, Admits, Replays

LEMMA NextConcurrency ==
    ASSUME IInv, ConcurrencyLimits, [Next]_vars
    PROVE  ConcurrencyLimits'
  <1> DEFINE Of(o) == {k \in RunningJobs : OwnerOf[k] = o}
             Billed(c) == {k \in RunningJobs : AccountOf[k] = c}
  <1>1. /\ \A o : OwnedBy(o, "running") = Of(o) /\ OwnedBy(o, "running")' = Of(o)'
        /\ \A c : BilledTo(c, "running") = Billed(c) /\ BilledTo(c, "running")' = Billed(c)'
        /\ With("running") = RunningJobs /\ With("running")' = RunningJobs'
    BY DEF OwnedBy, BilledTo, RunningJobs
  <1>2. /\ \A o \in Owner : Cardinality(Of(o)) <= 1
        /\ \A c \in Account : Cardinality(Billed(c) \cap CommercialJob) <= AccountRunningLimit
        /\ Cardinality(RunningJobs) <= MaxGlobalRunning
    BY <1>1 DEF ConcurrencyLimits
  <1>3. RunningJobs \in SUBSET Job
    BY DEF RunningJobs, With
  <1>4. CASE RunningJobs' \subseteq RunningJobs
    <2>1. Cardinality(RunningJobs') <= MaxGlobalRunning
      BY <1>2, <1>3, <1>4, FewerJobs, LimitAssumption
    <2>2. ASSUME NEW o \in Owner PROVE Cardinality(Of(o)') <= 1
      <3>1. Of(o) \in SUBSET Job /\ Of(o)' \in SUBSET Of(o)
        BY <1>3, <1>4
      <3> HIDE DEF Of
      <3>2. QED
        BY <1>2, <3>1, FewerJobs
    <2>3. ASSUME NEW c \in Account
          PROVE  Cardinality(Billed(c)' \cap CommercialJob) <= AccountRunningLimit
      <3> DEFINE S == Billed(c) \cap CommercialJob
                 T == Billed(c)' \cap CommercialJob
      <3>1. S \in SUBSET Job /\ T \in SUBSET S
        BY <1>3, <1>4
      <3>2. Cardinality(S) <= AccountRunningLimit
        BY <1>2
      <3> HIDE DEF S, T
      <3>3. Cardinality(T) <= AccountRunningLimit
        BY <3>1, <3>2, FewerJobs, LimitAssumption
      <3>4. QED
        BY <3>3 DEF T
    <2>4. QED
      BY <1>1, <2>1, <2>2, <2>3 DEF ConcurrencyLimits
  <1>5. ASSUME NEW j \in Job, Claimable(j), RunningJobs' \subseteq RunningJobs \cup {j},
               Cardinality(RunningJobs') <= MaxGlobalRunning
        PROVE  ConcurrencyLimits'
    <2>1. /\ Of(OwnerOf[j]) = {}
          /\ j \in CommercialJob => Cardinality(Billed(AccountOf[j])) < AccountRunningLimit
      BY <1>1, <1>5 DEF Claimable
    <2>2. ASSUME NEW o \in Owner PROVE Cardinality(Of(o)') <= 1
      <3>1. CASE o = OwnerOf[j]
        <4>1. Of(o)' \in SUBSET ({} \cup {j})
          BY <1>5, <2>1, <3>1
        <4> HIDE DEF Of
        <4>2. Cardinality(Of(o)') \in Nat /\ Cardinality(Of(o)') <= Cardinality({}) + 1
          BY <4>1, OneMoreJob
        <4>3. QED
          BY <4>2, FS_EmptySet
      <3>2. CASE o # OwnerOf[j]
        <4>1. Of(o) \in SUBSET Job /\ Of(o)' \in SUBSET Of(o)
          BY <1>3, <1>5, <3>2
        <4> HIDE DEF Of
        <4>2. QED
          BY <1>2, <4>1, FewerJobs
      <3>3. QED
        BY <3>1, <3>2
    <2>3. ASSUME NEW c \in Account
          PROVE  Cardinality(Billed(c)' \cap CommercialJob) <= AccountRunningLimit
      <3> DEFINE S == Billed(c) \cap CommercialJob
                 T == Billed(c)' \cap CommercialJob
      <3>0. S \in SUBSET Job /\ Billed(c) \in SUBSET Job /\ S \in SUBSET Billed(c)
        BY <1>3
      <3>1. CASE c = AccountOf[j] /\ j \in CommercialJob
        <4>1. T \in SUBSET (S \cup {j})
          BY <1>5
        <4>2. Cardinality(Billed(c)) < AccountRunningLimit
          BY <2>1, <3>1
        <4> HIDE DEF Billed, S, T
        <4>3. /\ Cardinality(S) \in Nat /\ Cardinality(T) \in Nat
              /\ Cardinality(T) <= Cardinality(S) + 1
          BY <3>0, <4>1, OneMoreJob
        <4>4. Cardinality(Billed(c)) \in Nat /\ Cardinality(S) <= Cardinality(Billed(c))
          BY <3>0, FewerJobs
        <4>5. Cardinality(T) <= AccountRunningLimit
          BY <4>2, <4>3, <4>4, LimitAssumption
        <4>6. QED
          BY <4>5 DEF T
      <3>2. CASE ~(c = AccountOf[j] /\ j \in CommercialJob)
        <4>1. T \in SUBSET S
          BY <1>5, <3>2
        <4>2. Cardinality(S) <= AccountRunningLimit
          BY <1>2
        <4> HIDE DEF S, T
        <4>3. Cardinality(T) <= AccountRunningLimit
          BY <3>0, <4>1, <4>2, FewerJobs, LimitAssumption
        <4>4. QED
          BY <4>3 DEF T
      <3>3. QED
        BY <3>1, <3>2
    <2>4. QED
      BY <1>1, <1>5, <2>2, <2>3 DEF ConcurrencyLimits
  <1>6. QED
    BY <1>2, <1>4, <1>5, RunningGrows

LEMMA InitConcurrency == Init => ConcurrencyLimits
  <1> SUFFICES ASSUME Init PROVE ConcurrencyLimits
    OBVIOUS
  <1>1. With("running") = {}
    BY DEF Init, With, AbsentRow
  <1>2. /\ \A o : OwnedBy(o, "running") = {}
        /\ \A c : BilledTo(c, "running") \cap CommercialJob = {}
    BY <1>1 DEF OwnedBy, BilledTo
  <1>3. Cardinality({}) = 0
    BY FS_EmptySet
  <1>4. QED
    BY <1>1, <1>2, <1>3, LimitAssumption DEF ConcurrencyLimits

\* However many workers claim and preempt, no owner has two running jobs, no
\* account runs more commercial jobs than its limit, and the service runs no
\* more than MaxGlobalRunning.
THEOREM LimitsHold == Spec => []ConcurrencyLimits
  <1>1. IInv /\ ConcurrencyLimits /\ [Next]_vars => ConcurrencyLimits'
    BY NextConcurrency
  <1>2. QED
    BY InitConcurrency, IInvAlways, <1>1, PTL DEF Spec

-----------------------------------------------------------------------------
(* The retry budget.                                                       *)

\* Rows that wait or run have an attempt left; rows that wait have a time.
BudgetLeft(k) ==
    /\ jobs[k].status \in {"queued", "running"} => jobs[k].failure_count < MaxFailures
    /\ jobs[k].status = "queued" =>
          /\ jobs[k].next_attempt # "none"
          /\ jobs[k].attempt_count = 0 => jobs[k].queue_expiry # "none"

LEMMA QuietBudget ==
    ASSUME IInv, NEW k \in Job, BudgetLeft(k), Keeps(k) \/ Ends(k) \/ Requeues(k)
    PROVE  BudgetLeft(k)'
  <1>1. CASE Keeps(k)
    BY <1>1 DEF Keeps, BudgetLeft
  <1>2. CASE Ends(k)
    BY <1>2 DEF Ends, BudgetLeft, TerminalStatus
  <1>3. CASE Requeues(k)
    <2>1. jobs[k].attempt_count # 0
      <3>1. jobs[k].attempt_count = Len(attempts[k]) /\ Len(attempts[k]) > 0
        BY <1>3 DEF Requeues, IInv, RowsOK, RowMatches
      <3>2. QED
        BY <3>1
    <2>2. QED
      BY <1>3, <2>1 DEF Requeues, BudgetLeft
  <1>4. QED
    BY <1>1, <1>2, <1>3

LEMMA NextBudget ==
    ASSUME IInv, \A k \in Job : BudgetLeft(k), [Next]_vars
    PROVE  \A k \in Job : BudgetLeft(k)'
  <1> SUFFICES ASSUME NEW k \in Job PROVE BudgetLeft(k)'
    OBVIOUS
  <1>1. CASE Quiet(k)
    BY <1>1, QuietBudget DEF Quiet
  <1>2. CASE Starts(k)
    BY <1>2 DEF Starts, BudgetLeft
  <1>3. CASE Opens(k)
    BY <1>3, LimitAssumption DEF Opens, BudgetLeft
  <1>4. CASE jobs'[k] = jobs[k]
    BY <1>4 DEF BudgetLeft
  <1>5. CASE Requeues(k)
    BY <1>5, QuietBudget
  <1>6. QED
    BY <1>1, <1>2, <1>3, <1>4, <1>5, NextSteps
       DEF AllQuiet, StartsOne, Swaps, Admits, Replays, OpensOne

\* A queued job has a failure to spare, a next attempt and no request to
\* cancel, and one that never ran still expires: nothing waits for ever.
THEOREM QueuedClaimable == Spec => []QueuedJobsStayClaimable
  <1> DEFINE Left == \A k \in Job : BudgetLeft(k)
  <1>1. Init => Left
    BY DEF Init, AbsentRow, BudgetLeft
  <1>2. IInv /\ Left /\ [Next]_vars => Left'
    BY NextBudget
  <1>3. Left /\ WaitingNotCancelled => QueuedJobsStayClaimable
    BY DEF BudgetLeft, WaitingNotCancelled, QueuedJobsStayClaimable
  <1> HIDE DEF Left
  <1>4. QED
    BY <1>1, <1>2, <1>3, IInvAlways, WaitingAlways, PTL DEF Spec

LEMMA NextFailures ==
    ASSUME IInv, \A k \in Job : FailuresKnown(k), [Next]_vars, NEW k \in Job
    PROVE  FailuresKnown(k)'
  <1>1. CountKept(k) => FailuresKnown(k)'
    BY DEF CountKept
  <1>2. ASSUME NEW j \in Job, OpensOne(j), \A i \in Job \ {j} : CountKept(i)
        PROVE  FailuresKnown(k)'
    BY <1>1, <1>2 DEF OpensOne, FailuresKnown
  <1>3. QED
    BY <1>1, <1>2, NextSteps DEF AllQuiet, StartsOne, Swaps, Quiet, Admits, Replays

\* What is known of the failures implies the property.
LEMMA KnownFailures ==
    ASSUME IInv, \A k \in Job : FailuresKnown(k)
    PROVE  FailureBudgetCountsFailures
  <1> SUFFICES ASSUME NEW k \in Job
               PROVE  LET uncounted == Cardinality(Failures(attempts[k]))
                                       - jobs[k].failure_count
                      IN /\ uncounted \in {0, 1}
                         /\ uncounted = 1 => jobs[k].status = "withdrawn"
    BY DEF FailureBudgetCountsFailures, Failures
  <1>1. jobs[k].failure_count \in Nat
    BY DEF IInv, RowsOK, JobRow
  <1>2. QED
    BY <1>1 DEF FailuresKnown, CountsFailures

\* The failures of a job are its failed, timed out and lost attempts: no
\* shutdown, preemption or cancellation spends the retry budget.  The deletion
\* of the account fails one attempt at most without counting it, and then the
\* job is over.
THEOREM FailuresCounted == Spec => []FailureBudgetCountsFailures
  <1> DEFINE Known == \A k \in Job : FailuresKnown(k)
  <1>1. Init => Known
    <2> SUFFICES ASSUME Init, NEW k \in Job PROVE FailuresKnown(k)
      OBVIOUS
    <2>1. jobs[k].failure_count = 0 /\ Failures(attempts[k]) = {}
      BY DEF Init, AbsentRow, Failures
    <2>2. QED
      BY <2>1, FS_EmptySet DEF FailuresKnown, CountsFailures
  <1>2. IInv /\ Known /\ [Next]_vars => Known'
    BY NextFailures
  <1>3. IInv /\ Known => FailureBudgetCountsFailures
    BY KnownFailures
  <1> HIDE DEF Known
  <1>4. QED
    BY <1>1, <1>2, <1>3, IInvAlways, PTL DEF Spec

-----------------------------------------------------------------------------
(* Letters.                                                                *)

\* A replay has a row.
ReplaysExist == \A j \in Job : replayedAs[j] \in Job => jobs[replayedAs[j]].status # "absent"

LetterMatches(j) ==
    /\ letters[j] # "none" <=> jobs[j].status = "dead_lettered"
    /\ letters[j] = "replayed" <=> replayedAs[j] # NoJob

LEMMA QuietLetter ==
    ASSUME NEW k \in Job, LetterMatches(k), replayedAs'[k] = replayedAs[k],
           Keeps(k) \/ Ends(k) \/ Requeues(k) \/ Starts(k) \/ Opens(k)
                    \/ (jobs'[k] = jobs[k] /\ letters'[k] = letters[k])
    PROVE  LetterMatches(k)'
  <1>1. CASE Keeps(k)
    BY <1>1 DEF Keeps, LetterMatches
  <1>2. CASE Ends(k)
    BY <1>2 DEF Ends, LetterMatches
  <1>3. CASE Requeues(k) \/ Starts(k) \/ Opens(k)
    BY <1>3 DEF Requeues, Starts, Opens, LetterMatches
  <1>4. CASE jobs'[k] = jobs[k] /\ letters'[k] = letters[k]
    BY <1>4 DEF LetterMatches
  <1>5. QED
    BY <1>1, <1>2, <1>3, <1>4

\* No row disappears.
LEMMA RowsStay ==
    ASSUME IInv, [Next]_vars, NEW k \in Job, jobs[k].status # "absent"
    PROVE  jobs'[k].status # "absent"
  <1>1. Quiet(k) \/ Starts(k) \/ Opens(k) \/ Requeues(k) \/ jobs'[k] = jobs[k]
    BY NextSteps DEF AllQuiet, StartsOne, Swaps, Admits, Replays, OpensOne
  <1>2. QED
    BY <1>1 DEF Quiet, Keeps, Ends, Requeues, Starts, Opens, TerminalStatus

LEMMA NextLetters ==
    ASSUME IInv, DeadLettersMatchJobs, ReplaysExist, [Next]_vars
    PROVE  DeadLettersMatchJobs' /\ ReplaysExist'
  <1>1. \A j \in Job : LetterMatches(j)
    BY DEF DeadLettersMatchJobs, LetterMatches
  <1>2. CASE UNCHANGED replayedAs /\ \A k \in Job :
                 Keeps(k) \/ Ends(k) \/ Requeues(k) \/ Starts(k) \/ Opens(k)
                    \/ (jobs'[k] = jobs[k] /\ letters'[k] = letters[k])
    <2>1. \A k \in Job : LetterMatches(k)'
      BY <1>1, <1>2, QuietLetter
    <2>2. DeadLettersMatchJobs'
      BY <1>2, <2>1 DEF DeadLettersMatchJobs, LetterMatches
    <2>3. ReplaysExist'
      BY <1>2, RowsStay DEF ReplaysExist
    <2>4. QED
      BY <2>2, <2>3
  <1>3. ASSUME NEW j \in Job, NEW n \in Job, Replays(j, n)
        PROVE  DeadLettersMatchJobs' /\ ReplaysExist'
    <2>1. /\ letters[j] = "pending_review" /\ jobs[j].status = "dead_lettered"
          /\ jobs[n].status = "absent" /\ Opens(n) /\ j # n
          /\ \A i \in Job \ {n} : jobs'[i] = jobs[i]
      BY <1>3 DEF Replays, OpensOne, Opens
    <2>2. /\ letters'[j] = "replayed" /\ replayedAs'[j] = n
          /\ \A i \in Job \ {j} : letters'[i] = letters[i] /\ replayedAs'[i] = replayedAs[i]
      BY <1>3 DEF Replays, IInv, RestOK
    <2>3. \A k \in Job \ {j} : LetterMatches(k)'
      BY <1>1, <2>1, <2>2, QuietLetter
    <2>4. LetterMatches(j)'
      BY <2>1, <2>2, JobAssumption DEF LetterMatches
    <2>5. \A i \in Job : replayedAs[i] # n
      BY <2>1 DEF ReplaysExist
    <2>6. ASSUME NEW i \in Job, NEW k \in Job, replayedAs'[i] = replayedAs'[k], i # k
          PROVE  replayedAs'[i] = NoJob
      BY <2>2, <2>5, <2>6 DEF DeadLettersMatchJobs
    <2>7. ReplaysExist'
      BY <2>1, <2>2, RowsStay DEF ReplaysExist, Opens
    <2>8. QED
      BY <2>3, <2>4, <2>6, <2>7 DEF DeadLettersMatchJobs, LetterMatches
  <1>4. QED
    BY <1>2, <1>3, NextSteps DEF AllQuiet, Quiet, StartsOne, Swaps, Admits, OpensOne

LEMMA InitLetters == Init => DeadLettersMatchJobs /\ ReplaysExist
  BY JobAssumption DEF Init, AbsentRow, DeadLettersMatchJobs, ReplaysExist

\* Jobs and letters match at every point, and no letter names a missing row.
THEOREM LettersAlways == Spec => [](DeadLettersMatchJobs /\ ReplaysExist)
  <1>1. IInv /\ (DeadLettersMatchJobs /\ ReplaysExist) /\ [Next]_vars
            => (DeadLettersMatchJobs /\ ReplaysExist)'
    BY NextLetters
  <1>2. QED
    BY InitLetters, IInvAlways, <1>1, PTL DEF Spec

\* Every dead-lettered job has its letter, no other job has one, and a letter
\* is replayed into at most one new job that no other letter names.
THEOREM LettersMatch == Spec => []DeadLettersMatchJobs
  BY LettersAlways, PTL

-----------------------------------------------------------------------------
(* The backlog of an owner.                                                *)

OpenOf(o) == {j \in OwnedBy(o, "queued") \cup OwnedBy(o, "running") : ~IsReplay(j)}

\* Without an admission no job is opened but a replay.
LEMMA BacklogShrinks ==
    ASSUME IInv, DeadLettersMatchJobs, NEW o \in Owner,
           NEW k \in Job, k \in OpenOf(o)',
           AllQuiet \/ \E j \in Job : StartsOne(j) \/ \E i \in Job : Swaps(i, j) \/ Replays(i, j)
    PROVE  k \in OpenOf(o)
  <1>1. OwnerOf[k] = o /\ jobs'[k].status \in {"queued", "running"} /\ ~IsReplay(k)'
    BY DEF OpenOf, OwnedBy, With
  <1>2. \A i \in Job : replayedAs[i] = k => replayedAs'[i] = k
    <2>1. ASSUME NEW j \in Job, NEW n \in Job, Replays(j, n), NEW i \in Job, replayedAs[i] = k
          PROVE  replayedAs'[i] = k
      <3>1. i # j
        BY <2>1, JobAssumption DEF Replays, DeadLettersMatchJobs
      <3>2. QED
        BY <2>1, <3>1 DEF Replays, IInv, RestOK
    <2>2. QED
      BY <2>1 DEF AllQuiet, StartsOne, Swaps
  <1>3. ~IsReplay(k)
    BY <1>1, <1>2 DEF IsReplay
  <1>4. jobs[k].status \in {"queued", "running"}
    <2>1. Quiet(k) \/ Starts(k) \/ Requeues(k) => jobs[k].status \in {"queued", "running"}
      BY <1>1 DEF Quiet, Keeps, Ends, Requeues, Starts
    <2>2. ASSUME NEW j \in Job, NEW n \in Job, Replays(j, n)
          PROVE  jobs[k].status \in {"queued", "running"}
      <3>1. replayedAs'[j] = n
        BY <2>2 DEF Replays, IInv, RestOK
      <3>2. n # k
        BY <1>1, <3>1 DEF IsReplay
      <3>3. QED
        BY <1>1, <2>2, <3>2 DEF Replays, OpensOne
    <2>3. QED
      BY <2>1, <2>2 DEF AllQuiet, StartsOne, Swaps
  <1>5. QED
    BY <1>1, <1>3, <1>4 DEF OpenOf, OwnedBy, With

LEMMA AdmittedBacklog ==
    ASSUME IInv, NEW j \in Job, Admits(j), NEW o \in Owner,
           Cardinality(OpenOf(o)) <= OwnerQueuedLimit
    PROVE  Cardinality(OpenOf(o)') <= OwnerQueuedLimit
  <1>1. /\ jobs'[j].status = "queued" /\ replayedAs' = replayedAs
        /\ \A i \in Job \ {j} : jobs'[i] = jobs[i]
    BY DEF Admits, OpensOne, Opens
  <1>2. CASE o = OwnerOf[j]
    <2> DEFINE Q == OwnedBy(o, "queued")
    <2>1. OwnedBy(o, "running") = {} /\ (Q = {} \/ Cardinality(Q) < OwnerQueuedLimit)
      BY <1>2 DEF Admits, HasOwnerCapacity
    <2>2. Q \in SUBSET Job
      BY DEF OwnedBy, With
    <2>3. OpenOf(o)' \in SUBSET (Q \cup {j})
      <3>1. ASSUME NEW k \in Job, k \in OpenOf(o)' PROVE k \in Q \cup {j}
        <4>1. OwnerOf[k] = o /\ jobs'[k].status \in {"queued", "running"}
          BY <3>1 DEF OpenOf, OwnedBy, With
        <4>2. CASE k # j
          BY <1>1, <2>1, <4>1, <4>2 DEF OwnedBy, With
        <4>3. QED
          BY <4>2
      <3>2. OpenOf(o)' \subseteq Job
        BY DEF OpenOf, OwnedBy, With
      <3>3. QED
        BY <3>1, <3>2
    <2>4. Cardinality({}) = 0
      BY FS_EmptySet
    <2> HIDE DEF Q
    <2>5. /\ Cardinality(Q) \in Nat /\ Cardinality(OpenOf(o)') \in Nat
          /\ Cardinality(OpenOf(o)') <= Cardinality(Q) + 1
      BY <2>2, <2>3, OneMoreJob
    <2>6. QED
      BY <2>1, <2>4, <2>5, LimitAssumption
  <1>3. CASE o # OwnerOf[j]
    <2>1. OpenOf(o) \in SUBSET Job /\ OpenOf(o)' \in SUBSET OpenOf(o)
      BY <1>1, <1>3 DEF OpenOf, OwnedBy, With, IsReplay
    <2>2. QED
      BY <2>1, FewerJobs, LimitAssumption
  <1>4. QED
    BY <1>2, <1>3

LEMMA NextBacklog ==
    ASSUME IInv, DeadLettersMatchJobs, OwnerBacklogBounded, [Next]_vars
    PROVE  OwnerBacklogBounded'
  <1>1. SUFFICES ASSUME NEW o \in Owner PROVE Cardinality(OpenOf(o)') <= OwnerQueuedLimit
    BY DEF OwnerBacklogBounded, OpenOf
  <1>2. Cardinality(OpenOf(o)) <= OwnerQueuedLimit
    BY DEF OwnerBacklogBounded, OpenOf
  <1>3. ASSUME NEW j \in Job, Admits(j) PROVE Cardinality(OpenOf(o)') <= OwnerQueuedLimit
    BY <1>2, <1>3, AdmittedBacklog
  <1>4. CASE AllQuiet \/ \E j \in Job : StartsOne(j) \/ \E i \in Job : Swaps(i, j) \/ Replays(i, j)
    <2>1. OpenOf(o) \in SUBSET Job /\ OpenOf(o)' \in SUBSET Job
      BY DEF OpenOf, OwnedBy, With
    <2>2. OpenOf(o)' \in SUBSET OpenOf(o)
      BY <1>4, <2>1, BacklogShrinks
    <2>3. QED
      BY <1>2, <2>1, <2>2, FewerJobs, LimitAssumption
  <1>5. QED
    BY <1>3, <1>4, NextSteps

LEMMA InitBacklog == Init => OwnerBacklogBounded
  <1> SUFFICES ASSUME Init PROVE OwnerBacklogBounded
    OBVIOUS
  <1>1. With("queued") = {} /\ With("running") = {}
    BY DEF Init, With, AbsentRow
  <1>2. \A o : OwnedBy(o, "queued") = {} /\ OwnedBy(o, "running") = {}
    BY <1>1 DEF OwnedBy
  <1>3. Cardinality({}) = 0
    BY FS_EmptySet
  <1>4. \A o : {j \in OwnedBy(o, "queued") \cup OwnedBy(o, "running") : ~IsReplay(j)} = {}
    BY <1>2
  <1>5. QED
    BY <1>3, <1>4, LimitAssumption DEF OwnerBacklogBounded

\* Whatever retries, preemptions and shutdowns put back into the queue, an
\* owner has at most OwnerQueuedLimit open jobs, replays aside.
THEOREM BacklogBounded == Spec => []OwnerBacklogBounded
  <1>1. IInv /\ DeadLettersMatchJobs /\ OwnerBacklogBounded /\ [Next]_vars
            => OwnerBacklogBounded'
    BY NextBacklog
  <1>2. QED
    BY InitBacklog, IInvAlways, LettersMatch, <1>1, PTL DEF Spec

-----------------------------------------------------------------------------
(* What an attempt that ends says of its job.                              *)

LEMMA NextExplained ==
    ASSUME IInv, [Next]_vars, NEW k \in Job
    PROVE  Explained(k)
  <1>1. Quiet(k) \/ Starts(k) \/ Opens(k) \/ jobs'[k] = jobs[k] => Explained(k)
    BY DEF Quiet, Starts, Opens, Explained
  <1>2. ASSUME NEW v \in Job, NEW j \in Job, Swaps(v, j) PROVE Explained(k)
    BY <1>1, <1>2 DEF Swaps
  <1>3. ASSUME NEW i \in Job, OpensOne(i) PROVE Explained(k)
    BY <1>1, <1>3 DEF OpensOne
  <1>4. ASSUME NEW i \in Job, StartsOne(i) PROVE Explained(k)
    BY <1>1, <1>4 DEF StartsOne
  <1>5. QED
    BY <1>1, <1>2, <1>3, <1>4, NextSteps DEF AllQuiet, Admits, Replays

\* A job that leaves its worker says why in the attempt it ends, whichever
\* settlement, preemption or recovery takes it away, for any number of jobs.
THEOREM OutcomesExplained == Spec => OutcomeMatchesAttempt
  <1> DEFINE All == \A j \in Job : Explained(j)
  <1>1. IInv /\ [Next]_vars => All
    BY NextExplained
  <1>2. All <=> \A j \in Job :
          jobs[j].status = "running" /\ jobs'[j].status # "running" =>
              LET ended == attempts'[j][Len(attempts[j])].status
                  new == jobs'[j] IN
              /\ new.status = "succeeded" <=> ended = "succeeded"
              /\ new.status = "cancelled" <=> ended = "cancelled"
              /\ ended = "interrupted" =>
                    /\ new.status = "queued"
                    /\ new.failure_count = jobs[j].failure_count
              /\ new.status = "dead_lettered" =>
                    ended = "timed_out" \/ new.failure_count >= MaxFailures
    BY DEF Explained, Explains
  <1> HIDE DEF All
  <1>3. QED
    BY <1>1, <1>2, IInvAlways, PTL DEF Spec, OutcomeMatchesAttempt
=============================================================================
