-------------------- MODULE OptimizeJobSettlementProofs --------------------
(***************************************************************************)
(* The job store implements JobSettlement, and its reservations follow its *)
(* jobs, for every finite set of jobs and every choice of the constants.   *)
(*                                                                         *)
(* Every action is first shown to be one of five moves of the settlement;  *)
(* the invariant about reservations and the refinement follow from the     *)
(* moves alone.                                                            *)
(***************************************************************************)
EXTENDS OptimizeJobQueueProofs

-----------------------------------------------------------------------------
(* Moves *)

\* Job j keeps its outcome and its reservations.
Stays(j) ==
    /\ OutcomeOf(jobs'[j].status) = OutcomeOf(jobs[j].status)
    /\ jobs'[j].status = jobs[j].status \/ Active(j)
    /\ holds'[j] = holds[j]

OthersStay(S) == \A k \in Job \ S : Stays(k)

SubmitMove(j) ==
    /\ jobs[j].status = "absent"
    /\ jobs'[j].status = "queued"
    /\ holds'[j] = [r \in Resource |-> IF r \in Needs[j] THEN "reserved" ELSE "none"]
    /\ OthersStay({j})
    /\ UNCHANGED replayedAs

DeliverMove(j) ==
    /\ jobs[j].status = "running"
    /\ jobs'[j].status = "succeeded"
    /\ holds'[j] = Resolve(holds[j], "consumed")
    /\ OthersStay({j})
    /\ UNCHANGED replayedAs

AbandonMove(S) ==
    /\ S \subseteq Job
    /\ \A j \in S : /\ Active(j)
                    /\ jobs'[j].status \in TerminalStatus \ {"succeeded"}
                    /\ holds'[j] = Resolve(holds[j], "released")
    /\ OthersStay(S)
    /\ UNCHANGED replayedAs

ReopenMove(j, k) ==
    /\ jobs[j].status = "dead_lettered"
    /\ AccountOf[j] = NoAccount
    /\ letters[j] = "pending_review"
    /\ letters'[j] = "replayed"
    /\ jobs[k].status = "absent"
    /\ jobs'[k].status = "queued"
    /\ holds'[k] = holds[k]
    /\ OthersStay({k})
    /\ replayedAs' = [replayedAs EXCEPT ![j] = k]

Move ==
    \/ \E j \in Job : SubmitMove(j) \/ DeliverMove(j)
    \/ \E S \in SUBSET Job : AbandonMove(S)
    \/ \E j, k \in Job : ReopenMove(j, k)

\* A replayed letter stays replayed.
LettersKept == \A j \in Job : letters[j] = "replayed" => letters'[j] = "replayed"

\* The status of a row decides the outcome of its job.
LEMMA Outcomes ==
    /\ OutcomeOf("absent") = "none"
    /\ OutcomeOf("queued") = "open"
    /\ OutcomeOf("running") = "open"
    /\ OutcomeOf("succeeded") = "delivered"
    /\ \A s \in TerminalStatus \ {"succeeded"} : OutcomeOf(s) = "abandoned"
  BY DEF OutcomeOf, TerminalStatus

\* A row the step leaves alone.
LEMMA SameRowStays ==
    ASSUME NEW j, jobs'[j].status = jobs[j].status, holds'[j] = holds[j]
    PROVE  Stays(j)
  BY DEF Stays

\* A step that leaves every status, reservation and replay alone is a move.
LEMMA IdleMove ==
    ASSUME \A j \in Job : Stays(j), UNCHANGED replayedAs
    PROVE  Move
  <1>1. AbandonMove({})
    BY DEF AbandonMove, OthersStay
  <1>2. QED
    BY <1>1 DEF Move

\* Abandoning one job.
LEMMA AbandonOne ==
    ASSUME NEW j \in Job, Active(j),
           jobs'[j].status \in TerminalStatus \ {"succeeded"},
           holds'[j] = Resolve(holds[j], "released"),
           \A k \in Job \ {j} : Stays(k), UNCHANGED replayedAs
    PROVE  Move
  <1>1. AbandonMove({j})
    BY DEF AbandonMove, OthersStay
  <1>2. {j} \in SUBSET Job
    OBVIOUS
  <1>3. QED
    BY <1>1, <1>2 DEF Move

\* A running job that goes back to the queue, or a waiting one that runs.
LEMMA OpenStays ==
    ASSUME NEW j, Active(j), jobs'[j].status \in {"queued", "running"},
           holds'[j] = holds[j]
    PROVE  Stays(j)
  BY Outcomes DEF Stays, Active

-----------------------------------------------------------------------------
(* Every action is a move *)

\* Admission submits.
LEMMA AdmitJobMoves ==
    ASSUME IInv, NEW j \in Job, AdmitJob(j)
    PROVE  Move /\ LettersKept
  <1>1. /\ jobs'[j] = NewRow(j) /\ jobs[j].status = "absent"
        /\ holds'[j] = [r \in Resource |-> IF r \in Needs[j] THEN "reserved" ELSE "none"]
        /\ \A k \in Job \ {j} : jobs'[k] = jobs[k] /\ holds'[k] = holds[k]
        /\ UNCHANGED <<letters, replayedAs>>
    BY DEF AdmitJob, IInv, RowsOK, RestOK
  <1>2. jobs'[j].status = "queued"
    BY <1>1, NewRowFacts
  <1>3. SubmitMove(j)
    BY <1>1, <1>2, SameRowStays DEF SubmitMove, OthersStay
  <1>4. QED
    BY <1>1, <1>3 DEF Move, LettersKept

\* A claim leaves the outcome open.
LEMMA ClaimNextJobMoves ==
    ASSUME IInv, NEW w \in Worker, NEW j \in Job, ClaimNextJob(w, j)
    PROVE  Move /\ LettersKept
  <1>1. /\ jobs'[j] = Claimed(jobs[j], w) /\ jobs[j] \in JobRow
        /\ jobs[j].status = "queued"
        /\ \A k \in Job \ {j} : jobs'[k] = jobs[k]
        /\ UNCHANGED <<holds, letters, replayedAs>>
    BY DEF ClaimNextJob, Claimable, IInv, RowsOK
  <1>2. jobs'[j].status = "running"
    BY <1>1, ClaimedRow
  <1>3. Stays(j)
    BY <1>1, <1>2, OpenStays DEF Active
  <1>4. QED
    BY <1>1, <1>3, SameRowStays, IdleMove DEF LettersKept

\* Preemption leaves two outcomes open.
LEMMA PreemptFreeJobForPaidMoves ==
    ASSUME IInv, NEW w \in Worker, NEW paid \in Job, NEW victim \in Job,
           PreemptFreeJobForPaid(w, paid, victim)
    PROVE  Move /\ LettersKept
  <1> DEFINE r == Requeued(jobs[victim], "now")
             idle == [r EXCEPT !.queue_expiry = "none", !.started = "none"]
  <1>1. /\ jobs[paid].status = "queued" /\ jobs[victim].status = "running"
        /\ paid # victim
    BY DEF PreemptFreeJobForPaid, PaidCandidate, Claimable, Owns
  <1>2. /\ jobs'[victim] = idle /\ jobs'[paid] = Claimed(jobs[paid], w)
        /\ jobs[victim] \in JobRow /\ jobs[paid] \in JobRow
        /\ \A k \in Job \ {paid, victim} : jobs'[k] = jobs[k]
        /\ UNCHANGED <<holds, letters, replayedAs>>
    BY <1>1 DEF PreemptFreeJobForPaid, IInv, RowsOK
  <1>3. r \in JobRow /\ r.status = "queued"
    BY <1>2, RequeuedRow
  <1> HIDE DEF r
  <1>4. idle.status = "queued"
    BY <1>3 DEF JobRow
  <1> HIDE DEF idle
  <1>5. jobs'[paid].status = "running"
    BY <1>2, ClaimedRow
  <1>6. Stays(paid)
    BY <1>1, <1>2, <1>5, OpenStays DEF Active
  <1>7. Stays(victim)
    <2>1. jobs'[victim].status = "queued"
      BY <1>2, <1>4
    <2>2. holds'[victim] = holds[victim]
      BY <1>2
    <2>3. QED
      BY <1>1, <2>1, <2>2, OpenStays DEF Active
  <1>8. QED
    BY <1>2, <1>6, <1>7, SameRowStays, IdleMove DEF LettersKept

\* So does a heartbeat.
LEMMA HeartbeatAttemptMoves ==
    ASSUME IInv, NEW j \in Job, NEW w \in Worker, NEW a, HeartbeatAttempt(j, a, w)
    PROVE  Move /\ LettersKept
  <1>1. jobs[j] \in JobRow
    BY DEF IInv, RowsOK
  <1>2. \A k \in Job : jobs'[k].status = jobs[k].status
    BY <1>1 DEF HeartbeatAttempt, IInv, RowsOK, JobRow
  <1>3. UNCHANGED <<holds, letters, replayedAs>>
    BY DEF HeartbeatAttempt
  <1>4. QED
    BY <1>2, <1>3, SameRowStays, IdleMove DEF LettersKept

\* A result delivers.
LEMMA CompleteAttemptMoves ==
    ASSUME IInv, NEW j \in Job, NEW w \in Worker, NEW a, CompleteAttempt(j, a, w)
    PROVE  Move /\ LettersKept
  <1>1. /\ jobs[j].status = "running" /\ jobs[j] \in JobRow
        /\ jobs'[j] = Unlocked(jobs[j], "succeeded")
        /\ holds'[j] = Resolve(holds[j], "consumed")
        /\ \A k \in Job \ {j} : jobs'[k] = jobs[k] /\ holds'[k] = holds[k]
        /\ UNCHANGED <<letters, replayedAs>>
    BY SettlingRow DEF CompleteAttempt, Settles, IInv, RowsOK, RestOK
  <1>2. jobs'[j].status = "succeeded"
    BY <1>1, UnlockedRow DEF JobStatus, TerminalStatus
  <1>3. DeliverMove(j)
    BY <1>1, <1>2, SameRowStays DEF DeliverMove, OthersStay
  <1>4. QED
    BY <1>1, <1>3 DEF Move, LettersKept

\* A final failure abandons.
LEMMA FailAttemptMoves ==
    ASSUME IInv, NEW j \in Job, NEW w \in Worker, NEW a, FailAttempt(j, a, w)
    PROVE  Move /\ LettersKept
  <1>1. /\ jobs[j].status = "running" /\ jobs[j] \in JobRow
        /\ jobs'[j] = Failed(jobs[j], "failed")
        /\ holds'[j] = Resolve(holds[j], "released")
        /\ \A k \in Job \ {j} : jobs'[k] = jobs[k] /\ holds'[k] = holds[k]
        /\ UNCHANGED <<letters, replayedAs>>
    BY SettlingRow DEF FailAttempt, Settles, IInv, RowsOK, ReleaseHolds
  <1>2. jobs'[j].status = "failed"
    BY <1>1, FailedRow DEF TerminalStatus
  <1>3. Move
    BY <1>1, <1>2, SameRowStays, AbandonOne DEF Active, TerminalStatus
  <1>4. QED
    BY <1>1, <1>3 DEF LettersKept

\* A retry abandons when the budget is spent and leaves the job open otherwise.
LEMMA RetryFailedAttemptMoves ==
    ASSUME IInv, NEW j \in Job, NEW w \in Worker, NEW a, NEW kind \in RetryKind,
           RetryFailedAttempt(j, a, w, kind)
    PROVE  Move /\ LettersKept
  <1> DEFINE new == Retried(jobs[j], RetryBudget(kind))
             dead == {k \in {j} : new.status = "dead_lettered"}
  <1>1. /\ jobs[j].status = "running" /\ jobs[j] \in JobRow
        /\ jobs' = [jobs EXCEPT ![j] = new]
        /\ ReleaseHolds(dead) /\ CreateLetters(dead) /\ UNCHANGED replayedAs
    BY SettlingRow DEF RetryFailedAttempt, Settles
  <1>2. RetryBudget(kind) \in Nat
    BY LimitAssumption DEF RetryBudget
  <1>3. new.status \in {"queued", "dead_lettered"}
    BY <1>1, <1>2, RetriedRow
  <1>4. LettersKept
    BY <1>1 DEF CreateLetters, LettersKept
  <1> HIDE DEF new
  <1>5. jobs'[j] = new /\ \A k \in Job \ {j} : jobs'[k] = jobs[k] /\ holds'[k] = holds[k]
    BY <1>1 DEF IInv, RowsOK, ReleaseHolds
  <1>6. CASE new.status = "dead_lettered"
    <2>1. holds'[j] = Resolve(holds[j], "released")
      BY <1>1, <1>6 DEF ReleaseHolds
    <2>2. Move
      BY <1>1, <1>5, <1>6, <2>1, SameRowStays, AbandonOne DEF Active, TerminalStatus
    <2>3. QED
      BY <1>4, <2>2
  <1>7. CASE new.status = "queued"
    <2>1. holds'[j] = holds[j]
      BY <1>1, <1>7 DEF ReleaseHolds
    <2>2. Stays(j)
      BY <1>1, <1>5, <1>7, <2>1, OpenStays DEF Active
    <2>3. Move
      BY <1>1, <1>5, <2>2, SameRowStays, IdleMove
    <2>4. QED
      BY <1>4, <2>3
  <1>8. QED
    BY <1>3, <1>6, <1>7

\* The cancellation of a running job abandons.
LEMMA CancelAttemptMoves ==
    ASSUME IInv, NEW j \in Job, NEW w \in Worker, NEW a, CancelAttempt(j, a, w)
    PROVE  Move /\ LettersKept
  <1>1. /\ jobs[j].status = "running" /\ jobs[j] \in JobRow
        /\ jobs'[j] = CancelledRow(jobs[j])
        /\ holds'[j] = Resolve(holds[j], "released")
        /\ \A k \in Job \ {j} : jobs'[k] = jobs[k] /\ holds'[k] = holds[k]
        /\ UNCHANGED <<letters, replayedAs>>
    BY SettlingRow DEF CancelAttempt, IInv, RowsOK, ReleaseHolds
  <1>2. jobs'[j].status = "cancelled"
    BY <1>1, CancelledRowFacts
  <1>3. Move
    BY <1>1, <1>2, SameRowStays, AbandonOne DEF Active, TerminalStatus
  <1>4. QED
    BY <1>1, <1>3 DEF LettersKept

\* Shutdown abandons where cancellation was requested and leaves the job open
\* elsewhere.
LEMMA ReleaseInterruptedAttemptMoves ==
    ASSUME IInv, NEW j \in Job, NEW w \in Worker, NEW a,
           ReleaseInterruptedAttempt(j, a, w)
    PROVE  Move /\ LettersKept
  <1>1. CASE jobs[j].cancel_requested
    BY <1>1, CancelAttemptMoves DEF ReleaseInterruptedAttempt, CancelAttempt
  <1>2. CASE ~jobs[j].cancel_requested
    <2> DEFINE r == Requeued(jobs[j], "now")
               new == [r EXCEPT !.queue_expiry = "none"]
    <2>1. /\ jobs[j].status = "running" /\ jobs[j] \in JobRow
          /\ jobs'[j] = new
          /\ \A k \in Job \ {j} : jobs'[k] = jobs[k]
          /\ UNCHANGED <<holds, letters, replayedAs>>
      BY <1>2, SettlingRow DEF ReleaseInterruptedAttempt, IInv, RowsOK
    <2>2. r \in JobRow /\ r.status = "queued"
      BY <2>1, RequeuedRow
    <2> HIDE DEF r
    <2>3. new.status = "queued"
      BY <2>2 DEF JobRow
    <2> HIDE DEF new
    <2>4. Stays(j)
      BY <2>1, <2>3, OpenStays DEF Active
    <2>5. QED
      BY <2>1, <2>4, SameRowStays, IdleMove DEF LettersKept
  <1>3. QED
    BY <1>1, <1>2

\* A request abandons a queued job and leaves a running one open.
LEMMA RequestCancelMoves ==
    ASSUME IInv, NEW j \in Job, RequestCancel(j)
    PROVE  Move /\ LettersKept
  <1>1. jobs[j] \in JobRow
    BY DEF IInv, RowsOK
  <1>2. CASE RequestCancelQueued(j)
    <2> DEFINE c == CancelledRow(jobs[j])
    <2>1. /\ jobs[j].status = "queued"
          /\ jobs'[j] = [c EXCEPT !.cancel_requested = TRUE]
          /\ holds'[j] = Resolve(holds[j], "released")
          /\ \A k \in Job \ {j} : jobs'[k] = jobs[k] /\ holds'[k] = holds[k]
          /\ UNCHANGED <<letters, replayedAs>>
      BY <1>2 DEF RequestCancelQueued, IInv, RowsOK, ReleaseHolds
    <2>2. c \in JobRow /\ c.status = "cancelled"
      BY <1>1, CancelledRowFacts
    <2> HIDE DEF c
    <2>3. jobs'[j].status = "cancelled"
      BY <2>1, <2>2 DEF JobRow
    <2>4. Move
      BY <2>1, <2>3, SameRowStays, AbandonOne DEF Active, TerminalStatus
    <2>5. QED
      BY <2>1, <2>4 DEF LettersKept
  <1>3. CASE RequestCancelRunning(j)
    <2>1. \A k \in Job : jobs'[k].status = jobs[k].status
      BY <1>1, <1>3 DEF RequestCancelRunning, IInv, RowsOK, JobRow
    <2>2. UNCHANGED <<holds, letters, replayedAs>>
      BY <1>3 DEF RequestCancelRunning
    <2>3. QED
      BY <2>1, <2>2, SameRowStays, IdleMove DEF LettersKept
  <1>4. QED
    BY <1>2, <1>3 DEF RequestCancel

\* The deletion of an account abandons what it withdraws.
LEMMA RequestAccountDeletionMoves ==
    ASSUME IInv, NEW u \in Account, RequestAccountDeletion(u)
    PROVE  Move /\ LettersKept
  <1> DEFINE due == {j \in JobsOf(u) : Active(j)}
  <1>1. due \in SUBSET Job /\ UNCHANGED <<letters, replayedAs>>
    BY DEF RequestAccountDeletion, JobsOf
  <1>2. ASSUME NEW j \in due
        PROVE  /\ Active(j)
               /\ jobs'[j].status \in TerminalStatus \ {"succeeded"}
               /\ holds'[j] = Resolve(holds[j], "released")
    <2>1. jobs'[j] = Withdrawn(jobs[j]) /\ jobs[j] \in JobRow
      BY <1>1 DEF RequestAccountDeletion, IInv, RowsOK
    <2>2. jobs'[j].status = "withdrawn"
      BY <2>1, WithdrawnRow
    <2>3. holds'[j] = Resolve(holds[j], "released")
      BY <1>1 DEF RequestAccountDeletion, ReleaseHolds
    <2>4. QED
      BY <2>2, <2>3 DEF TerminalStatus
  <1>3. ASSUME NEW j \in Job \ due
        PROVE  Stays(j)
    BY SameRowStays DEF RequestAccountDeletion, ReleaseHolds
  <1> HIDE DEF due
  <1>4. AbandonMove(due)
    BY <1>1, <1>2, <1>3 DEF AbandonMove, OthersStay
  <1>5. QED
    BY <1>1, <1>4 DEF Move, LettersKept

\* The first recovery statement abandons all jobs it cancels.
LEMMA RecoverCancellationsMoves ==
    ASSUME IInv, RecoverCancellations
    PROVE  Move /\ LettersKept
  <1> DEFINE due == {j \in Job : CancelDue(j)}
  <1>1. ASSUME NEW j \in due
        PROVE  /\ Active(j)
               /\ jobs'[j].status \in TerminalStatus \ {"succeeded"}
               /\ holds'[j] = Resolve(holds[j], "released")
    <2>1. Active(j)
      BY DEF CancelDue, Abandoned, Active
    <2>2. jobs'[j] = CancelledRow(jobs[j]) /\ jobs[j] \in JobRow
      BY DEF RecoverCancellations, IInv, RowsOK
    <2>3. jobs'[j].status = "cancelled"
      BY <2>2, CancelledRowFacts
    <2>4. holds'[j] = Resolve(holds[j], "released")
      BY DEF RecoverCancellations, ReleaseHolds
    <2>5. QED
      BY <2>1, <2>3, <2>4 DEF TerminalStatus
  <1>2. ASSUME NEW j \in Job \ due
        PROVE  Stays(j)
    BY SameRowStays DEF RecoverCancellations, ReleaseHolds
  <1>3. UNCHANGED <<letters, replayedAs>> /\ due \in SUBSET Job
    BY DEF RecoverCancellations
  <1> HIDE DEF due
  <1>4. AbandonMove(due)
    BY <1>1, <1>2, <1>3 DEF AbandonMove, OthersStay
  <1>5. QED
    BY <1>3, <1>4 DEF Move, LettersKept

\* The second one abandons the jobs it dead-letters and leaves the rest open.
LEMMA RecoverExpiredAttemptsMoves ==
    ASSUME IInv, RecoverExpiredAttempts
    PROVE  Move /\ LettersKept
  <1> DEFINE row(j) == Retried(jobs[j], RetryBudget(RecoveryKind(j)))
             due == {j \in Job : RecoverDue(j)}
             dead == {j \in due : row(j).status = "dead_lettered"}
  <1>1. /\ jobs' = [j \in Job |-> IF j \in due THEN row(j) ELSE jobs[j]]
        /\ ReleaseHolds(dead) /\ CreateLetters(dead) /\ UNCHANGED replayedAs
    BY DEF RecoverExpiredAttempts
  <1>2. ASSUME NEW j \in due
        PROVE  Active(j) /\ row(j).status \in {"queued", "dead_lettered"}
    <2>1. Active(j) /\ jobs[j] \in JobRow
      BY DEF RecoverDue, Abandoned, Active, IInv, RowsOK
    <2>2. RetryBudget(RecoveryKind(j)) \in Nat
      BY LimitAssumption DEF RetryBudget
    <2>3. QED
      BY <2>1, <2>2, RetriedRow
  <1>3. due \subseteq Job /\ dead \subseteq due
    OBVIOUS
  <1>4. \A j \in due : j \in dead <=> row(j).status = "dead_lettered"
    OBVIOUS
  <1>5. LettersKept
    BY <1>1 DEF CreateLetters, LettersKept
  <1> HIDE DEF row, due, dead
  <1>6. ASSUME NEW j \in dead
        PROVE  /\ Active(j)
               /\ jobs'[j].status \in TerminalStatus \ {"succeeded"}
               /\ holds'[j] = Resolve(holds[j], "released")
    BY <1>1, <1>2, <1>3, <1>4 DEF ReleaseHolds, TerminalStatus
  <1>7. ASSUME NEW j \in Job \ dead
        PROVE  Stays(j)
    <2>1. holds'[j] = holds[j]
      BY <1>1 DEF ReleaseHolds
    <2>2. CASE j \in due
      <3>1. jobs'[j].status = "queued" /\ Active(j)
        BY <1>1, <1>2, <1>4, <2>2
      <3>2. QED
        BY <2>1, <3>1, OpenStays
    <2>3. CASE j \notin due
      BY <1>1, <2>1, <2>3, SameRowStays
    <2>4. QED
      BY <2>2, <2>3
  <1>8. AbandonMove(dead)
    BY <1>1, <1>3, <1>6, <1>7 DEF AbandonMove, OthersStay
  <1>9. QED
    BY <1>3, <1>5, <1>8 DEF Move

\* Queue expiry abandons.
LEMMA ExpireQueuedJobsMoves ==
    ASSUME IInv, ExpireQueuedJobs
    PROVE  Move /\ LettersKept
  <1> DEFINE due == {j \in Job : ExpireDue(j)}
  <1>1. ASSUME NEW j \in due
        PROVE  /\ Active(j)
               /\ jobs'[j].status \in TerminalStatus \ {"succeeded"}
               /\ holds'[j] = Resolve(holds[j], "released")
    <2> DEFINE r == Unlocked(jobs[j], "failed")
    <2>1. Active(j) /\ jobs[j] \in JobRow
      BY DEF ExpireDue, Active, IInv, RowsOK
    <2>2. /\ jobs'[j] = [r EXCEPT !.queue_expiry = "none"]
          /\ holds'[j] = Resolve(holds[j], "released")
      BY DEF ExpireQueuedJobs, ReleaseHolds
    <2>3. r \in JobRow /\ r.status = "failed"
      BY <2>1, UnlockedRow DEF JobStatus, TerminalStatus
    <2> HIDE DEF r
    <2>4. jobs'[j].status = "failed"
      BY <2>2, <2>3 DEF JobRow
    <2>5. QED
      BY <2>1, <2>2, <2>4 DEF TerminalStatus
  <1>2. ASSUME NEW j \in Job \ due
        PROVE  Stays(j)
    BY SameRowStays DEF ExpireQueuedJobs, ReleaseHolds
  <1>3. UNCHANGED <<letters, replayedAs>> /\ due \in SUBSET Job
    BY DEF ExpireQueuedJobs
  <1> HIDE DEF due
  <1>4. AbandonMove(due)
    BY <1>1, <1>2, <1>3 DEF AbandonMove, OthersStay
  <1>5. QED
    BY <1>3, <1>4 DEF Move, LettersKept

\* A replay reopens.
LEMMA ReplayDeadLetterMoves ==
    ASSUME IInv, NEW j \in Job, NEW k \in Job, ReplayDeadLetter(j, k)
    PROVE  Move /\ LettersKept
  <1>1. /\ jobs[j].status = "dead_lettered" /\ jobs[k].status = "absent"
        /\ AccountOf[j] = NoAccount /\ letters[j] = "pending_review"
        /\ letters' = [letters EXCEPT ![j] = "replayed"]
        /\ replayedAs' = [replayedAs EXCEPT ![j] = k]
        /\ jobs' = [jobs EXCEPT ![k] = NewRow(k)] /\ UNCHANGED holds
    BY DEF ReplayDeadLetter
  <1>2. jobs'[k].status = "queued" /\ letters'[j] = "replayed"
    BY <1>1, NewRowFacts DEF IInv, RowsOK, RestOK
  <1>3. \A i \in Job \ {k} : jobs'[i] = jobs[i]
    BY <1>1 DEF IInv, RowsOK
  <1>4. ReopenMove(j, k)
    BY <1>1, <1>2, <1>3, SameRowStays DEF ReopenMove, OthersStay
  <1>5. LettersKept
    BY <1>1 DEF LettersKept, IInv, RestOK
  <1>6. QED
    BY <1>4, <1>5 DEF Move

\* Discarding letters that wait for review changes no settlement.
LEMMA DiscardLettersMoves ==
    ASSUME IInv, NEW S, S \subseteq PendingReview, DiscardLetters(S)
    PROVE  Move /\ LettersKept
  <1>1. Move
    BY SameRowStays, IdleMove DEF DiscardLetters
  <1>2. LettersKept
    BY DEF DiscardLetters, PendingReview, LettersKept
  <1>3. QED
    BY <1>1, <1>2

\* A step that leaves these tables alone.
LEMMA SameTablesMoves ==
    ASSUME UNCHANGED <<jobs, holds, letters, replayedAs>>
    PROVE  Move /\ LettersKept
  BY SameRowStays, IdleMove DEF LettersKept

\* The clock changes no status.
LEMMA TicksMoves ==
    ASSUME IInv, NEW j \in Job,
           NEW column \in {"lease", "next_attempt", "started", "queue_expiry"},
           NEW from, NEW to, Ticks(j, column, from, to)
    PROVE  Move /\ LettersKept
  <1> DEFINE new == [jobs[j] EXCEPT ![column] = to]
  <1>1. /\ jobs'[j] = new
        /\ \A k \in Job \ {j} : jobs'[k] = jobs[k]
        /\ UNCHANGED <<holds, letters, replayedAs>>
    BY DEF Ticks, IInv, RowsOK
  <1>2. new.status = jobs[j].status
    <2>1. jobs[j] \in JobRow
      BY DEF IInv, RowsOK
    <2>2. QED
      BY <2>1 DEF JobRow
  <1> HIDE DEF new
  <1>3. \A k \in Job : jobs'[k].status = jobs[k].status
    BY <1>1, <1>2
  <1>4. QED
    BY <1>1, <1>3, SameRowStays, IdleMove DEF LettersKept

\* Every step of the job store is a move of the settlement.
LEMMA NextMoves ==
    ASSUME IInv, [Next]_vars
    PROVE  Move /\ LettersKept
  <1>1. CASE UNCHANGED vars
    BY <1>1, SameTablesMoves DEF vars
  <1>2. ASSUME NEW j \in Job, AdmitJob(j) \/ RequestCancel(j) \/ DiscardDeadLetter(j)
        PROVE  Move /\ LettersKept
    <2>1. CASE DiscardDeadLetter(j)
      <3>1. {j} \subseteq PendingReview /\ DiscardLetters({j})
        BY <2>1 DEF DiscardDeadLetter
      <3>2. QED
        BY <3>1, DiscardLettersMoves
    <2>2. QED
      BY <1>2, <2>1, AdmitJobMoves, RequestCancelMoves
  <1>3. ASSUME NEW j \in Job, NEW k \in Job, ReplayDeadLetter(j, k)
        PROVE  Move /\ LettersKept
    BY <1>3, ReplayDeadLetterMoves
  <1>4. CASE DiscardAllDeadLetters
    BY <1>4, DiscardLettersMoves DEF DiscardAllDeadLetters
  <1>5. ASSUME NEW w \in Worker, Dispatch(w)
        PROVE  Move /\ LettersKept
    BY <1>5, ClaimNextJobMoves, PreemptFreeJobForPaidMoves DEF Dispatch
  <1>6. ASSUME NEW w \in Worker, RegistryStep(w)
        PROVE  Move /\ LettersKept
    BY <1>6, SameTablesMoves DEF RegistryStep, RegisterWorker, LeaveRegistry
  <1>7. ASSUME NEW j \in Job, NEW w \in Worker, NEW a \in DOMAIN attempts[j],
               WorkerCall(j, a, w)
        PROVE  Move /\ LettersKept
    BY <1>7, HeartbeatAttemptMoves, CompleteAttemptMoves, FailAttemptMoves,
       RetryFailedAttemptMoves, ReleaseInterruptedAttemptMoves, CancelAttemptMoves
       DEF WorkerCall
  <1>8. CASE Maintenance
    BY <1>8, RecoverCancellationsMoves, RecoverExpiredAttemptsMoves,
       ExpireQueuedJobsMoves DEF Maintenance
  <1>9. ASSUME NEW j \in Job, TimePasses(j)
        PROVE  Move /\ LettersKept
    BY <1>9, TicksMoves DEF TimePasses, LeaseExpires, RetryTimeComes, GraceElapses,
                            HardTimeoutElapses, QueueExpiryComes
  <1>10. ASSUME NEW u \in Account, RequestAccountDeletion(u)
         PROVE  Move /\ LettersKept
    BY <1>10, RequestAccountDeletionMoves
  <1>11. QED
    BY <1>1, <1>2, <1>3, <1>4, <1>5, <1>6, <1>7, <1>8, <1>9, <1>10 DEF Next

-----------------------------------------------------------------------------
(* Reservations follow jobs *)

\* What a job holds fits its status.
HoldsFit(j) ==
    \A r \in Resource :
        /\ jobs[j].status = "absent" => holds[j][r] = "none"
        /\ Active(j) => holds[j][r] \in {"none", "reserved"}
        /\ jobs[j].status = "succeeded" => holds[j][r] \in {"none", "consumed"}
        /\ Terminal(j) /\ jobs[j].status # "succeeded" =>
              holds[j][r] \in {"none", "released"}

\* A submitted job holds, or held, what it needs.
NeedsFit(j) ==
    jobs[j].status # "absent" /\ ~IsReplay(j) =>
        \A r \in Resource : holds[j][r] = "none" <=> r \notin Needs[j]

\* A letter that names a replay is marked, so that no second replay takes its
\* place and turns the first one back into an ordinary job.
ReplaysMarked == \A j \in Job : replayedAs[j] # NoJob => letters[j] = "replayed"

SInv == (\A j \in Job : HoldsFit(j) /\ NeedsFit(j)) /\ ReplaysMarked

\* The empty tables satisfy it.
LEMMA InitSInv == Init => SInv
  <1> SUFFICES ASSUME Init PROVE SInv
    OBVIOUS
  <1>1. \A j \in Job : jobs[j].status = "absent" /\ \A r \in Resource : holds[j][r] = "none"
    BY DEF Init, AbsentRow
  <1>2. ReplaysMarked
    BY DEF Init, ReplaysMarked
  <1>3. QED
    BY <1>1, <1>2 DEF SInv, HoldsFit, NeedsFit, Active, Terminal, TerminalStatus

\* A job that keeps its outcome and reservations stays fit.
LEMMA StaysFit ==
    ASSUME IInv, IInv', NEW j \in Job, HoldsFit(j), NeedsFit(j), Stays(j),
           IsReplay(j) => IsReplay(j)'
    PROVE  HoldsFit(j)' /\ NeedsFit(j)'
  <1>1. /\ jobs[j].status \in JobStatus /\ jobs'[j].status \in JobStatus
    BY DEF IInv, RowsOK, JobRow
  <1>2. jobs'[j].status # jobs[j].status => Active(j) /\ Active(j)'
    BY <1>1 DEF Stays, OutcomeOf, Active, JobStatus, TerminalStatus
  <1>3. holds'[j] = holds[j]
    BY DEF Stays
  <1>4. HoldsFit(j)'
    BY <1>2, <1>3 DEF HoldsFit, Active, Terminal, TerminalStatus
  <1>5. NeedsFit(j)'
    BY <1>2, <1>3 DEF NeedsFit, Active
  <1>6. QED
    BY <1>4, <1>5

\* An open job whose reservations are resolved fits its end.
LEMMA ResolvedFit ==
    ASSUME NEW j \in Job, HoldsFit(j), NeedsFit(j), Active(j),
           NEW s \in {"consumed", "released"}, holds'[j] = Resolve(holds[j], s),
           \/ s = "consumed" /\ jobs'[j].status = "succeeded"
           \/ s = "released" /\ jobs'[j].status \in TerminalStatus \ {"succeeded"},
           IsReplay(j) => IsReplay(j)'
    PROVE  HoldsFit(j)' /\ NeedsFit(j)'
  <1>1. \A r \in Resource : holds'[j][r] = IF holds[j][r] = "reserved" THEN s ELSE holds[j][r]
    BY DEF Resolve
  <1>2. \A r \in Resource : holds[j][r] \in {"none", "reserved"}
    BY DEF HoldsFit
  <1>3. HoldsFit(j)'
    BY <1>1, <1>2 DEF HoldsFit, Active, Terminal, TerminalStatus
  <1>4. NeedsFit(j)'
    BY <1>1, <1>2 DEF NeedsFit, Active
  <1>5. QED
    BY <1>3, <1>4

\* Every move keeps reservations fitting.
LEMMA MoveKeepsSInv ==
    ASSUME IInv, IInv', SInv, Move, LettersKept
    PROVE  SInv'
  <1>1. ASSUME UNCHANGED replayedAs
        PROVE  ReplaysMarked' /\ \A j \in Job : IsReplay(j) => IsReplay(j)'
    BY <1>1 DEF SInv, ReplaysMarked, LettersKept, IsReplay
  <1>2. ASSUME NEW j \in Job, SubmitMove(j)
        PROVE  SInv'
    <2>1. HoldsFit(j)' /\ NeedsFit(j)'
      BY <1>2 DEF SubmitMove, HoldsFit, NeedsFit, Active, Terminal, TerminalStatus
    <2>2. ASSUME NEW k \in Job \ {j}
          PROVE  HoldsFit(k)' /\ NeedsFit(k)'
      BY <1>1, <1>2, StaysFit DEF SubmitMove, OthersStay, SInv
    <2>3. QED
      BY <1>1, <1>2, <2>1, <2>2 DEF SubmitMove, SInv
  <1>3. ASSUME NEW j \in Job, DeliverMove(j)
        PROVE  SInv'
    <2>1. HoldsFit(j)' /\ NeedsFit(j)'
      BY <1>1, <1>3, ResolvedFit DEF DeliverMove, SInv, Active
    <2>2. ASSUME NEW k \in Job \ {j}
          PROVE  HoldsFit(k)' /\ NeedsFit(k)'
      BY <1>1, <1>3, StaysFit DEF DeliverMove, OthersStay, SInv
    <2>3. QED
      BY <1>1, <1>3, <2>1, <2>2 DEF DeliverMove, SInv
  <1>4. ASSUME NEW S \in SUBSET Job, AbandonMove(S)
        PROVE  SInv'
    <2>1. ASSUME NEW j \in S
          PROVE  HoldsFit(j)' /\ NeedsFit(j)'
      BY <1>1, <1>4, ResolvedFit DEF AbandonMove, SInv
    <2>2. ASSUME NEW k \in Job \ S
          PROVE  HoldsFit(k)' /\ NeedsFit(k)'
      BY <1>1, <1>4, StaysFit DEF AbandonMove, OthersStay, SInv
    <2>3. QED
      BY <1>1, <1>4, <2>1, <2>2 DEF AbandonMove, SInv
  <1>5. ASSUME NEW j \in Job, NEW k \in Job, ReopenMove(j, k)
        PROVE  SInv'
    <2>1. replayedAs[j] = NoJob
      BY <1>5 DEF ReopenMove, SInv, ReplaysMarked
    <2>2. /\ replayedAs'[j] = k
          /\ \A i \in Job \ {j} : replayedAs'[i] = replayedAs[i]
      BY <1>5 DEF ReopenMove, IInv, RestOK
    <2>3. \A i \in Job : IsReplay(i) => IsReplay(i)'
      BY <2>1, <2>2, JobAssumption DEF IsReplay
    <2>4. HoldsFit(k)' /\ NeedsFit(k)'
      <3>1. IsReplay(k)'
        BY <2>2 DEF IsReplay
      <3>2. HoldsFit(k)'
        BY <1>5 DEF ReopenMove, SInv, HoldsFit, Active, Terminal, TerminalStatus
      <3>3. QED
        BY <3>1, <3>2 DEF NeedsFit
    <2>5. ASSUME NEW i \in Job \ {k}
          PROVE  HoldsFit(i)' /\ NeedsFit(i)'
      BY <1>5, <2>3, StaysFit DEF ReopenMove, OthersStay, SInv
    <2>6. ReplaysMarked'
      BY <1>5, <2>2 DEF ReopenMove, SInv, ReplaysMarked, LettersKept
    <2>7. QED
      BY <2>4, <2>5, <2>6 DEF SInv
  <1>6. QED
    BY <1>2, <1>3, <1>4, <1>5 DEF Move

\* The invariant of the reservations holds of every behaviour.
THEOREM SInvAlways == Spec => []SInv
  <1>1. IInv /\ SInv /\ [Next]_vars => SInv'
    BY NextInv, NextMoves, MoveKeepsSInv
  <1>2. QED
    BY InitSInv, IInvAlways, <1>1, PTL DEF Spec

\* Reservations stay while a job is open, are consumed by success and given
\* back by every other end, for any number of jobs, workers and accounts.
THEOREM ReservationsFollow == Spec => []ReservationFollowsJob
  <1>1. SInv => ReservationFollowsJob
    BY DEF SInv, HoldsFit, NeedsFit, ReservationFollowsJob
  <1>2. QED
    BY <1>1, SInvAlways, PTL

-----------------------------------------------------------------------------
(* The store implements JobSettlement *)

\* The refinement mapping at job j, before and after the step.
OutcomeAt(j) == OutcomeOf(jobs[j].status)

\* A job that stays keeps its place in the mapping.
LEMMA StaysMapped ==
    ASSUME NEW j, Stays(j)
    PROVE  /\ OutcomeAt(j)' = OutcomeAt(j)
           /\ HeldAs(j, "reserved")' = HeldAs(j, "reserved")
           /\ HeldAs(j, "consumed")' = HeldAs(j, "consumed")
  BY DEF Stays, OutcomeAt, HeldAs

\* The empty tables are the initial state of the settlement.
LEMMA InitSettles == Init => Settlement!Init
  <1> SUFFICES ASSUME Init PROVE Settlement!Init
    OBVIOUS
  <1>1. \A j \in Job : /\ OutcomeOf(jobs[j].status) = "none"
                       /\ HeldAs(j, "reserved") = {} /\ HeldAs(j, "consumed") = {}
    BY Outcomes DEF Init, AbsentRow, HeldAs
  <1>2. replayedAs = [j \in Job |-> NoJob]
    BY DEF Init
  <1>3. QED
    BY <1>1, <1>2 DEF Settlement!Init

\* Every move is a step of the settlement or leaves it alone.
LEMMA MoveSettles ==
    ASSUME IInv, IInv', SInv, Move
    PROVE  Settlement!Next \/ UNCHANGED Settlement!vars
  <1> DEFINE outcome == [j \in Job |-> OutcomeOf(jobs[j].status)]
             reserved == [j \in Job |-> HeldAs(j, "reserved")]
             spent == [j \in Job |-> HeldAs(j, "consumed")]
  <1>1. ASSUME NEW j \in Job, SubmitMove(j)
        PROVE  Settlement!Submit(j)
    <2>1. OutcomeOf(jobs[j].status) = "none" /\ OutcomeOf(jobs'[j].status) = "open"
      BY <1>1, Outcomes DEF SubmitMove
    <2>2. Needs[j] \subseteq Resource
      BY JobAssumption
    <2>3. HeldAs(j, "reserved")' = Needs[j]
      BY <1>1, <2>2 DEF SubmitMove, HeldAs
    <2>4. HeldAs(j, "consumed")' = HeldAs(j, "consumed")
      BY <1>1 DEF SubmitMove, HeldAs, SInv, HoldsFit
    <2>5. \A k \in Job \ {j} :
             /\ OutcomeAt(k)' = OutcomeAt(k)
             /\ HeldAs(k, "reserved")' = HeldAs(k, "reserved")
             /\ HeldAs(k, "consumed")' = HeldAs(k, "consumed")
      BY <1>1, StaysMapped DEF SubmitMove, OthersStay
    <2>6. UNCHANGED replayedAs
      BY <1>1 DEF SubmitMove
    <2>7. outcome' = [outcome EXCEPT ![j] = "open"]
      BY <2>1, <2>5 DEF OutcomeAt
    <2>8. reserved' = [reserved EXCEPT ![j] = Needs[j]]
      BY <2>3, <2>5
    <2>9. spent' = spent
      BY <2>4, <2>5
    <2>10. QED
      BY <2>1, <2>6, <2>7, <2>8, <2>9 DEF Settlement!Submit
  <1>2. ASSUME NEW j \in Job, DeliverMove(j)
        PROVE  Settlement!Deliver(j)
    <2>1. OutcomeOf(jobs[j].status) = "open" /\ OutcomeOf(jobs'[j].status) = "delivered"
      BY <1>2, Outcomes DEF DeliverMove
    <2>2. \A r \in Resource : holds[j][r] \in {"none", "reserved"}
      BY <1>2 DEF DeliverMove, SInv, HoldsFit, Active
    <2>3. /\ HeldAs(j, "reserved")' = {}
          /\ HeldAs(j, "consumed")' = HeldAs(j, "reserved")
      BY <1>2, <2>2 DEF DeliverMove, HeldAs, Resolve
    <2>4. \A k \in Job \ {j} :
             /\ OutcomeAt(k)' = OutcomeAt(k)
             /\ HeldAs(k, "reserved")' = HeldAs(k, "reserved")
             /\ HeldAs(k, "consumed")' = HeldAs(k, "consumed")
      BY <1>2, StaysMapped DEF DeliverMove, OthersStay
    <2>5. UNCHANGED replayedAs
      BY <1>2 DEF DeliverMove
    <2>6. outcome' = [outcome EXCEPT ![j] = "delivered"]
      BY <2>1, <2>4 DEF OutcomeAt
    <2>7. spent' = [spent EXCEPT ![j] = reserved[j]]
      BY <2>3, <2>4
    <2>8. reserved' = [reserved EXCEPT ![j] = {}]
      BY <2>3, <2>4
    <2>9. QED
      BY <2>1, <2>5, <2>6, <2>7, <2>8 DEF Settlement!Deliver
  <1>3. ASSUME NEW S \in SUBSET Job, AbandonMove(S)
        PROVE  Settlement!Abandon(S)
    <2>1. ASSUME NEW j \in S
          PROVE  /\ OutcomeOf(jobs[j].status) = "open"
                 /\ OutcomeOf(jobs'[j].status) = "abandoned"
                 /\ HeldAs(j, "reserved")' = {}
                 /\ HeldAs(j, "consumed")' = HeldAs(j, "consumed")
      <3>1. Active(j) /\ jobs'[j].status \in TerminalStatus \ {"succeeded"}
            /\ holds'[j] = Resolve(holds[j], "released")
        BY <1>3 DEF AbandonMove
      <3>2. \A r \in Resource : holds[j][r] \in {"none", "reserved"}
        BY <3>1 DEF SInv, HoldsFit
      <3>3. QED
        BY <3>1, <3>2, Outcomes DEF Active, HeldAs, Resolve
    <2>2. \A k \in Job \ S :
             /\ OutcomeAt(k)' = OutcomeAt(k)
             /\ HeldAs(k, "reserved")' = HeldAs(k, "reserved")
             /\ HeldAs(k, "consumed")' = HeldAs(k, "consumed")
      BY <1>3, StaysMapped DEF AbandonMove, OthersStay
    <2>3. UNCHANGED replayedAs
      BY <1>3 DEF AbandonMove
    <2>4. outcome' = [j \in Job |-> IF j \in S THEN "abandoned" ELSE outcome[j]]
      BY <2>1, <2>2 DEF OutcomeAt
    <2>5. reserved' = [j \in Job |-> IF j \in S THEN {} ELSE reserved[j]]
      BY <2>1, <2>2
    <2>6. spent' = spent
      BY <2>1, <2>2
    <2>7. \A j \in S : outcome[j] = "open"
      BY <2>1
    <2>8. QED
      BY <2>3, <2>4, <2>5, <2>6, <2>7 DEF Settlement!Abandon
  <1>4. ASSUME NEW j \in Job, NEW k \in Job, ReopenMove(j, k)
        PROVE  Settlement!Reopen(j, k)
    <2>1. /\ OutcomeOf(jobs[j].status) = "abandoned"
          /\ OutcomeOf(jobs[k].status) = "none"
          /\ OutcomeOf(jobs'[k].status) = "open"
      BY <1>4, Outcomes DEF ReopenMove, TerminalStatus
    <2>2. "balance" \notin Needs[j]
      BY <1>4, JobAssumption DEF ReopenMove
    <2>3. replayedAs[j] = NoJob /\ replayedAs' = [replayedAs EXCEPT ![j] = k]
      BY <1>4 DEF ReopenMove, SInv, ReplaysMarked
    <2>4. \A i \in Job \ {k} :
             /\ OutcomeAt(i)' = OutcomeAt(i)
             /\ HeldAs(i, "reserved")' = HeldAs(i, "reserved")
             /\ HeldAs(i, "consumed")' = HeldAs(i, "consumed")
      BY <1>4, StaysMapped DEF ReopenMove, OthersStay
    <2>5. /\ HeldAs(k, "reserved")' = HeldAs(k, "reserved")
          /\ HeldAs(k, "consumed")' = HeldAs(k, "consumed")
      BY <1>4 DEF ReopenMove, HeldAs
    <2>6. outcome' = [outcome EXCEPT ![k] = "open"]
      BY <2>1, <2>4 DEF OutcomeAt
    <2>7. reserved' = reserved /\ spent' = spent
      BY <2>4, <2>5
    <2>8. QED
      BY <2>1, <2>2, <2>3, <2>6, <2>7 DEF Settlement!Reopen
  <1>5. QED
    BY <1>1, <1>2, <1>3, <1>4 DEF Move, Settlement!Next

\* Behind attempts, leases, preemptions and retries every submission is spent
\* by the step that delivers it or given back by the step that abandons it.
THEOREM StoreImplementsSettlement == Spec => ImplementsSettlement
  <1>1. IInv /\ SInv /\ [Next]_vars => [Settlement!Next]_(Settlement!vars)
    BY NextInv, NextMoves, MoveSettles
  <1>2. QED
    BY InitSettles, IInvAlways, SInvAlways, <1>1, PTL
       DEF Spec, ImplementsSettlement, Settlement!Spec
=============================================================================
