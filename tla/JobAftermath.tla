--------------------------- MODULE JobAftermath ---------------------------
(***************************************************************************)
(* What happens to an optimization job after it ended: the effect row      *)
(* 'schedule_completion' that a successful completion leaves behind, the   *)
(* callers that apply it (the runner right after the completion, the       *)
(* maintenance leader every minute), the CDK usage count it raises, the    *)
(* dead letter of a job that ran out of attempts, the deletion of jobs     *)
(* older than the retention time, and of all jobs of an erased account.    *)
(*                                                                         *)
(* The callers share no lock: processPendingOptimizationJobEffects reads   *)
(* its batch in one query and then works on each row in several            *)
(* transactions, so two callers may hold the same row and a process may    *)
(* stop between any two of them.                                           *)
(***************************************************************************)
EXTENDS Naturals, Sequences, FiniteSets

CONSTANTS
    Job,
    Orphan,         \* jobs whose profile is gone when the effect is applied
    DeadLetterJob,  \* jobs whose every attempt fails
    User,
    UserOf,         \* [Job -> User]
    Maintenance,    \* the leader of the queue maintenance
    BatchLimit,     \* 25 in the code: rows one call reads
    FaultBound      \* bound of the model: crashes, failed calls and changes of
                    \* the CDK in one behaviour

ASSUME AftermathAssumption ==
    /\ IsFiniteSet(Job)
    /\ Orphan \subseteq Job
    /\ DeadLetterJob \subseteq Job
    /\ UserOf \in [Job -> User]
    /\ Maintenance \notin Job
    /\ BatchLimit \in Nat \ {0}
    /\ FaultBound \in Nat

\* A call is named by the job whose completion started it, or Maintenance.
Caller == Job \cup {Maintenance}

VARIABLES
    status,     \* [Job -> JobStatus], optimize_jobs.status; "deleted": no row
    effect,     \* [Job -> EffectStatus], row 'schedule_completion'; a row
                \* 'workspace_schedule_result' is written and deleted with it
    counted,    \* [Job -> BOOLEAN], row 'cdk_schedule_generate'
    generated,  \* [Job -> Nat]: what the job added to schedule_generate_count
    letter,     \* [Job -> BOOLEAN], row in optimization_dead_letters
    aged,       \* [Job -> BOOLEAN], ended longer ago than the retention time
    earlier,    \* [Job -> SUBSET Job], whose effect row has an earlier applied_at
    cdkUsable,  \* status of the CDK record is 'used', not 'frozen'
    at,         \* [Caller -> Place], where a call is
    todo,       \* [Caller -> Seq(Job)], the rows it read and has not finished
    faults      \* number of faults so far

jobVars == <<status, letter, aged>>
vars == <<status, effect, counted, generated, letter, aged, earlier,
          cdkUsable, at, todo, faults>>

\* "plain": ended without an effect row that waits for something: failed,
\* cancelled, or the success of another kind of job or of a comparison.
EndedStatus == {"succeeded", "plain", "dead_lettered"}
JobStatus == {"open", "deleted"} \cup EndedStatus
EffectStatus == {"none", "pending", "applied"}
Place == {"idle", "read", "count", "record", "mark", "undo", "cleanup"}

HasRow(j) == status[j] # "deleted"
Ended(j) == status[j] \in EndedStatus
Pending(j) == effect[j] = "pending" /\ status[j] = "succeeded"

\* The jobs whose effect rows come earlier when j's is written with the present
\* time.
Newest(j) ==
    [k \in Job |-> IF k = j THEN {i \in Job \ {j} : effect[i] # "none"}
                   ELSE earlier[k] \ {j}]

\* One more fault.
Faulty == faults < FaultBound /\ faults' = faults + 1

-----------------------------------------------------------------------------
(* The end of a job *)

\* The runner goes on to read the effect it left.
Succeed(j) ==
    /\ j \notin DeadLetterJob
    /\ status[j] = "open"
    /\ status' = [status EXCEPT ![j] = "succeeded"]
    /\ effect' = [effect EXCEPT ![j] = "pending"]
    /\ earlier' = Newest(j)
    /\ at' = [at EXCEPT ![j] = "read"]
    /\ UNCHANGED <<counted, generated, letter, aged, cdkUsable, todo, faults>>

\* Failed, out of time in the queue, cancelled, or the success of something else
\* than a schedule of a profile.
EndPlainly(j) ==
    /\ j \notin DeadLetterJob
    /\ status[j] = "open"
    /\ status' = [status EXCEPT ![j] = "plain"]
    /\ UNCHANGED <<effect, counted, generated, letter, aged, earlier,
                   cdkUsable, at, todo, faults>>

DeadLetter(j) ==
    /\ j \in DeadLetterJob
    /\ status[j] = "open"
    /\ status' = [status EXCEPT ![j] = "dead_lettered"]
    /\ letter' = [letter EXCEPT ![j] = TRUE]
    /\ UNCHANGED <<effect, counted, generated, aged, earlier, cdkUsable, at, todo, faults>>

\* The retention time of an ended job elapses.
Age(j) ==
    /\ Ended(j)
    /\ ~aged[j]
    /\ aged' = [aged EXCEPT ![j] = TRUE]
    /\ UNCHANGED <<status, effect, counted, generated, letter, earlier,
                   cdkUsable, at, todo, faults>>

\* An administrator freezes or unfreezes the CDK.
FreezeCdk ==
    /\ Faulty
    /\ cdkUsable' = ~cdkUsable
    /\ UNCHANGED <<jobVars, effect, counted, generated, earlier, at, todo>>

-----------------------------------------------------------------------------
(* processPendingOptimizationJobEffects *)

\* Where a call goes with the rows it has left: the maintenance run ends with
\* the cleanup, the call of a runner is over.
NextPlace(c, rows) ==
    IF rows # <<>> THEN "count"
    ELSE IF c = Maintenance THEN "cleanup" ELSE "idle"

GoOnWith(c, rows) ==
    /\ todo' = [todo EXCEPT ![c] = rows]
    /\ at' = [at EXCEPT ![c] = NextPlace(c, rows)]

Moves(c, from, to) ==
    /\ at[c] = from
    /\ at' = [at EXCEPT ![c] = to]
    /\ UNCHANGED todo

Batch == UNION {[1..n -> Job] : n \in 0..BatchLimit}

\* Faulty: the batch is one row short.
OldestPendingButOne(rows) ==
    LET pending == {j \in Job : Pending(j)} IN
    /\ Len(rows) = IF Cardinality(pending) < BatchLimit THEN Cardinality(pending)
                   ELSE BatchLimit - 1
    /\ \A i \in 1..Len(rows) :
          rows[i] \in pending /\ Cardinality(pending \cap earlier[rows[i]]) = i - 1

\* order by applied_at asc limit 25
OldestPending(rows) ==
    LET pending == {j \in Job : Pending(j)} IN
    /\ Len(rows) = IF Cardinality(pending) < BatchLimit THEN Cardinality(pending)
                   ELSE BatchLimit
    /\ \A i \in 1..Len(rows) :
          rows[i] \in pending /\ Cardinality(pending \cap earlier[rows[i]]) = i - 1

\* The runner calls once, after completeAttempt returned true.
StartRunnerCall(j) ==
    /\ at[j] = "read"
    /\ GoOnWith(j, IF Pending(j) THEN <<j>> ELSE <<>>)
    /\ UNCHANGED <<jobVars, effect, counted, generated, earlier, cdkUsable, faults>>

StartMaintenance ==
    /\ at[Maintenance] = "idle"
    /\ \E rows \in Batch : OldestPending(rows) /\ GoOnWith(Maintenance, rows)
    /\ UNCHANGED <<jobVars, effect, counted, generated, earlier, cdkUsable, faults>>

\* Faulty: the count is raised without the row that remembers it.
CountUnmarked(c) ==
    /\ Moves(c, "count", "record")
    /\ LET j == Head(todo[c]) IN
        /\ HasRow(j) /\ j \notin Orphan /\ cdkUsable
        /\ generated' = [generated EXCEPT ![j] = @ + 1]
    /\ UNCHANGED <<jobVars, effect, counted, earlier, cdkUsable, faults>>

\* Faulty: a marker without reference to the job row.
CountUnreferenced(c) ==
    /\ Moves(c, "count", "record")
    /\ LET j == Head(todo[c]) IN
        /\ j \notin Orphan
        /\ counted[j] \/ cdkUsable
        /\ counted' = [counted EXCEPT ![j] = TRUE]
        /\ generated' = [generated EXCEPT ![j] = IF counted[j] THEN @ ELSE @ + 1]
    /\ UNCHANGED <<jobVars, effect, earlier, cdkUsable, faults>>

\* incrementScheduleGenerateCount: one transaction inserts the marker and
\* raises the count, or finds the marker and does nothing.
Count(c) ==
    /\ Moves(c, "count", "record")
    /\ LET j == Head(todo[c]) IN
        /\ HasRow(j) /\ j \notin Orphan
        /\ counted[j] \/ cdkUsable
        /\ counted' = [counted EXCEPT ![j] = TRUE]
        /\ generated' = [generated EXCEPT ![j] = IF counted[j] THEN @ ELSE @ + 1]
    /\ UNCHANGED <<jobVars, effect, earlier, cdkUsable, faults>>

\* The marker refers to the job row (foreign key), the CDK may be frozen, the
\* owner of the profile may be gone.
CountFails(c) ==
    /\ Moves(c, "count", "undo")
    /\ LET j == Head(todo[c]) IN
        j \in Orphan \/ ~HasRow(j) \/ (~counted[j] /\ ~cdkUsable)
    /\ UNCHANGED <<jobVars, effect, counted, generated, earlier, cdkUsable, faults>>

\* recordGeneratedBehaviorEvent, whose key makes a second insert a no-op.
RecordEvent(c) ==
    /\ Moves(c, "record", "mark")
    /\ UNCHANGED <<jobVars, effect, counted, generated, earlier, cdkUsable, faults>>

\* A call of the database fails.
StoreFails(c, from) ==
    /\ Faulty
    /\ Moves(c, from, "undo")
    /\ UNCHANGED <<jobVars, effect, counted, generated, earlier, cdkUsable>>

\* An update by job_id: it writes whatever another caller wrote meanwhile, and
\* nothing when the row is gone.
SetEffect(c, from, new) ==
    LET j == Head(todo[c]) IN
    /\ at[c] = from
    /\ effect' = [effect EXCEPT ![j] = IF HasRow(j) THEN new ELSE @]
    /\ UNCHANGED <<jobVars, counted, generated, cdkUsable>>

DoneWithRow(c) == GoOnWith(c, Tail(todo[c])) /\ UNCHANGED faults

\* Only the update to 'applied' sets applied_at.
SetsAppliedAt(c) ==
    LET j == Head(todo[c]) IN earlier' = IF HasRow(j) THEN Newest(j) ELSE earlier

\* Faulty: a status nobody reads.
MarkDone(c) == SetEffect(c, "mark", "done") /\ SetsAppliedAt(c) /\ DoneWithRow(c)

MarkApplied(c) == SetEffect(c, "mark", "applied") /\ SetsAppliedAt(c) /\ DoneWithRow(c)

\* The mark is committed and its answer lost: the call goes on to write 'pending'.
MarkAnswerLost(c) ==
    /\ Faulty
    /\ SetEffect(c, "mark", "applied") /\ SetsAppliedAt(c)
    /\ Moves(c, "mark", "undo")

MarkPending(c) == SetEffect(c, "undo", "pending") /\ DoneWithRow(c) /\ UNCHANGED earlier

\* Its failure is ignored.
MarkPendingFails(c) ==
    /\ Faulty
    /\ at[c] = "undo"
    /\ GoOnWith(c, Tail(todo[c]))
    /\ UNCHANGED <<jobVars, effect, counted, generated, earlier, cdkUsable>>

\* The process of the call stops; its transactions are committed or undone.
Crash(c) ==
    /\ Faulty
    /\ at[c] # "idle"
    /\ at' = [at EXCEPT ![c] = "idle"]
    /\ todo' = [todo EXCEPT ![c] = <<>>]
    /\ UNCHANGED <<jobVars, effect, counted, generated, earlier, cdkUsable>>

-----------------------------------------------------------------------------
(* The end of the rows *)

\* Effect rows are deleted with their job; a count on the CDK stays.
DeleteJobs(S) ==
    /\ status' = [j \in Job |-> IF j \in S THEN "deleted" ELSE status[j]]
    /\ effect' = [j \in Job |-> IF j \in S THEN "none" ELSE effect[j]]
    /\ counted' = [j \in Job |-> j \notin S /\ counted[j]]
    /\ earlier' = [j \in Job |-> IF j \in S THEN {} ELSE earlier[j] \ S]
    /\ UNCHANGED <<generated, aged, cdkUsable, todo, faults>>

\* The rows whose status reads as 'pending' because they are written without one
\* and nothing gives them one: 'workspace_schedule_result', written together with
\* 'schedule_completion', and the marker of the count.
LacksStatus(j) == effect[j] # "none" \/ counted[j]

\* Faulty: only succeeded jobs are old enough one day.
ExpiredSuccess(j) ==
    status[j] = "succeeded" /\ aged[j] /\ effect[j] # "pending" /\ ~LacksStatus(j)

\* No effect row of the job reads as 'pending'.  The rest of the condition, that
\* no reserved points are left, holds of every ended job (ReservationFollowsJob).
Expired(j) == Ended(j) /\ aged[j] /\ effect[j] # "pending" /\ ~LacksStatus(j)

\* cleanupOldJobs, the end of every maintenance run.  Letters refer to their job
\* ON DELETE RESTRICT: one of them undoes the whole transaction.
Cleanup ==
    LET due == {j \in Job : Expired(j)} IN
    /\ at[Maintenance] = "cleanup"
    /\ at' = [at EXCEPT ![Maintenance] = "idle"]
    /\ DeleteJobs({j \in due : \A k \in due : ~letter[k]})
    /\ UNCHANGED letter

\* deleteUserAccountInTransaction: first the letters, then the jobs, whatever
\* their status, and whatever call holds one of them.
EraseAccount(u) ==
    LET owned == {j \in Job : UserOf[j] = u} IN
    /\ DeleteJobs(owned)
    /\ letter' = [j \in Job |-> j \notin owned /\ letter[j]]
    /\ UNCHANGED at

-----------------------------------------------------------------------------
(* Specification *)

Init ==
    /\ status = [j \in Job |-> "open"]
    /\ effect = [j \in Job |-> "none"]
    /\ counted = [j \in Job |-> FALSE]
    /\ generated = [j \in Job |-> 0]
    /\ letter = [j \in Job |-> FALSE]
    /\ aged = [j \in Job |-> FALSE]
    /\ earlier = [j \in Job |-> {}]
    /\ cdkUsable = TRUE
    /\ at = [c \in Caller |-> "idle"]
    /\ todo = [c \in Caller |-> <<>>]
    /\ faults = 0

CallStep(c) ==
    Count(c) \/ CountFails(c) \/ RecordEvent(c) \/ MarkApplied(c) \/ MarkPending(c)

CallFault(c) ==
    \/ \E from \in {"count", "record", "mark"} : StoreFails(c, from)
    \/ MarkAnswerLost(c)
    \/ MarkPendingFails(c)
    \/ Crash(c)

Next ==
    \/ \E j \in Job : Succeed(j) \/ EndPlainly(j) \/ DeadLetter(j) \/ Age(j)
    \/ FreezeCdk
    \/ \E j \in Job : StartRunnerCall(j)
    \/ StartMaintenance
    \/ \E c \in Caller : CallStep(c) \/ CallFault(c)
    \/ Cleanup
    \/ \E u \in User : EraseAccount(u)

Spec == Init /\ [][Next]_vars

\* The maintenance runs every minute; jobs get older.
Fairness ==
    /\ \A j \in Job : WF_vars(Age(j))
    /\ WF_vars(StartMaintenance)
    /\ WF_vars(CallStep(Maintenance))
    /\ WF_vars(Cleanup)

FairSpec == Spec /\ Fairness

-----------------------------------------------------------------------------
(* Properties *)

\* Every variable keeps its type.
TypeOK ==
    /\ status \in [Job -> JobStatus]
    /\ effect \in [Job -> EffectStatus]
    /\ counted \in [Job -> BOOLEAN]
    /\ generated \in [Job -> Nat]
    /\ letter \in [Job -> BOOLEAN]
    /\ aged \in [Job -> BOOLEAN]
    /\ earlier \in [Job -> SUBSET Job]
    /\ cdkUsable \in BOOLEAN
    /\ at \in [Caller -> Place]
    /\ todo \in [Caller -> Seq(Job)]
    /\ faults \in 0..FaultBound

\* A successful schedule counts once on its CDK: never twice, although the
\* runner and the maintenance may apply the same effect at the same time, one
\* may write 'pending' over the other's 'applied', and both may stop and be
\* repeated; an effect is only marked applied when it counted.
CountedOnce ==
    \A j \in Job :
        /\ generated[j] <= 1
        /\ effect[j] = "applied" => generated[j] = 1

\* What is deleted stays deleted: a call that still holds the row of a job whose
\* account was erased brings back neither the job nor one of its effect rows or
\* letters, and counts nothing for it any more.
GoneStaysGone ==
    [][\A j \in Job : ~HasRow(j) =>
          /\ status'[j] = "deleted"
          /\ effect'[j] = "none" /\ ~counted'[j] /\ ~letter'[j]
          /\ generated'[j] = generated[j]]_vars

\* The effect of a successful job is applied in the end, whatever calls stop on
\* the way, unless the CDK is frozen or the account erased, as long as fewer
\* orphaned effects than a batch holds are in front of it.
EffectsGetApplied ==
    \A j \in Job \ Orphan :
        status[j] = "succeeded" ~> generated[j] = 1 \/ ~cdkUsable \/ ~HasRow(j)

\* Some dead-lettered job is past the retention time.
LetterAged == \E k \in Job : letter[k] /\ aged[k]

\* Every job that left no effect row is deleted after its retention time, as long
\* as no dead-lettered job reaches it.
PlainJobsGetDeletedWithoutLetters ==
    \A j \in Job : status[j] = "plain" ~> status[j] = "deleted" \/ LetterAged

\* The same whatever dead-lettered jobs there are.
PlainJobsGetDeleted == \A j \in Job : status[j] = "plain" ~> status[j] = "deleted"

\* Every successful schedule whose effect is applied is deleted after its
\* retention time, as long as no dead-lettered job reaches it.
AppliedSuccessesGetDeleted ==
    \A j \in Job : status[j] = "succeeded" /\ effect[j] = "applied"
                       ~> status[j] = "deleted" \/ LetterAged
=============================================================================
