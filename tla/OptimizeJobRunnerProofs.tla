---------------------- MODULE OptimizeJobRunnerProofs ----------------------
(***************************************************************************)
(* The worker process uses the store as OptimizeJobQueue specifies it:     *)
(* every step of the process is a step of the store or leaves its tables   *)
(* alone.  What is proved of the store holds of the two together.          *)
(* Its own state fits the tables (RInv): the pump holds an attempt newer   *)
(* than those it has seen of the job, what is registered computes or is    *)
(* being settled, what computes is registered or over, and nobody drops a  *)
(* job.                                                                    *)
(***************************************************************************)
EXTENDS OptimizeJobRunner, OptimizeJobSettlementProofs, OptimizeJobLimitsProofs

-----------------------------------------------------------------------------
(* The pump knows which job it holds *)

HoldingPlace == {"preempted", "claimed", "release", "worker_crash"}

PumpShape ==
    pump = [at |-> pump.at, job |-> pump.job, attempt |-> pump.attempt,
            candidates |-> pump.candidates, victim |-> pump.victim]

PumpHoldsJob ==
    /\ PumpShape
    /\ pump.at \in HoldingPlace => pump.job \in Job
    /\ pump.candidates \subseteq Job

\* A step that idles the pump, or leaves it alone, keeps the invariant.
LEMMA IdleHolds ==
    ASSUME pump' = IdlePump
    PROVE PumpHoldsJob'
BY DEF IdlePump, PumpHoldsJob, PumpShape, HoldingPlace

LEMMA SameHolds ==
    ASSUME PumpHoldsJob, UNCHANGED pump
    PROVE PumpHoldsJob'
BY DEF PumpHoldsJob, PumpShape

\* An answered claim or preemption names a job; the steps after it keep it.
LEMMA PumpStepHolds ==
    ASSUME PumpHoldsJob, PumpStep
    PROVE PumpHoldsJob'
<1>1. CASE PumpClaims
  BY <1>1 DEF PumpClaims, IdlePump, PumpHoldsJob, PumpShape, HoldingPlace
<1>2. CASE ClaimCommits
  <2>1. PICK j \in Job : pump' = [IdlePump EXCEPT !.at = "claimed", !.job = j,
                                      !.attempt = CurrentAttempt(j) + 1]
    BY <1>2 DEF ClaimCommits
  <2> QED BY <2>1 DEF IdlePump, PumpHoldsJob, PumpShape
<1>3. CASE PumpPreempts
  <2>1. Candidates \subseteq Job
    BY DEF Candidates, Registered
  <2> QED BY <1>3, <2>1 DEF PumpPreempts, IdlePump, PumpHoldsJob, PumpShape, HoldingPlace
<1>4. CASE PreemptCommits
  <2>1. PICK paid \in Job, victim \in pump.candidates :
           pump' = [IdlePump EXCEPT !.at = "preempted", !.job = paid,
                                      !.attempt = CurrentAttempt(paid) + 1,
                                      !.victim = victim]
    BY <1>4 DEF PreemptCommits
  <2> QED BY <2>1 DEF IdlePump, PumpHoldsJob, PumpShape
<1>5. CASE StopVictim
  <2>1. pump' = [pump EXCEPT !.at = "claimed", !.victim = NoJob] /\ pump.job \in Job
    BY <1>5 DEF StopVictim, PumpHoldsJob, HoldingPlace
  <2> QED BY <2>1 DEF PumpHoldsJob, PumpShape
<1>6. CASE NothingPreempted \/ Spawn \/ GiveBackWrites
  BY <1>6, IdleHolds DEF NothingPreempted, Spawn, GiveBackWrites
<1>7. CASE GiveBack("release")
  <2>1. pump' = [pump EXCEPT !.at = "release"] /\ pump.job \in Job
    BY <1>7 DEF GiveBack, PumpHoldsJob, HoldingPlace
  <2> QED BY <2>1 DEF PumpHoldsJob, PumpShape
<1> QED BY <1>1, <1>2, <1>3, <1>4, <1>5, <1>6, <1>7 DEF PumpStep

LEMMA FaultStepHolds ==
    ASSUME PumpHoldsJob, FaultStep
    PROVE PumpHoldsJob'
<1>1. CASE PumpFails \/ Crash
  BY <1>1, IdleHolds DEF PumpFails, Crash, Gone
<1>2. CASE GiveBack("worker_crash")
  <2>1. pump' = [pump EXCEPT !.at = "worker_crash"] /\ pump.job \in Job
    BY <1>2 DEF GiveBack, PumpHoldsJob, HoldingPlace
  <2> QED BY <2>1 DEF PumpHoldsJob, PumpShape
<1>3. CASE \E j \in Job : \E a \in DOMAIN local[j] :
          SettlementFails(j, a) \/ \E lastCall \in BOOLEAN : BeatFails(j, a, lastCall)
  BY <1>3, SameHolds DEF SettlementFails, BeatFails
<1> QED BY <1>1, <1>2, <1>3 DEF FaultStep

LEMMA NextHolds == PumpHoldsJob /\ [RunnerNext]_allVars => PumpHoldsJob'
<1> SUFFICES ASSUME PumpHoldsJob, [RunnerNext]_allVars
             PROVE PumpHoldsJob'
  OBVIOUS
<1>1. CASE PumpStep
  BY <1>1, PumpStepHolds
<1>2. CASE \E j \in Job :
          HeartbeatStep(j) \/ SettlementStep(j) \/ ThreadStep(j) \/ CancelSignalled(j)
  <2>1. UNCHANGED pump
    BY <1>2 DEF HeartbeatStep, SettlementStep, ThreadStep, CancelSignalled, Beat,
       BeatAnswered, BeatRefused, SettlementReads, SettlementWrites,
       HardTimeoutFires, ThreadEnds
  <2> QED BY <2>1, SameHolds
<1>3. CASE FaultStep
  BY <1>3, FaultStepHolds
<1>4. CASE ShutdownStep
  BY <1>4, IdleHolds, SameHolds
  DEF ShutdownStep, BeginShutdown, ForceShutdown, EndShutdown, Exit, Gone
<1>5. CASE Registration \/ UNCHANGED runnerVars \/ UNCHANGED allVars
  BY <1>5, SameHolds DEF Registration, runnerVars, allVars
<1> QED BY <1>1, <1>2, <1>3, <1>4, <1>5 DEF RunnerNext

-----------------------------------------------------------------------------
(* Steps of the process and steps of the store *)

LEMMA Unchanged ==
    ASSUME StoreUnchanged
    PROVE UNCHANGED vars
BY DEF StoreUnchanged, vars

\* A call a process makes for an attempt is one of the calls of the store.
LEMMA CallsOfAttempts ==
    ASSUME NEW w \in Worker, NEW j \in Job, NEW a, WorkerCall(j, a, w), Issued(j, a, w)
    PROVE Next
<1>1. a \in DOMAIN attempts[j]
  BY DEF Issued
<1> QED BY <1>1 DEF Next

LEMMA SettledIsCall ==
    ASSUME NEW w \in Worker, NEW j \in Job, NEW a, NEW plan, SettledBy(w, j, a, plan)
    PROVE Next
<1>1. RetryKindOf(plan) \in RetryKind
  BY DEF RetryKindOf, RetryKind
<1>2. WorkerCall(j, a, w)
  BY <1>1 DEF SettledBy, WorkerCall
<1>3. Issued(j, a, w)
  BY DEF SettledBy, CompleteAttempt, FailAttempt, RetryFailedAttempt,
     ReleaseInterruptedAttempt, CancelAttempt, Settles
<1> QED BY <1>2, <1>3, CallsOfAttempts

LEMMA AcceptedIsCall ==
    ASSUME NEW j \in Job, NEW a, NEW plan, Accepted(j, a, plan)
    PROVE Next
BY SettledIsCall, RunnerAssumption DEF Accepted

LEMMA HeartbeatIsCall ==
    ASSUME NEW w \in Worker, NEW j \in Job, NEW a, HeartbeatAttempt(j, a, w)
    PROVE Next
<1>1. WorkerCall(j, a, w) /\ Issued(j, a, w)
  BY DEF WorkerCall, HeartbeatAttempt, Settles
<1> QED BY <1>1, CallsOfAttempts

LEMMA PumpStepIsStep ==
    ASSUME PumpHoldsJob, PumpStep
    PROVE Next \/ UNCHANGED vars
<1>1. CASE ClaimCommits
  BY <1>1, RunnerAssumption DEF ClaimCommits, Next, Dispatch
<1>2. CASE PreemptCommits
  BY <1>2, RunnerAssumption DEF PreemptCommits, Next, Dispatch, PumpHoldsJob
<1>3. CASE GiveBackWrites
  BY <1>3, AcceptedIsCall, Unchanged
  DEF GiveBackWrites, Refused, PumpHoldsJob, HoldingPlace
<1>4. CASE PumpClaims \/ PumpPreempts \/ NothingPreempted \/ StopVictim \/ Spawn
           \/ GiveBack("release")
  BY <1>4, Unchanged
  DEF PumpClaims, PumpPreempts, NothingPreempted, StopVictim, Spawn, GiveBack
<1> QED BY <1>1, <1>2, <1>3, <1>4 DEF PumpStep

LEMMA JobStepIsStep ==
    ASSUME NEW j \in Job,
           HeartbeatStep(j) \/ SettlementStep(j) \/ ThreadStep(j) \/ CancelSignalled(j)
    PROVE Next \/ UNCHANGED vars
<1>1. CASE HeartbeatStep(j)
  BY <1>1, HeartbeatIsCall, RunnerAssumption, Unchanged
  DEF HeartbeatStep, Beat, BeatAnswered, BeatRefused
<1>2. CASE SettlementStep(j)
  BY <1>2, AcceptedIsCall, Unchanged
  DEF SettlementStep, SettlementReads, SettlementWrites, Refused
<1>3. CASE ThreadStep(j) \/ CancelSignalled(j)
  BY <1>3, Unchanged DEF ThreadStep, HardTimeoutFires, ThreadEnds, CancelSignalled
<1> QED BY <1>1, <1>2, <1>3

LEMMA OutsideIsStep ==
    ASSUME Outside
    PROVE Next
<1>1. CASE \E j \in Job : AdmitJob(j) \/ Clock(j) \/ Disturbance(j)
  BY <1>1 DEF Clock, Disturbance, LeaseLapses, Next, TimePasses
<1>2. CASE RecoverCancellations \/ RecoverExpiredAttempts
  BY <1>2 DEF Next, Maintenance
<1>3. ASSUME NEW w \in Worker, RivalStep(w) PROVE Next
  <2>1. CASE Dispatch(w)
    BY <2>1 DEF Next
  <2>2. CASE ~Dispatch(w)
    BY <1>3, <2>2, HeartbeatIsCall, SettledIsCall DEF RivalStep
  <2> QED BY <2>1, <2>2
<1>4. ASSUME NEW u \in Account, RequestAccountDeletion(u) PROVE Next
  BY <1>4 DEF Next
<1> QED BY <1>1, <1>2, <1>3, <1>4 DEF Outside

LEMMA RunnerStepIsStep == PumpHoldsJob /\ [RunnerNext]_allVars => [Next]_vars
<1> SUFFICES ASSUME PumpHoldsJob, [RunnerNext]_allVars
             PROVE Next \/ UNCHANGED vars
  OBVIOUS
<1>1. CASE PumpStep
  BY <1>1, PumpStepIsStep
<1>2. CASE \E j \in Job :
          HeartbeatStep(j) \/ SettlementStep(j) \/ ThreadStep(j) \/ CancelSignalled(j)
  BY <1>2, JobStepIsStep
<1>3. CASE FaultStep
  BY <1>3, Unchanged
  DEF FaultStep, PumpFails, GiveBack, Crash, Gone, SettlementFails, BeatFails
<1>4. CASE ShutdownStep
  BY <1>4, Unchanged
  DEF ShutdownStep, BeginShutdown, ForceShutdown, EndShutdown, Exit, Gone
<1>5. CASE Registration
  BY <1>5, RunnerAssumption DEF Registration, Next, RegistryStep
<1>6. CASE Outside
  BY <1>6, OutsideIsStep
<1>7. CASE UNCHANGED allVars
  BY <1>7 DEF allVars, vars
<1> QED BY <1>1, <1>2, <1>3, <1>4, <1>5, <1>6, <1>7 DEF RunnerNext

\* The process never calls the store outside its protocol: with pump, heartbeats,
\* settlements, shutdown and failed calls interleaved in any way, the tables
\* change only as OptimizeJobQueue says.
THEOREM RunnerImplementsStore == RunnerSpec => Spec
<1>1. RunnerInit => Init /\ PumpHoldsJob
  BY DEF RunnerInit, PumpHoldsJob, PumpShape, IdlePump, HoldingPlace
<1>2. PumpHoldsJob /\ [RunnerNext]_allVars => PumpHoldsJob'
  BY NextHolds
<1>3. PumpHoldsJob /\ [RunnerNext]_allVars => [Next]_vars
  BY RunnerStepIsStep
<1> QED BY <1>1, <1>2, <1>3, PTL DEF RunnerSpec, Spec

\* So a cancellation wins against every thread, timer and shutdown of a process;
\* nothing but the deletion of the account overtakes it.
THEOREM CancelWinsInProcess == RunnerSpec => CancelRequestWins
<1> QED BY RunnerImplementsStore, CancelWins, PTL

\* And no failed call, crash or shutdown of a process leaves a finished job with
\* a reservation, or consumes one without a result.
THEOREM ReservationsFollowInProcess == RunnerSpec => []ReservationFollowsJob
<1> QED BY RunnerImplementsStore, ReservationsFollow, PTL

-----------------------------------------------------------------------------
(* What a step of the store means for the process: a claim starts one job,   *)
(* and every other step leaves an attempt that is over, over.                *)

\* A job that runs here and nobody asked to cancel: some attempt has to settle it.
Open(k) ==
    jobs[k].status = "running" /\ jobs[k].worker_id = Me /\ ~jobs[k].cancel_requested

Over(k, a) == a < CurrentAttempt(k) \/ ~Open(k)

Steady(k) ==
    /\ CurrentAttempt(k)' = CurrentAttempt(k)
    /\ Open(k)' => Open(k)

Starting(k) == CurrentAttempt(k)' = CurrentAttempt(k) + 1

AllSteady == \A k \in Job : Steady(k)

LEMMA QuietIsSteady == \A k : Quiet(k) \/ Opens(k) \/ jobs'[k] = jobs[k] => Steady(k)
  BY DEF Quiet, Keeps, Ends, Requeues, Opens, Steady, Open, CurrentAttempt, TerminalStatus

LEMMA QuietSteady ==
    ASSUME AllQuiet \/ UNCHANGED vars
    PROVE AllSteady
BY QuietIsSteady DEF AllQuiet, AllSteady, vars

\* A claim or a preemption of another process starts a job that does not run here.
StartsElsewhere ==
    \E j \in Job : /\ Starting(j) /\ ~Open(j)'
                   /\ \A k \in Job \ {j} : Steady(k)

LEMMA RivalSteady ==
    ASSUME IInv, NEW w \in Worker \ {Me}, RivalStep(w)
    PROVE AllSteady \/ StartsElsewhere
<1>1. ASSUME NEW j \in Job, ClaimNextJob(w, j) PROVE StartsElsewhere
  <2>1. StartsOne(j)
    BY <1>1, ClaimNextJobStarts
  <2>2. jobs'[j] = Claimed(jobs[j], w) /\ jobs[j] \in JobRow
    BY <1>1 DEF ClaimNextJob, IInv, RowsOK
  <2>3. jobs'[j].worker_id = w
    BY <2>2, ClaimedRow
  <2> QED BY <2>1, <2>3, QuietIsSteady
          DEF StartsElsewhere, StartsOne, Starts, Starting, CurrentAttempt, Open
<1>2. ASSUME NEW paid \in Job, NEW victim \in Job, PreemptFreeJobForPaid(w, paid, victim)
      PROVE StartsElsewhere
  <2>1. Swaps(victim, paid)
    BY <1>2, PreemptFreeJobForPaidSwaps
  <2>2. paid # victim
    BY <1>2 DEF PreemptFreeJobForPaid, PaidCandidate, Claimable, Owns
  <2>3. jobs'[paid] = Claimed(jobs[paid], w) /\ jobs[paid] \in JobRow
    BY <1>2, <2>2 DEF PreemptFreeJobForPaid, IInv, RowsOK
  <2>4. jobs'[paid].worker_id = w
    BY <2>3, ClaimedRow
  <2>5. \A k \in Job \ {paid} : Steady(k)
    <3>1. Steady(victim)
      BY <2>1 DEF Swaps, Requeues, Steady, Open, CurrentAttempt
    <3> QED BY <2>1, <3>1, QuietIsSteady DEF Swaps
  <2> QED BY <2>1, <2>4, <2>5
          DEF StartsElsewhere, Swaps, Starts, Starting, CurrentAttempt, Open
<1>3. ASSUME NEW j \in Job, NEW a, HeartbeatAttempt(j, a, w) PROVE AllSteady
  BY <1>3, HeartbeatAttemptQuiet, QuietSteady
<1>4. ASSUME NEW j \in Job, NEW a, NEW plan \in RivalPlan, SettledBy(w, j, a, plan)
      PROVE AllSteady
  <2>1. RetryKindOf(plan) \in RetryKind
    BY DEF RetryKindOf, RetryKind
  <2>2. AllQuiet
    BY <1>4, <2>1, CompleteAttemptQuiet, FailAttemptQuiet, RetryFailedAttemptQuiet,
       ReleaseInterruptedAttemptQuiet, CancelAttemptQuiet DEF SettledBy
  <2> QED BY <2>2, QuietSteady
<1> QED BY <1>1, <1>2, <1>3, <1>4 DEF RivalStep, Dispatch

LEMMA OutsideSteady ==
    ASSUME IInv, Outside
    PROVE AllSteady \/ StartsElsewhere
<1>1. ASSUME NEW j \in Job, AdmitJob(j) PROVE AllSteady
  <2>1. OpensOne(j)
    BY <1>1, InsertedRow DEF AdmitJob
  <2> QED BY <2>1, QuietIsSteady DEF OpensOne, AllSteady
<1>2. ASSUME NEW j \in Job, Clock(j) \/ Disturbance(j) PROVE AllSteady
  <2>1. TimePasses(j) \/ RequestCancel(j)
    BY <1>2 DEF Clock, Disturbance, LeaseLapses, TimePasses
  <2> QED BY <2>1, TimePassesQuiet, RequestCancelQuiet, QuietSteady
<1>3. CASE RecoverCancellations \/ RecoverExpiredAttempts
  BY <1>3, RecoverCancellationsQuiet, RecoverExpiredAttemptsQuiet, QuietSteady
<1>4. ASSUME NEW w \in Worker \ {Me}, RivalStep(w) PROVE AllSteady \/ StartsElsewhere
  BY <1>4, RivalSteady
<1>5. ASSUME NEW u \in Account, RequestAccountDeletion(u) PROVE AllSteady
  BY <1>5, RequestAccountDeletionQuiet, QuietSteady
<1> QED BY <1>1, <1>2, <1>3, <1>4, <1>5 DEF Outside

LEMMA RegistrationSteady ==
    ASSUME Registration
    PROVE AllSteady
BY QuietIsSteady DEF Registration, RegisterWorker, LeaveRegistry, AllSteady

LEMMA HeartbeatSteady ==
    ASSUME IInv, NEW j \in Job, NEW a, HeartbeatAttempt(j, a, Me)
    PROVE AllSteady
BY HeartbeatAttemptQuiet, QuietSteady, RunnerAssumption

\* A settlement the store accepts takes the job from its worker.
LEMMA AcceptedEnds ==
    ASSUME IInv, NEW j \in Job, NEW a, NEW plan, Accepted(j, a, plan)
    PROVE AllSteady /\ ~Open(j)'
<1>1. RetryKindOf(plan) \in RetryKind
  BY DEF RetryKindOf, RetryKind
<1>2. AllQuiet
  BY <1>1, RunnerAssumption, CompleteAttemptQuiet, FailAttemptQuiet, RetryFailedAttemptQuiet,
     ReleaseInterruptedAttemptQuiet, CancelAttemptQuiet DEF Accepted, SettledBy
<1>3. jobs[j] \in JobRow /\ jobs \in [Job -> JobRow]
  BY DEF IInv, RowsOK
<1>4. jobs'[j].status # "running"
  <2>1. CASE CompleteAttempt(j, a, Me)
    BY <1>3, <2>1, UnlockedRow DEF CompleteAttempt, JobStatus, TerminalStatus
  <2>2. CASE FailAttempt(j, a, Me)
    BY <1>3, <2>2, FailedRow DEF FailAttempt, TerminalStatus
  <2>3. CASE RetryFailedAttempt(j, a, Me, RetryKindOf(plan))
    <3>1. RetryBudget(RetryKindOf(plan)) \in Nat
      BY LimitAssumption DEF RetryBudget
    <3> QED BY <1>3, <2>3, <3>1, RetriedRow DEF RetryFailedAttempt
  <2>4. CASE CancelAttempt(j, a, Me)
    BY <1>3, <2>4, CancelledRowFacts DEF CancelAttempt
  <2>5. CASE ReleaseInterruptedAttempt(j, a, Me)
    <3> DEFINE r == Requeued(jobs[j], "now")
    <3>1. r \in JobRow /\ r.status = "queued"
      BY <1>3, RequeuedRow
    <3>2. jobs'[j] = CancelledRow(jobs[j]) \/ jobs'[j] = [r EXCEPT !.queue_expiry = "none"]
      BY <1>3, <2>5 DEF ReleaseInterruptedAttempt
    <3> HIDE DEF r
    <3> QED BY <1>3, <3>1, <3>2, CancelledRowFacts DEF JobRow
  <2> QED BY <2>1, <2>2, <2>3, <2>4, <2>5 DEF Accepted, SettledBy
<1> QED BY <1>2, <1>4, QuietSteady DEF Open

LEMMA ClaimStarts ==
    ASSUME IInv, NEW j \in Job, ClaimNextJob(Me, j)
    PROVE Starting(j) /\ \A k \in Job \ {j} : Steady(k)
<1>1. StartsOne(j)
  BY RunnerAssumption, ClaimNextJobStarts
<1> QED BY <1>1, QuietIsSteady DEF StartsOne, Starts, Starting, CurrentAttempt

LEMMA PreemptionStarts ==
    ASSUME IInv, NEW paid \in Job, NEW victim \in Job, PreemptFreeJobForPaid(Me, paid, victim)
    PROVE /\ Starting(paid) /\ \A k \in Job \ {paid} : Steady(k)
          /\ victim # paid /\ ~Open(victim)'
<1>1. Swaps(victim, paid)
  BY RunnerAssumption, PreemptFreeJobForPaidSwaps
<1>2. paid # victim
  BY DEF PreemptFreeJobForPaid, PaidCandidate, Claimable, Owns
<1>3. Steady(victim) /\ ~Open(victim)'
  BY <1>1 DEF Swaps, Requeues, Steady, Open, CurrentAttempt
<1>4. \A k \in Job \ {paid, victim} : Steady(k)
  BY <1>1, QuietIsSteady DEF Swaps
<1> QED BY <1>1, <1>2, <1>3, <1>4 DEF Swaps, Starts, Starting, CurrentAttempt

-----------------------------------------------------------------------------
(* The entries of the process.  This is the strengthened invariant: what is  *)
(* registered computes or is being settled, what computes is registered or   *)
(* belongs to an attempt that is over, and so does what is about to cancel.  *)

Settling(e) == e.phase \in {"read", "write"}

Fits(j, a, e) ==
    /\ e.thread = "computing" => ~e.settling /\ (registry[j] = a \/ a < CurrentAttempt(j))
    /\ registry[j] = a => e.thread = "computing" \/ Settling(e)
    /\ e.plan = "cancel" => Over(j, a)
    /\ stage \in {"forcing", "stopped"} /\ registry[j] = a => e.thread # "computing"

EntryTypes ==
    /\ registry \in [Job -> Nat]
    /\ local \in [Job -> Seq(Local)]
    /\ \A j \in Registered : registry[j] \in DOMAIN local[j]
    /\ \A r \in remaining : r[1] \in Job /\ r[2] \in DOMAIN local[r[1]]

EntriesFit ==
    \A j \in Job :
        /\ Len(local[j]) <= CurrentAttempt(j)
        /\ \A a \in DOMAIN local[j] : Fits(j, a, local[j][a])

\* Attempt counts are numbers.
LEMMA AttemptCounts ==
    ASSUME IInv, NEW j \in Job
    PROVE CurrentAttempt(j) \in Nat
BY DEF IInv, RowsOK, JobRow, CurrentAttempt

\* A list of entries with one of them replaced.
LEMMA OneLocal ==
    ASSUME EntryTypes, NEW j \in Job, NEW a \in DOMAIN local[j], NEW new \in Local,
           local' = [local EXCEPT ![j][a] = new]
    PROVE /\ local' \in [Job -> Seq(Local)]
          /\ local'[j][a] = new
          /\ \A k \in Job : /\ Len(local'[k]) = Len(local[k])
                            /\ DOMAIN local'[k] = DOMAIN local[k]
          /\ \A k \in Job : \A b \in DOMAIN local[k] :
                k # j \/ b # a => local'[k][b] = local[k][b]
<1> DEFINE att == [local[j] EXCEPT ![a] = new]
<1>1. local[j] \in Seq(Local)
  BY DEF EntryTypes
<1>2. a \in 1..Len(local[j]) /\ DOMAIN local[j] = 1..Len(local[j])
  BY <1>1, LenProperties
<1>3. att \in Seq(Local) /\ Len(att) = Len(local[j])
      /\ \A b \in 1..Len(local[j]) : att[b] = IF b = a THEN new ELSE local[j][b]
  BY <1>1, <1>2, ExceptSeq
<1>4. DOMAIN att = DOMAIN local[j]
  OBVIOUS
<1>5. local' = [local EXCEPT ![j] = att] /\ local \in [Job -> Seq(Local)]
  BY DEF EntryTypes
<1> HIDE DEF att
<1>6. local'[j] = att /\ \A k \in Job \ {j} : local'[k] = local[k]
  BY <1>5
<1>7. local' \in [Job -> Seq(Local)]
  BY <1>3, <1>5
<1> QED BY <1>2, <1>3, <1>4, <1>6, <1>7

\* A step that replaces one entry and may take it out of the registry.
Moves(j, a, new) ==
    /\ new \in Local
    /\ local' = [local EXCEPT ![j][a] = new]
    /\ registry' = registry \/ registry' = [registry EXCEPT ![j] = IF @ = a THEN 0 ELSE @]
    /\ UNCHANGED <<stage, remaining>>
    /\ new.thread = "computing" =>
          local[j][a].thread = "computing" /\ ~new.settling /\ UNCHANGED registry
    /\ registry'[j] = a => new.thread = "computing" \/ Settling(new)
    /\ new.plan = "cancel" => Over(j, a)'

LEMMA MovesTypes ==
    ASSUME EntryTypes, NEW j \in Job, NEW a \in DOMAIN local[j], NEW new, Moves(j, a, new)
    PROVE EntryTypes'
<1>1. /\ local' \in [Job -> Seq(Local)]
      /\ \A k \in Job : DOMAIN local'[k] = DOMAIN local[k]
  BY OneLocal DEF Moves
<1>2. registry' \in [Job -> Nat]
      /\ \A k \in Job : registry'[k] = registry[k] \/ registry'[k] = 0
  BY DEF Moves, EntryTypes
<1> QED BY <1>1, <1>2 DEF EntryTypes, Moves, Registered

LEMMA MovesFit ==
    ASSUME IInv, AllSteady, EntryTypes, EntriesFit,
           NEW j \in Job, NEW a \in DOMAIN local[j], NEW new, Moves(j, a, new)
    PROVE EntriesFit'
<1>1. /\ local'[j][a] = new
      /\ \A k \in Job : /\ Len(local'[k]) = Len(local[k])
                        /\ DOMAIN local'[k] = DOMAIN local[k]
      /\ \A k \in Job : \A b \in DOMAIN local[k] :
            k # j \/ b # a => local'[k][b] = local[k][b]
  BY OneLocal DEF Moves
<1>2. ASSUME NEW k \in Job PROVE CurrentAttempt(k)' = CurrentAttempt(k) /\ (Open(k)' => Open(k))
  BY DEF AllSteady, Steady
<1>3. ASSUME NEW k \in Job, NEW b \in DOMAIN local[k] PROVE Fits(k, b, local[k][b])'
  <2>1. Fits(k, b, local[k][b])
    BY DEF EntriesFit
  <2>2. CASE k # j \/ b # a
    <3>1. registry'[k] = b <=> registry[k] = b
      <4>1. b \in Nat /\ b # 0
        <5>1. local[k] \in Seq(Local)
          BY DEF EntryTypes
        <5> QED BY <5>1, LenProperties
      <4>2. CASE k # j
        BY <4>1, <4>2 DEF Moves, EntryTypes
      <4>3. CASE k = j /\ b # a
        BY <4>1, <4>3 DEF Moves, EntryTypes
      <4> QED BY <2>2, <4>2, <4>3
    <3>2. Over(k, b) => Over(k, b)'
      BY <1>2 DEF Over
    <3> QED BY <1>1, <1>2, <2>1, <2>2, <3>1, <3>2 DEF Fits, Moves, Settling
  <2>3. CASE k = j /\ b = a
    BY <1>1, <1>2, <2>1, <2>3 DEF Fits, Moves, Settling
  <2> QED BY <2>2, <2>3
<1> QED BY <1>1, <1>2, <1>3 DEF EntriesFit

-----------------------------------------------------------------------------
(* Nobody drops a job.                                                       *)

Cared(k) ==
    \/ PumpHolds(k, CurrentAttempt(k))
    \/ registry[k] = CurrentAttempt(k)
    \/ /\ CurrentAttempt(k) \in DOMAIN local[k]
       /\ Settling(local[k][CurrentAttempt(k)])

Caring == \A k \in Job : Open(k) => Cared(k)

\* The entry goes on to be registered or settled, if the job depends on it.
GoesOn(j, a, new) ==
    Open(j)' /\ a = CurrentAttempt(j) /\ (registry[j] = a \/ Settling(local[j][a]))
        => registry'[j] = a \/ Settling(new)

PumpKeeps == \A k \in Job : PumpHolds(k, CurrentAttempt(k)) => PumpHolds(k, CurrentAttempt(k))'

LEMMA MovesCare ==
    ASSUME AllSteady, EntryTypes, Caring, PumpKeeps,
           NEW j \in Job, NEW a \in DOMAIN local[j], NEW new, Moves(j, a, new), GoesOn(j, a, new)
    PROVE Caring'
<1>1. /\ local'[j][a] = new
      /\ \A k \in Job : DOMAIN local'[k] = DOMAIN local[k]
      /\ \A k \in Job : \A b \in DOMAIN local[k] :
            k # j \/ b # a => local'[k][b] = local[k][b]
  BY OneLocal DEF Moves
<1> SUFFICES ASSUME NEW k \in Job, Open(k)' PROVE Cared(k)'
  BY DEF Caring
<1>2. CurrentAttempt(k)' = CurrentAttempt(k) /\ Open(k) /\ Cared(k)
  BY DEF AllSteady, Steady, Caring
<1>3. CASE k # j \/ CurrentAttempt(k) # a
  <2>1. registry[k] = CurrentAttempt(k) => registry'[k] = CurrentAttempt(k)
    BY <1>3 DEF Moves, EntryTypes
  <2> QED BY <1>1, <1>2, <1>3, <2>1 DEF Cared, PumpKeeps
<1>4. CASE k = j /\ CurrentAttempt(k) = a
  BY <1>1, <1>2, <1>4 DEF Cared, PumpKeeps, GoesOn
<1> QED BY <1>3, <1>4

\* A step that interrupts nothing begins or ends the shutdown, if anything.
StageMoves ==
    \/ stage' = stage
    \/ stage = "up" /\ stage' = "draining"
    \/ stage = "forcing" /\ stage' = "stopped"

\* Steps that leave the entries alone.
LEMMA SameEntries ==
    ASSUME AllSteady, EntryTypes, EntriesFit, UNCHANGED <<registry, local, remaining>>, StageMoves
    PROVE EntryTypes' /\ EntriesFit'
<1>1. EntryTypes'
  BY DEF EntryTypes, Registered
<1>2. ASSUME NEW k \in Job, NEW b \in DOMAIN local[k] PROVE Fits(k, b, local[k][b])'
  <2>1. Fits(k, b, local[k][b]) /\ CurrentAttempt(k)' = CurrentAttempt(k) /\ (Open(k)' => Open(k))
    BY DEF EntriesFit, AllSteady, Steady
  <2> QED BY <2>1 DEF Fits, Over, Settling, StageMoves
<1>3. EntriesFit'
  BY <1>2 DEF EntriesFit, AllSteady, Steady
<1> QED BY <1>1, <1>3

LEMMA SameCare ==
    ASSUME AllSteady, Caring, PumpKeeps, UNCHANGED <<registry, local>>
    PROVE Caring'
<1> SUFFICES ASSUME NEW k \in Job, Open(k)' PROVE Cared(k)'
  BY DEF Caring
<1>1. CurrentAttempt(k)' = CurrentAttempt(k) /\ Cared(k)
  BY DEF AllSteady, Steady, Caring
<1> QED BY <1>1 DEF Cared, PumpKeeps

-----------------------------------------------------------------------------
(* The actions on one entry.                                                 *)

Beats == {"idle", "asked", "refused"}

\* An entry of the list is an entry.
LEMMA EntryOf ==
    ASSUME EntryTypes, NEW j \in Job, NEW a \in DOMAIN local[j]
    PROVE local[j][a] \in Local /\ a \in Nat /\ a # 0
<1>1. local[j] \in Seq(Local)
  BY DEF EntryTypes
<1> QED BY <1>1, LenProperties, ElementOfSeq

LEMMA StoppingFacts ==
    ASSUME NEW e \in Local, NEW plan \in Plan
    PROVE /\ Stopping(e, plan) \in Local
          /\ Stopping(e, plan).thread = "ended"
          /\ Stopping(e, plan).plan = plan
          /\ Settling(Stopping(e, plan))
<1> DEFINE ph == IF plan = "cancel" THEN "write" ELSE "read"
<1>1. Stopping(e, plan) = [e EXCEPT !.thread = "ended", !.renewing = FALSE, !.settling = TRUE,
                                    !.plan = plan, !.phase = ph]
  BY DEF Stopping
<1>2. ph \in {"read", "write"}
  OBVIOUS
<1> HIDE DEF ph
<1> QED BY <1>1, <1>2 DEF Local, Settling

\* Its beat, or its renewing flag, may change with it.
LEMMA StoppingBeat ==
    ASSUME NEW e \in Local, NEW plan \in Plan, NEW new,
           \/ new = Stopping(e, plan)
           \/ new = [Stopping(e, plan) EXCEPT !.beat = "idle"]
           \/ \E r \in BOOLEAN : new = [Stopping(e, plan) EXCEPT !.renewing = r]
    PROVE new \in Local /\ new.thread = "ended" /\ new.plan = plan /\ Settling(new)
<1> DEFINE s == Stopping(e, plan)
<1>1. s \in Local /\ s.thread = "ended" /\ s.plan = plan /\ Settling(s)
  BY StoppingFacts
<1> HIDE DEF s
<1>2. new = s \/ new = [s EXCEPT !.beat = "idle"] \/ \E r \in BOOLEAN : new = [s EXCEPT !.renewing = r]
  BY DEF s
<1> QED BY <1>1, <1>2 DEF Local, Settling

\* An attempt that is stopped will be settled.
LEMMA StopMoves ==
    ASSUME EntryTypes, NEW j \in Job, NEW a \in DOMAIN local[j], NEW plan \in Plan, NEW new,
           new \in Local /\ new.thread = "ended" /\ new.plan = plan /\ Settling(new),
           local' = [local EXCEPT ![j][a] = new], UNCHANGED <<stage, remaining, registry>>,
           plan = "cancel" => Over(j, a)'
    PROVE Moves(j, a, new) /\ GoesOn(j, a, new)
BY DEF Moves, GoesOn

LEMMA BeatMoves ==
    ASSUME EntryTypes, EntriesFit, AllSteady, NEW j \in Job, NEW a \in DOMAIN local[j],
           NEW b \in Beats, local' = [local EXCEPT ![j][a] = [@ EXCEPT !.beat = b]],
           UNCHANGED <<stage, remaining, registry>>
    PROVE LET new == [local[j][a] EXCEPT !.beat = b]
          IN Moves(j, a, new) /\ GoesOn(j, a, new)
<1> DEFINE e == local[j][a]
           new == [e EXCEPT !.beat = b]
<1>1. e \in Local /\ Fits(j, a, e)
  BY EntryOf DEF EntriesFit
<1>2. local' = [local EXCEPT ![j][a] = new]
  OBVIOUS
<1>3. /\ new \in Local /\ new.thread = e.thread /\ new.settling = e.settling
      /\ new.plan = e.plan /\ new.phase = e.phase
  BY <1>1 DEF Local, Beats
<1> HIDE DEF new, e
<1>4. Over(j, a) => Over(j, a)'
  BY DEF AllSteady, Steady, Over
<1>5. Moves(j, a, new)
  BY <1>1, <1>2, <1>3, <1>4 DEF Moves, Fits, Settling, e
<1>6. GoesOn(j, a, new)
  BY <1>3 DEF GoesOn, Settling, e
<1> QED BY <1>5, <1>6 DEF new, e

\* What becomes of an entry in a step of the process.
Changes(j, a) == \E new : Moves(j, a, new) /\ GoesOn(j, a, new)

LEMMA HeartbeatMoves ==
    ASSUME IInv, EntryTypes, EntriesFit, NEW j \in Job, NEW a \in DOMAIN local[j],
           Beat(j, a) \/ BeatAnswered(j, a) \/ BeatRefused(j, a)
           \/ \E lastCall \in BOOLEAN : BeatFails(j, a, lastCall)
    PROVE AllSteady /\ Changes(j, a)
<1>1. AllSteady
  <2>1. CASE HeartbeatAttempt(j, a, Me)
    BY <2>1, HeartbeatSteady
  <2>2. CASE StoreUnchanged
    BY <2>2, Unchanged, QuietSteady
  <2> QED BY <2>1, <2>2 DEF Beat, BeatAnswered, BeatRefused, BeatFails
<1>2. UNCHANGED <<stage, remaining, registry>>
  BY DEF Beat, BeatAnswered, BeatRefused, BeatFails
<1>3. local[j][a] \in Local
  BY EntryOf
<1>4. CASE \E b \in Beats : local' = [local EXCEPT ![j][a] = [@ EXCEPT !.beat = b]]
  <2>1. PICK b \in Beats : local' = [local EXCEPT ![j][a] = [@ EXCEPT !.beat = b]]
    BY <1>4
  <2> QED BY <1>1, <1>2, <2>1, BeatMoves DEF Changes
<1>5. CASE \E plan \in Plan : /\ plan = "cancel" => Over(j, a)'
                              /\ local' = [local EXCEPT ![j][a] =
                                              [Stopping(@, plan) EXCEPT !.beat = "idle"]]
  <2>1. PICK plan \in Plan : /\ plan = "cancel" => Over(j, a)'
                             /\ local' = [local EXCEPT ![j][a] =
                                              [Stopping(@, plan) EXCEPT !.beat = "idle"]]
    BY <1>5
  <2> DEFINE new == [Stopping(local[j][a], plan) EXCEPT !.beat = "idle"]
  <2>2. local' = [local EXCEPT ![j][a] = new]
    BY <2>1
  <2>3. new \in Local /\ new.thread = "ended" /\ new.plan = plan /\ Settling(new)
    BY <1>3, StoppingBeat
  <2> HIDE DEF new
  <2> QED BY <1>1, <1>2, <2>1, <2>2, <2>3, StopMoves DEF Changes
<1>6. CASE Beat(j, a) \/ BeatAnswered(j, a)
  <2>1. local' = [local EXCEPT ![j][a].beat = "asked"]
        \/ local' = [local EXCEPT ![j][a].beat = "idle"]
        \/ local' = [local EXCEPT ![j][a].beat = "refused"]
    BY <1>6 DEF Beat, BeatAnswered
  <2> QED BY <1>4, <2>1 DEF Beats
<1>7. CASE BeatRefused(j, a)
  <2>1. CASE MayStop(j, a)
    <3> DEFINE plan == RefusalPlan(j)
    <3>1. plan \in Plan /\ (plan = "cancel" => Over(j, a)')
      <4>1. jobs' = jobs
        BY <1>7 DEF BeatRefused, StoreUnchanged
      <4> QED BY <4>1 DEF RefusalPlan, Plan, Over, Open
    <3>2. local' = [local EXCEPT ![j][a] = [Stopping(@, plan) EXCEPT !.beat = "idle"]]
      BY <1>7, <2>1 DEF BeatRefused
    <3> QED BY <1>5, <3>1, <3>2
  <2>2. CASE ~MayStop(j, a)
    BY <1>4, <1>7, <2>2 DEF BeatRefused, Beats
  <2> QED BY <2>1, <2>2
<1>8. ASSUME NEW lastCall \in BOOLEAN, BeatFails(j, a, lastCall) PROVE Changes(j, a)
  <2>1. CASE lastCall /\ MayStop(j, a)
    <3>1. local' = [local EXCEPT ![j][a] = [Stopping(@, "lease_lost") EXCEPT !.beat = "idle"]]
      BY <1>8, <2>1 DEF BeatFails
    <3> QED BY <1>5, <3>1 DEF Plan
  <2>2. CASE ~(lastCall /\ MayStop(j, a))
    BY <1>4, <1>8, <2>2 DEF BeatFails, Beats
  <2> QED BY <2>1, <2>2
<1> QED BY <1>1, <1>6, <1>7, <1>8

LEMMA ThreadMoves ==
    ASSUME IInv, EntryTypes, EntriesFit, NEW j \in Job, NEW a \in DOMAIN local[j],
           NEW plan \in Plan, ThreadEnds(j, a, plan)
    PROVE AllSteady /\ Changes(j, a)
<1> DEFINE e == local[j][a]
<1>1. AllSteady
  BY Unchanged, QuietSteady DEF ThreadEnds
<1>2. e \in Local /\ Fits(j, a, e)
  BY EntryOf DEF EntriesFit
<1>3. CASE MayStop(j, a)
  <2> DEFINE new == [Stopping(e, plan) EXCEPT !.renewing = plan # "worker_crash"]
  <2>1. local' = [local EXCEPT ![j][a] = new] /\ UNCHANGED <<stage, remaining, registry>>
    BY <1>3 DEF ThreadEnds
  <2>2. new \in Local /\ new.thread = "ended" /\ new.plan = plan /\ Settling(new)
    <3> DEFINE r == plan # "worker_crash"
    <3>1. r \in BOOLEAN /\ new = [Stopping(e, plan) EXCEPT !.renewing = r]
      OBVIOUS
    <3> HIDE DEF r, new, e
    <3> QED BY <1>2, <3>1, StoppingBeat
  <2>3. plan # "cancel"
    BY RunnerAssumption DEF ThreadEnds
  <2> HIDE DEF new
  <2> QED BY <1>1, <2>1, <2>2, <2>3, StopMoves DEF Changes
<1>4. CASE ~MayStop(j, a)
  <2> DEFINE new == [e EXCEPT !.thread = "ended"]
  <2>1. local' = [local EXCEPT ![j][a] = new] /\ UNCHANGED <<stage, remaining, registry>>
    BY <1>4 DEF ThreadEnds
  <2>2. /\ new \in Local /\ new.thread = "ended"
        /\ new.plan = e.plan /\ new.phase = e.phase
    BY <1>2 DEF Local
  <2>3. registry[j] # a
    BY <1>2, <1>4 DEF ThreadEnds, MayStop, Fits
  <2>4. Over(j, a) => Over(j, a)'
    BY <1>1 DEF AllSteady, Steady, Over
  <2> HIDE DEF new
  <2> QED BY <1>1, <1>2, <2>1, <2>2, <2>3, <2>4 DEF Changes, Moves, GoesOn, Fits, Settling
<1> QED BY <1>3, <1>4

LEMMA TimerMoves ==
    ASSUME IInv, EntryTypes, NEW j \in Job, NEW a \in DOMAIN local[j], HardTimeoutFires(j, a)
    PROVE AllSteady /\ Changes(j, a)
<1> DEFINE new == Stopping(local[j][a], "timed_out")
<1>1. AllSteady
  BY Unchanged, QuietSteady DEF HardTimeoutFires
<1>2. local' = [local EXCEPT ![j][a] = new] /\ UNCHANGED <<stage, remaining, registry>>
  BY DEF HardTimeoutFires
<1>3. "timed_out" \in Plan
  BY DEF Plan
<1>4. new \in Local /\ new.thread = "ended" /\ new.plan = "timed_out" /\ Settling(new)
  BY <1>3, EntryOf, StoppingFacts
<1> HIDE DEF new
<1> QED BY <1>1, <1>2, <1>3, <1>4, StopMoves DEF Changes

LEMMA SignalMoves ==
    ASSUME IInv, EntryTypes, NEW j \in Job, CancelSignalled(j)
    PROVE registry[j] \in DOMAIN local[j] /\ AllSteady /\ Changes(j, registry[j])
<1> DEFINE a == registry[j]
           new == Stopping(local[j][a], "cancel")
<1>0. a \in DOMAIN local[j]
  BY DEF CancelSignalled, EntryTypes, Registered
<1>1. AllSteady
  BY Unchanged, QuietSteady DEF CancelSignalled
<1>2. local' = [local EXCEPT ![j][a] = new] /\ UNCHANGED <<stage, remaining, registry>>
  BY DEF CancelSignalled
<1>3. "cancel" \in Plan
  BY DEF Plan
<1>4. new \in Local /\ new.thread = "ended" /\ new.plan = "cancel" /\ Settling(new)
  BY <1>0, <1>3, EntryOf, StoppingFacts
<1>5. Over(j, a)'
  BY DEF CancelSignalled, StoreUnchanged, Over, Open
<1> HIDE DEF new
<1> QED BY <1>0, <1>1, <1>2, <1>3, <1>4, <1>5, StopMoves DEF Changes

LEMMA ReadMoves ==
    ASSUME IInv, EntryTypes, EntriesFit, NEW j \in Job, NEW a \in DOMAIN local[j],
           SettlementReads(j, a)
    PROVE AllSteady /\ Changes(j, a)
<1> DEFINE e == local[j][a]
           p == IF jobs[j].cancel_requested THEN "cancel" ELSE e.plan
           new == [e EXCEPT !.phase = "write", !.plan = p]
<1>1. AllSteady
  BY Unchanged, QuietSteady DEF SettlementReads
<1>2. e \in Local /\ Fits(j, a, e)
  BY EntryOf DEF EntriesFit
<1>3. local' = [local EXCEPT ![j][a] = new] /\ UNCHANGED <<stage, remaining, registry>>
  BY DEF SettlementReads
<1>4. p = "cancel" => Over(j, a)'
  <2>1. jobs' = jobs
    BY DEF SettlementReads, StoreUnchanged
  <2> QED BY <1>2, <2>1 DEF Fits, Over, Open, CurrentAttempt
<1>5. p \in Plan \cup {"none"}
  BY <1>2 DEF Local, Plan
<1> HIDE DEF p
<1>6. /\ new \in Local /\ new.thread = e.thread /\ new.settling = e.settling
      /\ new.plan = p /\ Settling(new)
  BY <1>2, <1>5 DEF Local, Settling
<1> HIDE DEF new
<1> QED BY <1>1, <1>2, <1>3, <1>4, <1>6 DEF Changes, Moves, GoesOn, Fits

-----------------------------------------------------------------------------
(* The end of a settlement.                                                  *)

\* A refused settlement of the newest attempt has lost its job.
LEMMA RefusedIsOver ==
    ASSUME IInv, NEW j \in Job, NEW a, NEW plan, Refused(j, a, plan),
           plan = "cancel" => Over(j, a)
    PROVE AllSteady /\ (a = CurrentAttempt(j) => ~Open(j)')
<1>1. AllSteady /\ jobs' = jobs
  BY Unchanged, QuietSteady DEF Refused, StoreUnchanged
<1> SUFFICES ASSUME a = CurrentAttempt(j), Open(j) PROVE FALSE
  BY <1>1 DEF Open
<1>2. Owns(j, a, Me)
  BY DEF Open, Owns, CurrentAttempt
<1>3. Issued(j, a, Me)
  <2>1. /\ jobs[j].attempt_count \in DOMAIN attempts[j]
        /\ RowMatches(jobs[j], attempts[j])
    BY RunningRow DEF Open, IInv
  <2> QED BY <1>2, <2>1 DEF Issued, RowMatches, Owns
<1>4. CASE plan = "cancel"
  <2>1. CurrentAttempt(j) \in Nat
    BY AttemptCounts
  <2>2. ~Open(j)
    BY <1>4, <2>1 DEF Over
  <2> QED BY <2>2
<1>5. CASE plan # "cancel"
  BY <1>2, <1>3, <1>5 DEF Refused, Settles, Open
<1> QED BY <1>4, <1>5

LEMMA FinishMoves ==
    ASSUME EntryTypes, NEW j \in Job, NEW a \in DOMAIN local[j], Finish(j, a),
           UNCHANGED <<stage, remaining>>
    PROVE \E new : Moves(j, a, new)
<1> DEFINE b == local[j][a].beat
           new == [NoLocal EXCEPT !.thread = "ended", !.phase = "done",
                                  !.settling = TRUE, !.beat = b]
<1>1. local' = [local EXCEPT ![j][a] = new]
  BY DEF Finish
<1>2. b \in Beats /\ a # 0
  BY EntryOf DEF Local, Beats
<1> HIDE DEF b
<1>3. new \in Local /\ new.thread = "ended" /\ new.plan = "none"
  BY <1>2 DEF Local, NoLocal, Beats, Plan
<1> HIDE DEF new
<1>4. registry' = [registry EXCEPT ![j] = IF @ = a THEN 0 ELSE @]
  BY DEF Finish
<1>5. registry'[j] # a
  BY <1>2, <1>4 DEF EntryTypes
<1> QED BY <1>1, <1>3, <1>4, <1>5 DEF Moves

LEMMA WriteMoves ==
    ASSUME IInv, EntryTypes, EntriesFit, NEW j \in Job, NEW a \in DOMAIN local[j],
           SettlementWrites(j, a)
    PROVE AllSteady /\ Changes(j, a)
<1>1. Fits(j, a, local[j][a])
  BY DEF EntriesFit
<1>2. AllSteady /\ (a = CurrentAttempt(j) => ~Open(j)')
  BY <1>1, AcceptedEnds, RefusedIsOver DEF SettlementWrites, Fits
<1>3. PICK new : Moves(j, a, new)
  BY FinishMoves DEF SettlementWrites
<1> QED BY <1>2, <1>3 DEF Changes, GoesOn

-----------------------------------------------------------------------------
(* The pump.                                                                 *)

PumpTypes ==
    pump \in [at: PumpPlace, job: Job \cup {NoJob}, attempt: Nat,
              candidates: SUBSET Job, victim: Job \cup {NoJob}]

\* It holds an attempt newer than every entry of its job, and its victim is no
\* longer running here.
HoldsNewest ==
    pump.at \in HoldingPlace =>
        /\ pump.job \in Job
        /\ pump.attempt <= CurrentAttempt(pump.job)
        /\ Len(local[pump.job]) < pump.attempt

VictimStopped == pump.at = "preempted" => pump.victim \in Job /\ ~Open(pump.victim)

PumpFits == PumpTypes /\ HoldsNewest /\ VictimStopped

LEMMA IdleFits ==
    ASSUME pump' = IdlePump
    PROVE PumpFits'
BY DEF IdlePump, PumpFits, PumpTypes, HoldsNewest, VictimStopped, HoldingPlace, PumpPlace

LEMMA SameFits ==
    ASSUME PumpFits, AllSteady, UNCHANGED pump,
           \A k \in Job : Len(local'[k]) = Len(local[k])
    PROVE PumpFits' /\ PumpKeeps
<1>1. \A k \in Job : CurrentAttempt(k)' = CurrentAttempt(k) /\ (Open(k)' => Open(k))
  BY DEF AllSteady, Steady
<1>2. PumpTypes' /\ HoldsNewest' /\ VictimStopped'
  BY <1>1 DEF PumpFits, PumpTypes, HoldsNewest, VictimStopped
<1>3. PumpKeeps
  BY <1>1 DEF PumpKeeps, PumpHolds
<1> QED BY <1>2, <1>3 DEF PumpFits

\* The pump goes on with what it holds.
LEMMA HeldFits ==
    ASSUME PumpFits, AllSteady, pump.at \in HoldingPlace,
           NEW at \in HoldingPlace \ {"preempted"},
           NEW v \in Job \cup {NoJob},
           pump' = [pump EXCEPT !.at = at, !.victim = v],
           \A k \in Job : Len(local'[k]) = Len(local[k])
    PROVE PumpFits' /\ PumpKeeps
<1>1. \A k \in Job : CurrentAttempt(k)' = CurrentAttempt(k)
  BY DEF AllSteady, Steady
<1>2. /\ pump'.at = at /\ pump'.job = pump.job /\ pump'.attempt = pump.attempt
      /\ pump'.candidates = pump.candidates /\ pump'.victim = v
  BY DEF PumpFits, PumpTypes
<1>3. PumpTypes'
  BY DEF PumpFits, PumpTypes, HoldingPlace, PumpPlace
<1>4. pump.job \in Job
  BY DEF PumpFits, HoldsNewest
<1>5. HoldsNewest' /\ VictimStopped'
  BY <1>1, <1>2, <1>4 DEF PumpFits, HoldsNewest, VictimStopped
<1>6. PumpKeeps
  BY <1>1, <1>2 DEF PumpKeeps, PumpHolds, HoldingPlace
<1> QED BY <1>3, <1>5, <1>6 DEF PumpFits

\* The pump held nothing.
LEMMA HeldNothing ==
    ASSUME pump.at \notin HoldingPlace
    PROVE PumpKeeps
BY DEF PumpKeeps, PumpHolds, HoldingPlace

-----------------------------------------------------------------------------
(* The invariant and its steps.                                              *)

StageTypes ==
    /\ stage \in {"up", "draining", "forcing", "stopped", "gone"}
    /\ faults \in 0..FaultBound

NothingDropped == faults = 0 /\ Alive => Caring

RInv ==
    /\ StageTypes
    /\ PumpFits
    /\ EntryTypes /\ EntriesFit
    /\ NothingDropped

\* One entry changes.
LEMMA EntryInv ==
    ASSUME IInv, RInv, AllSteady, PumpFits', PumpKeeps, StageTypes',
           NEW j \in Job, NEW a \in DOMAIN local[j], NEW new, Moves(j, a, new),
           faults' = 0 => faults = 0 /\ GoesOn(j, a, new)
    PROVE RInv'
<1>1. EntryTypes' /\ EntriesFit'
  BY MovesTypes, MovesFit DEF RInv
<1>2. NothingDropped'
  <2> SUFFICES ASSUME faults' = 0, Alive' PROVE Caring'
    BY DEF NothingDropped
  <2>1. Caring /\ GoesOn(j, a, new)
    BY DEF RInv, NothingDropped, Moves, Alive
  <2> QED BY <2>1, MovesCare DEF RInv
<1> QED BY <1>1, <1>2 DEF RInv

\* One entry changes, and the pump is where it was.
LEMMA EntryOnlyInv ==
    ASSUME IInv, RInv, AllSteady, UNCHANGED pump, StageTypes',
           NEW j \in Job, NEW a \in DOMAIN local[j], NEW new, Moves(j, a, new),
           faults' = 0 => faults = 0 /\ GoesOn(j, a, new)
    PROVE RInv'
<1>1. \A k \in Job : Len(local'[k]) = Len(local[k])
  BY OneLocal DEF RInv, Moves
<1>2. PumpFits' /\ PumpKeeps
  BY <1>1, SameFits DEF RInv
<1> QED BY <1>2, EntryInv

\* No entry changes.
LEMMA PlainInv ==
    ASSUME IInv, RInv, AllSteady, UNCHANGED <<registry, local, remaining>>,
           PumpFits', StageTypes',
           StageMoves,
           faults' = 0 => faults = 0 /\ PumpKeeps
    PROVE RInv'
<1>1. EntryTypes' /\ EntriesFit'
  BY SameEntries DEF RInv
<1>2. NothingDropped'
  BY SameCare DEF RInv, NothingDropped, Alive, StageMoves
<1> QED BY <1>1, <1>2 DEF RInv

\* Neither entries nor pump change.
LEMMA StillInv ==
    ASSUME IInv, RInv, AllSteady, UNCHANGED <<registry, local, remaining, pump>>, StageTypes',
           StageMoves,
           faults' = 0 => faults = 0
    PROVE RInv'
BY SameFits, PlainInv DEF RInv

\* A failed call is counted.
LEMMA FaultCounts ==
    ASSUME StageTypes, Fault
    PROVE faults' \in 0..FaultBound /\ faults' # 0
BY RunnerAssumption DEF StageTypes, Fault

LEMMA JobStepInv ==
    ASSUME IInv, RInv, NEW j \in Job,
           HeartbeatStep(j) \/ SettlementStep(j) \/ ThreadStep(j) \/ CancelSignalled(j)
    PROVE RInv'
<1>1. UNCHANGED <<stage, pump, faults>>
  BY DEF HeartbeatStep, SettlementStep, ThreadStep, CancelSignalled, Beat, BeatAnswered,
     BeatRefused, SettlementReads, SettlementWrites, HardTimeoutFires, ThreadEnds
<1>2. StageTypes'
  BY <1>1 DEF RInv, StageTypes
<1>3. \E a \in DOMAIN local[j] : AllSteady /\ Changes(j, a)
  <2>1. CASE HeartbeatStep(j)
    BY <2>1, HeartbeatMoves DEF HeartbeatStep, RInv
  <2>2. CASE SettlementStep(j)
    BY <2>2, ReadMoves, WriteMoves DEF SettlementStep, RInv
  <2>3. CASE ThreadStep(j)
    BY <2>3, TimerMoves, ThreadMoves DEF ThreadStep, RInv
  <2>4. CASE CancelSignalled(j)
    BY <2>4, SignalMoves DEF RInv
  <2> QED BY <2>1, <2>2, <2>3, <2>4
<1>4. PICK a \in DOMAIN local[j] :
          AllSteady /\ \E new : Moves(j, a, new) /\ GoesOn(j, a, new)
  BY <1>3 DEF Changes
<1> QED BY <1>1, <1>2, <1>4, EntryOnlyInv

-----------------------------------------------------------------------------
(* The steps of the pump.                                                    *)

\* A claim: the pump holds the job that starts.
LEMMA ClaimInv ==
    ASSUME IInv, RInv, UNCHANGED <<stage, registry, local, remaining, faults>>,
           pump.at \notin HoldingPlace,
           NEW j \in Job, Starting(j), \A k \in Job \ {j} : Steady(k),
           NEW at \in {"claimed", "preempted"}, NEW v \in Job \cup {NoJob},
           at = "preempted" => v \in Job /\ v # j /\ ~Open(v)',
           pump' = [at |-> at, job |-> j, attempt |-> CurrentAttempt(j) + 1,
                    candidates |-> {}, victim |-> v]
    PROVE RInv'
<1>1. /\ CurrentAttempt(j) \in Nat
      /\ CurrentAttempt(j)' = CurrentAttempt(j) + 1
      /\ Len(local[j]) \in Nat /\ Len(local[j]) <= CurrentAttempt(j)
  BY AttemptCounts, LenProperties DEF RInv, EntriesFit, EntryTypes, Starting
<1> DEFINE n == CurrentAttempt(j) + 1
<1>2. n \in Nat /\ Len(local[j]) < n
  BY <1>1
<1>3. pump' = [at |-> at, job |-> j, attempt |-> n, candidates |-> {}, victim |-> v]
  OBVIOUS
<1>4. CurrentAttempt(j)' = n
  BY <1>1
<1> HIDE DEF n
<1>5. pump'.at = at /\ pump'.job = j /\ pump'.attempt = n /\ pump'.victim = v
  BY <1>3
<1>6. PumpTypes'
  BY <1>2, <1>3 DEF PumpTypes, PumpPlace
<1>7. HoldsNewest' /\ VictimStopped'
  BY <1>2, <1>4, <1>5 DEF HoldsNewest, VictimStopped
<1>8. EntryTypes'
  BY DEF RInv, EntryTypes, Registered
<1>9. EntriesFit'
  <2>1. ASSUME NEW k \in Job \ {j}, NEW b \in DOMAIN local[k] PROVE Fits(k, b, local[k][b])'
    <3>1. Fits(k, b, local[k][b]) /\ Steady(k)
      BY DEF RInv, EntriesFit
    <3> QED BY <3>1 DEF Fits, Over, Settling, Steady
  <2>2. ASSUME NEW b \in DOMAIN local[j] PROVE Fits(j, b, local[j][b])'
    <3>1. Fits(j, b, local[j][b])
      BY DEF RInv, EntriesFit
    <3>2. b \in 1..Len(local[j])
      <4>1. local[j] \in Seq(Local)
        BY DEF RInv, EntryTypes
      <4> QED BY <4>1, LenProperties
    <3>3. b < n
      BY <1>1, <1>2, <3>2
    <3> QED BY <1>4, <3>1, <3>3 DEF Fits, Over, Settling
  <2>3. \A k \in Job \ {j} : CurrentAttempt(k)' = CurrentAttempt(k)
    BY DEF Steady
  <2>4. Len(local[j]) <= n
    BY <1>1, <1>2
  <2> QED BY <1>4, <2>1, <2>2, <2>3, <2>4 DEF RInv, EntriesFit
<1>10. NothingDropped'
  <2> SUFFICES ASSUME faults' = 0, Alive', NEW k \in Job, Open(k)' PROVE Cared(k)'
    BY DEF NothingDropped, Caring
  <2>1. CASE k = j
    BY <1>4, <1>5, <2>1 DEF Cared, PumpHolds
  <2>2. CASE k # j
    <3>1. Steady(k) /\ Caring
      BY <2>2 DEF RInv, NothingDropped, Alive
    <3>2. Cared(k) /\ ~PumpHolds(k, CurrentAttempt(k))
      BY <3>1 DEF Caring, Steady, PumpHolds, HoldingPlace
    <3> QED BY <3>1, <3>2 DEF Cared, Steady
  <2> QED BY <2>1, <2>2
<1> QED BY <1>6, <1>7, <1>8, <1>9, <1>10 DEF RInv, PumpFits, StageTypes

LEMMA ClaimCommitsInv ==
    ASSUME IInv, RInv, ClaimCommits
    PROVE RInv'
<1>1. PICK j \in Job : /\ ClaimNextJob(Me, j)
                       /\ pump' = [IdlePump EXCEPT !.at = "claimed", !.job = j,
                                                   !.attempt = CurrentAttempt(j) + 1]
  BY DEF ClaimCommits
<1>2. pump' = [at |-> "claimed", job |-> j, attempt |-> CurrentAttempt(j) + 1,
               candidates |-> {}, victim |-> NoJob]
  BY <1>1 DEF IdlePump
<1>3. pump.at \notin HoldingPlace /\ UNCHANGED <<stage, registry, local, remaining, faults>>
  BY DEF ClaimCommits, HoldingPlace
<1> QED BY <1>1, <1>2, <1>3, ClaimStarts, ClaimInv

LEMMA PreemptCommitsInv ==
    ASSUME IInv, RInv, PreemptCommits
    PROVE RInv'
<1>1. pump.candidates \subseteq Job
  BY DEF RInv, PumpFits, PumpTypes
<1>2. PICK paid \in Job, victim \in Job :
          /\ PreemptFreeJobForPaid(Me, paid, victim)
          /\ pump' = [IdlePump EXCEPT !.at = "preempted", !.job = paid,
                                      !.attempt = CurrentAttempt(paid) + 1,
                                      !.victim = victim]
  BY <1>1 DEF PreemptCommits
<1>3. pump' = [at |-> "preempted", job |-> paid, attempt |-> CurrentAttempt(paid) + 1,
               candidates |-> {}, victim |-> victim]
  BY <1>2 DEF IdlePump
<1>4. pump.at \notin HoldingPlace /\ UNCHANGED <<stage, registry, local, remaining, faults>>
  BY DEF PreemptCommits, HoldingPlace
<1> QED BY <1>2, <1>3, <1>4, PreemptionStarts, ClaimInv

\* The pump looks for work, or stops looking.
LEMMA LooksInv ==
    ASSUME IInv, RInv, PumpClaims \/ PumpPreempts \/ NothingPreempted \/ PumpFails
    PROVE RInv'
<1>1. AllSteady /\ UNCHANGED <<stage, registry, local, remaining>>
  BY Unchanged, QuietSteady DEF PumpClaims, PumpPreempts, NothingPreempted, PumpFails
<1>2. PumpFits'
  <2>1. Candidates \subseteq Job
    BY DEF Candidates, Registered
  <2>2. \/ pump' = IdlePump
        \/ pump' = [IdlePump EXCEPT !.at = "claim"]
        \/ pump' = [IdlePump EXCEPT !.at = "preempt", !.candidates = Candidates]
    BY DEF PumpClaims, PumpPreempts, NothingPreempted, PumpFails
  <2>3. CASE pump' = [IdlePump EXCEPT !.at = "claim"]
    <3>1. pump'.at = "claim"
      BY <2>3 DEF IdlePump
    <3>2. PumpTypes'
      BY <2>3 DEF PumpTypes, PumpPlace, IdlePump
    <3> QED BY <3>1, <3>2 DEF PumpFits, HoldsNewest, VictimStopped, HoldingPlace
  <2>4. CASE pump' = [IdlePump EXCEPT !.at = "preempt", !.candidates = Candidates]
    <3>1. pump'.at = "preempt"
      BY <2>4 DEF IdlePump
    <3>2. PumpTypes'
      BY <2>1, <2>4 DEF PumpTypes, PumpPlace, IdlePump
    <3> QED BY <3>1, <3>2 DEF PumpFits, HoldsNewest, VictimStopped, HoldingPlace
  <2> QED BY <2>2, <2>3, <2>4, IdleFits
<1>3. CASE PumpFails
  <2>1. StageTypes' /\ faults' # 0
    BY <1>1, <1>3, FaultCounts DEF PumpFails, RInv, StageTypes
  <2> QED BY <1>1, <1>2, <2>1, PlainInv DEF StageMoves
<1>4. CASE PumpClaims \/ PumpPreempts \/ NothingPreempted
  <2>1. StageTypes' /\ faults' = faults
    BY <1>4 DEF PumpClaims, PumpPreempts, NothingPreempted, RInv, StageTypes
  <2>2. PumpKeeps
    BY <1>4, HeldNothing DEF PumpClaims, PumpPreempts, NothingPreempted, HoldingPlace
  <2> QED BY <1>1, <1>2, <2>1, <2>2, PlainInv DEF StageMoves
<1> QED BY <1>3, <1>4

\* The claim is to be given back, by a shutdown or after a fault.
LEMMA GiveBackInv ==
    ASSUME IInv, RInv, NEW plan \in {"release", "worker_crash"}, GiveBack(plan)
    PROVE RInv'
<1>1. AllSteady /\ UNCHANGED <<stage, registry, local, remaining>>
  BY Unchanged, QuietSteady DEF GiveBack
<1>2. pump' = [pump EXCEPT !.at = plan, !.victim = pump.victim]
      /\ pump.victim \in Job \cup {NoJob} /\ pump.at \in HoldingPlace
  BY DEF GiveBack, RInv, PumpFits, PumpTypes, HoldingPlace
<1>3. plan \in HoldingPlace \ {"preempted"}
  BY DEF HoldingPlace
<1>4. PumpFits' /\ PumpKeeps
  BY <1>1, <1>2, <1>3, HeldFits DEF RInv
<1>5. StageTypes' /\ (faults' = 0 => faults = 0)
  BY <1>1, FaultCounts DEF GiveBack, RInv, StageTypes
<1> QED BY <1>1, <1>4, <1>5, PlainInv DEF StageMoves

LEMMA GiveBackWritesInv ==
    ASSUME IInv, RInv, GiveBackWrites
    PROVE RInv'
<1>1. PICK j \in Job, plan \in {"release", "worker_crash"}, a \in Nat :
          /\ plan # "cancel"
          /\ pump.job = j /\ pump.attempt = a /\ pump.at = plan
          /\ Accepted(j, a, plan) \/ Refused(j, a, plan)
  BY DEF GiveBackWrites, RInv, PumpFits, PumpTypes, HoldsNewest, HoldingPlace
<1>2. AllSteady /\ (a = CurrentAttempt(j) => ~Open(j)')
  BY <1>1, AcceptedEnds, RefusedIsOver DEF RInv
<1>3. pump' = IdlePump /\ UNCHANGED <<stage, registry, local, remaining, faults>>
  BY DEF GiveBackWrites
<1>4. EntryTypes' /\ EntriesFit'
  BY <1>2, <1>3, SameEntries DEF RInv, StageMoves
<1>5. NothingDropped'
  <2> SUFFICES ASSUME faults' = 0, Alive', NEW k \in Job, Open(k)' PROVE Cared(k)'
    BY DEF NothingDropped, Caring
  <2>1. Steady(k) /\ Caring
    BY <1>2, <1>3 DEF AllSteady, RInv, NothingDropped, Alive
  <2>2. Cared(k)
    BY <2>1 DEF Caring, Steady
  <2>3. ~PumpHolds(k, CurrentAttempt(k))
    BY <1>1, <1>2 DEF PumpHolds
  <2> QED BY <1>3, <2>1, <2>2, <2>3 DEF Cared, Steady
<1>6. PumpFits'
  BY <1>3, IdleFits
<1> QED BY <1>2, <1>3, <1>4, <1>5, <1>6 DEF RInv, StageTypes

\* The victim's thread is stopped; the victim runs no more.
LEMMA StopVictimInv ==
    ASSUME IInv, RInv, StopVictim
    PROVE RInv'
<1>1. AllSteady /\ StageTypes' /\ UNCHANGED <<stage, remaining, faults>>
  BY Unchanged, QuietSteady DEF StopVictim, RInv, StageTypes
<1>2. /\ pump.at \in HoldingPlace /\ pump.victim \in Job /\ ~Open(pump.victim)
      /\ pump' = [pump EXCEPT !.at = "claimed", !.victim = NoJob]
  BY DEF StopVictim, RInv, PumpFits, VictimStopped, HoldingPlace
<1>3. PICK j \in Job : j = pump.victim /\ ~Open(j) /\ ~Open(j)'
  <2>1. PICK j \in Job : j = pump.victim
    BY <1>2
  <2> QED BY <1>1, <1>2, <2>1 DEF AllSteady, Steady
<1>4. "claimed" \in HoldingPlace \ {"preempted"} /\ NoJob \in Job \cup {NoJob}
  BY DEF HoldingPlace
<1>5. CASE registry[j] = 0
  <2>1. UNCHANGED <<registry, local>>
    BY <1>3, <1>5 DEF StopVictim
  <2>2. PumpFits' /\ PumpKeeps
    BY <1>1, <1>2, <1>4, <2>1, HeldFits DEF RInv
  <2> QED BY <1>1, <2>1, <2>2, PlainInv DEF StageMoves
<1>6. CASE registry[j] # 0
  <2> DEFINE a == registry[j]
             e == local[j][a]
             ph == IF e.phase = "idle" THEN "done" ELSE e.phase
             new == [e EXCEPT !.thread = "ended", !.renewing = FALSE, !.settling = TRUE,
                              !.phase = ph]
  <2>1. a \in DOMAIN local[j]
    BY <1>6 DEF RInv, EntryTypes, Registered
  <2>2. e \in Local /\ Fits(j, a, e)
    BY <2>1, EntryOf DEF RInv, EntriesFit
  <2>3. /\ registry' = [registry EXCEPT ![j] = 0]
        /\ local' = [local EXCEPT ![j][a] = new]
    <3> DEFINE inPlace == Preempted(e)
    <3>1. inPlace = new
      BY <2>2 DEF Local, Preempted
    <3>2. /\ registry' = [registry EXCEPT ![j] = 0]
          /\ local' = [local EXCEPT ![j][a] = inPlace]
      BY <1>3, <1>6 DEF StopVictim
    <3> HIDE DEF inPlace, new
    <3> QED BY <3>1, <3>2
  <2>4. ph \in {"idle", "read", "write", "done"}
    BY <2>2 DEF Local
  <2> HIDE DEF ph
  <2>5. new \in Local /\ new.thread = "ended" /\ new.plan = e.plan
    BY <2>2, <2>4 DEF Local
  <2> HIDE DEF new
  <2>6. registry' = [registry EXCEPT ![j] = IF @ = a THEN 0 ELSE @]
        /\ registry'[j] # a
    BY <1>6, <2>3 DEF RInv, EntryTypes
  <2>7. Over(j, a)'
    BY <1>3 DEF Over
  <2>8. Moves(j, a, new) /\ GoesOn(j, a, new)
    BY <1>1, <1>3, <2>3, <2>5, <2>6, <2>7 DEF Moves, GoesOn
  <2>9. \A k \in Job : Len(local'[k]) = Len(local[k])
    BY <2>1, <2>3, <2>5, OneLocal DEF RInv
  <2>10. PumpFits' /\ PumpKeeps
    BY <1>1, <1>2, <1>4, <2>9, HeldFits DEF RInv
  <2> HIDE DEF a
  <2> QED BY <1>1, <2>1, <2>8, <2>10, EntryInv
<1> QED BY <1>5, <1>6

LEMMA SpawnedEntries ==
    ASSUME NEW entries \in Seq(Local), NEW a \in Nat, Len(entries) < a
    PROVE LET new == WithSpawned(entries, a) IN
          /\ new \in Seq(Local) /\ Len(new) = a /\ DOMAIN new = 1..a
          /\ a \in DOMAIN new /\ new[a] = Spawned
          /\ DOMAIN entries \subseteq DOMAIN new
          /\ \A b \in DOMAIN entries : b < a /\ new[b] = entries[b]
          /\ \A b \in DOMAIN new : b # a /\ b \notin DOMAIN entries => new[b] = NoLocal
<1> DEFINE new == WithSpawned(entries, a)
<1>1. NoLocal \in Local /\ Spawned \in Local
  BY DEF NoLocal, Spawned, Local, Plan
<1>2. DOMAIN entries = 1..Len(entries) /\ Len(entries) \in Nat
  BY LenProperties
<1>3. \A b \in DOMAIN entries : entries[b] \in Local
  BY ElementOfSeq, <1>2
<1>4. new = [b \in 1..a |-> IF b = a THEN Spawned
                            ELSE IF b \in DOMAIN entries THEN entries[b] ELSE NoLocal]
  BY DEF WithSpawned
<1>5. new \in [1..a -> Local]
  BY <1>1, <1>3, <1>4
<1>6. new \in Seq(Local) /\ Len(new) = a /\ DOMAIN new = 1..a
  BY <1>5, IsASeq, LenProperties
<1>7. \A b \in DOMAIN entries : b \in 1..a /\ b < a /\ b # a
  BY <1>2
<1>8. a \in 1..a
  BY <1>2
<1> HIDE DEF new
<1>9. /\ a \in DOMAIN new /\ new[a] = Spawned
      /\ DOMAIN entries \subseteq DOMAIN new
      /\ \A b \in DOMAIN entries : b < a /\ new[b] = entries[b]
      /\ \A b \in DOMAIN new : b # a /\ b \notin DOMAIN entries => new[b] = NoLocal
  BY <1>4, <1>6, <1>7, <1>8
<1> QED BY <1>6, <1>9 DEF new

LEMMA SpawnInv ==
    ASSUME IInv, RInv, Spawn
    PROVE RInv'
<1>1. AllSteady /\ jobs' = jobs /\ UNCHANGED <<stage, remaining, faults>> /\ stage = "up"
  BY Unchanged, QuietSteady DEF Spawn, accepting, StoreUnchanged
<1>2. PICK j \in Job, a \in Nat :
          /\ pump.job = j /\ pump.attempt = a
          /\ a <= CurrentAttempt(j) /\ Len(local[j]) < a
  BY DEF Spawn, RInv, PumpFits, PumpTypes, HoldsNewest, HoldingPlace
<1> DEFINE new == WithSpawned(local[j], a)
<1>3. /\ registry' = [registry EXCEPT ![j] = a]
      /\ local' = [local EXCEPT ![j] = new]
      /\ pump' = IdlePump
  BY <1>2 DEF Spawn
<1>4. /\ new \in Seq(Local) /\ Len(new) = a
      /\ a \in DOMAIN new /\ new[a] = Spawned
      /\ DOMAIN local[j] \subseteq DOMAIN new
      /\ \A b \in DOMAIN local[j] : b < a /\ new[b] = local[j][b]
      /\ \A b \in DOMAIN new : b # a /\ b \notin DOMAIN local[j] => new[b] = NoLocal
  BY <1>2, SpawnedEntries DEF RInv, EntryTypes
<1> HIDE DEF new
<1>5. /\ local'[j] = new /\ registry'[j] = a
      /\ \A k \in Job \ {j} : local'[k] = local[k] /\ registry'[k] = registry[k]
  BY <1>3 DEF RInv, EntryTypes
<1>6. EntryTypes'
  <2>1. registry' \in [Job -> Nat] /\ local' \in [Job -> Seq(Local)]
    BY <1>3, <1>4 DEF RInv, EntryTypes
  <2>2. \A k \in Job : registry'[k] # 0 => registry'[k] \in DOMAIN local'[k]
    BY <1>4, <1>5 DEF RInv, EntryTypes, Registered
  <2>3. \A k \in Job : DOMAIN local[k] \subseteq DOMAIN local'[k]
    BY <1>4, <1>5
  <2>4. \A r \in remaining' : r[1] \in Job /\ r[2] \in DOMAIN local'[r[1]]
    BY <1>1, <2>3 DEF RInv, EntryTypes
  <2> QED BY <2>1, <2>2, <2>4 DEF EntryTypes, Registered
<1>7. EntriesFit'
  <2>1. ASSUME NEW k \in Job \ {j}, NEW b \in DOMAIN local[k] PROVE Fits(k, b, local[k][b])'
    <3>1. Fits(k, b, local[k][b])
      BY DEF RInv, EntriesFit
    <3> QED BY <1>1, <1>5, <3>1 DEF Fits, Over, Settling, Open, CurrentAttempt
  <2>2. ASSUME NEW b \in DOMAIN new PROVE Fits(j, b, local[j][b])'
    <3>1. CASE b = a
      BY <1>1, <1>4, <1>5, <3>1 DEF Fits, Spawned, NoLocal
    <3>2. CASE b \in DOMAIN local[j]
      <4>1. Fits(j, b, local[j][b]) /\ b < a /\ b # a
        BY <1>2, <1>4, <3>2, EntryOf DEF RInv, EntriesFit
      <4>2. b < CurrentAttempt(j)
        <5>1. b \in Nat /\ CurrentAttempt(j) \in Nat
          BY <3>2, EntryOf, AttemptCounts DEF RInv
        <5> QED BY <1>2, <4>1, <5>1
      <4> QED BY <1>1, <1>4, <1>5, <3>2, <4>1, <4>2
              DEF Fits, Over, Settling, Open, CurrentAttempt
    <3>3. CASE b # a /\ b \notin DOMAIN local[j]
      BY <1>4, <1>5, <3>3 DEF Fits, NoLocal
    <3> QED BY <3>1, <3>2, <3>3
  <2>3. \A k \in Job : Len(local'[k]) <= CurrentAttempt(k)'
    BY <1>1, <1>2, <1>4, <1>5 DEF RInv, EntriesFit, CurrentAttempt
  <2> QED BY <1>5, <2>1, <2>2, <2>3 DEF EntriesFit
<1>8. NothingDropped'
  <2> SUFFICES ASSUME faults' = 0, Alive', NEW k \in Job, Open(k)' PROVE Cared(k)'
    BY DEF NothingDropped, Caring
  <2>1. CASE k = j /\ a = CurrentAttempt(j)
    BY <1>1, <1>5, <2>1 DEF Cared, CurrentAttempt
  <2>2. CASE k = j /\ a # CurrentAttempt(j)
    <3>1. Cared(j) /\ Len(local[j]) \in Nat /\ CurrentAttempt(j) \in Nat
      BY <1>1, <2>2, AttemptCounts, LenProperties
      DEF RInv, EntryTypes, NothingDropped, Alive, Caring, Open
    <3>2. CurrentAttempt(j) \notin DOMAIN local[j] /\ CurrentAttempt(j) # 0
      <4>1. DOMAIN local[j] = 1..Len(local[j])
        BY LenProperties DEF RInv, EntryTypes
      <4> QED BY <1>2, <2>2, <3>1, <4>1
    <3>3. registry[j] # CurrentAttempt(j)
      BY <3>2 DEF RInv, EntryTypes, Registered
    <3> QED BY <1>2, <2>2, <3>1, <3>2, <3>3 DEF Cared, PumpHolds
  <2>3. CASE k # j
    <3>1. Cared(k) /\ ~PumpHolds(k, CurrentAttempt(k))
      BY <1>1, <1>2, <2>3 DEF RInv, NothingDropped, Alive, Caring, Open, PumpHolds
    <3> QED BY <1>1, <1>5, <2>3, <3>1 DEF Cared, CurrentAttempt
  <2> QED BY <2>1, <2>2, <2>3
<1>9. PumpFits'
  BY <1>3, IdleFits
<1> QED BY <1>1, <1>6, <1>7, <1>8, <1>9 DEF RInv, StageTypes

LEMMA PumpStepInv ==
    ASSUME IInv, RInv, PumpStep
    PROVE RInv'
BY ClaimCommitsInv, PreemptCommitsInv, LooksInv, StopVictimInv, SpawnInv, GiveBackInv,
   GiveBackWritesInv DEF PumpStep

-----------------------------------------------------------------------------
(* Shutdown and crash.                                                       *)

LEMMA ForceShutdownInv ==
    ASSUME IInv, RInv, ForceShutdown
    PROVE RInv'
<1>1. AllSteady /\ jobs' = jobs /\ UNCHANGED <<pump, registry, faults>> /\ stage' = "forcing"
  BY Unchanged, QuietSteady DEF ForceShutdown, StoreUnchanged
<1>2. stage = "draining"
  BY DEF ForceShutdown
<1> DEFINE Stopped(k) == [local[k] EXCEPT ![registry[k]] = Stopping(@, "release")]
<1>3. local' = [k \in Job |-> IF k \in Interruptible THEN Stopped(k) ELSE local[k]]
  BY DEF ForceShutdown
<1>4. ASSUME NEW k \in Job
      PROVE /\ local'[k] \in Seq(Local)
            /\ Len(local'[k]) = Len(local[k]) /\ DOMAIN local'[k] = DOMAIN local[k]
            /\ \A b \in DOMAIN local[k] : local'[k][b] =
                  IF k \in Interruptible /\ b = registry[k]
                  THEN Stopping(local[k][b], "release") ELSE local[k][b]
  <2>1. local[k] \in Seq(Local)
    BY DEF RInv, EntryTypes
  <2>2. CASE k \in Interruptible
    <3> DEFINE a == registry[k]
               s == Stopping(local[k][a], "release")
    <3>1. a \in DOMAIN local[k]
      BY <2>2 DEF Interruptible, RInv, EntryTypes
    <3>2. "release" \in Plan
      BY DEF Plan
    <3>3. s \in Local
      BY <3>1, <3>2, EntryOf, StoppingFacts DEF RInv
    <3>4. local'[k] = [local[k] EXCEPT ![a] = s]
      BY <1>3, <2>2
    <3>5. a \in 1..Len(local[k]) /\ DOMAIN local[k] = 1..Len(local[k])
      BY <2>1, <3>1, LenProperties
    <3> HIDE DEF s
    <3>6. /\ local'[k] \in Seq(Local) /\ Len(local'[k]) = Len(local[k])
          /\ \A b \in 1..Len(local[k]) : local'[k][b] = IF b = a THEN s ELSE local[k][b]
      BY <2>1, <3>3, <3>4, <3>5, ExceptSeq
    <3>7. DOMAIN local'[k] = DOMAIN local[k]
      BY <3>4
    <3> QED BY <2>2, <3>5, <3>6, <3>7 DEF s
  <2>3. CASE k \notin Interruptible
    BY <1>3, <2>1, <2>3
  <2> QED BY <2>2, <2>3
<1>5. EntryTypes'
  <2>1. local' \in [Job -> Seq(Local)]
    <3>1. local' = [k \in Job |-> local'[k]]
      BY <1>3
    <3> QED BY <1>4, <3>1
  <2>2. \A r \in remaining' : r[1] \in Job /\ r[2] \in DOMAIN local[r[1]]
    <3>1. remaining' = {<<k, registry[k]>> : k \in Interruptible}
      BY DEF ForceShutdown
    <3>2. \A k \in Interruptible : k \in Job /\ registry[k] \in DOMAIN local[k]
      BY DEF Interruptible, Registered, RInv, EntryTypes
    <3> QED BY <3>1, <3>2
  <2>3. \A k \in Job : DOMAIN local'[k] = DOMAIN local[k]
    BY <1>4
  <2>4. \A k \in Registered : registry[k] \in DOMAIN local'[k]
    BY <2>3 DEF RInv, EntryTypes, Registered
  <2>5. \A r \in remaining' : r[1] \in Job /\ r[2] \in DOMAIN local'[r[1]]
    BY <2>2, <2>3
  <2> QED BY <1>1, <2>1, <2>4, <2>5 DEF RInv, EntryTypes, Registered
<1>6. ASSUME NEW k \in Job, NEW b \in DOMAIN local[k]
      PROVE /\ Fits(k, b, local[k][b])'
            /\ Settling(local[k][b]) => Settling(local'[k][b])
  <2> DEFINE e == local[k][b]
             s == Stopping(e, "release")
  <2>1. "release" \in Plan /\ "release" # "cancel"
    BY DEF Plan
  <2>2. e \in Local /\ Fits(k, b, e) /\ b # 0
    BY EntryOf DEF RInv, EntriesFit
  <2>3. s.thread = "ended" /\ s.plan = "release" /\ Settling(s)
    BY <2>1, <2>2, StoppingFacts
  <2>4. local'[k][b] = IF k \in Interruptible /\ b = registry[k] THEN s ELSE e
    BY <1>4
  <2>5. CASE k \in Interruptible /\ b = registry[k]
    <3>1. local'[k][b] = s
      BY <2>4, <2>5
    <3> HIDE DEF s
    <3> QED BY <1>1, <2>3, <3>1 DEF Fits, Settling
  <2>6. CASE ~(k \in Interruptible /\ b = registry[k])
    <3>1. local'[k][b] = e
      BY <2>4, <2>6
    <3>2. registry[k] = b => e.thread # "computing"
      BY <2>2, <2>6 DEF Interruptible, Registered, Fits
    <3> HIDE DEF e
    <3> QED BY <1>1, <2>2, <3>1, <3>2 DEF Fits, Settling, Over, Open, CurrentAttempt, e
  <2> QED BY <2>5, <2>6
<1>7. EntriesFit'
  BY <1>1, <1>4, <1>6 DEF RInv, EntriesFit, CurrentAttempt
<1>8. PumpFits' /\ PumpKeeps
  BY <1>1, <1>4, SameFits DEF RInv
<1>9. NothingDropped'
  <2> SUFFICES ASSUME faults' = 0, Alive', NEW k \in Job, Open(k)' PROVE Cared(k)'
    BY DEF NothingDropped, Caring
  <2>1. Cared(k)
    BY <1>1, <1>2 DEF RInv, NothingDropped, Alive, Caring, Open
  <2>2. CurrentAttempt(k)' = CurrentAttempt(k)
    BY <1>1 DEF CurrentAttempt
  <2> QED BY <1>1, <1>4, <1>6, <1>8, <2>1, <2>2 DEF Cared, PumpKeeps
<1>10. StageTypes'
  BY <1>1 DEF RInv, StageTypes
<1> QED BY <1>1, <1>5, <1>7, <1>8, <1>9, <1>10 DEF RInv

\* A process that is gone has no entries.
LEMMA GoneInv ==
    ASSUME IInv, RInv, Gone, faults' \in 0..FaultBound
    PROVE RInv'
<1>1. AllSteady
  BY Unchanged, QuietSteady DEF Gone
<1>2. <<>> \in Seq(Local) /\ Len(<<>>) = 0 /\ DOMAIN <<>> = {}
  OBVIOUS
<1>3. /\ registry' = [j \in Job |-> 0] /\ local' = [j \in Job |-> <<>>]
      /\ remaining' = {} /\ stage' = "gone" /\ pump' = IdlePump
  BY DEF Gone
<1>4. EntryTypes'
  BY <1>2, <1>3 DEF EntryTypes, Registered
<1>5. \A k \in Job : CurrentAttempt(k)' \in Nat
  BY <1>1, AttemptCounts DEF AllSteady, Steady
<1>6. EntriesFit'
  BY <1>2, <1>3, <1>5 DEF EntriesFit
<1>7. PumpFits'
  BY <1>3, IdleFits
<1>8. NothingDropped' /\ StageTypes'
  BY <1>3 DEF NothingDropped, Alive, StageTypes
<1> QED BY <1>1, <1>4, <1>6, <1>7, <1>8 DEF RInv

LEMMA ShutdownStepInv ==
    ASSUME IInv, RInv, ShutdownStep
    PROVE RInv'
<1>1. CASE BeginShutdown
  <2>1. AllSteady
    BY <1>1, Unchanged, QuietSteady DEF BeginShutdown
  <2>2. StageMoves /\ StageTypes' /\ faults' = faults
    BY <1>1 DEF BeginShutdown, StageMoves, StageTypes, RInv
  <2> QED BY <1>1, <2>1, <2>2, StillInv DEF BeginShutdown
<1>2. CASE ForceShutdown
  BY <1>2, ForceShutdownInv
<1>3. CASE EndShutdown
  <2>1. AllSteady
    BY <1>3, Unchanged, QuietSteady DEF EndShutdown
  <2>2. StageMoves /\ StageTypes' /\ (faults' = 0 => faults = 0)
    BY <1>3, FaultCounts DEF EndShutdown, StageMoves, StageTypes, RInv
  <2> QED BY <1>3, <2>1, <2>2, StillInv DEF EndShutdown
<1>4. CASE Exit
  BY <1>4, GoneInv DEF Exit, RInv, StageTypes
<1> QED BY <1>1, <1>2, <1>3, <1>4 DEF ShutdownStep

LEMMA FaultStepInv ==
    ASSUME IInv, RInv, FaultStep
    PROVE RInv'
<1>1. CASE PumpFails \/ GiveBack("worker_crash")
  BY <1>1, LooksInv, GiveBackInv
<1>2. CASE Crash
  BY <1>2, FaultCounts, GoneInv DEF Crash, RInv
<1>3. ASSUME NEW j \in Job, NEW a \in DOMAIN local[j], SettlementFails(j, a) PROVE RInv'
  <2>1. AllSteady
    BY <1>3, Unchanged, QuietSteady DEF SettlementFails
  <2>2. StageTypes' /\ faults' # 0 /\ UNCHANGED pump
    BY <1>3, FaultCounts DEF SettlementFails, RInv, StageTypes
  <2>3. PICK new : Moves(j, a, new)
    BY <1>3, FinishMoves DEF SettlementFails, RInv
  <2> QED BY <2>1, <2>2, <2>3, EntryOnlyInv
<1>4. ASSUME NEW j \in Job, NEW a \in DOMAIN local[j], NEW lastCall \in BOOLEAN,
             BeatFails(j, a, lastCall)
      PROVE RInv'
  <2>1. AllSteady /\ Changes(j, a)
    BY <1>4, HeartbeatMoves DEF RInv
  <2>2. StageTypes' /\ faults' # 0 /\ UNCHANGED pump
    BY <1>4, FaultCounts DEF BeatFails, RInv, StageTypes
  <2>3. PICK new : Moves(j, a, new)
    BY <2>1 DEF Changes
  <2> QED BY <2>1, <2>2, <2>3, EntryOnlyInv
<1> QED BY <1>1, <1>2, <1>3, <1>4 DEF FaultStep

\* Every step of the process, of the users, of maintenance and of the clock.
\* Another process starts a job: what this one still does for it is over.
LEMMA ElsewhereInv ==
    ASSUME IInv, RInv, UNCHANGED runnerVars, StartsElsewhere
    PROVE RInv'
<1>1. UNCHANGED <<stage, pump, registry, local, remaining, faults>>
  BY DEF runnerVars
<1>2. ASSUME NEW k \in Job
      PROVE /\ CurrentAttempt(k) \in Nat /\ CurrentAttempt(k)' \in Nat
            /\ CurrentAttempt(k) <= CurrentAttempt(k)'
            /\ Open(k)' => Open(k) /\ CurrentAttempt(k)' = CurrentAttempt(k)
  <2>1. CurrentAttempt(k) \in Nat
    BY AttemptCounts
  <2>2. CASE Steady(k)
    BY <2>1, <2>2 DEF Steady
  <2>3. CASE Starting(k) /\ ~Open(k)'
    BY <2>1, <2>3 DEF Starting
  <2> QED BY <2>2, <2>3 DEF StartsElsewhere
<1>3. EntryTypes' /\ StageTypes'
  BY <1>1 DEF RInv, EntryTypes, StageTypes, Registered
<1>4. EntriesFit'
  <2>1. ASSUME NEW k \in Job, NEW a \in DOMAIN local[k] PROVE Fits(k, a, local[k][a])'
    <3>1. Fits(k, a, local[k][a]) /\ a \in Nat
      BY EntryOf DEF RInv, EntriesFit
    <3>2. a < CurrentAttempt(k) => a < CurrentAttempt(k)'
      BY <1>2, <3>1
    <3>3. Over(k, a) => Over(k, a)'
      BY <1>2, <3>2 DEF Over
    <3> QED BY <1>1, <3>1, <3>2, <3>3 DEF Fits, Settling
  <2>2. ASSUME NEW k \in Job PROVE Len(local[k]) <= CurrentAttempt(k)'
    <3>1. Len(local[k]) \in Nat /\ Len(local[k]) <= CurrentAttempt(k)
      BY LenProperties DEF RInv, EntryTypes, EntriesFit
    <3> QED BY <1>2, <3>1
  <2> QED BY <1>1, <2>1, <2>2 DEF EntriesFit
<1>5. PumpFits'
  <2>1. PumpTypes' /\ VictimStopped'
    BY <1>1, <1>2 DEF RInv, PumpFits, PumpTypes, VictimStopped
  <2>2. HoldsNewest'
    <3> SUFFICES ASSUME pump.at \in HoldingPlace
                 PROVE pump.attempt <= CurrentAttempt(pump.job)'
      BY <1>1 DEF RInv, PumpFits, HoldsNewest
    <3>1. PICK j \in Job : j = pump.job
      BY DEF RInv, PumpFits, HoldsNewest
    <3>2. pump.attempt \in Nat /\ pump.attempt <= CurrentAttempt(j)
      BY <3>1 DEF RInv, PumpFits, PumpTypes, HoldsNewest
    <3>3. pump.attempt <= CurrentAttempt(j)'
      BY <1>2, <3>2
    <3> QED BY <1>1, <3>1, <3>3 DEF CurrentAttempt
  <2> QED BY <2>1, <2>2 DEF PumpFits
<1>6. NothingDropped'
  <2> SUFFICES ASSUME faults' = 0, Alive', NEW k \in Job, Open(k)' PROVE Cared(k)'
    BY DEF NothingDropped, Caring
  <2>1. Cared(k) /\ CurrentAttempt(k)' = CurrentAttempt(k)
    BY <1>1, <1>2 DEF RInv, NothingDropped, Alive, Caring
  <2> QED BY <1>1, <2>1 DEF Cared, PumpHolds, Settling
<1> QED BY <1>3, <1>4, <1>5, <1>6 DEF RInv

LEMMA RunnerNextInv == IInv /\ RInv /\ [RunnerNext]_allVars => RInv'
<1> SUFFICES ASSUME IInv, RInv, [RunnerNext]_allVars PROVE RInv'
  OBVIOUS
<1>1. CASE PumpStep
  BY <1>1, PumpStepInv
<1>2. CASE \E j \in Job :
          HeartbeatStep(j) \/ SettlementStep(j) \/ ThreadStep(j) \/ CancelSignalled(j)
  BY <1>2, JobStepInv
<1>3. CASE FaultStep
  BY <1>3, FaultStepInv
<1>4. CASE ShutdownStep
  BY <1>4, ShutdownStepInv
<1>5. CASE /\ Registration \/ (Outside /\ UNCHANGED runnerVars) \/ UNCHANGED allVars
           /\ ~StartsElsewhere
  <2>1. AllSteady
    BY <1>5, RegistrationSteady, OutsideSteady, QuietIsSteady DEF AllSteady, allVars
  <2>2. UNCHANGED <<stage, pump, registry, local, remaining, faults>>
    BY <1>5 DEF Registration, runnerVars, allVars
  <2>3. StageTypes' /\ StageMoves
    BY <2>2 DEF RInv, StageTypes, StageMoves
  <2> QED BY <2>1, <2>2, <2>3, StillInv
<1>6. CASE StartsElsewhere /\ UNCHANGED runnerVars
  BY <1>6, ElsewhereInv
<1>7. Registration \/ UNCHANGED allVars => UNCHANGED runnerVars
  BY DEF Registration, runnerVars, allVars
<1> QED BY <1>1, <1>2, <1>3, <1>4, <1>5, <1>6, <1>7 DEF RunnerNext

LEMMA RunnerInitInv == RunnerInit => RInv
<1> SUFFICES ASSUME RunnerInit PROVE RInv
  OBVIOUS
<1>1. <<>> \in Seq(Local) /\ Len(<<>>) = 0 /\ DOMAIN <<>> = {}
  OBVIOUS
<1>2. /\ registry = [j \in Job |-> 0] /\ local = [j \in Job |-> <<>>]
      /\ remaining = {} /\ stage = "up" /\ pump = IdlePump /\ faults = 0
      /\ jobs = [j \in Job |-> AbsentRow]
  BY DEF RunnerInit, Init
<1>3. EntryTypes
  BY <1>1, <1>2 DEF EntryTypes, Registered
<1>4. EntriesFit
  BY <1>1, <1>2 DEF EntriesFit, CurrentAttempt, AbsentRow
<1>5. PumpFits
  BY <1>2 DEF IdlePump, PumpFits, PumpTypes, HoldsNewest, VictimStopped, HoldingPlace, PumpPlace
<1>6. Caring
  BY <1>2 DEF Caring, Open, AbsentRow
<1>7. StageTypes
  BY <1>2, RunnerAssumption DEF StageTypes
<1> QED BY <1>3, <1>4, <1>5, <1>6, <1>7 DEF RInv, NothingDropped

\* The strengthened invariant holds of every behaviour of a process and its store.
THEOREM RInvAlways == RunnerSpec => []RInv
<1>1. RunnerSpec => []IInv
  BY RunnerImplementsStore, IInvAlways, PTL
<1> QED BY <1>1, RunnerInitInv, RunnerNextInv, PTL DEF RunnerSpec

\* Every variable of the process keeps its type, and the registry names entries
\* that exist.
THEOREM RunnerTypeCorrect == RunnerSpec => []RunnerTypeOK
<1>1. RInv => RunnerTypeOK
  BY DEF RInv, StageTypes, PumpFits, PumpTypes, EntryTypes, RunnerTypeOK
<1> QED BY <1>1, RInvAlways, PTL

\* Without failed calls the process drops no job it claimed, with any number of
\* jobs, attempts and other processes.
THEOREM NoJobDropped == RunnerSpec => []RunningIsTended
<1>1. IInv /\ RInv => RunningIsTended
  <2> SUFFICES ASSUME IInv, RInv, faults = 0, Alive, NEW j \in Job, Open(j)
               PROVE Tended(j, CurrentAttempt(j))
    BY DEF RunningIsTended, RunsHere, Open
  <2>1. Cared(j) /\ CurrentAttempt(j) # 0
    <3>1. RowMatches(jobs[j], attempts[j]) /\ attempts[j] \in Seq(Attempt)
      BY DEF IInv, RowsOK
    <3>2. CurrentAttempt(j) # 0
      BY <3>1, LenProperties DEF RowMatches, CurrentAttempt, Open
    <3> QED BY <3>2 DEF RInv, NothingDropped, Caring
  <2>2. ASSUME registry[j] = CurrentAttempt(j), registry[j] # 0
        PROVE Tended(j, CurrentAttempt(j))
    <3>1. registry[j] \in DOMAIN local[j]
      BY <2>2 DEF RInv, EntryTypes, Registered
    <3>2. Fits(j, registry[j], local[j][registry[j]])
      BY <3>1 DEF RInv, EntriesFit
    <3> QED BY <2>2, <3>1, <3>2 DEF Fits, Tended, Settling
  <2> QED BY <2>1, <2>2 DEF Cared, Tended, Settling
<1>2. RunnerSpec => []IInv
  BY RunnerImplementsStore, IInvAlways, PTL
<1> QED BY <1>1, <1>2, RInvAlways, PTL

\* A thread the registry forgot computes for an attempt that is over.
THEOREM ForgottenSettleNothing == RunnerSpec => []ForgottenThreadsLostTheirJob
<1>1. IInv /\ RInv => ForgottenThreadsLostTheirJob
  <2> SUFFICES ASSUME IInv, RInv, NEW j \in Job, NEW a \in DOMAIN local[j],
                      local[j][a].thread = "computing", registry[j] # a,
                      CurrentAttempt(j) = a
               PROVE FALSE
    BY DEF ForgottenThreadsLostTheirJob
  <2>1. Fits(j, a, local[j][a]) /\ CurrentAttempt(j) \in Nat
    BY AttemptCounts DEF RInv, EntriesFit
  <2> QED BY <2>1 DEF Fits
<1>2. RunnerSpec => []IInv
  BY RunnerImplementsStore, IInvAlways, PTL
<1> QED BY <1>1, <1>2, RInvAlways, PTL

\* When the shutdown returns no registered thread computes, whatever claims and
\* preemptions were awaited when it began.
THEOREM NothingComputesAfterShutdown == RunnerSpec => []StoppedComputesNothing
<1>1. RInv => StoppedComputesNothing
  <2> SUFFICES ASSUME RInv, stage = "stopped", NEW j \in Registered
               PROVE local[j][registry[j]].thread # "computing"
    BY DEF StoppedComputesNothing
  <2>1. j \in Job /\ registry[j] \in DOMAIN local[j]
    BY DEF RInv, EntryTypes, Registered
  <2> QED BY <2>1 DEF RInv, EntriesFit, Fits
<1> QED BY <1>1, RInvAlways, PTL
=============================================================================
