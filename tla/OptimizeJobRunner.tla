------------------------- MODULE OptimizeJobRunner -------------------------
(***************************************************************************)
(* One worker process and the job store it calls: the pump that claims and *)
(* preempts, the worker threads and their registry activeAttempts,         *)
(* heartbeats, the settlement of each attempt, and shutdown.               *)
(*                                                                         *)
(* An action is what the process does between two awaits, or the store     *)
(* call it awaits: the call's transaction is the action of                 *)
(* OptimizeJobQueue, conjoined with what the process does with the answer. *)
(* Between them anything else may run.  A call may fail, before or after   *)
(* its commit.  Stage reports of a running attempt are left out: they      *)
(* change neither the row's status nor the process's decisions.            *)
(***************************************************************************)
EXTENDS OptimizeJobQueue

CONSTANTS
    Me,          \* processWorkerId
    \* Bounds of the model:
    FaultBound,     \* failed calls, crashes and missed deadlines
    ThreadOutcome,  \* how threads end
    RivalPlan,      \* how other processes settle
    Disturbed       \* which jobs are cancelled, lose a lease or run too long

\* What a settlement is about to write.
Plan == {"complete", "fail", "transient", "timed_out", "worker_crash",
         "lease_lost", "release", "cancel"}

ASSUME RunnerAssumption ==
    /\ Me \in Worker
    /\ FaultBound \in Nat
    /\ ThreadOutcome \subseteq {"complete", "fail", "transient", "worker_crash"}
    /\ RivalPlan \subseteq Plan
    /\ Disturbed \subseteq Job \X {"cancel", "lease", "timeout"}

VARIABLES
    stage,       \* "up", "draining", "forcing", "stopped", "gone"
    pump,        \* where pumpQueue awaits
    registry,    \* [Job -> Nat], attempt in activeAttempts, 0 for none
    local,       \* [Job -> Seq(Local)], ActiveAttempt objects by attempt number
    remaining,   \* attempts the shutdown waits for
    faults

runnerVars == <<stage, pump, registry, local, remaining, faults>>
allVars == <<jobs, attempts, holds, letters, replayedAs, streak, live,
             stage, pump, registry, local, remaining, faults>>

-----------------------------------------------------------------------------
(* State of the process *)

Local ==
    [thread: {"none", "computing", "ended"},
     renewing: BOOLEAN,                       \* leaseRenewalEnabled
     settling: BOOLEAN,
     plan: Plan \cup {"none"},
     phase: {"idle", "read", "write", "done"},
     beat: {"idle", "asked", "refused"}]      \* heartbeatBusy

NoLocal == [thread |-> "none", renewing |-> FALSE, settling |-> FALSE,
            plan |-> "none", phase |-> "idle", beat |-> "idle"]

Spawned == [NoLocal EXCEPT !.thread = "computing", !.renewing = TRUE]

\* The entries of a job with a new one for attempt a; an attempt that never got
\* a thread has none.
WithSpawned(entries, a) ==
    [b \in 1..a |-> IF b = a THEN Spawned
                    ELSE IF b \in DOMAIN entries THEN entries[b] ELSE NoLocal]

PumpPlace == {"idle", "claim", "claimed", "preempt", "preempted", "release",
              "worker_crash"}

IdlePump == [at |-> "idle", job |-> NoJob, attempt |-> 0, candidates |-> {},
             victim |-> NoJob]

accepting == stage = "up"
Alive == stage # "gone"

Registered == {j \in Job : registry[j] # 0}

\* The guard of every settling function: not settling, and still registered.
MayStop(j, a) == registry[j] = a /\ ~local[j][a].settling

\* settling = true, lease renewal and hard timeout off, the thread terminated.
Stopping(entry, plan) ==
    [entry EXCEPT !.thread = "ended", !.renewing = FALSE, !.settling = TRUE,
                  !.plan = plan, !.phase = IF plan = "cancel" THEN "write" ELSE "read"]

\* Faulty: the entry of a newer attempt of the job is removed as well.
FinishByJob(j, a) ==
    /\ registry' = [registry EXCEPT ![j] = 0]
    /\ local' = [local EXCEPT ![j][a] =
                    [NoLocal EXCEPT !.thread = "ended", !.phase = "done",
                                    !.settling = TRUE, !.beat = local[j][a].beat]]

\* finishAttempt, and the lease renewal switched off before it.
Finish(j, a) ==
    /\ registry' = [registry EXCEPT ![j] = IF @ = a THEN 0 ELSE @]
    /\ local' = [local EXCEPT ![j][a] =
                    [NoLocal EXCEPT !.thread = "ended", !.phase = "done",
                                    !.settling = TRUE, !.beat = local[j][a].beat]]

Fault == faults < FaultBound /\ faults' = faults + 1

StoreUnchanged ==
    UNCHANGED <<jobs, attempts, holds, letters, replayedAs, streak, live>>

-----------------------------------------------------------------------------
(* The pump: spawnAvailableWorkers, preemptLocalFreeAttemptForPaid *)

Candidates ==
    {j \in Registered : ~local[j][registry[j]].settling /\ IsFree(j)}

NoClaim ==
    \/ HasHigherPriorityPeer(Me)
    \/ Cardinality(With("running")) >= MaxGlobalRunning
    \/ \A j \in Job : ~Claimable(j)

\* The loop of claims runs while there is a free slot.
PumpClaims ==
    /\ pump.at = "idle"
    /\ accepting
    /\ Cardinality(Registered) < Concurrency[Me]
    /\ pump' = [IdlePump EXCEPT !.at = "claim"]
    /\ UNCHANGED <<stage, registry, local, remaining, faults>>
    /\ StoreUnchanged

ClaimCommits ==
    /\ pump.at = "claim"
    /\ \E j \in Job :
          /\ ClaimNextJob(Me, j)
          /\ pump' = [IdlePump EXCEPT !.at = "claimed", !.job = j,
                                      !.attempt = CurrentAttempt(j) + 1]
    /\ UNCHANGED <<stage, registry, local, remaining, faults>>

\* Faulty: preemption waits until no local slot is free.
PumpPreemptsWhenFull ==
    /\ \/ pump.at = "idle" /\ Cardinality(Registered) >= Concurrency[Me]
       \/ pump.at = "claim" /\ NoClaim
    /\ pump' = IF accepting /\ Candidates # {} /\ pump.at = "idle"
               THEN [IdlePump EXCEPT !.at = "preempt", !.candidates = Candidates]
               ELSE IdlePump
    /\ pump' # pump
    /\ UNCHANGED <<stage, registry, local, remaining, faults>>
    /\ StoreUnchanged

\* Then the loop of preemptions, when no slot is free or nothing was claimed.
PumpPreempts ==
    /\ \/ pump.at = "idle" /\ Cardinality(Registered) >= Concurrency[Me]
       \/ pump.at = "claim" /\ NoClaim
    /\ pump' = IF accepting /\ Candidates # {}
               THEN [IdlePump EXCEPT !.at = "preempt", !.candidates = Candidates]
               ELSE IdlePump
    /\ pump' # pump
    /\ UNCHANGED <<stage, registry, local, remaining, faults>>
    /\ StoreUnchanged

PreemptCommits ==
    /\ pump.at = "preempt"
    /\ \E paid \in Job, victim \in pump.candidates :
          /\ PreemptFreeJobForPaid(Me, paid, victim)
          /\ pump' = [IdlePump EXCEPT !.at = "preempted", !.job = paid,
                                      !.attempt = CurrentAttempt(paid) + 1,
                                      !.victim = victim]
    /\ UNCHANGED <<stage, registry, local, remaining, faults>>

\* The thread of a victim is terminated; a settlement that began in the
\* meantime goes on.
Preempted(entry) ==
    [entry EXCEPT !.thread = "ended", !.renewing = FALSE, !.settling = TRUE,
                  !.phase = IF @ = "idle" THEN "done" ELSE @]

\* And the registry forgets it.
StopVictim ==
    /\ pump.at = "preempted"
    /\ pump' = [pump EXCEPT !.at = "claimed", !.victim = NoJob]
    /\ LET j == pump.victim
           a == registry[j]
       IN IF a = 0 THEN UNCHANGED <<registry, local>>
          ELSE /\ registry' = [registry EXCEPT ![j] = 0]
               /\ local' = [local EXCEPT ![j][a] = Preempted(@)]
    /\ UNCHANGED <<stage, remaining, faults>>
    /\ StoreUnchanged

NothingPreempted ==
    /\ pump.at = "preempt"
    /\ ~\E paid \in Job, victim \in pump.candidates :
           /\ ~HasHigherPriorityPeer(Me)
           /\ Cardinality(With("running")) >= EffectiveCapacity
           /\ PaidCandidate(paid)
           /\ Owns(victim, CurrentAttempt(victim), Me)
           /\ ~jobs[victim].cancel_requested
    /\ pump' = IdlePump
    /\ UNCHANGED <<stage, registry, local, remaining, faults>>
    /\ StoreUnchanged

\* Faulty: a claim that arrives after shutdown began is started.
SpawnAlways ==
    /\ pump.at = "claimed"
    /\ Alive
    /\ registry' = [registry EXCEPT ![pump.job] = pump.attempt]
    /\ local' = [local EXCEPT ![pump.job] = WithSpawned(@, pump.attempt)]
    /\ pump' = IdlePump
    /\ UNCHANGED <<stage, remaining, faults>>
    /\ StoreUnchanged

\* spawnObservedWorker; the registry forgets an older attempt of the job.
Spawn ==
    /\ pump.at = "claimed"
    /\ accepting
    /\ registry' = [registry EXCEPT ![pump.job] = pump.attempt]
    /\ local' = [local EXCEPT ![pump.job] = WithSpawned(@, pump.attempt)]
    /\ pump' = IdlePump
    /\ UNCHANGED <<stage, remaining, faults>>
    /\ StoreUnchanged

\* Faulty: a claim that arrives after shutdown began is only dropped.
GiveBackNothing(plan) ==
    /\ pump.at = "claimed"
    /\ \/ plan = "release" /\ ~accepting /\ UNCHANGED faults
       \/ plan = "worker_crash" /\ accepting /\ Fault
    /\ pump' = IF plan = "release" THEN IdlePump ELSE [pump EXCEPT !.at = plan]
    /\ UNCHANGED <<stage, registry, local, remaining>>
    /\ StoreUnchanged

\* A claim that arrives after shutdown began is given back; one whose thread
\* cannot be created is retried.
GiveBack(plan) ==
    /\ pump.at = "claimed"
    /\ \/ plan = "release" /\ ~accepting /\ UNCHANGED faults
       \/ plan = "worker_crash" /\ accepting /\ Fault
    /\ pump' = [pump EXCEPT !.at = plan]
    /\ UNCHANGED <<stage, registry, local, remaining>>
    /\ StoreUnchanged

-----------------------------------------------------------------------------
(* Writes to the store *)

RetryKindOf(plan) == IF plan \in {"timed_out", "lease_lost"} THEN plan ELSE "failed"

\* The call of a settlement, accepted by the store ...
SettledBy(w, j, a, plan) ==
    \/ plan = "complete" /\ CompleteAttempt(j, a, w)
    \/ plan = "fail" /\ FailAttempt(j, a, w)
    \/ /\ plan \in {"transient", "worker_crash", "timed_out", "lease_lost"}
       /\ RetryFailedAttempt(j, a, w, RetryKindOf(plan))
    \/ plan = "release" /\ ReleaseInterruptedAttempt(j, a, w)
    \/ plan = "cancel" /\ CancelAttempt(j, a, w)

Accepted(j, a, plan) == SettledBy(Me, j, a, plan)

\* ... or refused, because the attempt no longer decides.
Refused(j, a, plan) ==
    /\ CASE plan = "release" -> ~Owns(j, a, Me)
         [] plan = "cancel" -> ~(Owns(j, a, Me) /\ jobs[j].cancel_requested)
         [] OTHER -> ~Settles(j, a, Me)
    /\ StoreUnchanged

GiveBackWrites ==
    /\ pump.at \in {"release", "worker_crash"}
    /\ Accepted(pump.job, pump.attempt, pump.at) \/ Refused(pump.job, pump.attempt, pump.at)
    /\ pump' = IdlePump
    /\ UNCHANGED <<stage, registry, local, remaining, faults>>

\* A call of the pump fails or its answer is lost; the claim may be committed.
PumpFails ==
    /\ pump.at # "idle"
    /\ Fault
    /\ pump' = IdlePump
    /\ UNCHANGED <<stage, registry, local, remaining>>
    /\ StoreUnchanged

-----------------------------------------------------------------------------
(* Heartbeats *)

\* Faulty: the timer of an attempt that is over still renews the lease.
BeatWhileKnown(j, a) ==
    /\ local[j][a].thread # "none"
    /\ local[j][a].beat = "idle"
    /\ local' = [local EXCEPT ![j][a].beat = "asked"]
    /\ UNCHANGED <<stage, pump, registry, remaining, faults>>
    /\ StoreUnchanged

Beat(j, a) ==
    /\ registry[j] = a
    /\ local[j][a].renewing
    /\ local[j][a].beat = "idle"
    /\ local' = [local EXCEPT ![j][a].beat = "asked"]
    /\ UNCHANGED <<stage, pump, registry, remaining, faults>>
    /\ StoreUnchanged

BeatAnswered(j, a) ==
    /\ local[j][a].beat = "asked"
    /\ \/ /\ HeartbeatAttempt(j, a, Me)
          /\ local' = [local EXCEPT ![j][a].beat = "idle"]
       \/ /\ ~Settles(j, a, Me)
          /\ local' = [local EXCEPT ![j][a].beat = "refused"]
          /\ StoreUnchanged
    /\ UNCHANGED <<stage, pump, registry, remaining, faults>>

\* Faulty: a plan no settlement knows.
MisspelledRefusalPlan(j) ==
    IF jobs[j].cancel_requested THEN "canceled" ELSE "lease_lost"

\* A refused heartbeat asks why: cancelled, or the lease is lost.
RefusalPlan(j) == IF jobs[j].cancel_requested THEN "cancel" ELSE "lease_lost"

BeatRefused(j, a) ==
    /\ local[j][a].beat = "refused"
    /\ local' = [local EXCEPT ![j][a] =
          IF MayStop(j, a)
          THEN [Stopping(@, RefusalPlan(j)) EXCEPT !.beat = "idle"]
          ELSE [@ EXCEPT !.beat = "idle"]]
    /\ UNCHANGED <<stage, pump, registry, remaining, faults>>
    /\ StoreUnchanged

\* A failed call is skipped, or ends the attempt when the lease is nearly over.
BeatFails(j, a, lastCall) ==
    /\ local[j][a].beat # "idle"
    /\ Fault
    /\ local' = [local EXCEPT ![j][a] =
          IF lastCall /\ MayStop(j, a)
          THEN [Stopping(@, "lease_lost") EXCEPT !.beat = "idle"]
          ELSE [@ EXCEPT !.beat = "idle"]]
    /\ UNCHANGED <<stage, pump, registry, remaining>>
    /\ StoreUnchanged

-----------------------------------------------------------------------------
(* Settlement *)

\* A message of the thread, its error or its exit.  An answer leaves the lease
\* renewal on while it is settled; a crash does not.
ThreadEnds(j, a, plan) ==
    /\ local[j][a].thread = "computing"
    /\ plan \in ThreadOutcome
    /\ local' = [local EXCEPT ![j][a] =
          IF ~MayStop(j, a) THEN [@ EXCEPT !.thread = "ended"]
          ELSE [Stopping(@, plan) EXCEPT !.renewing = plan # "worker_crash"]]
    /\ UNCHANGED <<stage, pump, registry, remaining, faults>>
    /\ StoreUnchanged

\* The hard timeout fires at a deadline computed from started_at of the claim.
HardTimeoutFires(j, a) ==
    /\ MayStop(j, a)
    /\ Owns(j, a, Me) => jobs[j].started = "overtime"
    /\ local' = [local EXCEPT ![j][a] = Stopping(@, "timed_out")]
    /\ UNCHANGED <<stage, pump, registry, remaining, faults>>
    /\ StoreUnchanged

\* The user's request reaches a process that also serves requests.
CancelSignalled(j) ==
    /\ registry[j] # 0
    /\ jobs[j].cancel_requested
    /\ MayStop(j, registry[j])
    /\ local' = [local EXCEPT ![j][registry[j]] = Stopping(@, "cancel")]
    /\ UNCHANGED <<stage, pump, registry, remaining, faults>>
    /\ StoreUnchanged

\* Every settlement reads the job first and cancels if that was requested.
SettlementReads(j, a) ==
    /\ local[j][a].phase = "read"
    /\ local' = [local EXCEPT
          ![j][a].phase = "write",
          ![j][a].plan = IF jobs[j].cancel_requested THEN "cancel" ELSE @]
    /\ UNCHANGED <<stage, pump, registry, remaining, faults>>
    /\ StoreUnchanged

SettlementWrites(j, a) ==
    /\ local[j][a].phase = "write"
    /\ Accepted(j, a, local[j][a].plan) \/ Refused(j, a, local[j][a].plan)
    /\ Finish(j, a)
    /\ UNCHANGED <<stage, pump, remaining, faults>>

\* A failed read or write ends the attempt in this process only.
SettlementFails(j, a) ==
    /\ local[j][a].phase \in {"read", "write"}
    /\ Fault
    /\ Finish(j, a)
    /\ UNCHANGED <<stage, pump, remaining>>
    /\ StoreUnchanged

-----------------------------------------------------------------------------
(* Shutdown *)

BeginShutdown ==
    /\ stage = "up"
    /\ stage' = "draining"
    /\ UNCHANGED <<pump, registry, local, remaining, faults>>
    /\ StoreUnchanged

Interruptible == {j \in Registered : ~local[j][registry[j]].settling}

\* The process became idle, or the grace period is over: what is registered
\* now and not settling is interrupted.
ForceShutdown ==
    /\ stage = "draining"
    /\ stage' = "forcing"
    /\ local' = [j \in Job |->
          IF j \in Interruptible
          THEN [local[j] EXCEPT ![registry[j]] = Stopping(@, "release")]
          ELSE local[j]]
    /\ remaining' = {<<j, registry[j]>> : j \in Interruptible}
    /\ UNCHANGED <<pump, registry, faults>>
    /\ StoreUnchanged

\* All interrupted attempts are finished, or five seconds are over.
EndShutdown ==
    /\ stage = "forcing"
    /\ \/ /\ \A r \in remaining : local[r[1]][r[2]].phase = "done"
          /\ UNCHANGED faults
       \/ Fault
    /\ stage' = "stopped"
    /\ UNCHANGED <<pump, registry, local, remaining>>
    /\ StoreUnchanged

\* The process is gone, and with it everything it has not written.
Gone ==
    /\ stage' = "gone"
    /\ pump' = IdlePump
    /\ registry' = [j \in Job |-> 0]
    /\ local' = [j \in Job |-> <<>>]
    /\ remaining' = {}
    /\ StoreUnchanged

Exit == stage = "stopped" /\ Gone /\ UNCHANGED faults

Crash == Alive /\ Fault /\ Gone

\* The process registers after it began to claim.  Shutdown stops the renewal
\* first and marks the row as draining last, so the row may lapse in between.
Registration ==
    /\ \/ accepting /\ RegisterWorker(Me)
       \/ ~accepting /\ LeaveRegistry(Me)
    /\ UNCHANGED runnerVars

-----------------------------------------------------------------------------
(* Specification *)

RunnerInit ==
    /\ Init
    /\ stage = "up"
    /\ pump = IdlePump
    /\ registry = [j \in Job |-> 0]
    /\ local = [j \in Job |-> <<>>]
    /\ remaining = {}
    /\ faults = 0

PumpStep ==
    \/ PumpClaims \/ ClaimCommits \/ PumpPreempts \/ PreemptCommits
    \/ NothingPreempted \/ StopVictim \/ Spawn \/ GiveBackWrites \/ GiveBack("release")

HeartbeatStep(j) ==
    \E a \in DOMAIN local[j] : Beat(j, a) \/ BeatAnswered(j, a) \/ BeatRefused(j, a)

SettlementStep(j) ==
    \E a \in DOMAIN local[j] : SettlementReads(j, a) \/ SettlementWrites(j, a)

ThreadStep(j) ==
    \E a \in DOMAIN local[j] :
        HardTimeoutFires(j, a) \/ \E plan \in Plan : ThreadEnds(j, a, plan)

FaultStep ==
    \/ PumpFails \/ GiveBack("worker_crash") \/ Crash
    \/ \E j \in Job : \E a \in DOMAIN local[j] :
          SettlementFails(j, a) \/ \E lastCall \in BOOLEAN : BeatFails(j, a, lastCall)

ShutdownStep == BeginShutdown \/ ForceShutdown \/ EndShutdown \/ Exit

Clock(j) == RetryTimeComes(j) \/ GraceElapses(j)

LeaseLapses(j) == <<j, "lease">> \in Disturbed /\ LeaseExpires(j)

Disturbance(j) ==
    \/ <<j, "cancel">> \in Disturbed /\ RequestCancel(j)
    \/ LeaseLapses(j)
    \/ <<j, "timeout">> \in Disturbed /\ HardTimeoutElapses(j)

\* Another worker process.  Its registration is left out.
RivalStep(w) ==
    \/ Dispatch(w)
    \/ \E j \in Job : \E a \in DOMAIN attempts[j] :
          HeartbeatAttempt(j, a, w) \/ \E plan \in RivalPlan : SettledBy(w, j, a, plan)

\* The users, other worker processes, the maintenance of the API process and the
\* clock.
Outside ==
    \/ \E j \in Job : AdmitJob(j) \/ Clock(j) \/ Disturbance(j)
    \/ \E u \in Account : RequestAccountDeletion(u)
    \/ RecoverCancellations
    \/ RecoverExpiredAttempts
    \/ \E w \in Worker \ {Me} : RivalStep(w)

RunnerNext ==
    \/ PumpStep
    \/ \E j \in Job :
          HeartbeatStep(j) \/ SettlementStep(j) \/ ThreadStep(j) \/ CancelSignalled(j)
    \/ FaultStep
    \/ ShutdownStep
    \/ Registration
    \/ /\ Outside
       /\ UNCHANGED runnerVars

RunnerSpec == RunnerInit /\ [][RunnerNext]_allVars

\* Timers of the process fire, awaited calls are answered, maintenance and the
\* clock go on.  Threads need not end, nothing needs to be cancelled in process
\* and no hard timeout helps.
RunnerFairness ==
    /\ WF_allVars(PumpStep)
    /\ \A j \in Job : WF_allVars(HeartbeatStep(j)) /\ WF_allVars(SettlementStep(j))
    /\ \A j \in Job : WF_allVars(LeaseLapses(j) /\ UNCHANGED runnerVars)
    /\ WF_allVars(RecoverCancellations /\ UNCHANGED runnerVars)
    /\ WF_allVars(RecoverExpiredAttempts /\ UNCHANGED runnerVars)

RunnerFairSpec == RunnerSpec /\ RunnerFairness

-----------------------------------------------------------------------------
(* Properties *)

\* Every variable keeps its type, and the registry names entries that exist.
RunnerTypeOK ==
    /\ stage \in {"up", "draining", "forcing", "stopped", "gone"}
    /\ pump \in [at: PumpPlace, job: Job \cup {NoJob}, attempt: Nat,
                 candidates: SUBSET Job, victim: Job \cup {NoJob}]
    /\ registry \in [Job -> Nat]
    /\ local \in [Job -> Seq(Local)]
    /\ \A j \in Registered : registry[j] \in DOMAIN local[j]
    /\ \A r \in remaining : r[1] \in Job /\ r[2] \in DOMAIN local[r[1]]
    /\ faults \in 0..FaultBound

RunsHere(j) == jobs[j].status = "running" /\ jobs[j].worker_id = Me

PumpHolds(j, a) ==
    /\ pump.at \in {"preempted", "claimed", "release", "worker_crash"}
    /\ pump.job = j /\ pump.attempt = a

\* Somebody in the process will settle the attempt.
Tended(j, a) ==
    \/ PumpHolds(j, a)
    \/ a \in DOMAIN local[j] /\ local[j][a].phase \in {"read", "write"}
    \/ registry[j] = a /\ local[j][a].thread = "computing"

\* Without failed calls the process drops no job it claimed, through pump,
\* preemption, settlement and shutdown.  A job cancelled between the read and
\* the write of its settlement is the one exception: the write is refused and
\* the job is left to lease recovery.
RunningIsTended ==
    faults = 0 /\ Alive =>
        \A j \in Job :
            RunsHere(j) /\ ~jobs[j].cancel_requested => Tended(j, CurrentAttempt(j))

\* A thread the registry forgot, because the job was claimed again, computes
\* for an attempt that is over: it can settle nothing.
ForgottenThreadsLostTheirJob ==
    \A j \in Job : \A a \in DOMAIN local[j] :
        local[j][a].thread = "computing" /\ registry[j] # a =>
            ~(RunsHere(j) /\ CurrentAttempt(j) = a)

\* When the shutdown returns, no registered thread computes, although claims
\* and preemptions may still have been awaited when it began.
StoppedComputesNothing ==
    stage = "stopped" =>
        \A j \in Registered : local[j][registry[j]].thread # "computing"

GivenUp(j) == RunsHere(j) /\ ~Tended(j, CurrentAttempt(j))

\* A job whose process gave it up, or died, does not stay with it: its lease
\* is not renewed for ever.
GivenUpJobsComeBack == \A j \in Job : GivenUp(j) ~> ~GivenUp(j)

\* A job this process runs is cancelled within a few heartbeats, long before its hard
\* timeout and however long its thread computes, unless the deletion of the
\* account ends it first.
CancelIsNoticed ==
    \A j \in Job :
        RunsHere(j) /\ jobs[j].cancel_requested
            ~> jobs[j].status \in {"cancelled", "withdrawn"}

\* Paid work that waited for the grace period gets a slot even if no thread
\* ever ends.
PaidWorkGetsASlot ==
    \A j \in Job : PaidCandidate(j) /\ accepting ~> ~PaidCandidate(j) \/ ~accepting
=============================================================================
