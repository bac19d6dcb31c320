-------------------------- MODULE WorkerAutoscaler --------------------------
(***************************************************************************)
(* src/server/optimize-worker-autoscaler.ts: every API process runs the    *)
(* autoscaler as a background worker; a run takes an advisory lock, reads  *)
(* the load of the queue, asks the cloud for the status of the one worker  *)
(* instance, and may start or stop it.  Each await is a step of its own,   *)
(* so jobs come and go, the instance boots or halts, another process takes *)
(* its turn, or this one ends, between any two of them.  The idle window   *)
(* and the power operation asked for last are variables of the process.    *)
(*                                                                         *)
(* The cloud (aliyun-ecs-worker-controller.ts is a client of it) refuses   *)
(* to start an instance that is not stopped and to stop one that is not    *)
(* running, and may report a status the client calls unknown.  A call may  *)
(* fail, with or without its effect: a call that times out takes effect at *)
(* once or never, and a status shows every call before it.  The session    *)
(* that holds the lock is lost only when its process ends.                 *)
(***************************************************************************)
EXTENDS BackgroundWorker

CONSTANTS
    MaxJobs,                \* bound on the jobs that are not finished
    ScaleUp, ScaleDown,     \* thresholds of the number of queued jobs
    FaultBound, ExitBound,  \* bounds on failing calls and on ends of processes
    Nobody

ASSUME ThresholdAssumption ==
    /\ MaxJobs \in Nat /\ ScaleUp \in Nat /\ ScaleDown \in Nat
    /\ ScaleDown <= ScaleUp
    /\ Nobody \notin Host

VARIABLES
    queued, attempts,       \* how many jobs wait, and how many run anywhere
    instance,               \* what the cloud does with the worker's instance
    leader,                 \* the holder of the advisory lock
    tick,                   \* where each process is in its run
    load,                   \* what its run read of the queue
    lowQueueSince,          \* whether an idle window is open
    powerOperation,
    faults, exits

faultVars == <<faults, exits>>
queueVars == <<queued, attempts>>
memory == <<lowQueueSince, powerOperation>>
autoscalerVars == <<runtimeVars, queueVars, instance, leader, tick, load, memory, faultVars>>

Load == [queued : 0 .. MaxJobs, running : BOOLEAN]
Unread == [queued |-> 0, running |-> FALSE]
CloudStatus == {"stopped", "starting", "running", "stopping"}

AutoscalerTypeOK ==
    /\ RuntimeTypeOK
    /\ queued \in 0 .. MaxJobs /\ attempts \in 0 .. MaxJobs
    /\ instance \in CloudStatus
    /\ leader \in Host \cup {Nobody}
    /\ tick \in [Host -> {"none", "lock", "load", "status", "start", "stop"}]
    /\ load \in [Host -> Load]
    /\ lowQueueSince \in [Host -> BOOLEAN]
    /\ powerOperation \in [Host -> {"none", "start", "stop"}]
    /\ faults \in 0 .. FaultBound /\ exits \in 0 .. ExitBound

AutoscalerInit ==
    /\ RuntimeInit
    /\ queued = 0 /\ attempts = 0
    /\ instance = "stopped"
    /\ leader = Nobody
    /\ tick = [h \in Host |-> "none"]
    /\ load = [h \in Host |-> Unread]
    /\ lowQueueSince = [h \in Host |-> FALSE]
    /\ powerOperation = [h \in Host |-> "none"]
    /\ faults = 0 /\ exits = 0

-----------------------------------------------------------------------------
Goes(h, place) == tick' = [tick EXCEPT ![h] = place]

\* Faulty: a run that fails keeps the lock.
LeavesLocked(h, ok) ==
    /\ RunEnds(h, ok)
    /\ Goes(h, "none")
    /\ leader' = IF leader = h /\ ok THEN Nobody ELSE leader
    /\ load' = [load EXCEPT ![h] = Unread]

\* The run is over: the lock is released and the load forgotten.
Leaves(h, ok) ==
    /\ RunEnds(h, ok)
    /\ Goes(h, "none")
    /\ leader' = IF leader = h THEN Nobody ELSE leader
    /\ load' = [load EXCEPT ![h] = Unread]

StartProcess(h) ==
    /\ Initialize(h)
    /\ Goes(h, "lock")
    /\ UNCHANGED <<queueVars, instance, leader, load, memory, faultVars>>

Wakes(h) ==
    /\ TimerFires(h)
    /\ Goes(h, "lock")
    /\ UNCHANGED <<queueVars, instance, leader, load, memory, faultVars>>

\* Faulty: the run does not ask for the lock.
TakesLeadAlways(h) ==
    /\ tick[h] = "lock"
    /\ leader' = h
    /\ Goes(h, "load")
    /\ UNCHANGED <<runtimeVars, queueVars, instance, load, memory, faultVars>>

TakesLead(h) ==
    /\ tick[h] = "lock"
    /\ leader = Nobody
    /\ leader' = h
    /\ Goes(h, "load")
    /\ UNCHANGED <<runtimeVars, queueVars, instance, load, memory, faultVars>>

LeadIsTaken(h) ==
    /\ tick[h] = "lock"
    /\ leader # Nobody
    /\ Leaves(h, TRUE)
    /\ UNCHANGED <<queueVars, instance, memory, faultVars>>

ReadLoad(h) ==
    /\ tick[h] = "load"
    /\ load' = [load EXCEPT ![h] = [queued |-> queued, running |-> attempts > 0]]
    /\ Goes(h, "status")
    /\ UNCHANGED <<runtimeVars, queueVars, instance, leader, memory, faultVars>>

\* A power operation is forgotten once the status it leads to is seen.
PowerAfter(h, status) ==
    IF \/ status = "running" /\ powerOperation[h] = "start"
       \/ status = "stopped" /\ powerOperation[h] = "stop"
    THEN "none" ELSE powerOperation[h]

\* What the run makes of the status: what to call next, and the idle window it leaves.  A
\* window that was open may have been for scaleDownIdleMs by now.
Decision(h, status, longEnough) ==
    LET high == load[h].queued > ScaleUp
        idle == load[h].queued <= ScaleDown /\ status # "stopped"
        power == PowerAfter(h, status)
    IN  [call |-> CASE high /\ power # "start" /\ status = "stopped" -> "start"
                    [] /\ idle /\ longEnough /\ ~load[h].running
                       /\ status = "running" /\ power # "stop" -> "stop"
                    [] OTHER -> "none",
         window |-> idle,
         power |-> power]

ReadStatus(h) ==
    \E status \in {instance, "unknown"}, longEnough \in {FALSE, lowQueueSince[h]} :
        LET decision == Decision(h, status, longEnough)
        IN  /\ tick[h] = "status"
            /\ status = "unknown" => faults < FaultBound
            /\ faults' = faults + IF status = "unknown" THEN 1 ELSE 0
            /\ powerOperation' = [powerOperation EXCEPT ![h] = decision.power]
            /\ lowQueueSince' = [lowQueueSince EXCEPT ![h] = decision.window]
            /\ load' = [load EXCEPT ![h] = Unread]
            /\ \/ /\ decision.call = "none"
                  /\ Leaves(h, TRUE)
               \/ /\ decision.call # "none"
                  /\ Goes(h, decision.call)
                  /\ UNCHANGED <<runtimeVars, leader>>
            /\ UNCHANGED <<queueVars, instance, exits>>

\* The call is answered: the cloud refuses it when the instance is in another state.
StartInstance(h) ==
    /\ tick[h] = "start"
    /\ \/ /\ instance = "stopped"
          /\ instance' = "starting"
          /\ powerOperation' = [powerOperation EXCEPT ![h] = "start"]
          /\ Leaves(h, TRUE)
       \/ /\ instance # "stopped"
          /\ Leaves(h, FALSE)
          /\ UNCHANGED <<instance, powerOperation>>
    /\ UNCHANGED <<queueVars, lowQueueSince, faultVars>>

StopInstance(h) ==
    /\ tick[h] = "stop"
    /\ \/ /\ instance = "running"
          /\ instance' = "stopping"
          /\ powerOperation' = [powerOperation EXCEPT ![h] = "stop"]
          /\ lowQueueSince' = [lowQueueSince EXCEPT ![h] = FALSE]
          /\ Leaves(h, TRUE)
       \/ /\ instance # "running"
          /\ Leaves(h, FALSE)
          /\ UNCHANGED <<instance, memory>>
    /\ UNCHANGED <<queueVars, faultVars>>

\* A query or a call fails; of a call to the cloud only the answer may be lost.
CallFails(h) ==
    /\ tick[h] \in {"load", "status", "start", "stop"}
    /\ faults < FaultBound
    /\ faults' = faults + 1
    /\ instance' \in {instance}
            \cup {"starting" : t \in {tick[h]} \cap {"start"}}
            \cup {"stopping" : t \in {tick[h]} \cap {"stop"}}
    /\ instance' # instance => instance = IF tick[h] = "start" THEN "stopped" ELSE "running"
    /\ Leaves(h, FALSE)
    /\ UNCHANGED <<queueVars, memory, exits>>

\* The process shuts down: no timer is left, a run in flight goes on.
StopWorker(h) ==
    /\ exits < ExitBound
    /\ exits' = exits + 1
    /\ Stop(h)
    /\ UNCHANGED <<queueVars, instance, leader, tick, load, memory, faults>>

\* It ends, after a shutdown or a failed start or at any time; its memory is lost and its
\* session with the database gives the lock back.
EndProcess(h) ==
    /\ Exit(h)
    /\ \/ ~stopped[h] /\ exits < ExitBound /\ exits' = exits + 1
       \/ stopped[h] /\ UNCHANGED exits
    /\ Goes(h, "none")
    /\ leader' = IF leader = h THEN Nobody ELSE leader
    /\ load' = [load EXCEPT ![h] = Unread]
    /\ lowQueueSince' = [lowQueueSince EXCEPT ![h] = FALSE]
    /\ powerOperation' = [powerOperation EXCEPT ![h] = "none"]
    /\ UNCHANGED <<queueVars, instance, faults>>

-----------------------------------------------------------------------------
(* The queue, its workers and the cloud. *)
Outside == UNCHANGED <<runtimeVars, leader, tick, load, memory, faultVars>>

Enqueue ==
    /\ queued + attempts < MaxJobs
    /\ queued' = queued + 1
    /\ Outside /\ UNCHANGED <<attempts, instance>>

\* A job is claimed by the instance, or by a process that computes jobs itself.
Claim ==
    /\ queued > 0
    /\ queued' = queued - 1
    /\ attempts' = attempts + 1
    /\ Outside /\ UNCHANGED instance

\* It ends, or is interrupted and waits again.
Settle ==
    /\ attempts > 0
    /\ attempts' = attempts - 1
    /\ queued' \in {queued, queued + 1}
    /\ Outside /\ UNCHANGED instance

Boot ==
    /\ instance = "starting"
    /\ instance' = "running"
    /\ Outside /\ UNCHANGED queueVars

Halt ==
    /\ instance = "stopping"
    /\ instance' = "stopped"
    /\ Outside /\ UNCHANGED queueVars

\* What a run in flight does next.
TickStep(h) ==
    \/ LeadIsTaken(h)
    \/ ReadLoad(h)
    \/ ReadStatus(h)
    \/ StartInstance(h)
    \/ StopInstance(h)

AutoscalerNext ==
    \/ \E h \in Host : \/ StartProcess(h)
                       \/ Wakes(h)
                       \/ TakesLead(h)
                       \/ TickStep(h)
                       \/ CallFails(h)
                       \/ StopWorker(h)
                       \/ EndProcess(h)
    \/ Enqueue
    \/ Claim
    \/ Settle
    \/ Boot
    \/ Halt

\* Timers fire, calls are answered, a process that ended or could not start is started again,
\* and the instance gets to the state it was asked for.  A run holds the lock for moments and
\* the timers carry a jitter, so a process that tries for ever also finds the lock free, and
\* gets it before another one does.
AutoscalerFairness ==
    /\ \A h \in Host : /\ WF_autoscalerVars(StartProcess(h))
                       /\ SF_autoscalerVars(leader = Nobody /\ Wakes(h))
                       /\ SF_autoscalerVars(TakesLead(h))
                       /\ WF_autoscalerVars(TickStep(h))
                       /\ WF_autoscalerVars(stopped[h] /\ EndProcess(h))
    /\ WF_autoscalerVars(Boot)
    /\ WF_autoscalerVars(Halt)

AutoscalerSpec == AutoscalerInit /\ [][AutoscalerNext]_autoscalerVars
AutoscalerFairSpec == AutoscalerSpec /\ AutoscalerFairness

-----------------------------------------------------------------------------
(***************************************************************************)
(* Properties.                                                             *)
(***************************************************************************)

\* A run that is about to start the instance is about to start a stopped one, and a run that
\* is about to stop it a running one: between its look at the status and its call no other
\* process, and no operation still on its way, has changed what it saw.  A cloud that
\* applied a call after it timed out, or reported an old status, is not considered.
PowerCallsFitInstance ==
    \A h \in Host :
        /\ tick[h] = "start" => instance = "stopped"
        /\ tick[h] = "stop" => instance = "running"

\* Work that waits above the threshold gets the instance, or is worked off below it, whatever
\* each process remembers of its own earlier power operations, and though calls fail, their
\* answers are lost and processes restart.
WaitingWorkGetsAnInstance ==
    queued > ScaleUp
        ~> (instance = "running" \/ queued <= ScaleUp)
=============================================================================
