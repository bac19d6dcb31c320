----------------------- MODULE WorkerAutoscalerProofs -----------------------
(***************************************************************************)
(* For any number of API processes and any thresholds: the advisory lock   *)
(* makes the look at the instance and the call that follows it one step,   *)
(* and no run of the background worker begins once it was stopped.         *)
(***************************************************************************)
EXTENDS WorkerAutoscaler, TLAPS

\* A run that is past the lock holds it.
LockHeld == \A h \in Host : tick[h] \in {"load", "status", "start", "stop"} => leader = h

\* A timer is only set on a worker that was not stopped.
TimersAreWanted == \A h \in Host : timer[h] => ~stopped[h]

\* The inductive invariant.  Which types it needs: those of what is indexed by the host.
ProcessTypes ==
    /\ RuntimeTypeOK
    /\ tick \in [Host -> {"none", "lock", "load", "status", "start", "stop"}]

AutoscalerInv ==
    /\ ProcessTypes
    /\ LockHeld
    /\ TimersAreWanted
    /\ PowerCallsFitInstance

LEMMA InitSound == AutoscalerInit => AutoscalerInv
BY DEF AutoscalerInit, RuntimeInit, AutoscalerInv, ProcessTypes, RuntimeTypeOK, LockHeld,
       TimersAreWanted, PowerCallsFitInstance

\* What the steps of the background worker do to its variables.
LEMMA RuntimeStep ==
    ASSUME RuntimeTypeOK, TimersAreWanted, NEW h \in Host,
           \/ Initialize(h) \/ TimerFires(h) \/ Stop(h) \/ Exit(h)
           \/ \E ok \in BOOLEAN : RunEnds(h, ok)
    PROVE  RuntimeTypeOK' /\ TimersAreWanted'
<1>1. CASE Initialize(h)
  BY <1>1 DEF Initialize, RuntimeTypeOK, TimersAreWanted
<1>2. CASE TimerFires(h)
  BY <1>2 DEF TimerFires, RuntimeTypeOK, TimersAreWanted
<1>3. CASE Stop(h)
  BY <1>3 DEF Stop, RuntimeTypeOK, TimersAreWanted
<1>4. CASE Exit(h)
  BY <1>4 DEF Exit, RuntimeTypeOK, TimersAreWanted
<1>5. ASSUME NEW ok \in BOOLEAN, RunEnds(h, ok) PROVE RuntimeTypeOK' /\ TimersAreWanted'
  <2>1. stopped'[h] \in BOOLEAN /\ initialized'[h] \in BOOLEAN /\ timer'[h] \in BOOLEAN
    BY <1>5, Zenon DEF RunEnds, RuntimeTypeOK
  <2>2. RuntimeTypeOK'
    BY <1>5 DEF RunEnds, RuntimeTypeOK
  <2>3. timer'[h] => ~stopped'[h]
    BY <1>5 DEF RunEnds, RuntimeTypeOK
  <2>4. \A g \in Host \ {h} : timer'[g] = timer[g] /\ stopped'[g] = stopped[g]
    BY <1>5 DEF RunEnds, RuntimeTypeOK
  <2> QED BY <2>2, <2>3, <2>4 DEF TimersAreWanted
<1> QED BY <1>1, <1>2, <1>3, <1>4, <1>5

\* A run that ends leaves its critical section, and with it the lock.
LEMMA LeavesSound ==
    ASSUME AutoscalerInv, NEW h \in Host, NEW ok \in BOOLEAN, Leaves(h, ok)
    PROVE  /\ RuntimeTypeOK' /\ TimersAreWanted' /\ LockHeld'
           /\ tick' = [tick EXCEPT ![h] = "none"]
           /\ \A g \in Host \ {h} : tick'[g] \in {"start", "stop"} => leader = g
<1>1. RuntimeTypeOK' /\ TimersAreWanted'
  BY RuntimeStep DEF AutoscalerInv, ProcessTypes, Leaves
<1>2. tick' = [tick EXCEPT ![h] = "none"]
  BY DEF Leaves, Goes
<1>3. LockHeld'
  BY <1>2 DEF AutoscalerInv, LockHeld, ProcessTypes, Leaves
<1>4. \A g \in Host \ {h} : tick'[g] \in {"start", "stop"} => leader = g
  BY <1>2 DEF AutoscalerInv, LockHeld, ProcessTypes
<1> QED BY <1>1, <1>2, <1>3, <1>4

\* Two runs are never past the lock at once, so a step of the run that holds it leaves no
\* other one about to call.
LEMMA AloneInside ==
    ASSUME AutoscalerInv, NEW h \in Host, leader = h
    PROVE  \A g \in Host \ {h} : tick[g] \notin {"start", "stop"}
BY DEF AutoscalerInv, LockHeld

LEMMA StepSound == AutoscalerInv /\ [AutoscalerNext]_autoscalerVars => AutoscalerInv'
<1> SUFFICES ASSUME AutoscalerInv, [AutoscalerNext]_autoscalerVars PROVE AutoscalerInv'
  OBVIOUS
<1> USE DEF AutoscalerInv, ProcessTypes
<1>1. ASSUME NEW h \in Host, StartProcess(h) \/ Wakes(h) PROVE AutoscalerInv'
  <2>1. RuntimeTypeOK' /\ TimersAreWanted'
    BY <1>1, RuntimeStep DEF StartProcess, Wakes
  <2> QED BY <1>1, <2>1 DEF StartProcess, Wakes, Goes, LockHeld, PowerCallsFitInstance
<1>2. ASSUME NEW h \in Host, TakesLead(h) PROVE AutoscalerInv'
  <2>1. RuntimeTypeOK' /\ TimersAreWanted'
    BY <1>2 DEF TakesLead, runtimeVars, RuntimeTypeOK, TimersAreWanted
  <2>2. \A g \in Host : tick[g] \notin {"load", "status", "start", "stop"}
    BY <1>2, ThresholdAssumption DEF TakesLead, LockHeld
  <2> QED BY <1>2, <2>1, <2>2 DEF TakesLead, Goes, LockHeld, PowerCallsFitInstance
<1>3. ASSUME NEW h \in Host, LeadIsTaken(h) PROVE AutoscalerInv'
  <2>1. Leaves(h, TRUE) /\ instance' = instance
    BY <1>3 DEF LeadIsTaken
  <2> QED BY <2>1, LeavesSound DEF PowerCallsFitInstance
<1>4. ASSUME NEW h \in Host, ReadLoad(h) PROVE AutoscalerInv'
  <2>1. RuntimeTypeOK' /\ TimersAreWanted'
    BY <1>4 DEF ReadLoad, runtimeVars, RuntimeTypeOK, TimersAreWanted
  <2> QED BY <1>4, <2>1 DEF ReadLoad, Goes, LockHeld, PowerCallsFitInstance
<1>5. ASSUME NEW h \in Host, ReadStatus(h) PROVE AutoscalerInv'
  <2>1. PICK status \in {instance, "unknown"}, longEnough \in {FALSE, lowQueueSince[h]} :
          /\ tick[h] = "status" /\ instance' = instance
          /\ \/ Leaves(h, TRUE)
             \/ /\ Decision(h, status, longEnough).call # "none"
                /\ Goes(h, Decision(h, status, longEnough).call)
                /\ UNCHANGED <<runtimeVars, leader>>
    BY <1>5 DEF ReadStatus
  <2>2. CASE Leaves(h, TRUE)
    BY <2>1, <2>2, LeavesSound DEF PowerCallsFitInstance
  <2>3. CASE ~Leaves(h, TRUE)
    <3> DEFINE call == Decision(h, status, longEnough).call
    <3>1. /\ call \in {"none", "start", "stop"}
          /\ call = "start" => status = "stopped"
          /\ call = "stop" => status = "running"
      BY DEF Decision
    <3>2. call \in {"start", "stop"} /\ tick' = [tick EXCEPT ![h] = call]
      BY <2>1, <2>3, <3>1 DEF Goes
    <3> HIDE DEF call
    <3>3. RuntimeTypeOK' /\ TimersAreWanted' /\ leader' = leader
      BY <2>1, <2>3 DEF runtimeVars, RuntimeTypeOK, TimersAreWanted
    <3>4. leader = h
      BY <2>1 DEF LockHeld
    <3>5. LockHeld'
      BY <3>2, <3>3, <3>4 DEF LockHeld
    <3>6. PowerCallsFitInstance'
      BY <2>1, <3>1, <3>2 DEF PowerCallsFitInstance
    <3> QED BY <3>2, <3>3, <3>5, <3>6
  <2> QED BY <2>2, <2>3
<1>6. ASSUME NEW h \in Host, StartInstance(h) \/ StopInstance(h) \/ CallFails(h)
      PROVE  AutoscalerInv'
  <2>1. leader = h
    BY <1>6 DEF StartInstance, StopInstance, CallFails, LockHeld
  <2>2. \E ok \in BOOLEAN : Leaves(h, ok)
    BY <1>6 DEF StartInstance, StopInstance, CallFails
  <2> QED BY <2>1, <2>2, LeavesSound, AloneInside DEF PowerCallsFitInstance
<1>7. ASSUME NEW h \in Host, StopWorker(h) PROVE AutoscalerInv'
  <2>1. RuntimeTypeOK' /\ TimersAreWanted'
    BY <1>7, RuntimeStep DEF StopWorker
  <2> QED BY <1>7, <2>1 DEF StopWorker, LockHeld, PowerCallsFitInstance
<1>8. ASSUME NEW h \in Host, EndProcess(h) PROVE AutoscalerInv'
  <2>1. RuntimeTypeOK' /\ TimersAreWanted'
    BY <1>8, RuntimeStep DEF EndProcess
  <2> QED BY <1>8, <2>1 DEF EndProcess, Goes, LockHeld, PowerCallsFitInstance
<1>9. CASE Enqueue \/ Claim \/ Settle
  <2>1. UNCHANGED <<runtimeVars, leader, tick, instance>>
    BY <1>9 DEF Enqueue, Claim, Settle, Outside
  <2> QED BY <2>1 DEF runtimeVars, RuntimeTypeOK, TimersAreWanted, LockHeld, PowerCallsFitInstance
<1>10. CASE Boot \/ Halt
  <2>1. /\ UNCHANGED <<runtimeVars, leader, tick>>
        /\ instance \in {"starting", "stopping"}
    BY <1>10 DEF Boot, Halt, Outside
  <2> QED BY <2>1 DEF runtimeVars, RuntimeTypeOK, TimersAreWanted, LockHeld, PowerCallsFitInstance
<1>11. CASE UNCHANGED autoscalerVars
  BY <1>11 DEF autoscalerVars, runtimeVars, RuntimeTypeOK, TimersAreWanted, LockHeld,
               PowerCallsFitInstance
<1> QED
  BY <1>1, <1>2, <1>3, <1>4, <1>5, <1>6, <1>7, <1>8, <1>9, <1>10, <1>11
     DEF AutoscalerNext, TickStep

\* optimize-worker-autoscaler.ts: with any number of processes and whatever the cloud reports,
\* a run about to start or stop the instance still finds it in the state it saw.
THEOREM PowerCallsAlwaysFit == AutoscalerSpec => []PowerCallsFitInstance
<1>1. AutoscalerInv => PowerCallsFitInstance
  BY DEF AutoscalerInv
<1> QED BY <1>1, InitSound, StepSound, PTL DEF AutoscalerSpec

\* background-worker-runtime.ts: whatever interleaves with it, stop is final for its process.
THEOREM StopIsFinal == AutoscalerSpec => NoRunAfterStop
<1>1. ASSUME AutoscalerInv, [AutoscalerNext]_autoscalerVars
      PROVE  [\A h \in Host : running[h] = "no" /\ running'[h] # "no" => ~stopped'[h]]_runtimeVars
  <2> USE <1>1 DEF AutoscalerInv, ProcessTypes, RuntimeTypeOK
  <2>1. ASSUME NEW h \in Host, StartProcess(h) \/ Wakes(h)
        PROVE  \A g \in Host : running[g] = "no" /\ running'[g] # "no" => ~stopped'[g]
    BY <2>1 DEF StartProcess, Wakes, Initialize, TimerFires, TimersAreWanted
  <2>2. ASSUME NEW h \in Host, StopWorker(h) \/ EndProcess(h)
        PROVE  \A g \in Host : running[g] = "no" => running'[g] = "no"
    BY <2>2 DEF StopWorker, EndProcess, Stop, Exit
  <2>3. ASSUME NEW h \in Host, NEW ok \in BOOLEAN, Leaves(h, ok)
        PROVE  \A g \in Host : running[g] = "no" => running'[g] = "no"
    BY <2>3 DEF Leaves, RunEnds
  <2>4. ASSUME NEW h \in Host, TakesLead(h) \/ TickStep(h) \/ CallFails(h)
        PROVE  \/ UNCHANGED runtimeVars
               \/ \E ok \in BOOLEAN : Leaves(h, ok)
    BY <2>4 DEF TakesLead, TickStep, LeadIsTaken, ReadLoad, ReadStatus, StartInstance,
                StopInstance, CallFails
  <2>5. CASE Enqueue \/ Claim \/ Settle \/ Boot \/ Halt
    BY <2>5 DEF Enqueue, Claim, Settle, Boot, Halt, Outside
  <2>6. CASE UNCHANGED autoscalerVars
    BY <2>6 DEF autoscalerVars
  <2> QED BY <2>1, <2>2, <2>3, <2>4, <2>5, <2>6 DEF AutoscalerNext
<1> QED BY <1>1, InitSound, StepSound, PTL DEF AutoscalerSpec, NoRunAfterStop
=============================================================================
