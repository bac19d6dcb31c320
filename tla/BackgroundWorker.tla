-------------------------- MODULE BackgroundWorker --------------------------
(***************************************************************************)
(* The periodic worker of src/server/background-worker-runtime.ts, one in  *)
(* each process: a first run on initialize, then a timer after each run.   *)
(* A run is asynchronous: initialize, the timer and stop act while one is  *)
(* in flight.  What a run does is for the module that extends this one.    *)
(* How long the timer waits (interval, idle interval, back-off, jitter) is *)
(* left out: it fires some time after it was set.  A process calls         *)
(* initialize once, while it starts, and stop when it shuts down.          *)
(***************************************************************************)
EXTENDS Naturals

CONSTANT Host

VARIABLES
    life,         \* the process of each host
    stopped,      \* the controller's variables
    initialized,
    timer,        \* whether a timer is set
    running       \* the run in flight, and who waits for it

runtimeVars == <<life, stopped, initialized, timer, running>>

RuntimeTypeOK ==
    /\ life \in [Host -> {"up", "down"}]
    /\ stopped \in [Host -> BOOLEAN]
    /\ initialized \in [Host -> BOOLEAN]
    /\ timer \in [Host -> BOOLEAN]
    /\ running \in [Host -> {"no", "first", "scheduled"}]

RuntimeInit ==
    /\ life = [h \in Host |-> "down"]
    /\ stopped = [h \in Host |-> TRUE]
    /\ initialized = [h \in Host |-> FALSE]
    /\ timer = [h \in Host |-> FALSE]
    /\ running = [h \in Host |-> "no"]

\* The process starts; its startup waits for the first run.
Initialize(h) ==
    /\ life[h] = "down"
    /\ life' = [life EXCEPT ![h] = "up"]
    /\ stopped' = [stopped EXCEPT ![h] = FALSE]
    /\ running' = [running EXCEPT ![h] = "first"]
    /\ UNCHANGED <<initialized, timer>>

\* The timer's callback; it looks at nothing but a run that is still in flight.
TimerFires(h) ==
    /\ timer[h]
    /\ running[h] = "no"
    /\ timer' = [timer EXCEPT ![h] = FALSE]
    /\ running' = [running EXCEPT ![h] = "scheduled"]
    /\ UNCHANGED <<life, stopped, initialized>>

\* Faulty: the end of a run sets the timer again without a look at stopped.
RunEndsUnaware(h, ok) ==
    /\ running[h] # "no"
    /\ running' = [running EXCEPT ![h] = "no"]
    /\ stopped' = [stopped EXCEPT ![h] = @ \/ (running[h] = "first" /\ ~ok)]
    /\ initialized' = [initialized EXCEPT ![h] = @ \/ (running[h] = "first" /\ ok /\ ~stopped[h])]
    /\ timer' = [timer EXCEPT ![h] = ok \/ running[h] = "scheduled"]
    /\ UNCHANGED life

\* A first run that fails stops the worker; every other end of a run sets the timer,
\* unless stop was called in the meantime.
RunEnds(h, ok) ==
    LET first == running[h] = "first"
        failedToStart == first /\ ~ok
    IN  /\ running[h] # "no"
        /\ running' = [running EXCEPT ![h] = "no"]
        /\ stopped' = [stopped EXCEPT ![h] = @ \/ failedToStart]
        /\ initialized' = [initialized EXCEPT ![h] = @ \/ (first /\ ok /\ ~stopped[h])]
        /\ timer' = [timer EXCEPT ![h] = ~failedToStart /\ ~stopped[h]]
        /\ UNCHANGED life

Stop(h) ==
    /\ life[h] = "up"
    /\ ~stopped[h]
    /\ stopped' = [stopped EXCEPT ![h] = TRUE]
    /\ initialized' = [initialized EXCEPT ![h] = FALSE]
    /\ timer' = [timer EXCEPT ![h] = FALSE]
    /\ UNCHANGED <<life, running>>

\* The process ends, whatever is in flight.
Exit(h) ==
    /\ life[h] = "up"
    /\ life' = [life EXCEPT ![h] = "down"]
    /\ stopped' = [stopped EXCEPT ![h] = TRUE]
    /\ initialized' = [initialized EXCEPT ![h] = FALSE]
    /\ timer' = [timer EXCEPT ![h] = FALSE]
    /\ running' = [running EXCEPT ![h] = "no"]

\* No run begins on a worker that was stopped, however stop, the first run, the timer and the
\* end of a run interleave: only a new start of the process brings it back.
NoRunAfterStop ==
    [][\A h \in Host : running[h] = "no" /\ running'[h] # "no" => ~stopped'[h]]_runtimeVars
=============================================================================
