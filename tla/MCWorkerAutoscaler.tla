------------------------- MODULE MCWorkerAutoscaler -------------------------
(***************************************************************************)
(* Two API processes and a queue of at most two jobs: the instance is      *)
(* started when both wait and stopped when neither is left.                *)
(***************************************************************************)
EXTENDS WorkerAutoscaler

CONSTANTS a, b
=============================================================================
