------------------------ MODULE MCAccountLifecycle ------------------------
(* One account and two processes that run the maintenance. *)
EXTENDS AccountLifecycle
=============================================================================
