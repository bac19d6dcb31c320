---------------------- MODULE MCAccountsAndInvitations ----------------------
(***************************************************************************)
(* One account whose owner has invited two friends, two processes that run *)
(* the maintenance and two that settle.  A process may run both: dying, it *)
(* drops both.                                                             *)
(***************************************************************************)
EXTENDS AccountsAndInvitations, TLC

CONSTANTS owner

OwnersFriends == [i \in Invitation |-> owner]

\* The processes are alike, and so are the friends.
Alike == Permutations(Process) \cup Permutations(Settler) \cup Permutations(Invitation)
=============================================================================
