------------------------ MODULE MCOptimizeJobRunner ------------------------
(***************************************************************************)
(* One worker process with two slots.  With one job: a job whose lease was *)
(* lost is claimed again, by the process that lost it or by another.  With *)
(* a free and a paid job and one global slot: the paid job preempts the    *)
(* free one.                                                               *)
(***************************************************************************)
EXTENDS OptimizeJobRunner, TLC

CONSTANTS j1, j2, o1, o2, acct

TwoOwners == [j \in Job |-> IF j = j1 THEN o1 ELSE o2]
NotBilled == [j \in Job |-> NoAccount]
OneUser == [j \in Job |-> acct]
NoUser == [j \in Job |-> NoAccount]
FreeAndPaid == [j \in Job |-> IF j = j1 THEN 0 ELSE 10]
Paid == [j \in Job |-> 10]
NothingNeeded == [j \in Job |-> {}]
NoClaimPriority == [w \in Worker |-> 0]
AllButRelease == Plan \ {"release"}
CancelOrLeaseLost == {<<j1, "cancel">>, <<j1, "lease">>}
LeaseLostOrOvertime == {<<j1, "lease">>, <<j1, "timeout">>}
TwoSlots == [w \in Worker |-> 2]
=============================================================================
