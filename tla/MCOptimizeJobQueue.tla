------------------------ MODULE MCOptimizeJobQueue ------------------------
(***************************************************************************)
(* Instances of OptimizeJobQueue: two jobs and two workers, a submission    *)
(* and its replay, and three jobs that compete for slots and for the place  *)
(* in the queue an owner has.                                               *)
(***************************************************************************)
EXTENDS OptimizeJobQueue, TLC

CONSTANTS j1, j2, j3, w1, w2, o1, o2, o3, acct

\* A billed paid job and a free job that uses an item, of two owners.
PairOwner == (j1 :> o1) @@ (j2 :> o2)
PairPriority == (j1 :> 10) @@ (j2 :> 0)
PairNeeds == (j1 :> {"balance"}) @@ (j2 :> {"items"})
PairAccount == (j1 :> acct) @@ (j2 :> NoAccount)

\* Two identical free submissions of one owner: the second can be the replay
\* of the first.
SameOwner == (j1 :> o1) @@ (j2 :> o1)
BothFree == (j1 :> 0) @@ (j2 :> 0)
OneItemEach == (j1 :> {"items"}) @@ (j2 :> {"items"})
NotBilled == (j1 :> NoAccount) @@ (j2 :> NoAccount)
OneUser == (j1 :> acct) @@ (j2 :> acct)

\* A free and an analysis job of one owner, a paid job of another; the last two
\* are commercial jobs of one account.  To keep the instance small the free job
\* counts as no user's: the deletion of the account spares it.
RivalOwner == (j1 :> o1) @@ (j2 :> o1) @@ (j3 :> o2)
RivalPriority == (j1 :> 0) @@ (j2 :> 5) @@ (j3 :> 10)
RivalNeeds == (j1 :> {}) @@ (j2 :> {}) @@ (j3 :> {})
RivalAccount == (j1 :> NoAccount) @@ (j2 :> acct) @@ (j3 :> acct)
UnequalClaimPriority == (w1 :> 1) @@ (w2 :> 0)

EqualClaimPriority == [w \in Worker |-> 0]
OneSlotEach == [w \in Worker |-> 1]
=============================================================================
