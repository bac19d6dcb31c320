------------------------ MODULE InvitationSettlement ------------------------
(***************************************************************************)
(* Settling invitations: src/server/storage/invitation-store.ts, run by    *)
(* the timer of invitation-settlement-worker.ts in every API process.  A   *)
(* friend registers with an inviter's code, activates the invitation by    *)
(* binding a profile, and a process then claims the row, checks the inviter*)
(* and grants both their rewards.  A claim is known by the row's attempt   *)
(* count; its lease is processing_started_at.                              *)
(*                                                                         *)
(* The campaign is enabled, and rewards both sides.  An invitation is named*)
(* by the friend, who has one; settling is two steps, the reads under the  *)
(* locks of the row and of the inviter's account, and the commit.          *)
(***************************************************************************)
EXTENDS Naturals, FiniteSets

CONSTANTS
    Email,
    Settler,                 \* the processes that run the settlement worker
    Invitation,
    InviterOf,               \* whose code each friend registers with
    MaxSettlementAttempts,   \* MAX_SETTLEMENT_ATTEMPTS
    DailyLimit,              \* daily_inviter_reward_limit
    NoInvitation, NoInviter, NoTask

VARIABLES
    account,      \* user_accounts, of which an inviter's status is read
    invitation,   \* invitations
    task          \* what each process settles

invitationVars == <<invitation, task>>

InvitationStatus == {"registered", "activated", "processing", "failed", "settled", "dead_letter"}

\* rewarded: inviter_rewarded_at is of today
InvitationRow == [inviter : Email \cup {NoInviter}, status : InvitationStatus,
                  attempts : 0 .. MaxSettlementAttempts, rewarded : BOOLEAN]

\* A claim whose lease runs out is late; one that settles has read, in its
\* transaction, and will commit.  rewards: it will reward the inviter today.
Task == [invitation : Invitation, attempt : 1 .. MaxSettlementAttempts,
         step : {"claimed", "late", "settling"}, rewards : BOOLEAN]

InvitationInit ==
    /\ invitation = [i \in Invitation |-> NoInvitation]
    /\ task = [p \in Settler |-> NoTask]

InvitationTypeOK ==
    /\ invitation \in [Invitation -> InvitationRow \cup {NoInvitation}]
    /\ task \in [Settler -> Task \cup {NoTask}]

-----------------------------------------------------------------------------
HasStatus(i, statuses) == invitation[i] # NoInvitation /\ invitation[i].status \in statuses

Tasks(i) == {p \in Settler : task[p] # NoTask /\ task[p].invitation = i}

RowLocked(i) == \E p \in Tasks(i) : task[p].step = "settling"

InviterLocked(e) ==
    \E i \in Invitation : RowLocked(i) /\ invitation[i].inviter = e

Marked(row, status) == [row EXCEPT !.status = status]

\* The code was checked before; the inviter need only still be there.
RegistersInvited(i) ==
    /\ invitation[i] = NoInvitation
    /\ Tasks(i) = {}
    /\ account[InviterOf[i]] # "none"
    /\ invitation' = [invitation EXCEPT ![i] =
                         [inviter |-> InviterOf[i], status |-> "registered",
                          attempts |-> 0, rewarded |-> FALSE]]
    /\ UNCHANGED <<account, task>>

\* By the friend's own request, or by reconcileRegisteredInvitations.
Activates(i) ==
    /\ HasStatus(i, {"registered"})
    /\ invitation' = [invitation EXCEPT ![i] = Marked(@, "activated")]
    /\ UNCHANGED <<account, task>>

\* The friend's account is deleted, and the row with it (ON DELETE CASCADE).
FriendLeaves(i) ==
    /\ invitation[i] # NoInvitation
    /\ ~RowLocked(i)
    /\ invitation' = [invitation EXCEPT ![i] = NoInvitation]
    /\ UNCHANGED <<account, task>>

\* The attempts start again from none.
Replayed(row) == [row EXCEPT !.status = "activated", !.attempts = 0]

\* replayInvitationSettlement
ReplaySettlement(i) ==
    /\ HasStatus(i, {"failed", "dead_letter"})
    /\ invitation' = [invitation EXCEPT ![i] = Replayed(@)]
    /\ UNCHANGED <<account, task>>

-----------------------------------------------------------------------------
(* The settlement batch.                                                   *)

LeaseExpired(i) ==
    /\ HasStatus(i, {"processing"})
    /\ ~RowLocked(i)
    /\ \A p \in Tasks(i) : task[p].step = "late" \/ task[p].attempt # invitation[i].attempts

\* The claim gives up the leases that ran out on a last attempt.
GivenUpSettlements ==
    [i \in Invitation |->
        IF LeaseExpired(i) /\ invitation[i].attempts >= MaxSettlementAttempts
        THEN Marked(invitation[i], "dead_letter") ELSE invitation[i]]

Claimable ==
    {i \in Invitation : /\ HasStatus(i, {"activated", "failed"}) \/ LeaseExpired(i)
                        /\ invitation[i].attempts < MaxSettlementAttempts}

TakenUp(row) == [row EXCEPT !.status = "processing", !.attempts = @ + 1]

ClaimSettlement(p) ==
    /\ task[p] = NoTask
    /\ \/ \E i \in Claimable :
             /\ invitation' = [GivenUpSettlements EXCEPT ![i] = TakenUp(@)]
             /\ task' = [task EXCEPT ![p] =
                            [invitation |-> i, attempt |-> invitation[i].attempts + 1,
                             step |-> "claimed", rewards |-> FALSE]]
       \/ /\ Claimable = {} /\ GivenUpSettlements # invitation
          /\ invitation' = GivenUpSettlements
          /\ UNCHANGED task
    /\ UNCHANGED account

StillClaimed(p) ==
    /\ HasStatus(task[p].invitation, {"processing"})
    /\ invitation[task[p].invitation].attempts = task[p].attempt

RewardedToday(e) ==
    {i \in Invitation : /\ invitation[i] # NoInvitation
                        /\ invitation[i].inviter = e
                        /\ invitation[i].rewarded}

\* What settleInvitationInTransaction decides for the inviter, who also needs
\* a profile in use.
Deserves(e) ==
    e # NoInviter /\ account[e] = "active" /\ Cardinality(RewardedToday(e)) < DailyLimit

\* Faulty: the inviter's row is read without FOR UPDATE.
WaitsForNobody(e) == FALSE

\* Another settlement for the same inviter holds the account's row.
WaitsForInviter(e) == e # NoInviter /\ InviterLocked(e)

Settling(t, rewards) == [t EXCEPT !.step = "settling", !.rewards = rewards]

BeginSettlement(p) ==
    /\ task[p] # NoTask
    /\ task[p].step # "settling"
    /\ LET i == task[p].invitation
       IN  /\ ~RowLocked(i)
           /\ IF StillClaimed(p)
              THEN /\ ~WaitsForInviter(invitation[i].inviter)
                   /\ \E rewards \in {FALSE, Deserves(invitation[i].inviter)} :
                         task' = [task EXCEPT ![p] = Settling(@, rewards)]
              ELSE task' = [task EXCEPT ![p] = NoTask]
    /\ UNCHANGED <<account, invitation>>

SettledRow(row, rewards) ==
    [row EXCEPT !.status = "settled", !.rewarded = @ \/ rewards]

CommitSettlement(p) ==
    /\ task[p] # NoTask
    /\ task[p].step = "settling"
    /\ invitation' = [invitation EXCEPT ![task[p].invitation] = SettledRow(@, task[p].rewards)]
    /\ task' = [task EXCEPT ![p] = NoTask]
    /\ UNCHANGED account

\* Faulty: the row is updated by its id alone.
FailsItsClaimById(p) == invitation[task[p].invitation] # NoInvitation

FailsItsClaim(p) == StillClaimed(p)

\* The transaction is rolled back, and the claim it came from is recorded as
\* failed if the row still is where the claim left it.
RecordFailure(p) ==
    /\ task[p] # NoTask
    /\ task[p].step = "settling" \/ ~RowLocked(task[p].invitation)
    /\ invitation' = IF FailsItsClaim(p)
                     THEN [invitation EXCEPT ![task[p].invitation] =
                              Marked(@, IF task[p].attempt >= MaxSettlementAttempts
                                        THEN "dead_letter" ELSE "failed")]
                     ELSE invitation
    /\ task' = [task EXCEPT ![p] = NoTask]
    /\ UNCHANGED account

OutlastsSettlementLease(p) ==
    /\ task[p] # NoTask
    /\ task[p].step = "claimed"
    /\ StillClaimed(p)
    /\ task' = [task EXCEPT ![p].step = "late"]
    /\ UNCHANGED <<account, invitation>>

\* The process dies; an open transaction is rolled back.
DropsSettlement(p) ==
    /\ task[p] # NoTask
    /\ task' = [task EXCEPT ![p] = NoTask]
    /\ UNCHANGED <<account, invitation>>

\* Midnight in Shanghai.
DayEnds ==
    /\ invitation' = [i \in Invitation |->
                        IF invitation[i] = NoInvitation THEN NoInvitation
                        ELSE [invitation[i] EXCEPT !.rewarded = FALSE]]
    /\ task' = [p \in Settler |->
                  IF task[p] = NoTask THEN NoTask ELSE [task[p] EXCEPT !.rewards = FALSE]]
    /\ UNCHANGED account

InvitationNext ==
    \/ \E i \in Invitation :
          RegistersInvited(i) \/ Activates(i) \/ FriendLeaves(i) \/ ReplaySettlement(i)
    \/ \E p \in Settler :
          \/ ClaimSettlement(p) \/ BeginSettlement(p) \/ CommitSettlement(p)
          \/ RecordFailure(p) \/ OutlastsSettlementLease(p) \/ DropsSettlement(p)
    \/ DayEnds

-----------------------------------------------------------------------------
(* Properties *)

NewlyRewarded(i) ==
    /\ invitation[i] # NoInvitation /\ invitation'[i] # NoInvitation
    /\ ~invitation[i].rewarded /\ invitation'[i].rewarded

\* An inviter is rewarded while the account is active, and for at most
\* daily_inviter_reward_limit of the friends on a day, although processes
\* settle the invitations of one inviter side by side and the status and the
\* count are read before the reward is written.
RewardsAreDue ==
    [][\A i \in Invitation : NewlyRewarded(i) =>
          LET e == invitation[i].inviter
          IN  /\ e # NoInviter /\ account[e] = "active"
              /\ Cardinality(RewardedToday(e)) < DailyLimit]_<<account, invitationVars>>

\* What is settled stays settled, so nobody is rewarded twice for a friend: a
\* process whose lease ran out may still report a failure of the claim.
SettledIsFinal ==
    [][\A i \in Invitation : HasStatus(i, {"settled"}) /\ invitation'[i] # NoInvitation =>
          invitation'[i].status = "settled"]_<<account, invitationVars>>
=============================================================================
