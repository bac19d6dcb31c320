----------------------- MODULE AccountsAndInvitations -----------------------
(***************************************************************************)
(* Accounts and the invitations of their owners in one database.  A        *)
(* settlement reads the inviter's status under the lock of the account's   *)
(* row, which every change of that row waits for; a deleted account leaves *)
(* its invitations without an inviter.                                     *)
(***************************************************************************)
EXTENDS AccountLifecycle

CONSTANTS Settler, Invitation, InviterOf, MaxSettlementAttempts, DailyLimit,
          NoInvitation, NoInviter, NoTask

VARIABLES invitation, task

INSTANCE InvitationSettlement

ASSUME InvitationAssumption ==
    /\ InviterOf \in [Invitation -> Email]
    /\ MaxSettlementAttempts \in Nat \ {0}
    /\ IsFiniteSet(Invitation)
    /\ DailyLimit \in Nat
    /\ NoInviter \notin Email

ASSUME RowAssumption == NoInvitation \notin InvitationRow /\ NoTask \notin Task

vars == <<accountVars, invitationVars>>

Init == AccountInit /\ InvitationInit

\* invitations.inviter_user_id, ON DELETE SET NULL
Detached(row) ==
    IF row # NoInvitation /\ row.inviter # NoInviter
       /\ account[row.inviter] # "none" /\ account'[row.inviter] = "none"
    THEN [row EXCEPT !.inviter = NoInviter] ELSE row

AccountStep ==
    /\ AccountNext
    /\ \A e \in Email : account'[e] # account[e] => ~InviterLocked(e)
    /\ invitation' = [i \in Invitation |-> Detached(invitation[i])]
    /\ UNCHANGED task

InvitationStep == InvitationNext /\ UNCHANGED accountVars

Next == AccountStep \/ InvitationStep

Spec == Init /\ [][Next]_vars
=============================================================================
