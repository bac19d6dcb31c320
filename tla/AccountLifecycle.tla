-------------------------- MODULE AccountLifecycle --------------------------
(***************************************************************************)
(* Deleting an account on its owner's request:                             *)
(* src/server/account-data-lifecycle.ts, with the registration and the     *)
(* administrators' changes of user-store.ts and the account freeze of      *)
(* behavior-risk-store.ts.  The owner asks, the account waits seven days   *)
(* as pending_deletion, and the maintenance pass of some process claims    *)
(* the request under a lease, removes the account and queues a receipt,    *)
(* which a later claim sends.                                              *)
(*                                                                         *)
(* A transaction is one action, except the registration, whose check and   *)
(* insert are two statements: between them it holds the advisory lock of   *)
(* the address.  A lease token is the process that drew it, since a process*)
(* holds one claim at a time.  A lease that is not seen to run out cannot  *)
(* be taken over; a process that dies leaves a lease that will.            *)
(***************************************************************************)
EXTENDS Naturals, FiniteSets

CONSTANTS
    Email,                 \* an account is known by its address
    Process,               \* the processes that run the deletion worker
    MaxDeletionAttempts,   \* MAX_DELETION_ATTEMPTS
    MaxEmailAttempts,      \* MAX_EMAIL_ATTEMPTS
    NoRow, NoLease, Idle

ASSUME AttemptsAssumption ==
    /\ MaxDeletionAttempts \in Nat \ {0}
    /\ MaxEmailAttempts \in Nat \ {0}

AccountStatus == {"none", "active", "frozen", "pending_deletion"}

\* due: scheduled_for has passed on the clock of some process.
RequestRow == [status : {"pending", "processing", "failed"},
               attempts : 0 .. MaxDeletionAttempts,
               lease : Process \cup {NoLease},
               due : BOOLEAN]
MailRow == [status : {"pending", "processing", "dead_letter"},
            attempts : 0 .. MaxEmailAttempts,
            lease : Process \cup {NoLease}]

\* What a process works on.  lost: its lease has run out, or the row it claimed
\* is gone.
Claim == [task : {"deletion", "receipt"}, email : Email, lost : BOOLEAN]

ASSUME NullAssumption ==
    /\ NoRow \notin RequestRow \cup MailRow
    /\ Idle \notin Claim
    /\ NoLease \notin Process

VARIABLES
    account,       \* user_accounts
    request,       \* account_deletion_requests
    records,       \* account_deletion_records: addresses that may not return
    outbox,        \* account_deletion_email_outbox
    registering,   \* the registrations between their check and their insert
    hand           \* what each process works on

accountVars == <<account, request, records, outbox, registering, hand>>

AccountInit ==
    /\ account = [e \in Email |-> "none"]
    /\ request = [e \in Email |-> NoRow]
    /\ outbox = [e \in Email |-> NoRow]
    /\ records = {} /\ registering = {}
    /\ hand = [p \in Process |-> Idle]

AccountTypeOK ==
    /\ account \in [Email -> AccountStatus]
    /\ request \in [Email -> RequestRow \cup {NoRow}]
    /\ outbox \in [Email -> MailRow \cup {NoRow}]
    /\ records \subseteq Email /\ registering \subseteq Email
    /\ hand \in [Process -> Claim \cup {Idle}]

-----------------------------------------------------------------------------
(* Accounts come and go.                                                   *)

\* Whether the address is taken was looked up before, without the lock.
RegistrationChecks(e) ==
    /\ e \notin records
    /\ e \notin registering
    /\ registering' = registering \cup {e}
    /\ UNCHANGED <<account, request, records, outbox, hand>>

\* ON CONFLICT (email) DO NOTHING: an address that is taken is refused.
RegistrationInserts(e) ==
    /\ e \in registering
    /\ registering' = registering \ {e}
    /\ account' = IF account[e] = "none" THEN [account EXCEPT ![e] = "active"] ELSE account
    /\ UNCHANGED <<request, records, outbox, hand>>

LostBy(claims, task, e) ==
    [p \in Process |-> IF claims[p] # Idle /\ claims[p].task = task /\ claims[p].email = e
                       THEN [claims[p] EXCEPT !.lost = TRUE] ELSE claims[p]]

\* The request goes with the account (ON DELETE CASCADE); nothing is recorded.
DeleteByAdmin(e) ==
    /\ account[e] # "none"
    /\ account' = [account EXCEPT ![e] = "none"]
    /\ request' = [request EXCEPT ![e] = NoRow]
    /\ hand' = LostBy(hand, "deletion", e)
    /\ UNCHANGED <<records, outbox, registering>>

\* saveUserAccountByAdmin changes an active or frozen account only.
SetStatusByAdmin(e) ==
    /\ account[e] \in {"active", "frozen"}
    /\ \E status \in {"active", "frozen"} : account' = [account EXCEPT ![e] = status]
    /\ UNCHANGED <<request, records, outbox, registering, hand>>

\* A reviewer's freeze_account takes every account that is not revoked.
FreezeByReview(e) ==
    /\ account[e] # "none"
    /\ account' = [account EXCEPT ![e] = "frozen"]
    /\ UNCHANGED <<request, records, outbox, registering, hand>>

-----------------------------------------------------------------------------
(* The owner asks for the deletion and may take it back.                   *)

NewRequest == [status |-> "pending", attempts |-> 0, lease |-> NoLease,
               due |-> FALSE]

\* A request that is already there is answered and left as it is.
RequestDeletion(e) ==
    /\ request[e] = NoRow
    /\ account[e] = "active"
    /\ request' = [request EXCEPT ![e] = NewRequest]
    /\ account' = [account EXCEPT ![e] = "pending_deletion"]
    /\ UNCHANGED <<records, outbox, registering, hand>>

ComesDue(e) ==
    /\ request[e] # NoRow
    /\ ~request[e].due
    /\ request' = [request EXCEPT ![e].due = TRUE]
    /\ UNCHANGED <<account, records, outbox, registering, hand>>

\* Logging in, or following the link, restores the account.  The clock is
\* that of the process that answers: a request may be due elsewhere already.
RestoresPending(e) ==
    /\ request[e] # NoRow
    /\ request[e].status = "pending"
    /\ account[e] = "pending_deletion"
    /\ account' = [account EXCEPT ![e] = "active"]
    /\ request' = [request EXCEPT ![e] = NoRow]
    /\ hand' = LostBy(hand, "deletion", e)
    /\ UNCHANGED <<records, outbox, registering>>

-----------------------------------------------------------------------------
(* The maintenance pass.                                                   *)

Held(task, e) == \E p \in Process : hand[p] = [task |-> task, email |-> e, lost |-> FALSE]

Expired(rows, task, e) ==
    /\ rows[e] # NoRow
    /\ rows[e].status = "processing"
    /\ ~Held(task, e)

\* A claim on the row ends and leaves it in this status.
Unheld(row, status) == [row EXCEPT !.status = status, !.lease = NoLease]

\* The leases that ran out on a last attempt are given up.
GivenUp(rows, task, max, as) ==
    [e \in Email |-> IF Expired(rows, task, e) /\ rows[e].attempts >= max
                     THEN Unheld(rows[e], as) ELSE rows[e]]

Taken(row, p) ==
    [row EXCEPT !.status = "processing", !.attempts = @ + 1, !.lease = p]

DueRequests ==
    {e \in Email : /\ request[e] # NoRow
                   /\ request[e].attempts < MaxDeletionAttempts
                   /\ \/ request[e].status = "pending" /\ request[e].due
                      \/ Expired(request, "deletion", e)}

DueReceipts ==
    {e \in Email : /\ outbox[e] # NoRow
                   /\ outbox[e].attempts < MaxEmailAttempts
                   /\ \/ outbox[e].status = "pending"
                      \/ Expired(outbox, "receipt", e)}

NewClaim(task, e) == [task |-> task, email |-> e, lost |-> FALSE]

ClaimDueDeletion(p) ==
    /\ hand[p] = Idle
    /\ LET rows == GivenUp(request, "deletion", MaxDeletionAttempts, "failed")
       IN  \/ \E e \in DueRequests :
                 /\ request' = [rows EXCEPT ![e] = Taken(@, p)]
                 /\ hand' = [hand EXCEPT ![p] = NewClaim("deletion", e)]
           \/ /\ DueRequests = {} /\ rows # request
              /\ request' = rows
              /\ hand' = hand
    /\ UNCHANGED <<account, records, outbox, registering>>

Owns(p, rows) ==
    LET row == rows[hand[p].email]
    IN  row # NoRow /\ row.status = "processing" /\ row.lease = p

WorksOn(p, task) == hand[p] # Idle /\ hand[p].task = task

\* Faulty: the deletion does not take the lock of the address.
LocksNothing(e) == TRUE

\* The lock of the address makes it wait for a registration that has checked.
LocksEmail(e) == e \notin registering

\* Faulty: the row the claim was made on is not read again.
RemovesUnseen(p) == account[hand[p].email] # "none"

\* The request is still there, and still held under this claim's token.
Removes(p) == account[hand[p].email] # "none" /\ Owns(p, request)

\* The receipt, the record and the removal are one transaction.
FinalizeDeletion(p) ==
    /\ WorksOn(p, "deletion")
    /\ LET e == hand[p].email
       IN  IF Removes(p)
           THEN /\ LocksEmail(e)
                /\ outbox' = [outbox EXCEPT ![e] =
                                 [status |-> "pending", attempts |-> 0, lease |-> NoLease]]
                /\ records' = records \cup {e}
                /\ account' = [account EXCEPT ![e] = "none"]
                /\ request' = [request EXCEPT ![e] = NoRow]
           ELSE UNCHANGED <<account, request, records, outbox>>
    /\ hand' = [hand EXCEPT ![p] = Idle]
    /\ UNCHANGED registering

FailedRow(row, max, as) ==
    Unheld(row, IF row.attempts >= max THEN as ELSE "pending")

\* Faulty: the row need only be in processing.
ReleasedByStatus(p, rows, max, as) ==
    LET e == hand[p].email
    IN  IF rows[e] # NoRow /\ rows[e].status = "processing"
        THEN [rows EXCEPT ![e] = FailedRow(@, max, as)] ELSE rows

\* The statement behind both releases: a row that is no longer held under
\* this claim's token is left alone.
Released(p, rows, max, as) ==
    IF Owns(p, rows) THEN [rows EXCEPT ![hand[p].email] = FailedRow(@, max, as)] ELSE rows

\* The transaction failed; the request is tried again after a delay.
ReleaseDeletion(p) ==
    /\ WorksOn(p, "deletion")
    /\ request' = Released(p, request, MaxDeletionAttempts, "failed")
    /\ hand' = [hand EXCEPT ![p] = Idle]
    /\ UNCHANGED <<account, records, outbox, registering>>

ClaimReceipt(p) ==
    /\ hand[p] = Idle
    /\ LET rows == GivenUp(outbox, "receipt", MaxEmailAttempts, "dead_letter")
       IN  \/ \E e \in DueReceipts :
                 /\ outbox' = [rows EXCEPT ![e] = Taken(@, p)]
                 /\ hand' = [hand EXCEPT ![p] = NewClaim("receipt", e)]
           \/ /\ DueReceipts = {} /\ rows # outbox
              /\ outbox' = rows
              /\ hand' = hand
    /\ UNCHANGED <<account, request, records, registering>>

\* The receipt is sent and its row deleted.  Sent receipts are not counted: one
\* that is sent again was released or dropped in between.
CompleteReceipt(p) ==
    /\ WorksOn(p, "receipt")
    /\ outbox' = IF Owns(p, outbox) THEN [outbox EXCEPT ![hand[p].email] = NoRow] ELSE outbox
    /\ hand' = [hand EXCEPT ![p] = Idle]
    /\ UNCHANGED <<account, request, records, registering>>

\* Sending failed, or the row could not be deleted after it.
ReleaseReceipt(p) ==
    /\ WorksOn(p, "receipt")
    /\ outbox' = Released(p, outbox, MaxEmailAttempts, "dead_letter")
    /\ hand' = [hand EXCEPT ![p] = Idle]
    /\ UNCHANGED <<account, request, records, registering>>

\* Dead letters are dropped after thirty days.
PurgeDeadLetter(e) ==
    /\ outbox[e] # NoRow
    /\ outbox[e].status = "dead_letter"
    /\ outbox' = [outbox EXCEPT ![e] = NoRow]
    /\ UNCHANGED <<account, request, records, registering, hand>>

\* A claim that takes longer than its lease.
OutlastsLease(p) ==
    /\ hand[p] # Idle
    /\ ~hand[p].lost
    /\ hand' = [hand EXCEPT ![p].lost = TRUE]
    /\ UNCHANGED <<account, request, records, outbox, registering>>

\* The process dies, or its release could not be written.
DropsClaim(p) ==
    /\ hand[p] # Idle
    /\ hand' = [hand EXCEPT ![p] = Idle]
    /\ UNCHANGED <<account, request, records, outbox, registering>>

-----------------------------------------------------------------------------
AccountNext ==
    \/ \E e \in Email :
          \/ RegistrationChecks(e) \/ RegistrationInserts(e)
          \/ DeleteByAdmin(e) \/ SetStatusByAdmin(e) \/ FreezeByReview(e)
          \/ RequestDeletion(e) \/ ComesDue(e) \/ RestoresPending(e)
          \/ PurgeDeadLetter(e)
    \/ \E p \in Process :
          \/ ClaimDueDeletion(p) \/ FinalizeDeletion(p) \/ ReleaseDeletion(p)
          \/ ClaimReceipt(p) \/ CompleteReceipt(p) \/ ReleaseReceipt(p)
          \/ OutlastsLease(p) \/ DropsClaim(p)

AccountSpec == AccountInit /\ [][AccountNext]_accountVars

-----------------------------------------------------------------------------
(* Properties *)

\* An address whose owner had the account deleted never has an account again,
\* although a registration may have looked for the record before it was there
\* and insert after it: both take the lock of the address.
DeletedStaysDeleted ==
    \A e \in records : account[e] = "none" /\ request[e] = NoRow

\* Until its lease runs out a process finds the row it claimed as it left it:
\* one that was too slow, and reports its failure after another process took
\* the row over, does not release the other's claim.
HolderKeepsClaim ==
    \A p \in Process : hand[p] # Idle /\ ~hand[p].lost =>
        Owns(p, IF hand[p].task = "deletion" THEN request ELSE outbox)

Removed(e) == account[e] # "none" /\ e \in records' \ records

\* Taking the request back wins or the deletion does, never both: an account is
\* removed on a due request that is still there, not after its owner has got the
\* account back and not by a claim on an earlier request.
RemovedOnRequest ==
    [][\A e \in Email : Removed(e) => request[e] # NoRow /\ request[e].due]_accountVars

\* An account its owner can log in to and use is not removed: logging in takes
\* the request back.
ActiveAccountsStay ==
    [][\A e \in Email : Removed(e) => account[e] # "active"]_accountVars
=============================================================================
