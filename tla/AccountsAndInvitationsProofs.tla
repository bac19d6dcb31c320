-------------------- MODULE AccountsAndInvitationsProofs --------------------
(***************************************************************************)
(* For any accounts, invitations and processes: the theorems about         *)
(* accounts hold beside the settlement of invitations, what is settled     *)
(* stays settled, and every reward is due when it is written.  A settlement*)
(* reads under the locks of its row and of the inviter's account and writes*)
(* later: the invariant says that what it has read still holds.            *)
(***************************************************************************)
EXTENDS AccountsAndInvitations, FiniteSetTheorems, TLAPS

-----------------------------------------------------------------------------
(* Accounts.  A deleted account stays deleted, a claim is kept by the        *)
(* process that holds it, and an account is removed on a due request only.  *)

\* The lock of the address: no registration has checked an address that is deleted now.
DeletedAreNotRegistering == \A e \in records : e \notin registering

\* Receipts are for accounts that are deleted, so a deletion finds none in its way.
ReceiptsFollowDeletion == \A e \in Email : outbox[e] # NoRow => e \in records

\* Only a request that is due is ever processed.
ProcessedIsDue ==
    \A e \in Email : request[e] # NoRow /\ request[e].status = "processing" => request[e].due

AccountInv ==
    /\ AccountTypeOK
    /\ DeletedStaysDeleted
    /\ HolderKeepsClaim
    /\ DeletedAreNotRegistering
    /\ ReceiptsFollowDeletion
    /\ ProcessedIsDue

LEMMA InitSound == AccountInit => AccountInv
BY DEF AccountInit, AccountInv, AccountTypeOK, AccountStatus, DeletedStaysDeleted, HolderKeepsClaim,
       DeletedAreNotRegistering, ReceiptsFollowDeletion, ProcessedIsDue

-----------------------------------------------------------------------------
(* Facts about the operators on claims and rows.                           *)

\* A row is not the absence of one.
LEMMA RowsAreNotNull == NoRow \notin RequestRow /\ NoRow \notin MailRow
BY NullAssumption

\* A claim whose row went away is lost, and no other claim is touched.
LEMMA LostBySound ==
    ASSUME NEW claims \in [Process -> Claim \cup {Idle}], NEW work, NEW e
    PROVE  /\ LostBy(claims, work, e) \in [Process -> Claim \cup {Idle}]
           /\ \A p \in Process : LET h == LostBy(claims, work, e)[p] IN
                h # Idle /\ ~h.lost => h = claims[p] /\ ~(h.task = work /\ h.email = e)
<1> DEFINE after == LostBy(claims, work, e)
<1>1. ASSUME NEW p \in Process
      PROVE  /\ after[p] \in Claim \cup {Idle}
             /\ after[p] # Idle /\ ~after[p].lost
                  => after[p] = claims[p] /\ ~(after[p].task = work /\ after[p].email = e)
  <2>1. CASE claims[p] # Idle /\ claims[p].task = work /\ claims[p].email = e
    BY <2>1 DEF LostBy, Claim
  <2>2. CASE ~(claims[p] # Idle /\ claims[p].task = work /\ claims[p].email = e)
    BY <2>2 DEF LostBy, Claim
  <2> QED BY <2>1, <2>2
<1>2. after \in [Process -> Claim \cup {Idle}]
  BY <1>1 DEF LostBy
<1> QED BY <1>1, <1>2

\* Claims that may still be used name a row of their own.
LEMMA HolderOwns ==
    ASSUME HolderKeepsClaim, NEW p \in Process, hand[p] # Idle, ~hand[p].lost
    PROVE  /\ hand[p].task = "deletion" => Owns(p, request)
           /\ hand[p].task # "deletion" => Owns(p, outbox)
BY DEF HolderKeepsClaim

-----------------------------------------------------------------------------
(* Accounts come and go.                                                   *)

LEMMA RegistrationSound ==
    ASSUME AccountInv, NEW e \in Email, RegistrationChecks(e) \/ RegistrationInserts(e)
    PROVE  AccountInv'
<1> USE DEF AccountInv
<1>1. CASE RegistrationChecks(e)
  BY <1>1 DEF RegistrationChecks, AccountTypeOK, DeletedStaysDeleted, HolderKeepsClaim, Owns,
     DeletedAreNotRegistering, ReceiptsFollowDeletion, ProcessedIsDue
<1>2. CASE RegistrationInserts(e)
  BY <1>2 DEF RegistrationInserts, AccountTypeOK, AccountStatus, DeletedStaysDeleted,
     HolderKeepsClaim, Owns, DeletedAreNotRegistering, ReceiptsFollowDeletion, ProcessedIsDue
<1> QED BY <1>1, <1>2

LEMMA StatusSound ==
    ASSUME AccountInv, NEW e \in Email, SetStatusByAdmin(e) \/ FreezeByReview(e)
    PROVE  AccountInv'
BY DEF AccountInv, SetStatusByAdmin, FreezeByReview, AccountTypeOK, AccountStatus,
   DeletedStaysDeleted, HolderKeepsClaim, Owns, DeletedAreNotRegistering, ReceiptsFollowDeletion,
   ProcessedIsDue

\* The request of an address goes, and with it the claims on it.
LEMMA RequestGoes ==
    ASSUME AccountInv, NEW e \in Email, NEW status \in AccountStatus, e \notin records,
           account' = [account EXCEPT ![e] = status],
           request' = [request EXCEPT ![e] = NoRow],
           hand' = LostBy(hand, "deletion", e),
           UNCHANGED <<records, outbox, registering>>
    PROVE  AccountInv'
<1> USE DEF AccountInv
<1>1. AccountTypeOK'
  BY LostBySound DEF AccountTypeOK
<1>2. DeletedStaysDeleted'
  BY DEF AccountTypeOK, DeletedStaysDeleted
<1>3. HolderKeepsClaim'
  <2> SUFFICES ASSUME NEW p \in Process, hand'[p] # Idle, ~hand'[p].lost
               PROVE  Owns(p, IF hand[p].task = "deletion" THEN request ELSE outbox)'
    BY DEF HolderKeepsClaim
  <2>1. hand'[p] = hand[p] /\ ~(hand[p].task = "deletion" /\ hand[p].email = e)
    BY LostBySound DEF AccountTypeOK
  <2> QED BY <2>1 DEF HolderKeepsClaim, Owns, AccountTypeOK
<1>4. DeletedAreNotRegistering' /\ ReceiptsFollowDeletion' /\ ProcessedIsDue'
  BY DEF AccountTypeOK, DeletedAreNotRegistering, ReceiptsFollowDeletion, ProcessedIsDue
<1> QED BY <1>1, <1>2, <1>3, <1>4

LEMMA DeleteByAdminSound ==
    ASSUME AccountInv, NEW e \in Email, DeleteByAdmin(e) PROVE AccountInv'
BY RequestGoes DEF DeleteByAdmin, AccountStatus, AccountInv, DeletedStaysDeleted

LEMMA RestoresPendingSound ==
    ASSUME AccountInv, NEW e \in Email, RestoresPending(e) PROVE AccountInv'
BY RequestGoes DEF RestoresPending, AccountStatus, AccountInv, DeletedStaysDeleted

LEMMA RequestDeletionSound ==
    ASSUME AccountInv, NEW e \in Email, RequestDeletion(e) PROVE AccountInv'
<1> USE DEF AccountInv, RequestDeletion
<1>1. NewRequest \in RequestRow /\ NewRequest.status = "pending"
  BY AttemptsAssumption DEF NewRequest, RequestRow
<1>2. AccountTypeOK'
  BY <1>1 DEF AccountTypeOK, AccountStatus
<1>3. e \notin records
  BY DEF DeletedStaysDeleted
<1>4. DeletedStaysDeleted' /\ DeletedAreNotRegistering' /\ ReceiptsFollowDeletion'
  BY <1>3 DEF AccountTypeOK, DeletedStaysDeleted, DeletedAreNotRegistering, ReceiptsFollowDeletion
<1>5. HolderKeepsClaim'
  BY DEF AccountTypeOK, HolderKeepsClaim, Owns
<1>6. ProcessedIsDue'
  BY <1>1 DEF AccountTypeOK, ProcessedIsDue
<1> QED BY <1>2, <1>4, <1>5, <1>6

LEMMA ComesDueSound ==
    ASSUME AccountInv, NEW e \in Email, ComesDue(e) PROVE AccountInv'
<1> USE DEF AccountInv, ComesDue
<1>1. request[e] \in RequestRow
  BY DEF AccountTypeOK
<1>2. AccountTypeOK'
  BY <1>1 DEF AccountTypeOK, RequestRow
<1>3. DeletedStaysDeleted' /\ DeletedAreNotRegistering' /\ ReceiptsFollowDeletion'
  BY DEF AccountTypeOK, DeletedStaysDeleted, DeletedAreNotRegistering, ReceiptsFollowDeletion
<1>4. request'[e] # NoRow /\ request'[e].status = request[e].status
      /\ request'[e].lease = request[e].lease /\ request'[e].due
  BY <1>1, <1>2, RowsAreNotNull DEF AccountTypeOK, RequestRow
<1>5. HolderKeepsClaim'
  BY <1>4 DEF AccountTypeOK, HolderKeepsClaim, Owns
<1>6. ProcessedIsDue'
  BY <1>4 DEF AccountTypeOK, ProcessedIsDue
<1> QED BY <1>2, <1>3, <1>5, <1>6

-----------------------------------------------------------------------------
(* The maintenance pass.                                                   *)

\* A row whose lease ran out is held by no claim.
LEMMA ExpiredIsNotHeld ==
    ASSUME AccountTypeOK, NEW rows, NEW work, NEW e, Expired(rows, work, e),
           NEW p \in Process, hand[p] # Idle, hand[p].task = work, hand[p].email = e
    PROVE  hand[p].lost
<1>1. hand[p] \in Claim
  BY DEF AccountTypeOK
<1>2. CASE ~hand[p].lost
  <2>1. hand[p] = [task |-> work, email |-> e, lost |-> FALSE]
    BY <1>1, <1>2 DEF Claim
  <2> QED BY <2>1 DEF Expired, Held
<1> QED BY <1>2

\* What a claiming statement makes of the table: the rows it gives up are held by nobody, and
\* keep all but their status and their lease.
LEMMA GivenUpSound ==
    ASSUME AccountTypeOK, NEW rows, NEW work, NEW max, NEW as, as # "processing",
           NEW Row, rows \in [Email -> Row \cup {NoRow}], NoRow \notin Row,
           \A row \in Row : Unheld(row, as) \in Row
    PROVE  LET after == GivenUp(rows, work, max, as) IN
           /\ after \in [Email -> Row \cup {NoRow}]
           /\ \A e \in Email : \/ after[e] = rows[e]
                              \/ /\ Expired(rows, work, e)
                                 /\ rows[e] \in Row
                                 /\ rows[e].attempts >= max
                                 /\ after[e] = Unheld(rows[e], as)
<1> DEFINE after == GivenUp(rows, work, max, as)
<1>1. ASSUME NEW e \in Email
      PROVE  /\ after[e] \in Row \cup {NoRow}
             /\ \/ after[e] = rows[e]
                \/ /\ Expired(rows, work, e)
                   /\ rows[e] \in Row
                   /\ rows[e].attempts >= max
                   /\ after[e] = Unheld(rows[e], as)
  <2>1. CASE Expired(rows, work, e) /\ rows[e].attempts >= max
    <3>1. rows[e] \in Row
      BY <2>1 DEF Expired
    <3>2. after[e] = Unheld(rows[e], as)
      BY <2>1 DEF GivenUp
    <3> QED BY <2>1, <3>1, <3>2
  <2>2. CASE ~(Expired(rows, work, e) /\ rows[e].attempts >= max)
    BY <2>2 DEF GivenUp
  <2> QED BY <2>1, <2>2
<1>2. after \in [Email -> Row \cup {NoRow}]
  BY <1>1 DEF GivenUp
<1> QED BY <1>1, <1>2

\* The fields of a row whose claim ends, and of one that is claimed.
LEMMA UnheldRequest ==
    ASSUME NEW row \in RequestRow, NEW status \in {"pending", "failed"}
    PROVE  LET after == Unheld(row, status) IN
           /\ after \in RequestRow
           /\ after.status = status /\ after.lease = NoLease
           /\ after.attempts = row.attempts /\ after.due = row.due
BY DEF Unheld, RequestRow

LEMMA UnheldMail ==
    ASSUME NEW row \in MailRow, NEW status \in {"pending", "dead_letter"}
    PROVE  LET after == Unheld(row, status) IN
           /\ after \in MailRow
           /\ after.status = status /\ after.lease = NoLease
           /\ after.attempts = row.attempts
BY DEF Unheld, MailRow

LEMMA TakenRequest ==
    ASSUME NEW row \in RequestRow, row.attempts < MaxDeletionAttempts, NEW p \in Process
    PROVE  LET after == Taken(row, p) IN
           /\ after \in RequestRow
           /\ after.status = "processing" /\ after.lease = p
           /\ after.due = row.due
<1>1. row.attempts + 1 \in 0 .. MaxDeletionAttempts
  BY AttemptsAssumption DEF RequestRow
<1> QED BY <1>1 DEF Taken, RequestRow

LEMMA TakenMail ==
    ASSUME NEW row \in MailRow, row.attempts < MaxEmailAttempts, NEW p \in Process
    PROVE  LET after == Taken(row, p) IN
           after \in MailRow /\ after.status = "processing" /\ after.lease = p
<1>1. row.attempts + 1 \in 0 .. MaxEmailAttempts
  BY AttemptsAssumption DEF MailRow
<1> QED BY <1>1 DEF Taken, MailRow

LEMMA ClaimDueDeletionSound ==
    ASSUME AccountInv, NEW p \in Process, ClaimDueDeletion(p) PROVE AccountInv'
<1> DEFINE rows == GivenUp(request, "deletion", MaxDeletionAttempts, "failed")
<1> USE DEF AccountInv
<1>0. UNCHANGED <<account, records, outbox, registering>> /\ hand[p] = Idle
  BY DEF ClaimDueDeletion
<1>1. /\ rows \in [Email -> RequestRow \cup {NoRow}]
      /\ \A e \in Email : \/ rows[e] = request[e]
                         \/ /\ Expired(request, "deletion", e)
                            /\ request[e] \in RequestRow
                            /\ request[e].attempts >= MaxDeletionAttempts
                            /\ rows[e] = Unheld(request[e], "failed")
  <2>1. \A row \in RequestRow : Unheld(row, "failed") \in RequestRow
    BY UnheldRequest
  <2>2. request \in [Email -> RequestRow \cup {NoRow}] /\ NoRow \notin RequestRow
    BY RowsAreNotNull DEF AccountTypeOK
  <2>3. AccountTypeOK /\ "failed" # "processing"
    OBVIOUS
  <2> HIDE DEF AccountInv
  <2> QED BY ONLY <2>1, <2>2, <2>3, GivenUpSound
<1>2. \/ \E e \in DueRequests : /\ request' = [rows EXCEPT ![e] = Taken(rows[e], p)]
                                /\ hand' = [hand EXCEPT ![p] = NewClaim("deletion", e)]
      \/ request' = rows /\ hand' = hand
  BY DEF ClaimDueDeletion
<1> HIDE DEF rows
<1>3. \A e \in Email : rows[e] # NoRow =>
        /\ request[e] # NoRow
        /\ rows[e].status = "processing" => rows[e] = request[e]
        /\ rows[e].due = request[e].due
  <2> SUFFICES ASSUME NEW e \in Email, rows[e] # NoRow
               PROVE  /\ request[e] # NoRow
                      /\ rows[e].status = "processing" => rows[e] = request[e]
                      /\ rows[e].due = request[e].due
    OBVIOUS
  <2>1. CASE rows[e] = request[e]
    BY <2>1
  <2>2. CASE request[e] \in RequestRow /\ rows[e] = Unheld(request[e], "failed")
    BY <2>2, UnheldRequest, RowsAreNotNull
  <2> QED BY <1>1, <2>1, <2>2
<1>4. \A e \in Email : request[e] = NoRow => rows[e] = NoRow
  BY <1>1, RowsAreNotNull
\* No claim is made void by what is given up.
<1>5. ASSUME NEW q \in Process, hand[q] # Idle, ~hand[q].lost, hand[q].task = "deletion"
      PROVE  /\ hand[q].email \in Email
             /\ rows[hand[q].email] = request[hand[q].email]
             /\ Owns(q, request)
             /\ ~Expired(request, "deletion", hand[q].email)
  <2>1. hand[q] \in Claim
    BY <1>5 DEF AccountTypeOK
  <2>2. ~Expired(request, "deletion", hand[q].email)
    BY <1>5, ExpiredIsNotHeld
  <2> QED BY <1>5, <1>1, <2>1, <2>2, HolderOwns DEF Claim
<1>6. CASE request' = rows /\ hand' = hand
  <2>1. AccountTypeOK'
    BY <1>0, <1>1, <1>6 DEF AccountTypeOK
  <2>2. DeletedStaysDeleted' /\ DeletedAreNotRegistering' /\ ReceiptsFollowDeletion'
    BY <1>0, <1>4, <1>6 DEF DeletedStaysDeleted, DeletedAreNotRegistering,
       ReceiptsFollowDeletion, AccountTypeOK
  <2>3. HolderKeepsClaim'
    BY <1>0, <1>5, <1>6 DEF HolderKeepsClaim, Owns
  <2>4. ProcessedIsDue'
    BY <1>3, <1>6 DEF ProcessedIsDue
  <2> QED BY <2>1, <2>2, <2>3, <2>4
<1>7. ASSUME NEW e \in DueRequests, request' = [rows EXCEPT ![e] = Taken(rows[e], p)],
             hand' = [hand EXCEPT ![p] = NewClaim("deletion", e)]
      PROVE  AccountInv'
  <2>1. e \in Email /\ request[e] \in RequestRow /\ request[e].attempts < MaxDeletionAttempts
        /\ request[e] # NoRow
    BY <1>7 DEF DueRequests, AccountTypeOK
  <2>2. rows[e] = request[e]
    BY <1>1, <2>1, AttemptsAssumption DEF RequestRow
  <2>3. request[e].due
    BY <1>7, <2>1 DEF DueRequests, Expired, ProcessedIsDue
  <2>4. /\ Taken(request[e], p) \in RequestRow
        /\ Taken(request[e], p).status = "processing"
        /\ Taken(request[e], p).lease = p
        /\ Taken(request[e], p).due
    BY <2>1, <2>3, TakenRequest
  <2>5. NewClaim("deletion", e) \in Claim
    BY <2>1 DEF NewClaim, Claim
  <2>6. AccountTypeOK'
    BY <1>0, <1>1, <1>7, <2>1, <2>2, <2>4, <2>5 DEF AccountTypeOK
  <2>7. e \notin records
    BY <2>1 DEF DeletedStaysDeleted
  <2>8. DeletedStaysDeleted' /\ DeletedAreNotRegistering' /\ ReceiptsFollowDeletion'
    BY <1>0, <1>1, <1>4, <1>7, <2>7 DEF DeletedStaysDeleted, DeletedAreNotRegistering,
       ReceiptsFollowDeletion, AccountTypeOK
  <2>9. ProcessedIsDue'
    BY <1>1, <1>3, <1>7, <2>1, <2>2, <2>4 DEF ProcessedIsDue
  <2>10. HolderKeepsClaim'
    <3> SUFFICES ASSUME NEW q \in Process, hand'[q] # Idle, ~hand'[q].lost
                 PROVE  Owns(q, IF hand[q].task = "deletion" THEN request ELSE outbox)'
      BY DEF HolderKeepsClaim
    <3>1. CASE q = p
      <4>1. hand'[q] = NewClaim("deletion", e)
        BY <1>7, <3>1 DEF AccountTypeOK
      <4>2. request'[e] = Taken(request[e], p)
        BY <1>1, <1>7, <2>1, <2>2
      <4> QED BY <3>1, <4>1, <4>2, <2>4, RowsAreNotNull DEF NewClaim, Owns
    <3>2. CASE q # p /\ hand[q].task = "deletion"
      <4>1. hand'[q] = hand[q]
        BY <1>7, <3>2 DEF AccountTypeOK
      <4>2. /\ hand[q].email \in Email /\ Owns(q, request)
            /\ rows[hand[q].email] = request[hand[q].email]
            /\ ~Expired(request, "deletion", hand[q].email)
        BY <1>5, <3>2, <4>1
      <4>3. hand[q].email # e
        BY <1>7, <4>2 DEF DueRequests, Owns
      <4>4. request'[hand[q].email] = request[hand[q].email]
        BY <1>1, <1>7, <4>2, <4>3
      <4> QED BY <3>2, <4>1, <4>2, <4>4 DEF Owns
    <3>3. CASE q # p /\ hand[q].task # "deletion"
      <4>1. hand'[q] = hand[q]
        BY <1>7, <3>3 DEF AccountTypeOK
      <4> QED BY <1>0, <3>3, <4>1 DEF HolderKeepsClaim, Owns
    <3> QED BY <3>1, <3>2, <3>3
  <2> QED BY <2>6, <2>8, <2>9, <2>10
<1> QED BY <1>2, <1>6, <1>7

\* Only the process whose token is on a row has a claim on it.
LEMMA OneOwner ==
    ASSUME NEW rows, NEW p \in Process, NEW q \in Process, q # p, Owns(p, rows), Owns(q, rows)
    PROVE  hand[q].email # hand[p].email
BY DEF Owns

LEMMA FinalizeDeletionSound ==
    ASSUME AccountInv, NEW p \in Process, FinalizeDeletion(p) PROVE AccountInv'
<1> DEFINE e == hand[p].email
<1> DEFINE receipt == [status |-> "pending", attempts |-> 0, lease |-> NoLease]
<1> USE DEF AccountInv
<1>1. hand[p] \in Claim /\ hand[p] # Idle /\ hand[p].task = "deletion" /\ e \in Email
  BY DEF FinalizeDeletion, WorksOn, AccountTypeOK, Claim
<1>2. hand' = [hand EXCEPT ![p] = Idle] /\ UNCHANGED registering
  BY DEF FinalizeDeletion
<1>3. CASE ~Removes(p)
  <2>1. UNCHANGED <<account, request, records, outbox>>
    BY <1>3 DEF FinalizeDeletion
  <2> QED BY <1>2, <2>1 DEF AccountTypeOK, DeletedStaysDeleted, HolderKeepsClaim, Owns,
             DeletedAreNotRegistering, ReceiptsFollowDeletion, ProcessedIsDue
<1>4. CASE Removes(p)
  <2>1. /\ e \notin registering
        /\ outbox' = [outbox EXCEPT ![e] = receipt]
        /\ records' = records \cup {e}
        /\ account' = [account EXCEPT ![e] = "none"]
        /\ request' = [request EXCEPT ![e] = NoRow]
    BY <1>4 DEF FinalizeDeletion, LocksEmail
  <2>2. account[e] # "none" /\ Owns(p, request)
    BY <1>4 DEF Removes
  <2>3. receipt \in MailRow
    BY AttemptsAssumption DEF MailRow
  <2>4. outbox[e] = NoRow
    BY <1>1, <2>2 DEF ReceiptsFollowDeletion, DeletedStaysDeleted
  <2> HIDE DEF e, receipt
  <2>5. AccountTypeOK'
    BY <1>1, <1>2, <2>1, <2>3 DEF AccountTypeOK, AccountStatus
  <2>6. DeletedStaysDeleted' /\ DeletedAreNotRegistering' /\ ReceiptsFollowDeletion'
        /\ ProcessedIsDue'
    BY <1>1, <1>2, <2>1 DEF AccountTypeOK, DeletedStaysDeleted, DeletedAreNotRegistering,
       ReceiptsFollowDeletion, ProcessedIsDue
  <2>7. HolderKeepsClaim'
    <3> SUFFICES ASSUME NEW q \in Process, hand'[q] # Idle, ~hand'[q].lost
                 PROVE  Owns(q, IF hand[q].task = "deletion" THEN request ELSE outbox)'
      BY DEF HolderKeepsClaim
    <3>1. q # p /\ hand'[q] = hand[q] /\ hand[q].email \in Email
      BY <1>2 DEF AccountTypeOK, Claim
    <3>2. CASE hand[q].task = "deletion"
      <4>1. Owns(q, request)
        BY <3>1, <3>2, HolderOwns
      <4>2. hand[q].email # e
        BY <2>2, <3>1, <4>1, OneOwner DEF e
      <4> QED BY <2>1, <3>1, <3>2, <4>1, <4>2 DEF Owns, AccountTypeOK
    <3>3. CASE hand[q].task # "deletion"
      <4>1. Owns(q, outbox)
        BY <3>1, <3>3, HolderOwns
      <4>2. hand[q].email # e
        BY <2>4, <4>1 DEF Owns
      <4> QED BY <2>1, <3>1, <3>3, <4>1, <4>2 DEF Owns, AccountTypeOK
    <3> QED BY <3>2, <3>3
  <2> QED BY <2>5, <2>6, <2>7
<1> QED BY <1>3, <1>4

LEMMA ReleaseDeletionSound ==
    ASSUME AccountInv, NEW p \in Process, ReleaseDeletion(p) PROVE AccountInv'
<1> DEFINE e == hand[p].email
<1> USE DEF AccountInv
<1>1. hand[p] \in Claim /\ hand[p] # Idle /\ hand[p].task = "deletion" /\ e \in Email
  BY DEF ReleaseDeletion, WorksOn, AccountTypeOK, Claim
<1>2. hand' = [hand EXCEPT ![p] = Idle] /\ UNCHANGED <<account, records, outbox, registering>>
  BY DEF ReleaseDeletion
<1>3. CASE ~Owns(p, request)
  <2>1. UNCHANGED request
    BY <1>3 DEF ReleaseDeletion, Released
  <2> QED BY <1>2, <2>1 DEF AccountTypeOK, DeletedStaysDeleted, HolderKeepsClaim, Owns,
             DeletedAreNotRegistering, ReceiptsFollowDeletion, ProcessedIsDue
<1>4. CASE Owns(p, request)
  <2> DEFINE row == FailedRow(request[e], MaxDeletionAttempts, "failed")
  <2>1. request' = [request EXCEPT ![e] = row]
    BY <1>4 DEF ReleaseDeletion, Released
  <2>2. request[e] \in RequestRow /\ request[e] # NoRow
    BY <1>1, <1>4 DEF AccountTypeOK, Owns
  <2>3. row \in RequestRow /\ row.status # "processing"
    BY <2>2, UnheldRequest DEF FailedRow
  <2>4. e \notin records
    BY <2>2 DEF DeletedStaysDeleted
  <2> HIDE DEF e, row
  <2>5. AccountTypeOK'
    BY <1>1, <1>2, <2>1, <2>3 DEF AccountTypeOK
  <2>6. DeletedStaysDeleted' /\ DeletedAreNotRegistering' /\ ReceiptsFollowDeletion'
        /\ ProcessedIsDue'
    BY <1>1, <1>2, <2>1, <2>3, <2>4 DEF AccountTypeOK, DeletedStaysDeleted,
       DeletedAreNotRegistering, ReceiptsFollowDeletion, ProcessedIsDue
  <2>7. HolderKeepsClaim'
    <3> SUFFICES ASSUME NEW q \in Process, hand'[q] # Idle, ~hand'[q].lost
                 PROVE  Owns(q, IF hand[q].task = "deletion" THEN request ELSE outbox)'
      BY DEF HolderKeepsClaim
    <3>1. q # p /\ hand'[q] = hand[q] /\ hand[q].email \in Email
      BY <1>2 DEF AccountTypeOK, Claim
    <3>2. CASE hand[q].task = "deletion"
      <4>1. Owns(q, request)
        BY <3>1, <3>2, HolderOwns
      <4>2. hand[q].email # e
        BY <1>4, <3>1, <4>1, OneOwner DEF e
      <4> QED BY <2>1, <3>1, <3>2, <4>1, <4>2 DEF Owns, AccountTypeOK
    <3>3. CASE hand[q].task # "deletion"
      BY <1>2, <3>1, <3>3, HolderOwns DEF Owns
    <3> QED BY <3>2, <3>3
  <2> QED BY <2>5, <2>6, <2>7
<1> QED BY <1>3, <1>4

\* The claim on a receipt ends: its row goes, or it is left with no claim on it.
LEMMA ReceiptEnds ==
    ASSUME AccountInv, NEW p \in Process, WorksOn(p, "receipt"),
           hand' = [hand EXCEPT ![p] = Idle],
           UNCHANGED <<account, request, records, registering>>,
           NEW row \in MailRow \cup {NoRow},
           outbox' = IF Owns(p, outbox) THEN [outbox EXCEPT ![hand[p].email] = row] ELSE outbox
    PROVE  AccountInv'
<1> DEFINE e == hand[p].email
<1> USE DEF AccountInv
<1>1. hand[p] \in Claim /\ hand[p] # Idle /\ hand[p].task = "receipt" /\ e \in Email
  BY DEF WorksOn, AccountTypeOK, Claim
<1>2. CASE ~Owns(p, outbox)
  <2>1. UNCHANGED outbox
    BY <1>2
  <2>2. AccountTypeOK' /\ DeletedStaysDeleted' /\ DeletedAreNotRegistering'
        /\ ReceiptsFollowDeletion' /\ ProcessedIsDue'
    BY <2>1 DEF AccountTypeOK, DeletedStaysDeleted, DeletedAreNotRegistering,
       ReceiptsFollowDeletion, ProcessedIsDue
  <2>3. ASSUME NEW q \in Process, hand'[q] # Idle PROVE hand'[q] = hand[q]
    BY <2>3 DEF AccountTypeOK
  <2>4. HolderKeepsClaim'
    BY <2>1, <2>3 DEF HolderKeepsClaim, Owns
  <2> QED BY <2>2, <2>4
<1>3. CASE Owns(p, outbox)
  <2>1. outbox' = [outbox EXCEPT ![e] = row]
    BY <1>3
  <2>2. e \in records
    BY <1>1, <1>3 DEF Owns, ReceiptsFollowDeletion
  <2> HIDE DEF e
  <2>3. AccountTypeOK'
    BY <1>1, <2>1 DEF AccountTypeOK
  <2>4. DeletedStaysDeleted' /\ DeletedAreNotRegistering' /\ ReceiptsFollowDeletion'
        /\ ProcessedIsDue'
    BY <1>1, <2>1, <2>2 DEF AccountTypeOK, DeletedStaysDeleted, DeletedAreNotRegistering,
       ReceiptsFollowDeletion, ProcessedIsDue
  <2>5. HolderKeepsClaim'
    <3> SUFFICES ASSUME NEW q \in Process, hand'[q] # Idle, ~hand'[q].lost
                 PROVE  Owns(q, IF hand[q].task = "deletion" THEN request ELSE outbox)'
      BY DEF HolderKeepsClaim
    <3>1. q # p /\ hand'[q] = hand[q] /\ hand[q].email \in Email
      BY DEF AccountTypeOK, Claim
    <3>2. CASE hand[q].task = "deletion"
      BY <3>1, <3>2, HolderOwns DEF Owns
    <3>3. CASE hand[q].task # "deletion"
      <4>1. Owns(q, outbox)
        BY <3>1, <3>3, HolderOwns
      <4>2. hand[q].email # e
        BY <1>3, <3>1, <4>1, OneOwner DEF e
      <4> QED BY <2>1, <3>1, <3>3, <4>1, <4>2 DEF Owns, AccountTypeOK
    <3> QED BY <3>2, <3>3
  <2> QED BY <2>3, <2>4, <2>5
<1> QED BY <1>2, <1>3

LEMMA CompleteReceiptSound ==
    ASSUME AccountInv, NEW p \in Process, CompleteReceipt(p) PROVE AccountInv'
BY ReceiptEnds DEF CompleteReceipt

LEMMA ReleaseReceiptSound ==
    ASSUME AccountInv, NEW p \in Process, ReleaseReceipt(p) PROVE AccountInv'
<1> DEFINE row == FailedRow(outbox[hand[p].email], MaxEmailAttempts, "dead_letter")
<1>1. outbox' = IF Owns(p, outbox) THEN [outbox EXCEPT ![hand[p].email] = row] ELSE outbox
  BY DEF ReleaseReceipt, Released
<1>2. CASE Owns(p, outbox)
  <2>1. hand[p].email \in Email
    BY DEF ReleaseReceipt, WorksOn, AccountInv, AccountTypeOK, Claim
  <2>2. outbox[hand[p].email] \in MailRow
    BY <1>2, <2>1 DEF AccountInv, AccountTypeOK, Owns
  <2>3. row \in MailRow
    BY <2>2, UnheldMail DEF FailedRow
  <2> HIDE DEF row
  <2> QED BY <1>1, <2>3, ReceiptEnds DEF ReleaseReceipt
<1>3. CASE ~Owns(p, outbox)
  <2>1. outbox' = IF Owns(p, outbox) THEN [outbox EXCEPT ![hand[p].email] = NoRow] ELSE outbox
    BY <1>1, <1>3
  <2> QED BY <2>1, ReceiptEnds DEF ReleaseReceipt
<1> QED BY <1>2, <1>3

LEMMA PurgeDeadLetterSound ==
    ASSUME AccountInv, NEW e \in Email, PurgeDeadLetter(e) PROVE AccountInv'
<1> USE DEF AccountInv, PurgeDeadLetter
<1>1. AccountTypeOK' /\ DeletedStaysDeleted' /\ DeletedAreNotRegistering' /\ ProcessedIsDue'
      /\ ReceiptsFollowDeletion'
  BY DEF AccountTypeOK, DeletedStaysDeleted, DeletedAreNotRegistering, ProcessedIsDue,
     ReceiptsFollowDeletion
<1>2. HolderKeepsClaim'
  BY DEF AccountTypeOK, HolderKeepsClaim, Owns
<1> QED BY <1>1, <1>2

LEMMA OutlastsLeaseSound ==
    ASSUME AccountInv, NEW p \in Process, OutlastsLease(p) PROVE AccountInv'
<1> USE DEF AccountInv, OutlastsLease
<1>1. hand[p] \in Claim
  BY DEF AccountTypeOK
<1> DEFINE late == [hand[p] EXCEPT !.lost = TRUE]
<1>2. late \in Claim /\ late.lost
  BY <1>1 DEF Claim
<1>3. hand' = [hand EXCEPT ![p] = late]
  OBVIOUS
<1> HIDE DEF late
<1>4. UNCHANGED <<account, request, records, outbox, registering>>
  OBVIOUS
<1> HIDE DEF OutlastsLease
<1>5. AccountTypeOK' /\ DeletedStaysDeleted' /\ DeletedAreNotRegistering'
      /\ ReceiptsFollowDeletion' /\ ProcessedIsDue'
  BY <1>2, <1>3, <1>4 DEF AccountTypeOK, DeletedStaysDeleted, DeletedAreNotRegistering,
     ReceiptsFollowDeletion, ProcessedIsDue
<1>6. ASSUME NEW q \in Process, ~hand'[q].lost PROVE hand'[q] = hand[q]
  BY <1>2, <1>3, <1>6 DEF AccountTypeOK
<1>7. HolderKeepsClaim'
  BY <1>4, <1>6 DEF HolderKeepsClaim, Owns
<1> QED BY <1>5, <1>7

LEMMA DropsClaimSound ==
    ASSUME AccountInv, NEW p \in Process, DropsClaim(p) PROVE AccountInv'
BY DEF AccountInv, DropsClaim, AccountTypeOK, DeletedStaysDeleted, HolderKeepsClaim, Owns,
   DeletedAreNotRegistering, ReceiptsFollowDeletion, ProcessedIsDue

LEMMA ClaimReceiptSound ==
    ASSUME AccountInv, NEW p \in Process, ClaimReceipt(p) PROVE AccountInv'
<1> DEFINE rows == GivenUp(outbox, "receipt", MaxEmailAttempts, "dead_letter")
<1> USE DEF AccountInv
<1>0. UNCHANGED <<account, request, records, registering>> /\ hand[p] = Idle
  BY DEF ClaimReceipt
<1>1. /\ rows \in [Email -> MailRow \cup {NoRow}]
      /\ \A e \in Email : \/ rows[e] = outbox[e]
                         \/ /\ Expired(outbox, "receipt", e)
                            /\ outbox[e] \in MailRow
                            /\ outbox[e].attempts >= MaxEmailAttempts
                            /\ rows[e] = Unheld(outbox[e], "dead_letter")
  <2>1. \A row \in MailRow : Unheld(row, "dead_letter") \in MailRow
    BY UnheldMail
  <2>2. outbox \in [Email -> MailRow \cup {NoRow}] /\ NoRow \notin MailRow
    BY RowsAreNotNull DEF AccountTypeOK
  <2>3. AccountTypeOK /\ "dead_letter" # "processing"
    OBVIOUS
  <2> HIDE DEF AccountInv
  <2> QED BY ONLY <2>1, <2>2, <2>3, GivenUpSound
<1>2. \/ \E e \in DueReceipts : /\ outbox' = [rows EXCEPT ![e] = Taken(rows[e], p)]
                                /\ hand' = [hand EXCEPT ![p] = NewClaim("receipt", e)]
      \/ outbox' = rows /\ hand' = hand
  BY DEF ClaimReceipt
<1> HIDE DEF rows
<1>3. \A e \in Email : rows[e] # NoRow => outbox[e] # NoRow
  BY <1>1, RowsAreNotNull
\* No claim is made void by what is given up.
<1>4. ASSUME NEW q \in Process, hand[q] # Idle, ~hand[q].lost, hand[q].task # "deletion"
      PROVE  /\ hand[q].email \in Email
             /\ rows[hand[q].email] = outbox[hand[q].email]
             /\ Owns(q, outbox)
             /\ ~Expired(outbox, "receipt", hand[q].email)
  <2>1. hand[q] \in Claim /\ hand[q].task = "receipt"
    BY <1>4 DEF AccountTypeOK, Claim
  <2>2. ~Expired(outbox, "receipt", hand[q].email)
    BY <1>4, <2>1, ExpiredIsNotHeld
  <2> QED BY <1>4, <1>1, <2>1, <2>2, HolderOwns DEF Claim
<1>5. CASE outbox' = rows /\ hand' = hand
  <2>1. AccountTypeOK'
    BY <1>0, <1>1, <1>5 DEF AccountTypeOK
  <2>2. DeletedStaysDeleted' /\ DeletedAreNotRegistering' /\ ReceiptsFollowDeletion'
        /\ ProcessedIsDue'
    BY <1>0, <1>3, <1>5 DEF DeletedStaysDeleted, DeletedAreNotRegistering,
       ReceiptsFollowDeletion, ProcessedIsDue
  <2>3. HolderKeepsClaim'
    BY <1>0, <1>4, <1>5 DEF HolderKeepsClaim, Owns
  <2> QED BY <2>1, <2>2, <2>3
<1>6. ASSUME NEW e \in DueReceipts, outbox' = [rows EXCEPT ![e] = Taken(rows[e], p)],
             hand' = [hand EXCEPT ![p] = NewClaim("receipt", e)]
      PROVE  AccountInv'
  <2>1. e \in Email /\ outbox[e] \in MailRow /\ outbox[e].attempts < MaxEmailAttempts
        /\ outbox[e] # NoRow
    BY <1>6 DEF DueReceipts, AccountTypeOK
  <2>2. rows[e] = outbox[e]
    BY <1>1, <2>1, AttemptsAssumption DEF MailRow
  <2>3. /\ Taken(outbox[e], p) \in MailRow
        /\ Taken(outbox[e], p).status = "processing"
        /\ Taken(outbox[e], p).lease = p
    BY <2>1, TakenMail
  <2>4. NewClaim("receipt", e) \in Claim
    BY <2>1 DEF NewClaim, Claim
  <2>5. AccountTypeOK'
    BY <1>0, <1>1, <1>6, <2>1, <2>2, <2>3, <2>4 DEF AccountTypeOK
  <2>6. e \in records
    BY <2>1 DEF ReceiptsFollowDeletion
  <2>7. DeletedStaysDeleted' /\ DeletedAreNotRegistering' /\ ReceiptsFollowDeletion'
        /\ ProcessedIsDue'
    BY <1>0, <1>1, <1>3, <1>6, <2>6 DEF DeletedStaysDeleted, DeletedAreNotRegistering,
       ReceiptsFollowDeletion, ProcessedIsDue
  <2>8. HolderKeepsClaim'
    <3> SUFFICES ASSUME NEW q \in Process, hand'[q] # Idle, ~hand'[q].lost
                 PROVE  Owns(q, IF hand[q].task = "deletion" THEN request ELSE outbox)'
      BY DEF HolderKeepsClaim
    <3>1. CASE q = p
      <4>1. hand'[q] = NewClaim("receipt", e)
        BY <1>6, <3>1 DEF AccountTypeOK
      <4>2. outbox'[e] = Taken(outbox[e], p)
        BY <1>1, <1>6, <2>1, <2>2
      <4> QED BY <3>1, <4>1, <4>2, <2>3, RowsAreNotNull DEF NewClaim, Owns
    <3>2. CASE q # p /\ hand[q].task # "deletion"
      <4>1. hand'[q] = hand[q]
        BY <1>6, <3>2 DEF AccountTypeOK
      <4>2. /\ hand[q].email \in Email /\ Owns(q, outbox)
            /\ rows[hand[q].email] = outbox[hand[q].email]
            /\ ~Expired(outbox, "receipt", hand[q].email)
        BY <1>4, <3>2, <4>1
      <4>3. hand[q].email # e
        BY <1>6, <4>2 DEF DueReceipts, Owns
      <4>4. outbox'[hand[q].email] = outbox[hand[q].email]
        BY <1>1, <1>6, <4>2, <4>3
      <4> QED BY <3>2, <4>1, <4>2, <4>4 DEF Owns
    <3>3. CASE q # p /\ hand[q].task = "deletion"
      <4>1. hand'[q] = hand[q]
        BY <1>6, <3>3 DEF AccountTypeOK
      <4> QED BY <1>0, <3>3, <4>1 DEF HolderKeepsClaim, Owns
    <3> QED BY <3>1, <3>2, <3>3
  <2> QED BY <2>5, <2>7, <2>8
<1> QED BY <1>2, <1>5, <1>6

-----------------------------------------------------------------------------
(* The theorems.                                                           *)

LEMMA StepSound == AccountInv /\ [AccountNext]_accountVars => AccountInv'
<1> SUFFICES ASSUME AccountInv, [AccountNext]_accountVars PROVE AccountInv'
  OBVIOUS
<1>1. ASSUME NEW e \in Email, RegistrationChecks(e) \/ RegistrationInserts(e) PROVE AccountInv'
  BY <1>1, RegistrationSound
<1>2. ASSUME NEW e \in Email, DeleteByAdmin(e) PROVE AccountInv'
  BY <1>2, DeleteByAdminSound
<1>3. ASSUME NEW e \in Email, SetStatusByAdmin(e) \/ FreezeByReview(e) PROVE AccountInv'
  BY <1>3, StatusSound
<1>4. ASSUME NEW e \in Email, RequestDeletion(e) PROVE AccountInv'
  BY <1>4, RequestDeletionSound
<1>5. ASSUME NEW e \in Email, ComesDue(e) PROVE AccountInv'
  BY <1>5, ComesDueSound
<1>6. ASSUME NEW e \in Email, RestoresPending(e) PROVE AccountInv'
  BY <1>6, RestoresPendingSound
<1>7. ASSUME NEW e \in Email, PurgeDeadLetter(e) PROVE AccountInv'
  BY <1>7, PurgeDeadLetterSound
<1>8. ASSUME NEW p \in Process, ClaimDueDeletion(p) PROVE AccountInv'
  BY <1>8, ClaimDueDeletionSound
<1>9. ASSUME NEW p \in Process, FinalizeDeletion(p) PROVE AccountInv'
  BY <1>9, FinalizeDeletionSound
<1>10. ASSUME NEW p \in Process, ReleaseDeletion(p) PROVE AccountInv'
  BY <1>10, ReleaseDeletionSound
<1>11. ASSUME NEW p \in Process, ClaimReceipt(p) PROVE AccountInv'
  BY <1>11, ClaimReceiptSound
<1>12. ASSUME NEW p \in Process, CompleteReceipt(p) PROVE AccountInv'
  BY <1>12, CompleteReceiptSound
<1>13. ASSUME NEW p \in Process, ReleaseReceipt(p) PROVE AccountInv'
  BY <1>13, ReleaseReceiptSound
<1>14. ASSUME NEW p \in Process, OutlastsLease(p) PROVE AccountInv'
  BY <1>14, OutlastsLeaseSound
<1>15. ASSUME NEW p \in Process, DropsClaim(p) PROVE AccountInv'
  BY <1>15, DropsClaimSound
<1>16. CASE UNCHANGED accountVars
  BY <1>16 DEF accountVars, AccountInv, AccountTypeOK, DeletedStaysDeleted, HolderKeepsClaim,
     Owns, DeletedAreNotRegistering, ReceiptsFollowDeletion, ProcessedIsDue
<1> QED BY <1>1, <1>2, <1>3, <1>4, <1>5, <1>6, <1>7, <1>8, <1>9, <1>10, <1>11, <1>12, <1>13,
           <1>14, <1>15, <1>16 DEF AccountNext

\* The inductive invariant holds in every reachable state.
THEOREM AccountInvHolds == AccountSpec => []AccountInv
BY InitSound, StepSound, PTL DEF AccountSpec

\* An address whose owner had the account deleted never has an account again
\* (the lock of the address, account-data-lifecycle.ts and user-store.ts).
THEOREM DeletedStaysDeletedHolds == AccountSpec => []DeletedStaysDeleted
<1>1. AccountInv => DeletedStaysDeleted
  BY DEF AccountInv
<1> QED BY <1>1, AccountInvHolds, PTL

\* A process keeps its claim until its lease runs out, whatever the others do.
THEOREM HolderKeepsClaimHolds == AccountSpec => []HolderKeepsClaim
<1>1. AccountInv => HolderKeepsClaim
  BY DEF AccountInv
<1> QED BY <1>1, AccountInvHolds, PTL

\* An account is removed on a due request that is still there, and only by the process whose
\* token is on it.
THEOREM RemovedOnRequestHolds == AccountSpec => RemovedOnRequest
<1>1. AccountInv /\ [AccountNext]_accountVars =>
        [\A e \in Email : Removed(e) => request[e] # NoRow /\ request[e].due]_accountVars
  <2> SUFFICES ASSUME AccountInv, AccountNext, NEW e \in Email, Removed(e)
               PROVE  request[e] # NoRow /\ request[e].due
    OBVIOUS
  <2>1. records' # records
    BY DEF Removed
  <2>2. PICK p \in Process : FinalizeDeletion(p)
    BY <2>1 DEF AccountNext, RegistrationChecks, RegistrationInserts, DeleteByAdmin,
       SetStatusByAdmin, FreezeByReview, RequestDeletion, ComesDue, RestoresPending,
       PurgeDeadLetter, ClaimDueDeletion, ReleaseDeletion, ClaimReceipt, CompleteReceipt,
       ReleaseReceipt, OutlastsLease, DropsClaim
  <2>3. Removes(p) /\ records' = records \cup {hand[p].email}
    BY <2>1, <2>2 DEF FinalizeDeletion
  <2>4. e = hand[p].email
    BY <2>3 DEF Removed
  <2> QED BY <2>3, <2>4 DEF Removes, Owns, AccountInv, ProcessedIsDue
<1> QED BY <1>1, AccountInvHolds, PTL DEF AccountSpec, RemovedOnRequest

-----------------------------------------------------------------------------
(* Invitations beside them.                                                *)


Settles(p) == task[p] # NoTask /\ task[p].step = "settling"

InviterAt(p) == invitation[task[p].invitation].inviter

\* A process that settles an invitation has the claim on it.
SettlersHoldTheirClaim == \A p \in Settler : Settles(p) => StillClaimed(p)

\* The locks: no two settle one invitation, or invitations of one inviter.
SettlersAreApart ==
    \A p \in Settler, q \in Settler :
        p # q /\ Settles(p) /\ Settles(q) =>
            /\ task[p].invitation # task[q].invitation
            /\ InviterAt(p) = InviterAt(q) => InviterAt(p) = NoInviter

\* What was read about the inviter holds until the commit.
RewardsStayDue == \A p \in Settler : Settles(p) /\ task[p].rewards => Deserves(InviterAt(p))

InvitationInv ==
    /\ InvitationTypeOK
    /\ SettlersHoldTheirClaim
    /\ SettlersAreApart
    /\ RewardsStayDue

-----------------------------------------------------------------------------
(* Rows and tasks.                                                         *)

LEMMA MarkedRow ==
    ASSUME NEW row \in InvitationRow, NEW status \in InvitationStatus
    PROVE  LET after == Marked(row, status) IN
           /\ after \in InvitationRow
           /\ after.status = status /\ after.attempts = row.attempts
           /\ after.inviter = row.inviter /\ after.rewarded = row.rewarded
BY DEF Marked, InvitationRow

LEMMA ReplayedRow ==
    ASSUME NEW row \in InvitationRow
    PROVE  LET after == Replayed(row) IN
           /\ after \in InvitationRow /\ after.status = "activated"
           /\ after.inviter = row.inviter /\ after.rewarded = row.rewarded
<1>1. 0 \in 0 .. MaxSettlementAttempts /\ "activated" \in InvitationStatus
  BY InvitationAssumption DEF InvitationStatus
<1> QED BY <1>1 DEF Replayed, InvitationRow

LEMMA TakenUpRow ==
    ASSUME NEW row \in InvitationRow, row.attempts < MaxSettlementAttempts
    PROVE  LET after == TakenUp(row) IN
           /\ after \in InvitationRow
           /\ after.status = "processing"
           /\ after.inviter = row.inviter /\ after.rewarded = row.rewarded
<1>1. row.attempts + 1 \in 0 .. MaxSettlementAttempts /\ "processing" \in InvitationStatus
  BY InvitationAssumption DEF InvitationRow, InvitationStatus
<1> QED BY <1>1 DEF TakenUp, InvitationRow

LEMMA SettledRowSound ==
    ASSUME NEW row \in InvitationRow, NEW rewards \in BOOLEAN
    PROVE  LET after == SettledRow(row, rewards) IN
           /\ after \in InvitationRow
           /\ after.status = "settled" /\ after.inviter = row.inviter
           /\ after.rewarded <=> row.rewarded \/ rewards
<1>1. "settled" \in InvitationStatus /\ (row.rewarded \/ rewards) \in BOOLEAN
  BY DEF InvitationStatus
<1> QED BY <1>1 DEF SettledRow, InvitationRow

LEMMA SettlingTask ==
    ASSUME NEW t \in Task, NEW rewards \in BOOLEAN
    PROVE  LET after == Settling(t, rewards) IN
           /\ after \in Task
           /\ after.invitation = t.invitation /\ after.attempt = t.attempt
           /\ after.step = "settling" /\ after.rewards = rewards
BY DEF Settling, Task

LEMMA DetachedRow ==
    ASSUME NEW row \in InvitationRow
    PROVE  LET after == Detached(row) IN
           /\ after \in InvitationRow
           /\ after.status = row.status /\ after.attempts = row.attempts
           /\ after.rewarded = row.rewarded
           /\ after = row \/ after.inviter = NoInviter
BY DEF Detached, InvitationRow

LEMMA SettlersRow ==
    ASSUME InvitationInv, NEW p \in Settler, Settles(p)
    PROVE  /\ task[p] \in Task
           /\ task[p].invitation \in Invitation
           /\ task[p].attempt \in 1 .. MaxSettlementAttempts
           /\ invitation[task[p].invitation] \in InvitationRow
           /\ invitation[task[p].invitation] # NoInvitation
           /\ invitation[task[p].invitation].status = "processing"
           /\ invitation[task[p].invitation].attempts = task[p].attempt
           /\ RowLocked(task[p].invitation)
<1>1. task[p] \in Task /\ task[p].invitation \in Invitation
      /\ task[p].attempt \in 1 .. MaxSettlementAttempts
  BY DEF InvitationInv, InvitationTypeOK, Settles, Task
<1>2. StillClaimed(p)
  BY DEF InvitationInv, SettlersHoldTheirClaim
<1>3. RowLocked(task[p].invitation)
  BY DEF RowLocked, Tasks, Settles
<1> QED BY <1>1, <1>2, <1>3 DEF StillClaimed, HasStatus, InvitationInv, InvitationTypeOK

-----------------------------------------------------------------------------
(* What an inviter deserves, of given accounts and invitations.            *)

RewardedOf(rows, e) ==
    {i \in Invitation : rows[i] # NoInvitation /\ rows[i].inviter = e /\ rows[i].rewarded}

DueTo(accounts, rows, e) ==
    /\ e # NoInviter /\ accounts[e] = "active"
    /\ Cardinality(RewardedOf(rows, e)) < DailyLimit

\* Fewer rewards today are as good.
LEMMA DueToFewer ==
    ASSUME NEW accounts, NEW rows, NEW accounts2, NEW rows2, NEW e, DueTo(accounts, rows, e),
           accounts2[e] = accounts[e],
           \A i \in Invitation : i \in RewardedOf(rows2, e) => i \in RewardedOf(rows, e)
    PROVE  DueTo(accounts2, rows2, e)
<1>1. IsFiniteSet(RewardedOf(rows, e))
  BY InvitationAssumption, FS_Subset DEF RewardedOf
<1>2. RewardedOf(rows2, e) \subseteq RewardedOf(rows, e)
  BY DEF RewardedOf
<1>3. /\ IsFiniteSet(RewardedOf(rows2, e))
      /\ Cardinality(RewardedOf(rows2, e)) <= Cardinality(RewardedOf(rows, e))
  BY <1>1, <1>2, FS_Subset
<1>4. /\ Cardinality(RewardedOf(rows, e)) \in Nat
      /\ Cardinality(RewardedOf(rows2, e)) \in Nat
  BY <1>1, <1>3, FS_CardinalityType
<1> QED BY <1>3, <1>4, InvitationAssumption DEF DueTo

\* A step that leaves alone what the settlements in progress have read.
Undisturbed(p) ==
    LET i == task[p].invitation
        e == invitation[i].inviter
    IN  /\ invitation'[i] = invitation[i]
        /\ e # NoInviter =>
              /\ account'[e] = account[e]
              /\ \A j \in Invitation : j \in RewardedOf(invitation', e)
                                          => j \in RewardedOf(invitation, e)

LEMMA SettlersUndisturbed ==
    ASSUME InvitationInv, InvitationTypeOK',
           \A p \in Settler : Settles(p)' => Settles(p) /\ task'[p] = task[p] /\ Undisturbed(p)
    PROVE  InvitationInv'
<1>1. ASSUME NEW p \in Settler, Settles(p)'
      PROVE  /\ Settles(p) /\ task'[p] = task[p] /\ Undisturbed(p)
             /\ InviterAt(p)' = InviterAt(p)
  BY <1>1 DEF Undisturbed, InviterAt
<1>2. SettlersHoldTheirClaim'
  BY <1>1 DEF InvitationInv, SettlersHoldTheirClaim, StillClaimed, HasStatus, Undisturbed
<1>3. SettlersAreApart'
  BY <1>1 DEF InvitationInv, SettlersAreApart
<1>4. RewardsStayDue'
  <2> SUFFICES ASSUME NEW p \in Settler, Settles(p)', task'[p].rewards
               PROVE  Deserves(InviterAt(p))'
    BY DEF RewardsStayDue
  <2>1. Settles(p) /\ task[p].rewards /\ Undisturbed(p) /\ InviterAt(p)' = InviterAt(p)
    BY <1>1
  <2>2. DueTo(account, invitation, InviterAt(p))
    BY <2>1 DEF InvitationInv, RewardsStayDue, Deserves, RewardedToday, DueTo, RewardedOf
  <2>3. InviterAt(p) # NoInviter
    BY <2>2 DEF DueTo
  <2>4. DueTo(account', invitation', InviterAt(p))
    <3>1. /\ account'[InviterAt(p)] = account[InviterAt(p)]
          /\ \A j \in Invitation : j \in RewardedOf(invitation', InviterAt(p))
                                      => j \in RewardedOf(invitation, InviterAt(p))
      BY <2>1, <2>3 DEF Undisturbed, InviterAt
    <3> QED BY <2>2, <3>1, DueToFewer
  <2>5. DueTo(account', invitation', InviterAt(p)')
    BY <2>1, <2>4
  <2> QED BY <2>5 DEF Deserves, RewardedToday, DueTo, RewardedOf
<1> QED BY <1>2, <1>3, <1>4 DEF InvitationInv

LEMMA InvitationInitSound == Init => InvitationInv
BY DEF Init, InvitationInit, InvitationInv, InvitationTypeOK, SettlersHoldTheirClaim,
   SettlersAreApart, RewardsStayDue, Settles

-----------------------------------------------------------------------------
(* The steps.                                                              *)

\* One row that no process settles is changed, and gets no reward.
LEMMA OneRowChanges ==
    ASSUME InvitationInv, NEW i \in Invitation, NEW row \in InvitationRow \cup {NoInvitation},
           invitation' = [invitation EXCEPT ![i] = row],
           ~HasStatus(i, {"processing"}) \/ ~RowLocked(i),
           row # NoInvitation /\ row.rewarded =>
               invitation[i] # NoInvitation /\ invitation[i].rewarded
                   /\ invitation[i].inviter = row.inviter,
           UNCHANGED account,
           InvitationTypeOK',
           \A p \in Settler : Settles(p)' => Settles(p) /\ task'[p] = task[p]
    PROVE  InvitationInv'
<1>1. ASSUME NEW p \in Settler, Settles(p)' PROVE Undisturbed(p)
  <2>1. Settles(p)
    BY <1>1
  <2>2. task[p].invitation # i
    BY <2>1, SettlersRow DEF HasStatus
  <2>3. invitation'[task[p].invitation] = invitation[task[p].invitation]
    BY <2>1, <2>2, SettlersRow DEF InvitationInv, InvitationTypeOK
  <2>4. ASSUME NEW e, NEW j \in Invitation, j \in RewardedOf(invitation', e)
        PROVE  j \in RewardedOf(invitation, e)
    <3>1. CASE j = i
      BY <2>4, <3>1 DEF RewardedOf, InvitationInv, InvitationTypeOK
    <3>2. CASE j # i
      BY <2>4, <3>2 DEF RewardedOf, InvitationInv, InvitationTypeOK
    <3> QED BY <3>1, <3>2
  <2> QED BY <2>3, <2>4 DEF Undisturbed
<1> QED BY <1>1, SettlersUndisturbed

LEMMA RegistersInvitedSound ==
    ASSUME InvitationInv, NEW i \in Invitation, RegistersInvited(i)
    PROVE  InvitationInv'
<1> DEFINE row == [inviter |-> InviterOf[i], status |-> "registered",
                   attempts |-> 0, rewarded |-> FALSE]
<1>1. /\ invitation[i] = NoInvitation
      /\ invitation' = [invitation EXCEPT ![i] = row]
      /\ UNCHANGED <<account, task>>
  BY DEF RegistersInvited
<1>2. row \in InvitationRow /\ ~row.rewarded
  BY InvitationAssumption DEF InvitationRow, InvitationStatus
<1> HIDE DEF row
<1>3. InvitationTypeOK'
  BY <1>1, <1>2 DEF InvitationInv, InvitationTypeOK
<1>4. ~HasStatus(i, {"processing"})
  BY <1>1 DEF HasStatus
<1>5. ASSUME NEW p \in Settler, Settles(p)' PROVE Settles(p) /\ task'[p] = task[p]
  BY <1>1, <1>5 DEF Settles
<1> QED BY <1>1, <1>2, <1>3, <1>4, <1>5, OneRowChanges

LEMMA ActivatesSound ==
    ASSUME InvitationInv, NEW i \in Invitation, Activates(i)
    PROVE  InvitationInv'
<1> DEFINE row == Marked(invitation[i], "activated")
<1>1. /\ HasStatus(i, {"registered"})
      /\ invitation' = [invitation EXCEPT ![i] = row]
      /\ UNCHANGED <<account, task>>
  BY DEF Activates
<1>2. invitation[i] \in InvitationRow /\ invitation[i] # NoInvitation
  BY <1>1 DEF HasStatus, InvitationInv, InvitationTypeOK
<1>3. row \in InvitationRow /\ row.inviter = invitation[i].inviter
      /\ row.rewarded = invitation[i].rewarded
  BY <1>2, MarkedRow DEF InvitationStatus
<1> HIDE DEF row
<1>4. InvitationTypeOK'
  BY <1>1, <1>3 DEF InvitationInv, InvitationTypeOK
<1>5. ~HasStatus(i, {"processing"})
  BY <1>1 DEF HasStatus
<1>6. ASSUME NEW p \in Settler, Settles(p)' PROVE Settles(p) /\ task'[p] = task[p]
  BY <1>1, <1>6 DEF Settles
<1> QED BY <1>1, <1>2, <1>3, <1>4, <1>5, <1>6, OneRowChanges

LEMMA ReplaySettlementSound ==
    ASSUME InvitationInv, NEW i \in Invitation, ReplaySettlement(i)
    PROVE  InvitationInv'
<1> DEFINE row == Replayed(invitation[i])
<1>1. /\ HasStatus(i, {"failed", "dead_letter"})
      /\ invitation' = [invitation EXCEPT ![i] = row]
      /\ UNCHANGED <<account, task>>
  BY DEF ReplaySettlement
<1>2. invitation[i] \in InvitationRow /\ invitation[i] # NoInvitation
  BY <1>1 DEF HasStatus, InvitationInv, InvitationTypeOK
<1>3. row \in InvitationRow /\ row.inviter = invitation[i].inviter
      /\ row.rewarded = invitation[i].rewarded
  BY <1>2, ReplayedRow
<1> HIDE DEF row
<1>4. InvitationTypeOK'
  BY <1>1, <1>3 DEF InvitationInv, InvitationTypeOK
<1>5. ~HasStatus(i, {"processing"})
  BY <1>1 DEF HasStatus
<1>6. ASSUME NEW p \in Settler, Settles(p)' PROVE Settles(p) /\ task'[p] = task[p]
  BY <1>1, <1>6 DEF Settles
<1> QED BY <1>1, <1>2, <1>3, <1>4, <1>5, <1>6, OneRowChanges

LEMMA FriendLeavesSound ==
    ASSUME InvitationInv, NEW i \in Invitation, FriendLeaves(i)
    PROVE  InvitationInv'
<1>1. /\ ~RowLocked(i)
      /\ invitation' = [invitation EXCEPT ![i] = NoInvitation]
      /\ UNCHANGED <<account, task>>
  BY DEF FriendLeaves
<1>2. InvitationTypeOK'
  BY <1>1 DEF InvitationInv, InvitationTypeOK
<1>3. ASSUME NEW p \in Settler, Settles(p)' PROVE Settles(p) /\ task'[p] = task[p]
  BY <1>1, <1>3 DEF Settles
<1> QED BY <1>1, <1>2, <1>3, OneRowChanges

\* The rows a claiming statement gives up are settled by nobody, and it gives no reward.
LEMMA GivenUpSettlementsSound ==
    ASSUME InvitationInv
    PROVE  /\ GivenUpSettlements \in [Invitation -> InvitationRow \cup {NoInvitation}]
           /\ \A i \in Invitation :
                 \/ GivenUpSettlements[i] = invitation[i]
                 \/ /\ LeaseExpired(i)
                    /\ invitation[i] \in InvitationRow /\ invitation[i] # NoInvitation
                    /\ invitation[i].attempts >= MaxSettlementAttempts
                    /\ GivenUpSettlements[i] \in InvitationRow
                    /\ GivenUpSettlements[i].inviter = invitation[i].inviter
                    /\ GivenUpSettlements[i].rewarded = invitation[i].rewarded
<1>1. ASSUME NEW i \in Invitation
      PROVE  /\ GivenUpSettlements[i] \in InvitationRow \cup {NoInvitation}
             /\ \/ GivenUpSettlements[i] = invitation[i]
                \/ /\ LeaseExpired(i)
                   /\ invitation[i] \in InvitationRow /\ invitation[i] # NoInvitation
                   /\ invitation[i].attempts >= MaxSettlementAttempts
                   /\ GivenUpSettlements[i] \in InvitationRow
                   /\ GivenUpSettlements[i].inviter = invitation[i].inviter
                   /\ GivenUpSettlements[i].rewarded = invitation[i].rewarded
  <2>1. CASE LeaseExpired(i) /\ invitation[i].attempts >= MaxSettlementAttempts
    <3>1. invitation[i] \in InvitationRow /\ invitation[i] # NoInvitation
      BY <2>1 DEF LeaseExpired, HasStatus, InvitationInv, InvitationTypeOK
    <3>2. GivenUpSettlements[i] = Marked(invitation[i], "dead_letter")
      BY <2>1 DEF GivenUpSettlements
    <3>3. "dead_letter" \in InvitationStatus
      BY DEF InvitationStatus
    <3> QED BY <2>1, <3>1, <3>2, <3>3, MarkedRow
  <2>2. CASE ~(LeaseExpired(i) /\ invitation[i].attempts >= MaxSettlementAttempts)
    BY <2>2 DEF GivenUpSettlements, InvitationInv, InvitationTypeOK
  <2> QED BY <2>1, <2>2
<1>2. GivenUpSettlements \in [Invitation -> InvitationRow \cup {NoInvitation}]
  BY <1>1 DEF GivenUpSettlements
<1> QED BY <1>1, <1>2

LEMMA ClaimSettlementSound ==
    ASSUME InvitationInv, NEW p \in Settler, ClaimSettlement(p)
    PROVE  InvitationInv'
<1> DEFINE rows == GivenUpSettlements
<1>1. /\ rows \in [Invitation -> InvitationRow \cup {NoInvitation}]
      /\ \A i \in Invitation :
           \/ rows[i] = invitation[i]
           \/ /\ LeaseExpired(i)
              /\ invitation[i] \in InvitationRow /\ invitation[i] # NoInvitation
              /\ invitation[i].attempts >= MaxSettlementAttempts
              /\ rows[i] \in InvitationRow
              /\ rows[i].inviter = invitation[i].inviter
              /\ rows[i].rewarded = invitation[i].rewarded
  BY GivenUpSettlementsSound
<1>2. task[p] = NoTask /\ UNCHANGED account
  BY DEF ClaimSettlement
<1>3. \/ \E i \in Claimable :
            /\ invitation' = [rows EXCEPT ![i] = TakenUp(rows[i])]
            /\ task' = [task EXCEPT ![p] =
                           [invitation |-> i, attempt |-> invitation[i].attempts + 1,
                            step |-> "claimed", rewards |-> FALSE]]
      \/ invitation' = rows /\ UNCHANGED task
  BY DEF ClaimSettlement
<1> HIDE DEF rows
<1>4. ASSUME NEW e, NEW j \in RewardedOf(rows, e) PROVE j \in RewardedOf(invitation, e)
  BY <1>1, <1>4 DEF RewardedOf
<1>5. ASSUME NEW q \in Settler, Settles(q)
      PROVE  rows[task[q].invitation] = invitation[task[q].invitation]
  BY <1>1, <1>5, SettlersRow DEF LeaseExpired
<1>6. CASE invitation' = rows /\ UNCHANGED task
  <2>1. InvitationTypeOK'
    BY <1>1, <1>6 DEF InvitationInv, InvitationTypeOK
  <2>2. ASSUME NEW q \in Settler, Settles(q)'
        PROVE  Settles(q) /\ task'[q] = task[q] /\ Undisturbed(q)
    <3>1. Settles(q) /\ task'[q] = task[q]
      BY <1>6, <2>2 DEF Settles
    <3> QED BY <1>2, <1>4, <1>5, <1>6, <3>1 DEF Undisturbed
  <2> QED BY <2>1, <2>2, SettlersUndisturbed
<1>7. ASSUME NEW i \in Claimable, invitation' = [rows EXCEPT ![i] = TakenUp(rows[i])],
             task' = [task EXCEPT ![p] =
                        [invitation |-> i, attempt |-> invitation[i].attempts + 1,
                         step |-> "claimed", rewards |-> FALSE]]
      PROVE  InvitationInv'
  <2> DEFINE claim == [invitation |-> i, attempt |-> invitation[i].attempts + 1,
                       step |-> "claimed", rewards |-> FALSE]
  <2>1. /\ i \in Invitation
        /\ invitation[i] \in InvitationRow /\ invitation[i] # NoInvitation
        /\ invitation[i].attempts < MaxSettlementAttempts
    BY <1>7 DEF Claimable, HasStatus, LeaseExpired, InvitationInv, InvitationTypeOK
  <2>2. invitation[i].attempts \in 0 .. MaxSettlementAttempts
    BY <2>1 DEF InvitationRow
  <2>3. rows[i] = invitation[i]
    BY <1>1, <2>1, <2>2, InvitationAssumption
  <2>4. /\ TakenUp(rows[i]) \in InvitationRow
        /\ TakenUp(rows[i]).inviter = invitation[i].inviter
        /\ TakenUp(rows[i]).rewarded = invitation[i].rewarded
    BY <2>1, <2>3, TakenUpRow
  <2>5. claim \in Task /\ claim.step # "settling"
    <3>1. invitation[i].attempts + 1 \in 1 .. MaxSettlementAttempts
      BY <2>1, <2>2, InvitationAssumption
    <3> QED BY <2>1, <3>1 DEF Task
  <2>6. task' = [task EXCEPT ![p] = claim]
    BY <1>7
  <2> HIDE DEF claim
  <2>7. InvitationTypeOK'
    BY <1>1, <1>7, <2>1, <2>4, <2>5, <2>6 DEF InvitationInv, InvitationTypeOK
  <2>8. ASSUME NEW q \in Settler, Settles(q)'
        PROVE  Settles(q) /\ task'[q] = task[q] /\ Undisturbed(q)
    <3>1. q # p
      BY <2>5, <2>6, <2>8 DEF Settles, InvitationInv, InvitationTypeOK
    <3>2. Settles(q) /\ task'[q] = task[q]
      BY <2>6, <2>8, <3>1 DEF Settles, InvitationInv, InvitationTypeOK
    <3>3. task[q].invitation # i
      BY <1>7, <3>2, SettlersRow DEF Claimable, HasStatus, LeaseExpired
    <3>4. invitation'[task[q].invitation] = invitation[task[q].invitation]
      BY <1>1, <1>5, <1>7, <3>2, <3>3, SettlersRow
    <3>5. ASSUME NEW e, NEW j \in Invitation, j \in RewardedOf(invitation', e)
          PROVE  j \in RewardedOf(invitation, e)
      <4>1. CASE j = i
        BY <1>1, <1>7, <2>1, <2>4, <3>5, <4>1 DEF RewardedOf
      <4>2. CASE j # i
        BY <1>1, <1>4, <1>7, <3>5, <4>2 DEF RewardedOf
      <4> QED BY <4>1, <4>2
    <3> QED BY <1>2, <3>2, <3>4, <3>5 DEF Undisturbed
  <2> QED BY <2>7, <2>8, SettlersUndisturbed
<1> QED BY <1>3, <1>6, <1>7

\* A process that lets go of its task disturbs nobody.
LEMMA TaskDropped ==
    ASSUME InvitationInv, NEW p \in Settler, task' = [task EXCEPT ![p] = NoTask],
           UNCHANGED <<account, invitation>>
    PROVE  InvitationInv'
<1>1. InvitationTypeOK'
  BY DEF InvitationInv, InvitationTypeOK
<1>2. ASSUME NEW q \in Settler, Settles(q)'
      PROVE  Settles(q) /\ task'[q] = task[q] /\ Undisturbed(q)
  <2>1. Settles(q) /\ task'[q] = task[q]
    BY <1>2 DEF Settles, InvitationInv, InvitationTypeOK
  <2> QED BY <2>1 DEF Undisturbed, RewardedOf
<1> QED BY <1>1, <1>2, SettlersUndisturbed

LEMMA BeginSettlementSound ==
    ASSUME InvitationInv, NEW p \in Settler, BeginSettlement(p)
    PROVE  InvitationInv'
<1> DEFINE i == task[p].invitation
<1> DEFINE e == invitation[i].inviter
<1>1. UNCHANGED <<account, invitation>> /\ ~RowLocked(i) /\ task[p] # NoTask
  BY DEF BeginSettlement
<1>2. task[p] \in Task /\ i \in Invitation
  BY <1>1 DEF InvitationInv, InvitationTypeOK, Task
<1>3. CASE ~StillClaimed(p)
  <2>1. task' = [task EXCEPT ![p] = NoTask]
    BY <1>3 DEF BeginSettlement
  <2> QED BY <1>1, <2>1, TaskDropped
<1>4. CASE StillClaimed(p)
  <2>1. PICK rewards \in {FALSE, Deserves(e)} : task' = [task EXCEPT ![p] = Settling(task[p], rewards)]
    BY <1>4 DEF BeginSettlement
  <2>2. ~WaitsForInviter(e)
    BY <1>4 DEF BeginSettlement
  <2>3. rewards \in BOOLEAN /\ (rewards => Deserves(e))
    BY <2>1 DEF Deserves
  <2>4. /\ Settling(task[p], rewards) \in Task
        /\ Settling(task[p], rewards).invitation = i
        /\ Settling(task[p], rewards).attempt = task[p].attempt
        /\ Settling(task[p], rewards).rewards = rewards
    BY <1>2, <2>3, SettlingTask
  <2>5. task'[p] = Settling(task[p], rewards)
        /\ \A q \in Settler : q # p => task'[q] = task[q]
    BY <2>1 DEF InvitationInv, InvitationTypeOK
  <2>6. InvitationTypeOK'
    BY <1>1, <2>1, <2>4 DEF InvitationInv, InvitationTypeOK
  <2>7. ASSUME NEW q \in Settler, q # p, Settles(q)'
        PROVE  /\ Settles(q) /\ task'[q] = task[q]
               /\ InviterAt(q)' = InviterAt(q)
               /\ task[q].invitation # i
               /\ InviterAt(q) = e => e = NoInviter
    <3>1. Settles(q) /\ task'[q] = task[q] /\ InviterAt(q)' = InviterAt(q)
      BY <1>1, <2>5, <2>7 DEF Settles, InviterAt
    <3>2. RowLocked(task[q].invitation) /\ task[q].invitation \in Invitation
      BY <3>1, SettlersRow
    <3>3. InviterAt(q) = e => InviterLocked(e)
      BY <3>2 DEF InviterLocked, InviterAt
    <3> QED BY <1>1, <2>2, <3>1, <3>2, <3>3 DEF WaitsForInviter
  <2>8. InviterAt(p)' = e /\ task'[p].invitation = i /\ task'[p].attempt = task[p].attempt
        /\ task'[p].rewards = rewards
    BY <1>1, <2>4, <2>5 DEF InviterAt
  <2> HIDE DEF i, e
  <2>9. SettlersHoldTheirClaim'
    <3> SUFFICES ASSUME NEW q \in Settler, Settles(q)' PROVE StillClaimed(q)'
      BY DEF SettlersHoldTheirClaim
    <3>1. CASE q = p
      BY <1>1, <1>4, <2>8, <3>1 DEF StillClaimed, HasStatus, i
    <3>2. CASE q # p
      BY <1>1, <2>7, <3>2 DEF StillClaimed, HasStatus, InvitationInv, SettlersHoldTheirClaim
    <3> QED BY <3>1, <3>2
  <2>10. SettlersAreApart'
    BY <2>7, <2>8 DEF InvitationInv, SettlersAreApart
  <2>11. RewardsStayDue'
    <3> SUFFICES ASSUME NEW q \in Settler, Settles(q)', task'[q].rewards
                 PROVE  Deserves(InviterAt(q))'
      BY DEF RewardsStayDue
    <3>1. Deserves(InviterAt(q)')
      BY <2>3, <2>7, <2>8 DEF InvitationInv, RewardsStayDue
    <3> QED BY <1>1, <3>1 DEF Deserves, RewardedToday
  <2> QED BY <2>6, <2>9, <2>10, <2>11 DEF InvitationInv
<1> QED BY <1>3, <1>4

LEMMA CommitSettlementSound ==
    ASSUME InvitationInv, NEW p \in Settler, CommitSettlement(p)
    PROVE  InvitationInv'
<1> DEFINE i == task[p].invitation
<1> DEFINE row == SettledRow(invitation[i], task[p].rewards)
<1>1. /\ Settles(p) /\ UNCHANGED account
      /\ invitation' = [invitation EXCEPT ![i] = row]
      /\ task' = [task EXCEPT ![p] = NoTask]
  BY DEF CommitSettlement, Settles
<1>2. task[p] \in Task /\ i \in Invitation /\ invitation[i] \in InvitationRow
      /\ invitation[i] # NoInvitation
  BY <1>1, SettlersRow
<1>3. row \in InvitationRow /\ row.inviter = invitation[i].inviter
  BY <1>2, SettledRowSound DEF Task
<1> HIDE DEF row
<1>4. InvitationTypeOK'
  BY <1>1, <1>2, <1>3 DEF InvitationInv, InvitationTypeOK
<1>5. ASSUME NEW q \in Settler, Settles(q)'
      PROVE  Settles(q) /\ task'[q] = task[q] /\ Undisturbed(q)
  <2>1. q # p /\ Settles(q) /\ task'[q] = task[q]
    BY <1>1, <1>5 DEF Settles, InvitationInv, InvitationTypeOK
  <2>2. /\ task[q].invitation # i /\ task[q].invitation \in Invitation
        /\ InviterAt(q) # NoInviter => InviterAt(q) # invitation[i].inviter
    BY <1>1, <2>1, SettlersRow DEF InvitationInv, SettlersAreApart, InviterAt
  <2> HIDE DEF i
  <2>3. invitation'[task[q].invitation] = invitation[task[q].invitation]
    BY <1>1, <2>2 DEF InvitationInv, InvitationTypeOK
  <2>4. ASSUME InviterAt(q) # NoInviter, NEW j \in Invitation,
               j \in RewardedOf(invitation', InviterAt(q))
        PROVE  j \in RewardedOf(invitation, InviterAt(q))
    <3>1. j # i
      BY <1>1, <1>2, <1>3, <2>2, <2>4 DEF RewardedOf, InvitationInv, InvitationTypeOK
    <3> QED BY <1>1, <2>4, <3>1 DEF RewardedOf, InvitationInv, InvitationTypeOK
  <2> QED BY <1>1, <2>1, <2>3, <2>4 DEF Undisturbed, InviterAt
<1> QED BY <1>4, <1>5, SettlersUndisturbed

LEMMA RecordFailureSound ==
    ASSUME InvitationInv, NEW p \in Settler, RecordFailure(p)
    PROVE  InvitationInv'
<1> DEFINE i == task[p].invitation
<1> DEFINE status == IF task[p].attempt >= MaxSettlementAttempts THEN "dead_letter" ELSE "failed"
<1> DEFINE row == Marked(invitation[i], status)
<1>1. /\ task[p] # NoTask /\ UNCHANGED account
      /\ task[p].step = "settling" \/ ~RowLocked(i)
      /\ task' = [task EXCEPT ![p] = NoTask]
  BY DEF RecordFailure
<1>2. CASE ~StillClaimed(p)
  <2>1. UNCHANGED invitation
    BY <1>2 DEF RecordFailure, FailsItsClaim
  <2> QED BY <1>1, <2>1, TaskDropped
<1>3. CASE StillClaimed(p)
  <2>1. invitation' = [invitation EXCEPT ![i] = row]
    BY <1>3 DEF RecordFailure, FailsItsClaim
  <2>2. i \in Invitation /\ invitation[i] \in InvitationRow /\ invitation[i] # NoInvitation
    BY <1>1, <1>3 DEF StillClaimed, HasStatus, InvitationInv, InvitationTypeOK, Task
  <2>3. status \in InvitationStatus
    BY DEF InvitationStatus
  <2> HIDE DEF status
  <2>4. row \in InvitationRow /\ row.inviter = invitation[i].inviter
        /\ row.rewarded = invitation[i].rewarded
    BY <2>2, <2>3, MarkedRow
  <2> HIDE DEF row
  <2>5. InvitationTypeOK'
    BY <1>1, <2>1, <2>4 DEF InvitationInv, InvitationTypeOK
  <2>6. ASSUME NEW q \in Settler, Settles(q)'
        PROVE  Settles(q) /\ task'[q] = task[q] /\ Undisturbed(q)
    <3>1. q # p /\ Settles(q) /\ task'[q] = task[q]
      BY <1>1, <2>6 DEF Settles, InvitationInv, InvitationTypeOK
    <3>2. task[q].invitation # i /\ task[q].invitation \in Invitation
      BY <1>1, <3>1, SettlersRow DEF Settles, InvitationInv, SettlersAreApart
    <3> HIDE DEF i
    <3>3. invitation'[task[q].invitation] = invitation[task[q].invitation]
      BY <2>1, <3>2 DEF InvitationInv, InvitationTypeOK
    <3>4. ASSUME NEW e, NEW j \in Invitation, j \in RewardedOf(invitation', e)
          PROVE  j \in RewardedOf(invitation, e)
      <4>1. CASE j = i
        BY <2>1, <2>2, <2>4, <3>4, <4>1 DEF RewardedOf, InvitationInv, InvitationTypeOK
      <4>2. CASE j # i
        BY <2>1, <3>4, <4>2 DEF RewardedOf, InvitationInv, InvitationTypeOK
      <4> QED BY <4>1, <4>2
    <3> QED BY <1>1, <3>1, <3>3, <3>4 DEF Undisturbed
  <2> QED BY <2>5, <2>6, SettlersUndisturbed
<1> QED BY <1>2, <1>3

LEMMA OutlastsSettlementLeaseSound ==
    ASSUME InvitationInv, NEW p \in Settler, OutlastsSettlementLease(p)
    PROVE  InvitationInv'
<1> DEFINE late == [task[p] EXCEPT !.step = "late"]
<1>1. task' = [task EXCEPT ![p] = late] /\ UNCHANGED <<account, invitation>> /\ task[p] # NoTask
  BY DEF OutlastsSettlementLease
<1>2. task[p] \in Task
  BY <1>1 DEF InvitationInv, InvitationTypeOK
<1>3. late \in Task /\ late.step = "late"
  BY <1>2 DEF Task
<1> HIDE DEF late
<1>4. InvitationTypeOK'
  BY <1>1, <1>3 DEF InvitationInv, InvitationTypeOK
<1>5. ASSUME NEW q \in Settler, Settles(q)'
      PROVE  Settles(q) /\ task'[q] = task[q] /\ Undisturbed(q)
  <2>1. q # p
    BY <1>1, <1>3, <1>5 DEF Settles, InvitationInv, InvitationTypeOK
  <2>2. Settles(q) /\ task'[q] = task[q]
    BY <1>1, <1>5, <2>1 DEF Settles, InvitationInv, InvitationTypeOK
  <2> QED BY <1>1, <2>2 DEF Undisturbed, RewardedOf
<1> QED BY <1>4, <1>5, SettlersUndisturbed

LEMMA DropsSettlementSound ==
    ASSUME InvitationInv, NEW p \in Settler, DropsSettlement(p)
    PROVE  InvitationInv'
BY TaskDropped DEF DropsSettlement

LEMMA DayEndsSound ==
    ASSUME InvitationInv, DayEnds
    PROVE  InvitationInv'
<1>1. ASSUME NEW i \in Invitation
      PROVE  /\ invitation'[i] \in InvitationRow \cup {NoInvitation}
             /\ invitation'[i] = NoInvitation <=> invitation[i] = NoInvitation
             /\ invitation[i] # NoInvitation =>
                   /\ invitation'[i].inviter = invitation[i].inviter
                   /\ invitation'[i].status = invitation[i].status
                   /\ invitation'[i].attempts = invitation[i].attempts
  <2> DEFINE row == [invitation[i] EXCEPT !.rewarded = FALSE]
  <2>1. CASE invitation[i] = NoInvitation
    BY <2>1 DEF DayEnds
  <2>2. CASE invitation[i] # NoInvitation
    <3>1. invitation[i] \in InvitationRow /\ invitation'[i] = row
      BY <2>2 DEF DayEnds, InvitationInv, InvitationTypeOK
    <3>2. /\ row \in InvitationRow
          /\ row.inviter = invitation[i].inviter
          /\ row.status = invitation[i].status
          /\ row.attempts = invitation[i].attempts
      BY <3>1 DEF InvitationRow
    <3> HIDE DEF row
    <3> QED BY <2>2, <3>1, <3>2, RowAssumption
  <2> QED BY <2>1, <2>2
<1>2. ASSUME NEW p \in Settler
      PROVE  /\ task'[p] \in Task \cup {NoTask}
             /\ task'[p] # NoTask =>
                  /\ task[p] # NoTask
                  /\ task'[p].invitation = task[p].invitation
                  /\ task'[p].attempt = task[p].attempt
                  /\ task'[p].step = task[p].step
                  /\ ~task'[p].rewards
  <2> DEFINE t == [task[p] EXCEPT !.rewards = FALSE]
  <2>1. CASE task[p] = NoTask
    BY <2>1 DEF DayEnds
  <2>2. CASE task[p] # NoTask
    <3>1. task[p] \in Task /\ task'[p] = t
      BY <2>2 DEF DayEnds, InvitationInv, InvitationTypeOK
    <3>2. /\ t \in Task
          /\ t.invitation = task[p].invitation /\ t.attempt = task[p].attempt
          /\ t.step = task[p].step /\ ~t.rewards
      BY <3>1 DEF Task
    <3> HIDE DEF t
    <3> QED BY <2>2, <3>1, <3>2
  <2> QED BY <2>1, <2>2
<1>3. InvitationTypeOK'
  BY <1>1, <1>2 DEF DayEnds, InvitationTypeOK
<1>4. ASSUME NEW p \in Settler, Settles(p)'
      PROVE  /\ Settles(p) /\ ~task'[p].rewards
             /\ task'[p].invitation = task[p].invitation
             /\ InviterAt(p)' = InviterAt(p)
             /\ StillClaimed(p)'
  <2>1. /\ Settles(p) /\ ~task'[p].rewards
        /\ task'[p].invitation = task[p].invitation /\ task'[p].attempt = task[p].attempt
    BY <1>2, <1>4 DEF Settles
  <2>2. /\ task[p].invitation \in Invitation
        /\ invitation[task[p].invitation] # NoInvitation
        /\ invitation[task[p].invitation].status = "processing"
        /\ invitation[task[p].invitation].attempts = task[p].attempt
    BY <2>1, SettlersRow
  <2>3. InviterAt(p)' = InviterAt(p)
    BY <1>1, <2>1, <2>2 DEF InviterAt
  <2>4. StillClaimed(p)'
    BY <1>1, <2>1, <2>2 DEF StillClaimed, HasStatus
  <2> QED BY <2>1, <2>3, <2>4
<1>5. SettlersHoldTheirClaim' /\ RewardsStayDue'
  BY <1>4 DEF SettlersHoldTheirClaim, RewardsStayDue
<1>6. SettlersAreApart'
  BY <1>4 DEF InvitationInv, SettlersAreApart
<1> QED BY <1>3, <1>5, <1>6 DEF InvitationInv

\* The changes of accounts wait for the settlements of their owners' invitations.
LEMMA AccountStepSound ==
    ASSUME InvitationInv, AccountStep
    PROVE  InvitationInv'
<1>1. /\ \A e \in Email : account'[e] # account[e] => ~InviterLocked(e)
      /\ invitation' = [i \in Invitation |-> Detached(invitation[i])]
      /\ UNCHANGED task
  BY DEF AccountStep
<1>2. ASSUME NEW i \in Invitation
      PROVE  /\ invitation'[i] \in InvitationRow \cup {NoInvitation}
             /\ invitation[i] = NoInvitation => invitation'[i] = NoInvitation
             /\ invitation[i] # NoInvitation =>
                   /\ invitation'[i] = invitation[i] \/ invitation'[i].inviter = NoInviter
                   /\ invitation'[i].rewarded = invitation[i].rewarded
  <2>1. CASE invitation[i] = NoInvitation
    BY <1>1, <2>1 DEF Detached
  <2>2. CASE invitation[i] # NoInvitation
    BY <1>1, <2>2, DetachedRow DEF InvitationInv, InvitationTypeOK
  <2> QED BY <2>1, <2>2
<1>3. InvitationTypeOK'
  BY <1>1, <1>2 DEF InvitationInv, InvitationTypeOK
<1>4. ASSUME NEW p \in Settler, Settles(p)'
      PROVE  Settles(p) /\ task'[p] = task[p] /\ Undisturbed(p)
  <2> DEFINE i == task[p].invitation
  <2>1. Settles(p) /\ task'[p] = task[p]
    BY <1>1, <1>4 DEF Settles
  <2>2. i \in Invitation /\ invitation[i] \in InvitationRow /\ RowLocked(i)
    BY <2>1, SettlersRow
  <2>3. CASE InviterAt(p) # NoInviter
    <3>1. InviterAt(p) \in Email /\ InviterLocked(InviterAt(p))
      BY <2>2, <2>3 DEF InviterLocked, InviterAt, InvitationRow
    <3>2. account'[InviterAt(p)] = account[InviterAt(p)]
      BY <1>1, <3>1
    <3>3. invitation'[i] = invitation[i]
      BY <1>1, <2>2, <3>2 DEF Detached, InviterAt
    <3>4. ASSUME NEW j \in Invitation, j \in RewardedOf(invitation', InviterAt(p))
          PROVE  j \in RewardedOf(invitation, InviterAt(p))
      BY <1>2, <2>3, <3>4 DEF RewardedOf
    <3> QED BY <2>1, <3>2, <3>3, <3>4 DEF Undisturbed, InviterAt
  <2>4. CASE InviterAt(p) = NoInviter
    <3>1. invitation'[i] = invitation[i]
      BY <1>1, <2>2, <2>4 DEF Detached, InviterAt
    <3> QED BY <2>1, <2>4, <3>1 DEF Undisturbed, InviterAt
  <2> QED BY <2>3, <2>4
<1> QED BY <1>3, <1>4, SettlersUndisturbed

LEMMA InvitationStepSound == InvitationInv /\ [Next]_vars => InvitationInv'
<1> SUFFICES ASSUME InvitationInv, [Next]_vars PROVE InvitationInv'
  OBVIOUS
<1>1. CASE AccountStep
  BY <1>1, AccountStepSound
<1>2. ASSUME NEW i \in Invitation,
             RegistersInvited(i) \/ Activates(i) \/ FriendLeaves(i) \/ ReplaySettlement(i)
      PROVE  InvitationInv'
  BY <1>2, RegistersInvitedSound, ActivatesSound, FriendLeavesSound, ReplaySettlementSound
<1>3. ASSUME NEW p \in Settler, ClaimSettlement(p) \/ BeginSettlement(p) \/ CommitSettlement(p)
      PROVE  InvitationInv'
  BY <1>3, ClaimSettlementSound, BeginSettlementSound, CommitSettlementSound
<1>4. ASSUME NEW p \in Settler,
             RecordFailure(p) \/ OutlastsSettlementLease(p) \/ DropsSettlement(p)
      PROVE  InvitationInv'
  BY <1>4, RecordFailureSound, OutlastsSettlementLeaseSound, DropsSettlementSound
<1>5. CASE DayEnds
  BY <1>5, DayEndsSound
<1>6. CASE UNCHANGED vars
  <2>1. InvitationTypeOK'
    BY <1>6 DEF vars, invitationVars, InvitationInv, InvitationTypeOK
  <2>2. ASSUME NEW q \in Settler, Settles(q)'
        PROVE  Settles(q) /\ task'[q] = task[q] /\ Undisturbed(q)
    BY <1>6, <2>2 DEF vars, invitationVars, accountVars, Settles, Undisturbed, RewardedOf
  <2> QED BY <2>1, <2>2, SettlersUndisturbed
<1> QED BY <1>1, <1>2, <1>3, <1>4, <1>5, <1>6 DEF Next, InvitationStep, InvitationNext

-----------------------------------------------------------------------------
(* The theorems.                                                           *)

\* The inductive invariant holds in every reachable state.
THEOREM InvitationInvHolds == Spec => []InvitationInv
BY InvitationInitSound, InvitationStepSound, PTL DEF Spec

\* Beside the settlements, the accounts are as AccountLifecycle has them: its theorems
\* hold of the composition.
THEOREM AccountsGoOn == Spec => AccountSpec
<1>1. Init => AccountInit
  BY DEF Init
<1>2. [Next]_vars => [AccountNext]_accountVars
  BY DEF Next, vars, AccountStep, InvitationStep
<1> QED BY <1>1, <1>2, PTL DEF Spec, AccountSpec

\* Settled invitations stay settled (recordInvitationSettlementFailure and the claim).
THEOREM SettledIsFinalHolds == Spec => SettledIsFinal
<1>1. InvitationInv /\ [Next]_vars =>
        [\A i \in Invitation : HasStatus(i, {"settled"}) /\ invitation'[i] # NoInvitation =>
             invitation'[i].status = "settled"]_<<account, invitationVars>>
  <2> SUFFICES ASSUME InvitationInv, [Next]_vars, NEW i \in Invitation, HasStatus(i, {"settled"}),
                      invitation'[i] # NoInvitation
               PROVE  invitation'[i].status = "settled"
    OBVIOUS
  <2> DEFINE row == invitation[i]
  <2>1. row \in InvitationRow /\ row.status = "settled" /\ row # NoInvitation
    BY DEF HasStatus, InvitationInv, InvitationTypeOK
  <2>2. ~LeaseExpired(i) /\ i \notin Claimable
    BY <2>1 DEF LeaseExpired, Claimable, HasStatus
  <2>3. invitation \in [Invitation -> InvitationRow \cup {NoInvitation}]
    BY DEF InvitationInv, InvitationTypeOK
  <2>4. CASE AccountStep
    <3>1. invitation'[i] = Detached(row)
      BY <2>4 DEF AccountStep
    <3> QED BY <2>1, <3>1, DetachedRow
  <2>5. ASSUME NEW j \in Invitation,
               RegistersInvited(j) \/ Activates(j) \/ FriendLeaves(j) \/ ReplaySettlement(j)
        PROVE  invitation'[i].status = "settled"
    <3>1. CASE j = i
      BY <2>1, <2>3, <2>5, <3>1 DEF RegistersInvited, Activates, FriendLeaves, ReplaySettlement,
         HasStatus
    <3>2. CASE j # i
      BY <2>1, <2>3, <2>5, <3>2 DEF RegistersInvited, Activates, FriendLeaves, ReplaySettlement
    <3> QED BY <3>1, <3>2
  <2>6. ASSUME NEW p \in Settler, ClaimSettlement(p) PROVE invitation'[i].status = "settled"
    <3>1. GivenUpSettlements[i] = row
      BY <2>2 DEF GivenUpSettlements
    <3>2. GivenUpSettlements \in [Invitation -> InvitationRow \cup {NoInvitation}]
      BY GivenUpSettlementsSound
    <3>3. invitation'[i] = GivenUpSettlements[i]
      BY <2>2, <2>6, <3>2 DEF ClaimSettlement
    <3> QED BY <2>1, <3>1, <3>3
  <2>7. ASSUME NEW p \in Settler, CommitSettlement(p) PROVE invitation'[i].status = "settled"
    <3> DEFINE j == task[p].invitation
    <3>1. invitation' = [invitation EXCEPT ![j] = SettledRow(invitation[j], task[p].rewards)]
          /\ Settles(p)
      BY <2>7 DEF CommitSettlement, Settles
    <3>2. j # i
      BY <2>1, <3>1, SettlersRow
    <3> QED BY <2>1, <2>3, <3>1, <3>2
  <2>8. ASSUME NEW p \in Settler, RecordFailure(p) PROVE invitation'[i].status = "settled"
    <3>1. CASE task[p].invitation = i
      <4>1. ~FailsItsClaim(p)
        BY <2>1, <3>1 DEF FailsItsClaim, StillClaimed, HasStatus
      <4> QED BY <2>1, <2>8, <4>1 DEF RecordFailure
    <3>2. CASE task[p].invitation # i
      BY <2>1, <2>3, <2>8, <3>2 DEF RecordFailure
    <3> QED BY <3>1, <3>2
  <2>9. ASSUME NEW p \in Settler,
               BeginSettlement(p) \/ OutlastsSettlementLease(p) \/ DropsSettlement(p)
        PROVE  invitation'[i].status = "settled"
    BY <2>1, <2>9 DEF BeginSettlement, OutlastsSettlementLease, DropsSettlement
  <2>10. CASE DayEnds
    <3>1. invitation'[i] = [row EXCEPT !.rewarded = FALSE]
      BY <2>1, <2>10 DEF DayEnds
    <3> QED BY <2>1, <3>1 DEF InvitationRow
  <2>11. CASE UNCHANGED vars
    BY <2>1, <2>11 DEF vars, invitationVars
  <2> QED BY <2>4, <2>5, <2>6, <2>7, <2>8, <2>9, <2>10, <2>11
          DEF Next, InvitationStep, InvitationNext
<1> QED BY <1>1, InvitationInvHolds, PTL DEF Spec, SettledIsFinal

\* Every reward is due when it is written (settleInvitationInTransaction).
THEOREM RewardsAreDueHolds == Spec => RewardsAreDue
<1>1. InvitationInv /\ [Next]_vars =>
        [\A i \in Invitation : NewlyRewarded(i) =>
            LET e == invitation[i].inviter
            IN  /\ e # NoInviter /\ account[e] = "active"
                /\ Cardinality(RewardedToday(e)) < DailyLimit]_<<account, invitationVars>>
  <2> SUFFICES ASSUME InvitationInv, [Next]_vars, NEW i \in Invitation, NewlyRewarded(i)
               PROVE  Deserves(invitation[i].inviter)
    BY DEF Deserves
  <2>1. /\ invitation[i] \in InvitationRow /\ ~invitation[i].rewarded
        /\ invitation'[i] # NoInvitation /\ invitation'[i].rewarded
    BY DEF NewlyRewarded, InvitationInv, InvitationTypeOK
  <2>2. invitation \in [Invitation -> InvitationRow \cup {NoInvitation}]
    BY DEF InvitationInv, InvitationTypeOK
  <2>3. CASE AccountStep
    <3>1. invitation'[i] = Detached(invitation[i])
      BY <2>3 DEF AccountStep
    <3> QED BY <2>1, <3>1, DetachedRow
  <2>4. ASSUME NEW j \in Invitation, RegistersInvited(j) \/ FriendLeaves(j) PROVE FALSE
    <3>1. CASE j = i
      BY <2>1, <2>2, <2>4, <3>1 DEF RegistersInvited, FriendLeaves, NewlyRewarded
    <3>2. CASE j # i
      BY <2>1, <2>2, <2>4, <3>2 DEF RegistersInvited, FriendLeaves
    <3> QED BY <3>1, <3>2
  <2>5. ASSUME NEW j \in Invitation, Activates(j) \/ ReplaySettlement(j) PROVE FALSE
    <3>1. CASE j = i
      <4>1. "activated" \in InvitationStatus
        BY DEF InvitationStatus
      <4>2. /\ ~Marked(invitation[i], "activated").rewarded
            /\ ~Replayed(invitation[i]).rewarded
        BY <2>1, <4>1, MarkedRow, ReplayedRow
      <4> QED BY <2>1, <2>2, <2>5, <3>1, <4>2 DEF Activates, ReplaySettlement
    <3>2. CASE j # i
      BY <2>1, <2>2, <2>5, <3>2 DEF Activates, ReplaySettlement
    <3> QED BY <3>1, <3>2
  <2>6. ASSUME NEW p \in Settler, ClaimSettlement(p) PROVE FALSE
    <3>1. ~GivenUpSettlements[i].rewarded
      BY <2>1, GivenUpSettlementsSound
    <3>2. GivenUpSettlements \in [Invitation -> InvitationRow \cup {NoInvitation}]
      BY GivenUpSettlementsSound
    <3>3. CASE invitation'[i] = GivenUpSettlements[i]
      BY <2>1, <3>1, <3>3
    <3>4. CASE invitation'[i] # GivenUpSettlements[i]
      <4>1. /\ i \in Claimable
            /\ invitation'[i] = TakenUp(GivenUpSettlements[i])
        BY <2>6, <3>2, <3>4 DEF ClaimSettlement
      <4>2. invitation[i].attempts < MaxSettlementAttempts
        BY <4>1 DEF Claimable
      <4>3. GivenUpSettlements[i] = invitation[i]
        BY <2>1, <4>2, InvitationAssumption DEF GivenUpSettlements, InvitationRow
      <4> QED BY <2>1, <4>1, <4>2, <4>3, TakenUpRow
    <3> QED BY <3>3, <3>4
  <2>7. ASSUME NEW p \in Settler, CommitSettlement(p) PROVE Deserves(invitation[i].inviter)
    <3> DEFINE j == task[p].invitation
    <3>1. invitation' = [invitation EXCEPT ![j] = SettledRow(invitation[j], task[p].rewards)]
          /\ Settles(p)
      BY <2>7 DEF CommitSettlement, Settles
    <3>2. j = i
      BY <2>1, <2>2, <3>1
    <3>3. task[p].rewards
      <4>1. task[p].rewards \in BOOLEAN
        BY <3>1, SettlersRow DEF Task
      <4>2. invitation'[i] = SettledRow(invitation[i], task[p].rewards)
        BY <2>2, <3>1, <3>2
      <4> QED BY <2>1, <4>1, <4>2, SettledRowSound
    <3> QED BY <3>1, <3>2, <3>3 DEF InvitationInv, RewardsStayDue, InviterAt
  <2>8. ASSUME NEW p \in Settler, RecordFailure(p) PROVE FALSE
    <3> DEFINE j == task[p].invitation
    <3> DEFINE status == IF task[p].attempt >= MaxSettlementAttempts
                         THEN "dead_letter" ELSE "failed"
    <3>1. status \in InvitationStatus
      BY DEF InvitationStatus
    <3>2. \/ invitation' = [invitation EXCEPT ![j] = Marked(invitation[j], status)]
          \/ invitation' = invitation
      BY <2>8 DEF RecordFailure
    <3> HIDE DEF status
    <3>3. ~Marked(invitation[i], status).rewarded
      BY <2>1, <3>1, MarkedRow
    <3> QED BY <2>1, <2>2, <3>2, <3>3
  <2>9. ASSUME NEW p \in Settler,
               BeginSettlement(p) \/ OutlastsSettlementLease(p) \/ DropsSettlement(p)
        PROVE  FALSE
    BY <2>1, <2>9 DEF BeginSettlement, OutlastsSettlementLease, DropsSettlement
  <2>10. CASE DayEnds
    <3>1. invitation'[i] = [invitation[i] EXCEPT !.rewarded = FALSE]
      BY <2>1, <2>10 DEF DayEnds, NewlyRewarded
    <3> QED BY <2>1, <3>1 DEF InvitationRow
  <2>11. CASE UNCHANGED vars
    BY <2>1, <2>11 DEF vars, invitationVars
  <2> QED BY <2>3, <2>4, <2>5, <2>6, <2>7, <2>8, <2>9, <2>10, <2>11
          DEF Next, InvitationStep, InvitationNext
<1> QED BY <1>1, InvitationInvHolds, PTL DEF Spec, RewardsAreDue
=============================================================================
