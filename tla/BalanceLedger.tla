--------------------------- MODULE BalanceLedger ---------------------------
(***************************************************************************)
(* The points ledger: src/server/storage/balance-store.ts, the quotes of   *)
(* metered-billing-store.ts and the balance CDKs credited through          *)
(* cdk-redemption.ts.  Every operation is one database transaction that    *)
(* takes the user's row and then the account row; its UPDATEs carry their  *)
(* guards, so an action here is a whole transaction, with its reads, and   *)
(* what interleaves is the order of the transactions.  A request that is   *)
(* refused, and the replay of one whose idempotency key is already         *)
(* completed, change nothing and are not actions.                          *)
(*                                                                         *)
(* Amounts are whole points.  A profile that is archived or suspended, and *)
(* a quote of another profile, are refusals left out; a quote belongs to   *)
(* the profile it was issued for, of which only the billing kind matters.  *)
(***************************************************************************)
EXTENDS Integers, FiniteSets

CONSTANTS
    User, Job, Quote,
    Key,              \* idempotency keys of administrators' operations
    Code,             \* balance CDKs
    Amount,           \* amounts an administrator enters
    CodeValue,        \* what each code is worth
    PersonalCharge,   \* metered_billing.personal.main_schedule_points
                      \* (and, of other operations, whose price is fixed too)
    Tier,             \* metered_billing.commercial.tiers
    NoRequest, NoQuote, NoRow, NoJob, NoSource

Source == Key \cup Code       \* what a credit's log row is identified by

ASSUME AmountAssumption ==
    /\ Amount \subseteq Nat \ {0}
    /\ CodeValue \in [Code -> Nat \ {0}]
    /\ PersonalCharge \in Nat \ {0}
    /\ Tier \subseteq [threshold : Nat, charge : Nat \ {0}]

ASSUME SourceAssumption == Key \cap Code = {}

LogKind == {"cdk_credit", "admin_credit", "admin_debit", "schedule_debit",
            "admin_credit_reversal", "debt_repayment"}
AdminKind == {"admin_credit", "admin_debit", "admin_credit_reversal"}
BillingKind == {"metered_personal", "metered_commercial"}
Charges == {PersonalCharge} \cup {t.charge : t \in Tier}

Request == [kind : AdminKind, amount : Amount, of : Source \cup {NoSource}]
QuoteRow == [user : User, kind : BillingKind, charge : Charges,
             expired : BOOLEAN, job : Job \cup {NoJob}]
ReservationRow == [user : User, amount : Charges, status : {"reserved", "consumed", "released"}]

ASSUME NullAssumption ==
    /\ NoQuote \notin QuoteRow
    /\ NoRow \notin ReservationRow
    /\ NoRequest \notin Request
    /\ NoJob \notin Job
    /\ NoSource \notin Source

VARIABLES
    member,        \* user_accounts
    \* The columns of user_balance_accounts:
    available, reserved, credited, reversed, debt,
    logged,        \* per user and kind, the sum of user_balance_transactions (absolute)
    credit,        \* per user and source, the amount of the credit's log row, 0 without one
    clawed,        \* per user and source, what user_balance_qualification_ledger took back
    operation,     \* user_balance_operations: the request completed under each key
    code,          \* cdk_records of the balance CDKs
    quote,         \* metered_billing_quotes
    reservation,   \* user_balance_reservations, by job
    job            \* the jobs that are billed in points

columns == <<available, reserved, credited, reversed, debt>>
history == <<logged, credit, clawed, operation, code>>
billing == <<quote, reservation, job>>
ledgerVars == <<member, columns, history, billing>>

-----------------------------------------------------------------------------
NothingYet == [u \in User |-> 0]

LedgerInit ==
    /\ member = User
    /\ available = NothingYet /\ reserved = NothingYet /\ debt = NothingYet
    /\ credited = NothingYet /\ reversed = NothingYet
    /\ logged = [u \in User |-> [k \in LogKind |-> 0]]
    /\ credit = [u \in User |-> [s \in Source |-> 0]]
    /\ clawed = [u \in User |-> [s \in Source |-> 0]]
    /\ operation = [u \in User |-> [k \in Key |-> NoRequest]]
    /\ code = [c \in Code |-> "unused"]
    /\ quote = [q \in Quote |-> NoQuote]
    /\ reservation = [j \in Job |-> NoRow]
    /\ job = [j \in Job |-> "none"]

Lesser(a, b) == IF a <= b THEN a ELSE b

\* Faulty: points held for jobs count as free.
FreeWithHeld(u) == available[u]

Free(u) == available[u] - reserved[u]

\* The log's rows of this kind are worth n more.
Logs(u, kind, n) ==
    logged' = [logged EXCEPT ![u] =
        [k \in LogKind |-> IF k = kind THEN logged[u][k] + n ELSE logged[u][k]]]

\* A credit pays back what the user owes with the points nothing holds.
Credited(u, kind, s, n) ==
    LET repaid == Lesser(debt[u], Free(u) + n)
    IN  /\ available' = [available EXCEPT ![u] = @ + n - repaid]
        /\ debt' = [debt EXCEPT ![u] = @ - repaid]
        /\ credited' = [credited EXCEPT ![u] = @ + n]
        /\ logged' = [logged EXCEPT ![u] =
             [k \in LogKind |-> CASE k = kind -> logged[u][k] + n
                                  [] k = "debt_repayment" -> logged[u][k] + repaid
                                  [] OTHER -> logged[u][k]]]
        /\ credit' = [credit EXCEPT ![u] = [@ EXCEPT ![s] = n]]
        /\ UNCHANGED <<reserved, reversed>>

\* claimBalanceOperationInTransaction and the completion of the operation.
Claims(u, k, request) ==
    /\ u \in member
    /\ operation[u][k] = NoRequest
    /\ operation' = [operation EXCEPT ![u] = [@ EXCEPT ![k] = request]]

AdminCredit(u, k, n) ==
    /\ Claims(u, k, [kind |-> "admin_credit", amount |-> n, of |-> NoSource])
    /\ Credited(u, "admin_credit", k, n)
    /\ UNCHANGED <<member, clawed, code, billing>>

AdminDebit(u, k, n) ==
    /\ Claims(u, k, [kind |-> "admin_debit", amount |-> n, of |-> NoSource])
    /\ Free(u) >= n
    /\ available' = [available EXCEPT ![u] = @ - n]
    /\ Logs(u, "admin_debit", n)
    /\ UNCHANGED <<member, reserved, credited, reversed, debt, credit, clawed, code, billing>>

\* Faulty: what earlier requests took back of the same credit is not counted.
ReverseCreditPerRequest(u, k, s, n) ==
    LET taken == Lesser(n, Free(u))
    IN  /\ Claims(u, k, [kind |-> "admin_credit_reversal", amount |-> n, of |-> s])
        /\ n <= credit[u][s]
        /\ reversed[u] + n <= credited[u]
        /\ available' = [available EXCEPT ![u] = @ - taken]
        /\ debt' = [debt EXCEPT ![u] = @ + (n - taken)]
        /\ reversed' = [reversed EXCEPT ![u] = @ + n]
        /\ Logs(u, "admin_credit_reversal", n)
        /\ clawed' = [clawed EXCEPT ![u][s] = @ + n]
        /\ UNCHANGED <<member, reserved, credited, credit, code, billing>>

\* What the points not held cannot cover becomes a debt.
ReverseCredit(u, k, s, n) ==
    LET taken == Lesser(n, Free(u))
    IN  /\ Claims(u, k, [kind |-> "admin_credit_reversal", amount |-> n, of |-> s])
        /\ credit[u][s] > 0
        /\ clawed[u][s] + n <= credit[u][s]
        /\ reversed[u] + n <= credited[u]
        /\ available' = [available EXCEPT ![u] = @ - taken]
        /\ debt' = [debt EXCEPT ![u] = @ + (n - taken)]
        /\ reversed' = [reversed EXCEPT ![u] = @ + n]
        /\ Logs(u, "admin_credit_reversal", n)
        /\ clawed' = [clawed EXCEPT ![u] =
             [x \in Source |-> IF x = s THEN clawed[u][x] + n ELSE clawed[u][x]]]
        /\ UNCHANGED <<member, reserved, credited, credit, code, billing>>

RedeemCode(u, c) ==
    /\ u \in member
    /\ code[c] = "unused"
    /\ code' = [code EXCEPT ![c] = "used"]
    /\ Credited(u, "cdk_credit", c, CodeValue[c])
    /\ UNCHANGED <<member, clawed, operation, billing>>

-----------------------------------------------------------------------------
\* getCommercialTierSummary: the highest tier the lifetime credits still reach.
Reaches(u, t) == t.threshold <= credited[u] - reversed[u]

ReachedTier(u, t) ==
    /\ Reaches(u, t)
    /\ \A other \in Tier : Reaches(u, other) => other.threshold <= t.threshold

\* quoteFromState, with the refusals of readBillingState: c is today's price.  The
\* operations with a price of their own (incremental_recompute, scenario_comparison)
\* count as personal: their price is fixed as well.
Priced(u, kind, c) ==
    \/ /\ kind = "metered_personal"
       /\ c = PersonalCharge
    \/ /\ kind = "metered_commercial"
       /\ debt[u] = 0
       /\ \E t \in Tier : ReachedTier(u, t) /\ c = t.charge

IssueQuote(u, q, kind) ==
    /\ u \in member
    /\ quote[q] = NoQuote
    /\ \E c \in Charges :
         /\ Priced(u, kind, c)
         /\ quote' = [quote EXCEPT ![q] = [user |-> u, kind |-> kind, charge |-> c,
                                           expired |-> FALSE, job |-> NoJob]]
    /\ UNCHANGED <<member, columns, history, reservation, job>>

ExpireQuote(q) ==
    /\ quote[q] # NoQuote
    /\ ~quote[q].expired
    /\ quote[q].job = NoJob       \* the clock no longer matters to a used quote
    /\ quote' = [quote EXCEPT ![q] = [@ EXCEPT !.expired = TRUE]]
    /\ UNCHANGED <<member, columns, history, reservation, job>>

\* Faulty: the price may have risen since the user accepted it.
ConfirmedAtAnyPrice(u, q, c) ==
    /\ quote[q] # NoQuote
    /\ quote[q].user = u
    /\ u \in member
    /\ ~quote[q].expired
    /\ quote[q].job = NoJob
    /\ Priced(u, quote[q].kind, c)
    /\ debt[u] = 0

\* Faulty: a user who still owes points can hold more.
ConfirmedInDebt(u, q, c) ==
    /\ quote[q] # NoQuote
    /\ quote[q].user = u
    /\ u \in member
    /\ ~quote[q].expired
    /\ quote[q].job = NoJob
    /\ Priced(u, quote[q].kind, c)
    /\ c <= quote[q].charge

\* The quote the user accepted still binds: it is unused and today's price is not higher.
Confirmed(u, q, c) ==
    /\ quote[q] # NoQuote
    /\ quote[q].user = u
    /\ u \in member
    /\ ~quote[q].expired
    /\ quote[q].job = NoJob
    /\ Priced(u, quote[q].kind, c)
    /\ c <= quote[q].charge
    /\ debt[u] = 0

Reserved(u, j, c) ==
    /\ reservation[j] = NoRow
    /\ Free(u) >= c
    /\ reserved' = [reserved EXCEPT ![u] = @ + c]
    /\ reservation' = [reservation EXCEPT ![j] =
                         [user |-> u, amount |-> c, status |-> "reserved"]]

AdmitJob(u, j, q) ==
    /\ job[j] = "none"
    /\ \E c \in Charges :
         /\ Confirmed(u, q, c)
         /\ Reserved(u, j, c)
    /\ quote' = [quote EXCEPT ![q] = [@ EXCEPT !.job = j]]
    /\ job' = [job EXCEPT ![j] = "active"]
    /\ UNCHANGED <<member, available, credited, reversed, debt, history>>

\* settleScheduleBalanceInTransaction, in the transaction that completes the job.
SettleJob(j) ==
    LET r == reservation[j]
        u == r.user
    IN  /\ job[j] = "active"
        /\ r # NoRow
        /\ r.status = "reserved"
        /\ reserved[u] >= r.amount
        /\ available[u] >= r.amount
        /\ job' = [job EXCEPT ![j] = "succeeded"]
        /\ available' = [available EXCEPT ![u] = @ - r.amount]
        /\ reserved' = [reserved EXCEPT ![u] = @ - r.amount]
        /\ Logs(u, "schedule_debit", r.amount)
        /\ reservation' = [reservation EXCEPT ![j] = [@ EXCEPT !.status = "consumed"]]
        /\ UNCHANGED <<member, credited, reversed, debt, credit, clawed, operation, code, quote>>

\* releaseScheduleBalanceInTransaction, in the transaction that ends the job without a result.
ReleaseJob(j) ==
    LET r == reservation[j]
        u == r.user
    IN  /\ job[j] = "active"
        /\ r # NoRow
        /\ r.status = "reserved"
        /\ reserved[u] >= r.amount
        /\ job' = [job EXCEPT ![j] = "ended"]
        /\ reserved' = [reserved EXCEPT ![u] = @ - r.amount]
        /\ reservation' = [reservation EXCEPT ![j] = [@ EXCEPT !.status = "released"]]
        /\ UNCHANGED <<member, available, credited, reversed, debt, history, quote>>

\* Retention deletes an ended job and its settled row.
ForgetJob(j) ==
    /\ job[j] \in {"succeeded", "ended"}
    /\ reservation[j] # NoRow => reservation[j].status # "reserved"
    /\ job' = [job EXCEPT ![j] = "gone"]
    /\ reservation' = [reservation EXCEPT ![j] = NoRow]
    /\ UNCHANGED <<member, columns, history, quote>>

-----------------------------------------------------------------------------
\* The rows that hold points of user u, the points they hold, each by its row and
\* a number, and how many these are.
HeldRows(u) == {j \in Job : /\ reservation[j] # NoRow
                            /\ reservation[j].user = u
                            /\ reservation[j].status = "reserved"}

PointsHeld(u) == UNION {{j} \X (1 .. reservation[j].amount) : j \in HeldRows(u)}

HeldPoints(u) == Cardinality(PointsHeld(u))

\* Faulty: the rows are released and the column keeps what they held.
ReleaseJobsOfByRow(u) ==
    /\ u \in member
    /\ reservation' = [j \in Job |-> IF j \in HeldRows(u)
                                     THEN [reservation[j] EXCEPT !.status = "released"]
                                     ELSE reservation[j]]
    /\ job' = [j \in Job |-> IF j \in HeldRows(u) THEN "ended" ELSE job[j]]
    /\ UNCHANGED <<member, columns, history, quote>>

\* A deletion request ends the user's jobs and releases each of their rows.
ReleaseJobsOf(u) ==
    /\ u \in member
    /\ \E n \in 0 .. reserved[u] :
         /\ n = HeldPoints(u)
         /\ reserved' = [reserved EXCEPT ![u] = @ - n]
    /\ reservation' = [j \in Job |-> IF j \in HeldRows(u)
                                     THEN [reservation[j] EXCEPT !.status = "released"]
                                     ELSE reservation[j]]
    /\ job' = [j \in Job |-> IF j \in HeldRows(u) THEN "ended" ELSE job[j]]
    /\ UNCHANGED <<member, available, credited, reversed, debt, history, quote>>

\* deleteUserAccountInTransaction: the user's rows go with the user's.
DeleteUserRows(u) ==
    /\ u \in member
    /\ member' = member \ {u}
    /\ available' = [available EXCEPT ![u] = 0]
    /\ reserved' = [reserved EXCEPT ![u] = 0]
    /\ credited' = [credited EXCEPT ![u] = 0]
    /\ reversed' = [reversed EXCEPT ![u] = 0]
    /\ debt' = [debt EXCEPT ![u] = 0]
    /\ logged' = [logged EXCEPT ![u] = [k \in LogKind |-> 0]]
    /\ credit' = [credit EXCEPT ![u] = [s \in Source |-> 0]]
    /\ clawed' = [clawed EXCEPT ![u] = [s \in Source |-> 0]]
    /\ operation' = [operation EXCEPT ![u] = [k \in Key |-> NoRequest]]
    /\ quote' = [q \in Quote |-> IF quote[q] # NoQuote /\ quote[q].user = u
                                 THEN NoQuote ELSE quote[q]]
    /\ reservation' = [j \in Job |-> IF reservation[j] # NoRow /\ reservation[j].user = u
                                     THEN NoRow ELSE reservation[j]]
    /\ job' = [j \in Job |-> IF reservation[j] # NoRow /\ reservation[j].user = u
                             THEN "gone" ELSE job[j]]
    /\ UNCHANGED code

\* What administrators and users do to the points of user u.
PointsStep(u) ==
    \/ \E k \in Key, n \in Amount :
         \/ AdminCredit(u, k, n)
         \/ AdminDebit(u, k, n)
         \/ \E s \in Source : ReverseCredit(u, k, s, n)
    \/ \E c \in Code : RedeemCode(u, c)

QuoteStep(u) == \E q \in Quote, kind \in BillingKind : IssueQuote(u, q, kind)

AdmissionStep(u) == \E j \in Job, q \in Quote : AdmitJob(u, j, q)

\* What workers, the passing of time and the queue's maintenance do.
SystemStep ==
    \/ \E q \in Quote : ExpireQuote(q)
    \/ \E j \in Job : SettleJob(j) \/ ReleaseJob(j) \/ ForgetJob(j)

LedgerNext ==
    \/ \E u \in User : \/ PointsStep(u)
                       \/ QuoteStep(u)
                       \/ AdmissionStep(u)
                       \/ ReleaseJobsOf(u)
                       \/ DeleteUserRows(u)
    \/ SystemStep

LedgerSpec == LedgerInit /\ [][LedgerNext]_ledgerVars

-----------------------------------------------------------------------------
(***************************************************************************)
(* Properties.                                                             *)
(***************************************************************************)

LedgerTypeOK ==
    /\ member \subseteq User
    /\ available \in [User -> Nat] /\ reserved \in [User -> Nat] /\ debt \in [User -> Nat]
    /\ credited \in [User -> Nat] /\ reversed \in [User -> Nat]
    /\ logged \in [User -> [LogKind -> Nat]]
    /\ credit \in [User -> [Source -> Nat]]
    /\ clawed \in [User -> [Source -> Nat]]
    /\ operation \in [User -> [Key -> Request \cup {NoRequest}]]
    /\ code \in [Code -> {"unused", "used"}]
    /\ quote \in [Quote -> QuoteRow \cup {NoQuote}]
    /\ reservation \in [Job -> ReservationRow \cup {NoRow}]
    /\ job \in [Job -> {"none", "active", "succeeded", "ended", "gone"}]

\* What a user has and owes is what the log's credits, debits, charges and reversals leave; a
\* repayment moves points from one side to the other and counts on neither.
NetWorthMatchesLog ==
    \A u \in User :
        available[u] + logged[u]["admin_debit"] + logged[u]["schedule_debit"]
                + logged[u]["admin_credit_reversal"]
            = debt[u] + logged[u]["cdk_credit"] + logged[u]["admin_credit"]

\* The debt a user has left and what was paid back of it never exceed what was reversed.
DebtComesFromReversals ==
    \A u \in User :
        debt[u] + logged[u]["debt_repayment"] <= logged[u]["admin_credit_reversal"]

\* The counters the commercial tier is read from are the log's totals.
QualificationMatchesLog ==
    \A u \in User :
        /\ credited[u] = logged[u]["cdk_credit"] + logged[u]["admin_credit"]
        /\ reversed[u] = logged[u]["admin_credit_reversal"]
        /\ reversed[u] <= credited[u]

\* Jobs never cost a user, finished or held, more than was credited and not taken by debits.
NeverSpentUncredited ==
    \A u \in User :
        /\ reserved[u] <= available[u]
        /\ reserved[u] + logged[u]["schedule_debit"] + logged[u]["admin_debit"] <= credited[u]

\* Credits, charges, debits, reversals and repayments, in whatever order they come, leave the
\* account's columns, its log and the counters of the commercial tier in agreement, and no
\* point is spent, or held for a job, that was not credited.
LedgerBalances ==
    /\ NetWorthMatchesLog
    /\ DebtComesFromReversals
    /\ QualificationMatchesLog
    /\ NeverSpentUncredited

\* The reserved column is what the rows of unfinished jobs add up to: a settlement, a release, a
\* deletion request or the deletion of an account never leaves points held for nothing.
ReservedMatchesRows == \A u \in User : reserved[u] = HeldPoints(u)

\* A credit is taken back at most once in total, whatever keys the reversals come under.
ReversedWithinCredit == \A u \in User, s \in Source : clawed[u][s] <= credit[u][s]

\* A job costs at most what its owner accepted, in the one quote that admitted it, though
\* reversals and credits change the price between the quote and the admission.
NeverOvercharged ==
    \A j \in Job : reservation[j] # NoRow =>
        \E q \in Quote :
            /\ quote[q] # NoQuote
            /\ quote[q].job = j
            /\ quote[q].user = reservation[j].user
            /\ reservation[j].amount <= quote[q].charge
            /\ \A other \in Quote \ {q} : quote[other] # NoQuote => quote[other].job # j

\* What a user owns is what is available less what is owed; a job holds what is reserved.
Wallet == INSTANCE PointsWallet WITH
    net <- [u \in User |-> available[u] - debt[u]],
    held <- reserved

\* Every transaction of the ledger is a step of the wallet, or leaves it as it is.
ImplementsWallet == Wallet!WalletSpec
=============================================================================
