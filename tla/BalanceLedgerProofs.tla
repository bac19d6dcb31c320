------------------------- MODULE BalanceLedgerProofs -------------------------
(***************************************************************************)
(* Every transaction of the points ledger keeps its columns, its log and   *)
(* the counters of the commercial tier in agreement, and is a step of the  *)
(* wallet the ledger promises to be; the reserved column counts the points *)
(* that the rows of unfinished jobs hold.                                  *)
(***************************************************************************)
EXTENDS BalanceLedger, FiniteSetTheorems, TLAPS

\* The quotes and jobs a row can be traced to: a job that was never admitted is in no quote,
\* and no two quotes admitted the same job.
QuotesAdmitOnce ==
    /\ \A j \in Job, q \in Quote :
         quote[q] # NoQuote /\ quote[q].job = j => job[j] # "none"
    /\ \A q, other \in Quote :
         /\ q # other
         /\ quote[q] # NoQuote
         /\ quote[other] # NoQuote
         /\ quote[q].job = quote[other].job
         => quote[q].job = NoJob

RowsHaveQuotes ==
    \A j \in Job : reservation[j] # NoRow =>
        \E q \in Quote : /\ quote[q] # NoQuote
                         /\ quote[q].job = j
                         /\ quote[q].user = reservation[j].user
                         /\ reservation[j].amount <= quote[q].charge

\* A key or code that can still be used has credited nothing that a second use would overwrite.
CreditsHaveOrigin ==
    \A u \in User :
        /\ \A k \in Key : operation[u][k] = NoRequest => credit[u][k] = 0
        /\ \A c \in Code : code[c] = "unused" => credit[u][c] = 0

LedgerInv ==
    /\ LedgerTypeOK
    /\ LedgerBalances
    /\ ReversedWithinCredit
    /\ CreditsHaveOrigin
    /\ QuotesAdmitOnce
    /\ RowsHaveQuotes

-----------------------------------------------------------------------------
(***************************************************************************)
(* What the transactions that move points leave in agreement.              *)
(***************************************************************************)

LEMMA InitLedger == LedgerInit => LedgerInv
<1> SUFFICES ASSUME LedgerInit PROVE LedgerInv
  OBVIOUS
<1> USE DEF LedgerInit, NothingYet
<1>1. LedgerTypeOK
  BY DEF LedgerTypeOK
<1>2. LedgerBalances
  BY DEF LedgerBalances, NetWorthMatchesLog, DebtComesFromReversals,
         QualificationMatchesLog, NeverSpentUncredited, LogKind
<1>3. ReversedWithinCredit /\ CreditsHaveOrigin
  BY DEF ReversedWithinCredit, CreditsHaveOrigin, Source
<1>4. QuotesAdmitOnce /\ RowsHaveQuotes
  BY DEF QuotesAdmitOnce, RowsHaveQuotes
<1>5. QED
  BY <1>1, <1>2, <1>3, <1>4 DEF LedgerInv

\* Points moves only: the quotes, the reservations and the jobs are as they were.
LEMMA BillingUntouched ==
  ASSUME LedgerInv, UNCHANGED billing
  PROVE  QuotesAdmitOnce' /\ RowsHaveQuotes'
BY DEF LedgerInv, QuotesAdmitOnce, RowsHaveQuotes, billing

LEMMA CreditedKeeps ==
  ASSUME LedgerInv, NEW u \in User, NEW kind \in {"cdk_credit", "admin_credit"},
         NEW s \in Source, NEW n \in Nat \ {0}, Credited(u, kind, s, n)
  PROVE  /\ available' \in [User -> Nat] /\ reserved' \in [User -> Nat]
         /\ credited' \in [User -> Nat] /\ reversed' \in [User -> Nat]
         /\ debt' \in [User -> Nat]
         /\ logged' \in [User -> [LogKind -> Nat]]
         /\ credit' \in [User -> [Source -> Nat]]
         /\ LedgerBalances'
<1> DEFINE repaid == Lesser(debt[u], Free(u) + n)
<1>1. LedgerTypeOK /\ LedgerBalances
  BY DEF LedgerInv
<1>2. /\ repaid \in Nat
      /\ repaid <= debt[u]
      /\ repaid <= available[u] - reserved[u] + n
  BY <1>1 DEF LedgerTypeOK, LedgerBalances, NeverSpentUncredited, Lesser, Free
<1>3. /\ available' = [available EXCEPT ![u] = @ + n - repaid]
      /\ debt' = [debt EXCEPT ![u] = @ - repaid]
      /\ credited' = [credited EXCEPT ![u] = @ + n]
      /\ logged' = [logged EXCEPT ![u] =
           [k \in LogKind |-> CASE k = kind -> logged[u][k] + n
                                [] k = "debt_repayment" -> logged[u][k] + repaid
                                [] OTHER -> logged[u][k]]]
      /\ credit' = [credit EXCEPT ![u] = [@ EXCEPT ![s] = n]]
      /\ UNCHANGED <<reserved, reversed>>
  BY DEF Credited
<1> HIDE DEF repaid
<1>4. /\ available' \in [User -> Nat] /\ reserved' \in [User -> Nat]
      /\ credited' \in [User -> Nat] /\ reversed' \in [User -> Nat]
      /\ debt' \in [User -> Nat]
  BY <1>1, <1>2, <1>3 DEF LedgerTypeOK, LedgerBalances, NeverSpentUncredited
<1>5. /\ logged' \in [User -> [LogKind -> Nat]]
      /\ credit' \in [User -> [Source -> Nat]]
  BY <1>1, <1>2, <1>3 DEF LedgerTypeOK
<1>6. /\ logged'[u][kind] = logged[u][kind] + n
      /\ logged'[u]["debt_repayment"] = logged[u]["debt_repayment"] + repaid
      /\ \A k \in LogKind \ {kind, "debt_repayment"} : logged'[u][k] = logged[u][k]
      /\ \A v \in User \ {u} : logged'[v] = logged[v]
  BY <1>1, <1>3 DEF LedgerTypeOK, LogKind
<1>7. NetWorthMatchesLog'
  <2> SUFFICES ASSUME NEW v \in User
               PROVE  available'[v] + logged'[v]["admin_debit"] + logged'[v]["schedule_debit"]
                        + logged'[v]["admin_credit_reversal"]
                      = debt'[v] + logged'[v]["cdk_credit"] + logged'[v]["admin_credit"]
    BY DEF NetWorthMatchesLog
  <2>1. logged[v] \in [LogKind -> Nat] /\ available[v] \in Nat /\ debt[v] \in Nat
    BY <1>1 DEF LedgerTypeOK
  <2>2. available[v] + logged[v]["admin_debit"] + logged[v]["schedule_debit"]
          + logged[v]["admin_credit_reversal"]
        = debt[v] + logged[v]["cdk_credit"] + logged[v]["admin_credit"]
    BY <1>1 DEF LedgerBalances, NetWorthMatchesLog
  <2>3. CASE v # u
    BY <1>1, <1>3, <1>6, <2>2, <2>3 DEF LedgerTypeOK
  <2>4. CASE v = u
    <3>1. available'[u] = available[u] + n - repaid /\ debt'[u] = debt[u] - repaid
      BY <1>1, <1>3 DEF LedgerTypeOK
    <3>2. logged'[u]["cdk_credit"] + logged'[u]["admin_credit"]
          = logged[u]["cdk_credit"] + logged[u]["admin_credit"] + n
      BY <1>6, <2>1, <2>4 DEF LogKind
    <3>3. /\ logged'[u]["admin_debit"] = logged[u]["admin_debit"]
          /\ logged'[u]["schedule_debit"] = logged[u]["schedule_debit"]
          /\ logged'[u]["admin_credit_reversal"] = logged[u]["admin_credit_reversal"]
      BY <1>6 DEF LogKind
    <3>4. /\ \A k \in {"admin_debit", "schedule_debit", "admin_credit_reversal",
                        "cdk_credit", "admin_credit"} :
                logged[u][k] \in Nat /\ logged'[u][k] \in Nat
          /\ available[u] \in Nat /\ debt[u] \in Nat
      BY <1>1, <1>5 DEF LedgerTypeOK, LogKind
    <3>5. QED
      BY <1>2, <2>2, <2>4, <3>1, <3>2, <3>3, <3>4
  <2>5. QED
    BY <2>3, <2>4
<1>8. DebtComesFromReversals'
  BY <1>1, <1>2, <1>3, <1>6 DEF LedgerTypeOK, LedgerBalances, DebtComesFromReversals, LogKind
<1>9. QualificationMatchesLog'
  BY <1>1, <1>2, <1>3, <1>6 DEF LedgerTypeOK, LedgerBalances, QualificationMatchesLog, LogKind
<1>10. NeverSpentUncredited'
  BY <1>1, <1>2, <1>3, <1>6 DEF LedgerTypeOK, LedgerBalances, NeverSpentUncredited, LogKind
<1>11. QED
  BY <1>4, <1>5, <1>7, <1>8, <1>9, <1>10 DEF LedgerBalances

\* Credits of a source that had credited nothing leave every reversal within its credit.
LEMMA NewSourceWithinCredit ==
  ASSUME LedgerInv, NEW u \in User, NEW s \in Source, NEW n \in Nat, credit[u][s] = 0,
         credit' = [credit EXCEPT ![u] = [@ EXCEPT ![s] = n]], clawed' = clawed
  PROVE  ReversedWithinCredit'
<1>1. LedgerTypeOK /\ ReversedWithinCredit
  BY DEF LedgerInv
<1>2. clawed[u][s] <= n
  BY <1>1 DEF LedgerTypeOK, ReversedWithinCredit
<1>3. QED
  BY <1>1, <1>2 DEF LedgerTypeOK, ReversedWithinCredit

LEMMA RequestsAreTyped ==
  ASSUME NEW k \in AdminKind, NEW n \in Amount, NEW s \in Source \cup {NoSource}
  PROVE  [kind |-> k, amount |-> n, of |-> s] \in Request \ {NoRequest}
BY NullAssumption DEF Request

LEMMA AdminCreditStep ==
  ASSUME LedgerInv, NEW u \in User, NEW k \in Key, NEW n \in Amount, AdminCredit(u, k, n)
  PROVE  LedgerInv'
<1> DEFINE request == [kind |-> "admin_credit", amount |-> n, of |-> NoSource]
<1>1. /\ LedgerTypeOK
      /\ CreditsHaveOrigin
  BY DEF LedgerInv
<1>2. /\ n \in Nat \ {0}
      /\ k \in Source
      /\ k \notin Code
  BY AmountAssumption, SourceAssumption DEF Source
<1>3. request \in Request \ {NoRequest}
  BY RequestsAreTyped DEF AdminKind
<1> HIDE DEF request
<1>4. /\ operation[u][k] = NoRequest
      /\ operation' = [operation EXCEPT ![u] = [@ EXCEPT ![k] = request]]
      /\ Credited(u, "admin_credit", k, n)
      /\ UNCHANGED <<member, clawed, code, billing>>
  BY DEF AdminCredit, Claims, request
<1>5. credit' = [credit EXCEPT ![u] = [@ EXCEPT ![k] = n]]
  BY <1>4 DEF Credited
<1>6. /\ available' \in [User -> Nat] /\ reserved' \in [User -> Nat]
      /\ credited' \in [User -> Nat] /\ reversed' \in [User -> Nat]
      /\ debt' \in [User -> Nat]
      /\ logged' \in [User -> [LogKind -> Nat]]
      /\ credit' \in [User -> [Source -> Nat]]
      /\ LedgerBalances'
  BY <1>2, <1>4, CreditedKeeps
<1>7. LedgerTypeOK'
  <2>1. operation' \in [User -> [Key -> Request \cup {NoRequest}]]
    BY <1>1, <1>3, <1>4 DEF LedgerTypeOK
  <2>2. QED
    BY <1>1, <1>4, <1>6, <2>1 DEF LedgerTypeOK, billing
<1>8. ReversedWithinCredit'
  BY <1>1, <1>2, <1>4, <1>5, NewSourceWithinCredit DEF CreditsHaveOrigin
<1>9. CreditsHaveOrigin'
  BY <1>1, <1>2, <1>3, <1>4, <1>5, SourceAssumption DEF LedgerTypeOK, CreditsHaveOrigin, Source
<1>10. QED
  BY <1>4, <1>6, <1>7, <1>8, <1>9, BillingUntouched DEF LedgerInv

LEMMA RedeemCodeStep ==
  ASSUME LedgerInv, NEW u \in User, NEW c \in Code, RedeemCode(u, c)
  PROVE  LedgerInv'
<1>1. /\ LedgerTypeOK
      /\ CreditsHaveOrigin
  BY DEF LedgerInv
<1>2. /\ CodeValue[c] \in Nat \ {0}
      /\ c \in Source
      /\ c \notin Key
  BY AmountAssumption, SourceAssumption DEF Source
<1>3. /\ code[c] = "unused"
      /\ code' = [code EXCEPT ![c] = "used"]
      /\ Credited(u, "cdk_credit", c, CodeValue[c])
      /\ UNCHANGED <<member, clawed, operation, billing>>
  BY DEF RedeemCode
<1>4. credit' = [credit EXCEPT ![u] = [@ EXCEPT ![c] = CodeValue[c]]]
  BY <1>3 DEF Credited
<1>5. /\ available' \in [User -> Nat] /\ reserved' \in [User -> Nat]
      /\ credited' \in [User -> Nat] /\ reversed' \in [User -> Nat]
      /\ debt' \in [User -> Nat]
      /\ logged' \in [User -> [LogKind -> Nat]]
      /\ credit' \in [User -> [Source -> Nat]]
      /\ LedgerBalances'
  BY <1>2, <1>3, CreditedKeeps
<1>6. LedgerTypeOK'
  BY <1>1, <1>3, <1>5 DEF LedgerTypeOK, billing
<1>7. ReversedWithinCredit'
  BY <1>1, <1>2, <1>3, <1>4, NewSourceWithinCredit DEF CreditsHaveOrigin
<1>8. CreditsHaveOrigin'
  BY <1>1, <1>2, <1>3, <1>4, SourceAssumption DEF LedgerTypeOK, CreditsHaveOrigin, Source
<1>9. QED
  BY <1>3, <1>5, <1>6, <1>7, <1>8, BillingUntouched DEF LedgerInv

LEMMA LogsOneKind ==
  ASSUME LedgerTypeOK, NEW u \in User, NEW kind \in LogKind, NEW n \in Nat, Logs(u, kind, n)
  PROVE  /\ logged' \in [User -> [LogKind -> Nat]]
         /\ logged'[u][kind] = logged[u][kind] + n
         /\ \A k \in LogKind \ {kind} : logged'[u][k] = logged[u][k]
         /\ \A v \in User \ {u} : logged'[v] = logged[v]
BY DEF LedgerTypeOK, Logs

LEMMA AdminDebitStep ==
  ASSUME LedgerInv, NEW u \in User, NEW k \in Key, NEW n \in Amount, AdminDebit(u, k, n)
  PROVE  LedgerInv'
<1> DEFINE request == [kind |-> "admin_debit", amount |-> n, of |-> NoSource]
<1>1. LedgerTypeOK /\ LedgerBalances /\ ReversedWithinCredit /\ CreditsHaveOrigin
  BY DEF LedgerInv
<1>2. n \in Nat \ {0}
  BY AmountAssumption
<1>3. request \in Request \ {NoRequest}
  BY RequestsAreTyped DEF AdminKind
<1> HIDE DEF request
<1>4. /\ operation' = [operation EXCEPT ![u] = [@ EXCEPT ![k] = request]]
      /\ available[u] - reserved[u] >= n
      /\ available' = [available EXCEPT ![u] = @ - n]
      /\ Logs(u, "admin_debit", n)
      /\ UNCHANGED <<member, reserved, credited, reversed, debt, credit, clawed, code, billing>>
  BY DEF AdminDebit, Claims, request, Free
<1>5. LedgerTypeOK'
  <2>1. operation' \in [User -> [Key -> Request \cup {NoRequest}]]
    BY <1>1, <1>3, <1>4 DEF LedgerTypeOK
  <2>2. available' \in [User -> Nat]
    BY <1>1, <1>2, <1>4 DEF LedgerTypeOK
  <2>3. logged' \in [User -> [LogKind -> Nat]]
    BY <1>1, <1>2, <1>4, LogsOneKind DEF LogKind
  <2>4. QED
    BY <1>1, <1>4, <2>1, <2>2, <2>3 DEF LedgerTypeOK, billing
<1>6. LedgerBalances'
  <2>1. /\ logged'[u]["admin_debit"] = logged[u]["admin_debit"] + n
        /\ \A k2 \in LogKind \ {"admin_debit"} : logged'[u][k2] = logged[u][k2]
        /\ \A v \in User \ {u} : logged'[v] = logged[v]
    BY <1>1, <1>2, <1>4, LogsOneKind DEF LogKind
  <2>2. NetWorthMatchesLog'
    <3> SUFFICES ASSUME NEW v \in User
                 PROVE  available'[v] + logged'[v]["admin_debit"] + logged'[v]["schedule_debit"]
                          + logged'[v]["admin_credit_reversal"]
                        = debt'[v] + logged'[v]["cdk_credit"] + logged'[v]["admin_credit"]
      BY DEF NetWorthMatchesLog
    <3>1. available[v] + logged[v]["admin_debit"] + logged[v]["schedule_debit"]
            + logged[v]["admin_credit_reversal"]
          = debt[v] + logged[v]["cdk_credit"] + logged[v]["admin_credit"]
      BY <1>1 DEF LedgerBalances, NetWorthMatchesLog
    <3>2. CASE v # u
      BY <1>1, <1>4, <2>1, <3>1, <3>2 DEF LedgerTypeOK
    <3>3. CASE v = u
      <4>1. available'[u] = available[u] - n /\ debt'[u] = debt[u]
        BY <1>1, <1>4 DEF LedgerTypeOK
      <4>2. /\ \A k2 \in LogKind : logged[u][k2] \in Nat
            /\ available[u] \in Nat /\ debt[u] \in Nat
        BY <1>1 DEF LedgerTypeOK
      <4>3. QED
        BY <1>2, <2>1, <3>1, <3>3, <4>1, <4>2 DEF LogKind
    <3>4. QED
      BY <3>2, <3>3
  <2>3. \A v \in User : \A k2 \in LogKind \ {"admin_debit"} : logged'[v][k2] = logged[v][k2]
    BY <2>1
  <2>6. DebtComesFromReversals'
    BY <1>1, <1>4, <2>3 DEF LedgerBalances, DebtComesFromReversals, LogKind
  <2>7. QualificationMatchesLog'
    BY <1>1, <1>4, <2>3 DEF LedgerBalances, QualificationMatchesLog, LogKind
  <2>4. NeverSpentUncredited'
    <3> SUFFICES ASSUME NEW v \in User
                 PROVE  /\ reserved'[v] <= available'[v]
                        /\ reserved'[v] + logged'[v]["schedule_debit"]
                             + logged'[v]["admin_debit"] <= credited'[v]
      BY DEF NeverSpentUncredited
    <3>1. CASE v # u
      BY <1>1, <1>4, <2>1, <3>1 DEF LedgerTypeOK, LedgerBalances, NeverSpentUncredited
    <3>2. CASE v = u
      <4>1. available'[u] = available[u] - n /\ reserved'[u] = reserved[u]
        BY <1>1, <1>4 DEF LedgerTypeOK
      \* What is free was credited and not spent: the log says so, net of the debt.
      <4>2. available[u] + logged[u]["admin_debit"] + logged[u]["schedule_debit"] <= credited[u]
        <5>1. /\ \A k2 \in LogKind : logged[u][k2] \in Nat
              /\ debt[u] \in Nat /\ available[u] \in Nat /\ credited[u] \in Nat
          BY <1>1 DEF LedgerTypeOK
        <5>2. QED
          BY <1>1, <5>1 DEF LedgerBalances, NetWorthMatchesLog, DebtComesFromReversals,
                            QualificationMatchesLog, LogKind
      <4>3. QED
        BY <1>1, <1>2, <1>4, <2>1, <3>2, <4>1, <4>2 DEF LedgerTypeOK, LogKind
    <3>3. QED
      BY <3>1, <3>2
  <2>5. QED
    BY <2>2, <2>4, <2>6, <2>7 DEF LedgerBalances
<1>7. ReversedWithinCredit'
  BY <1>1, <1>4 DEF ReversedWithinCredit
<1>8. CreditsHaveOrigin'
  BY <1>1, <1>3, <1>4 DEF LedgerTypeOK, CreditsHaveOrigin, Source
<1>9. QED
  BY <1>4, <1>5, <1>6, <1>7, <1>8, BillingUntouched DEF LedgerInv

LEMMA ReverseCreditStep ==
  ASSUME LedgerInv, NEW u \in User, NEW k \in Key, NEW s \in Source, NEW n \in Amount,
         ReverseCredit(u, k, s, n)
  PROVE  LedgerInv'
<1> DEFINE request == [kind |-> "admin_credit_reversal", amount |-> n, of |-> s]
           taken == Lesser(n, Free(u))
<1>1. LedgerTypeOK /\ LedgerBalances /\ ReversedWithinCredit /\ CreditsHaveOrigin
  BY DEF LedgerInv
<1>2. n \in Nat \ {0}
  BY AmountAssumption
<1>3. request \in Request \ {NoRequest}
  BY RequestsAreTyped DEF AdminKind
<1>4. /\ taken \in Nat
      /\ taken <= n
      /\ taken <= available[u] - reserved[u]
  BY <1>1, <1>2 DEF LedgerTypeOK, LedgerBalances, NeverSpentUncredited, Lesser, Free
<1> HIDE DEF request
<1>5. /\ operation' = [operation EXCEPT ![u] = [@ EXCEPT ![k] = request]]
      /\ clawed[u][s] + n <= credit[u][s]
      /\ reversed[u] + n <= credited[u]
      /\ available' = [available EXCEPT ![u] = @ - taken]
      /\ debt' = [debt EXCEPT ![u] = @ + (n - taken)]
      /\ reversed' = [reversed EXCEPT ![u] = @ + n]
      /\ Logs(u, "admin_credit_reversal", n)
      /\ clawed' = [clawed EXCEPT ![u] =
           [x \in Source |-> IF x = s THEN clawed[u][x] + n ELSE clawed[u][x]]]
      /\ UNCHANGED <<member, reserved, credited, credit, code, billing>>
  BY DEF ReverseCredit, Claims, request
<1> HIDE DEF taken
<1>6. LedgerTypeOK'
  <2>1. operation' \in [User -> [Key -> Request \cup {NoRequest}]]
    BY <1>1, <1>3, <1>5 DEF LedgerTypeOK
  <2>2. /\ available' \in [User -> Nat]
        /\ debt' \in [User -> Nat]
        /\ reversed' \in [User -> Nat]
    BY <1>1, <1>2, <1>4, <1>5 DEF LedgerTypeOK
  <2>3. logged' \in [User -> [LogKind -> Nat]]
    BY <1>1, <1>2, <1>5, LogsOneKind DEF LogKind
  <2>4. clawed' \in [User -> [Source -> Nat]]
    BY <1>1, <1>2, <1>5 DEF LedgerTypeOK
  <2>5. QED
    BY <1>1, <1>5, <2>1, <2>2, <2>3, <2>4 DEF LedgerTypeOK, billing
<1>7. LedgerBalances'
  <2>1. /\ logged'[u]["admin_credit_reversal"] = logged[u]["admin_credit_reversal"] + n
        /\ \A k2 \in LogKind \ {"admin_credit_reversal"} : logged'[u][k2] = logged[u][k2]
        /\ \A v \in User \ {u} : logged'[v] = logged[v]
    BY <1>1, <1>2, <1>5, LogsOneKind DEF LogKind
  <2>2. NetWorthMatchesLog'
    <3> SUFFICES ASSUME NEW v \in User
                 PROVE  available'[v] + logged'[v]["admin_debit"] + logged'[v]["schedule_debit"]
                          + logged'[v]["admin_credit_reversal"]
                        = debt'[v] + logged'[v]["cdk_credit"] + logged'[v]["admin_credit"]
      BY DEF NetWorthMatchesLog
    <3>1. available[v] + logged[v]["admin_debit"] + logged[v]["schedule_debit"]
            + logged[v]["admin_credit_reversal"]
          = debt[v] + logged[v]["cdk_credit"] + logged[v]["admin_credit"]
      BY <1>1 DEF LedgerBalances, NetWorthMatchesLog
    <3>2. CASE v # u
      BY <1>1, <1>5, <2>1, <3>1, <3>2 DEF LedgerTypeOK
    <3>3. CASE v = u
      <4>1. available'[u] = available[u] - taken /\ debt'[u] = debt[u] + (n - taken)
        BY <1>1, <1>5 DEF LedgerTypeOK
      <4>2. /\ \A k2 \in LogKind : logged[u][k2] \in Nat
            /\ available[u] \in Nat /\ debt[u] \in Nat
        BY <1>1 DEF LedgerTypeOK
      <4>3. QED
        <5>1. /\ logged'[u]["admin_credit_reversal"] = logged[u]["admin_credit_reversal"] + n
              /\ \A k2 \in {"admin_debit", "schedule_debit", "cdk_credit", "admin_credit"} :
                    logged'[u][k2] = logged[u][k2]
          BY <2>1 DEF LogKind
        <5>2. /\ \A k2 \in {"admin_debit", "schedule_debit", "admin_credit_reversal",
                             "cdk_credit", "admin_credit"} : logged[u][k2] \in Nat
              /\ available[u] \in Nat /\ debt[u] \in Nat
          BY <4>2 DEF LogKind
        <5>3. QED
          BY <1>2, <1>4, <3>1, <3>3, <4>1, <5>1, <5>2
    <3>4. QED
      BY <3>2, <3>3
  <2>3. DebtComesFromReversals'
    BY <1>1, <1>2, <1>4, <1>5, <2>1
       DEF LedgerTypeOK, LedgerBalances, DebtComesFromReversals, LogKind
  <2>4. QualificationMatchesLog'
    BY <1>1, <1>2, <1>5, <2>1
       DEF LedgerTypeOK, LedgerBalances, QualificationMatchesLog, LogKind
  <2>5. NeverSpentUncredited'
    BY <1>1, <1>2, <1>4, <1>5, <2>1
       DEF LedgerTypeOK, LedgerBalances, NeverSpentUncredited, LogKind
  <2>6. QED
    BY <2>2, <2>3, <2>4, <2>5 DEF LedgerBalances
<1>8. ReversedWithinCredit'
  <2>1. /\ clawed'[u][s] = clawed[u][s] + n
        /\ \A other \in Source \ {s} : clawed'[u][other] = clawed[u][other]
        /\ \A v \in User \ {u} : clawed'[v] = clawed[v]
    BY <1>1, <1>2, <1>5 DEF LedgerTypeOK
  <2>2. QED
    BY <1>1, <1>5, <2>1 DEF LedgerTypeOK, ReversedWithinCredit
<1>9. CreditsHaveOrigin'
  BY <1>1, <1>3, <1>5 DEF LedgerTypeOK, CreditsHaveOrigin, Source
<1>10. QED
  BY <1>5, <1>6, <1>7, <1>8, <1>9, BillingUntouched DEF LedgerInv

-----------------------------------------------------------------------------
(***************************************************************************)
(* The quotes and the jobs.                                                *)
(***************************************************************************)

\* Nothing the account and its history hold changes.
LEMMA AccountsUntouched ==
  ASSUME LedgerInv, UNCHANGED <<member, columns, history>>
  PROVE  LedgerBalances' /\ ReversedWithinCredit' /\ CreditsHaveOrigin'
BY DEF LedgerInv, LedgerBalances, NetWorthMatchesLog, DebtComesFromReversals,
       QualificationMatchesLog, NeverSpentUncredited, ReversedWithinCredit,
       CreditsHaveOrigin, columns, history

LEMMA IssueQuoteStep ==
  ASSUME LedgerInv, NEW u \in User, NEW q \in Quote, NEW kind \in BillingKind,
         IssueQuote(u, q, kind)
  PROVE  LedgerInv'
<1>1. PICK c \in Charges :
        quote' = [quote EXCEPT ![q] = [user |-> u, kind |-> kind, charge |-> c,
                                       expired |-> FALSE, job |-> NoJob]]
  BY DEF IssueQuote
<1> DEFINE row == [user |-> u, kind |-> kind, charge |-> c, expired |-> FALSE, job |-> NoJob]
<1>2. row \in QuoteRow /\ row # NoQuote /\ row.job = NoJob
  <2>1. row \in QuoteRow /\ row.job = NoJob
    BY DEF QuoteRow
  <2> HIDE DEF row
  <2>2. QED
    BY <2>1, NullAssumption
<1>3. quote' = [quote EXCEPT ![q] = row]
  BY <1>1
<1> HIDE DEF row
<1>4. /\ quote[q] = NoQuote
      /\ UNCHANGED <<member, columns, history, reservation, job>>
      /\ LedgerTypeOK /\ QuotesAdmitOnce /\ RowsHaveQuotes
  BY DEF IssueQuote, LedgerInv
<1>5. LedgerTypeOK'
  BY <1>2, <1>3, <1>4 DEF LedgerTypeOK, columns, history
<1>6. QuotesAdmitOnce'
  BY <1>2, <1>3, <1>4, NullAssumption DEF LedgerTypeOK, QuotesAdmitOnce
<1>7. RowsHaveQuotes'
  BY <1>2, <1>3, <1>4 DEF LedgerTypeOK, RowsHaveQuotes
<1>8. QED
  BY <1>4, <1>5, <1>6, <1>7, AccountsUntouched DEF LedgerInv

LEMMA ExpireQuoteStep ==
  ASSUME LedgerInv, NEW q \in Quote, ExpireQuote(q)
  PROVE  LedgerInv'
<1> DEFINE row == [quote[q] EXCEPT !.expired = TRUE]
<1>1. /\ quote[q] # NoQuote
      /\ quote' = [quote EXCEPT ![q] = row]
      /\ UNCHANGED <<member, columns, history, reservation, job>>
      /\ LedgerTypeOK /\ QuotesAdmitOnce /\ RowsHaveQuotes
  BY DEF ExpireQuote, LedgerInv
<1>2. /\ row \in QuoteRow /\ row # NoQuote
      /\ row.job = quote[q].job /\ row.user = quote[q].user /\ row.charge = quote[q].charge
  BY <1>1, NullAssumption DEF LedgerTypeOK, QuoteRow
<1> HIDE DEF row
<1>3. LedgerTypeOK'
  BY <1>1, <1>2 DEF LedgerTypeOK, columns, history
<1>4. QuotesAdmitOnce'
  BY <1>1, <1>2 DEF LedgerTypeOK, QuotesAdmitOnce
<1>5. RowsHaveQuotes'
  BY <1>1, <1>2 DEF LedgerTypeOK, RowsHaveQuotes
<1>6. QED
  BY <1>1, <1>3, <1>4, <1>5, AccountsUntouched DEF LedgerInv

LEMMA AdmitJobStep ==
  ASSUME LedgerInv, NEW u \in User, NEW j \in Job, NEW q \in Quote, AdmitJob(u, j, q)
  PROVE  LedgerInv'
<1>1. PICK c \in Charges : Confirmed(u, q, c) /\ Reserved(u, j, c)
  BY DEF AdmitJob
<1> DEFINE row == [user |-> u, amount |-> c, status |-> "reserved"]
           accepted == [quote[q] EXCEPT !.job = j]
<1>2. /\ job[j] = "none"
      /\ quote' = [quote EXCEPT ![q] = accepted]
      /\ job' = [job EXCEPT ![j] = "active"]
      /\ reserved' = [reserved EXCEPT ![u] = @ + c]
      /\ reservation' = [reservation EXCEPT ![j] = row]
      /\ available[u] - reserved[u] >= c
      /\ UNCHANGED <<member, available, credited, reversed, debt, history>>
      /\ LedgerTypeOK /\ LedgerBalances /\ QuotesAdmitOnce /\ RowsHaveQuotes
      /\ ReversedWithinCredit /\ CreditsHaveOrigin
  BY <1>1 DEF AdmitJob, Reserved, Free, LedgerInv
<1>3. /\ quote[q] # NoQuote
      /\ quote[q].user = u
      /\ c <= quote[q].charge
      /\ quote[q].job = NoJob
      /\ debt[u] = 0
  BY <1>1 DEF Confirmed
<1>4. c \in Nat \ {0}
  BY AmountAssumption DEF Charges
<1>5. /\ row \in ReservationRow
      /\ row # NoRow /\ row.user = u /\ row.amount = c
      /\ accepted \in QuoteRow
      /\ accepted # NoQuote /\ accepted.job = j
      /\ accepted.user = u /\ accepted.charge = quote[q].charge
  <2>1. row \in ReservationRow /\ row.user = u /\ row.amount = c
    BY DEF ReservationRow
  <2>2. quote[q] \in QuoteRow
    BY <1>2, <1>3 DEF LedgerTypeOK
  <2>3. /\ accepted \in QuoteRow /\ accepted.job = j
        /\ accepted.user = u /\ accepted.charge = quote[q].charge
    BY <1>3, <2>2 DEF QuoteRow
  <2> HIDE DEF row, accepted
  <2>4. QED
    BY <2>1, <2>3, NullAssumption
<1> HIDE DEF row, accepted
<1>6. LedgerTypeOK'
  <2>1. reserved' \in [User -> Nat]
    BY <1>2, <1>4 DEF LedgerTypeOK
  <2>2. QED
    BY <1>2, <1>5, <2>1 DEF LedgerTypeOK, history
<1>7. LedgerBalances'
  <2>1. NetWorthMatchesLog' /\ DebtComesFromReversals' /\ QualificationMatchesLog'
    BY <1>2 DEF LedgerBalances, NetWorthMatchesLog, DebtComesFromReversals,
                QualificationMatchesLog, history
  \* Nothing is owed, so what is free was credited and not spent.
  <2>2. NeverSpentUncredited'
    <3> SUFFICES ASSUME NEW v \in User
                 PROVE  /\ reserved'[v] <= available'[v]
                        /\ reserved'[v] + logged'[v]["schedule_debit"]
                             + logged'[v]["admin_debit"] <= credited'[v]
      BY DEF NeverSpentUncredited
    <3>1. CASE v # u
      BY <1>2, <3>1 DEF LedgerTypeOK, LedgerBalances, NeverSpentUncredited, history
    <3>2. CASE v = u
      <4>1. reserved'[u] = reserved[u] + c
        BY <1>2 DEF LedgerTypeOK
      <4>2. available[u] + logged[u]["schedule_debit"] + logged[u]["admin_debit"]
              <= credited[u]
        <5>1. /\ \A k \in LogKind : logged[u][k] \in Nat
              /\ available[u] \in Nat /\ debt[u] \in Nat /\ credited[u] \in Nat
          BY <1>2 DEF LedgerTypeOK
        <5>2. QED
          BY <1>2, <5>1 DEF LedgerBalances, NetWorthMatchesLog, DebtComesFromReversals,
                            QualificationMatchesLog, LogKind
      <4>3. QED
        BY <1>2, <1>4, <3>2, <4>1, <4>2 DEF LedgerTypeOK, LogKind, history
    <3>3. QED
      BY <3>1, <3>2
  <2>3. QED
    BY <2>1, <2>2 DEF LedgerBalances
<1>8. ReversedWithinCredit' /\ CreditsHaveOrigin'
  BY <1>2 DEF ReversedWithinCredit, CreditsHaveOrigin, history
<1>9. QuotesAdmitOnce'
  <2>1. \A other \in Quote : quote[other] # NoQuote => quote[other].job # j
    BY <1>2 DEF QuotesAdmitOnce
  <2>2. QED
    BY <1>2, <1>3, <1>5, <2>1 DEF LedgerTypeOK, QuotesAdmitOnce
<1>10. RowsHaveQuotes'
  <2> SUFFICES ASSUME NEW i \in Job, reservation'[i] # NoRow
               PROVE  \E p \in Quote : /\ quote'[p] # NoQuote
                                       /\ quote'[p].job = i
                                       /\ quote'[p].user = reservation'[i].user
                                       /\ reservation'[i].amount <= quote'[p].charge
    BY DEF RowsHaveQuotes
  <2>1. CASE i = j
    <3>1. quote'[q] = accepted /\ reservation'[i] = row
      BY <1>2, <2>1 DEF LedgerTypeOK
    <3>2. QED
      BY <1>3, <1>5, <2>1, <3>1
  <2>2. CASE i # j
    <3>1. reservation'[i] = reservation[i]
      BY <1>2, <2>2 DEF LedgerTypeOK
    <3>2. PICK p \in Quote : /\ quote[p] # NoQuote
                             /\ quote[p].job = i
                             /\ quote[p].user = reservation[i].user
                             /\ reservation[i].amount <= quote[p].charge
      BY <1>2, <3>1 DEF RowsHaveQuotes
    <3>3. p # q
      BY <1>3, <3>2, NullAssumption
    <3>4. QED
      BY <1>2, <3>1, <3>2, <3>3 DEF LedgerTypeOK
  <2>3. QED
    BY <2>1, <2>2
<1>11. QED
  BY <1>6, <1>7, <1>8, <1>9, <1>10 DEF LedgerInv

\* A row of a job can only change its status or go, and no job returns to "none".
LEMMA RowsKeepQuotes ==
  ASSUME LedgerInv, quote' = quote,
         \A i \in Job : \/ reservation'[i] = NoRow
                        \/ /\ reservation[i] # NoRow
                           /\ reservation'[i].user = reservation[i].user
                           /\ reservation'[i].amount = reservation[i].amount,
         \A i \in Job : job[i] # "none" => job'[i] # "none"
  PROVE  QuotesAdmitOnce' /\ RowsHaveQuotes'
<1>1. QuotesAdmitOnce'
  BY DEF LedgerInv, QuotesAdmitOnce
<1>2. RowsHaveQuotes'
  BY DEF LedgerInv, RowsHaveQuotes
<1>3. QED
  BY <1>1, <1>2

LEMMA SettleJobStep ==
  ASSUME LedgerInv, NEW j \in Job, SettleJob(j)
  PROVE  LedgerInv'
<1> DEFINE u == reservation[j].user
           c == reservation[j].amount
           row == [reservation[j] EXCEPT !.status = "consumed"]
<1>1. /\ job[j] = "active"
      /\ reservation[j] # NoRow
      /\ reserved[u] >= c
      /\ available[u] >= c
      /\ job' = [job EXCEPT ![j] = "succeeded"]
      /\ available' = [available EXCEPT ![u] = @ - c]
      /\ reserved' = [reserved EXCEPT ![u] = @ - c]
      /\ Logs(u, "schedule_debit", c)
      /\ reservation' = [reservation EXCEPT ![j] = row]
      /\ UNCHANGED <<member, credited, reversed, debt, credit, clawed, operation, code, quote>>
      /\ LedgerTypeOK /\ LedgerBalances /\ ReversedWithinCredit /\ CreditsHaveOrigin
  BY DEF SettleJob, LedgerInv
<1>2. reservation[j] \in ReservationRow
  BY <1>1 DEF LedgerTypeOK
<1>3. /\ u \in User
      /\ c \in Nat \ {0}
      /\ row \in ReservationRow
      /\ row.user = reservation[j].user
      /\ row.amount = reservation[j].amount
  BY <1>2, AmountAssumption DEF ReservationRow, Charges
<1> HIDE DEF u, c, row
<1>4. /\ logged' \in [User -> [LogKind -> Nat]]
      /\ logged'[u]["schedule_debit"] = logged[u]["schedule_debit"] + c
      /\ \A k \in LogKind \ {"schedule_debit"} : logged'[u][k] = logged[u][k]
      /\ \A v \in User \ {u} : logged'[v] = logged[v]
  BY <1>1, <1>3, LogsOneKind DEF LogKind
<1>5. LedgerTypeOK'
  <2>1. available' \in [User -> Nat] /\ reserved' \in [User -> Nat]
    BY <1>1, <1>3 DEF LedgerTypeOK
  <2>2. job' \in [Job -> {"none", "active", "succeeded", "ended", "gone"}]
    BY <1>1 DEF LedgerTypeOK
  <2>3. reservation' \in [Job -> ReservationRow \cup {NoRow}]
    BY <1>1, <1>3 DEF LedgerTypeOK
  <2>4. QED
    BY <1>1, <1>4, <2>1, <2>2, <2>3 DEF LedgerTypeOK
<1>6. LedgerBalances'
  <2>1. \A v \in User : \A k \in LogKind \ {"schedule_debit"} : logged'[v][k] = logged[v][k]
    BY <1>4
  <2>2. DebtComesFromReversals'
    BY <1>1, <2>1 DEF LedgerBalances, DebtComesFromReversals, LogKind
  <2>3. QualificationMatchesLog'
    BY <1>1, <2>1 DEF LedgerBalances, QualificationMatchesLog, LogKind
  <2>4. \A v \in User : logged[v] \in [LogKind -> Nat]
    BY <1>1 DEF LedgerTypeOK
  <2>5. /\ available'[u] = available[u] - c
        /\ reserved'[u] = reserved[u] - c
        /\ \A v \in User \ {u} : available'[v] = available[v] /\ reserved'[v] = reserved[v]
    BY <1>1, <1>3 DEF LedgerTypeOK
  <2>6. NetWorthMatchesLog'
    <3> SUFFICES ASSUME NEW v \in User
                 PROVE  available'[v] + logged'[v]["admin_debit"] + logged'[v]["schedule_debit"]
                          + logged'[v]["admin_credit_reversal"]
                        = debt'[v] + logged'[v]["cdk_credit"] + logged'[v]["admin_credit"]
      BY DEF NetWorthMatchesLog
    <3>1. available[v] + logged[v]["admin_debit"] + logged[v]["schedule_debit"]
            + logged[v]["admin_credit_reversal"]
          = debt[v] + logged[v]["cdk_credit"] + logged[v]["admin_credit"]
      BY <1>1 DEF LedgerBalances, NetWorthMatchesLog
    <3>2. CASE v # u
      BY <1>1, <1>4, <2>5, <3>1, <3>2
    <3>3. CASE v = u
      <4>1. \A k \in LogKind : logged[u][k] \in Nat
        BY <1>3, <2>4
      <4>2. available[u] \in Nat /\ debt[u] \in Nat /\ debt'[u] = debt[u]
        BY <1>1, <1>3 DEF LedgerTypeOK
      <4>3. QED
        BY <1>3, <1>4, <2>5, <3>1, <3>3, <4>1, <4>2 DEF LogKind
    <3>4. QED
      BY <3>2, <3>3
  <2>7. NeverSpentUncredited'
    <3> SUFFICES ASSUME NEW v \in User
                 PROVE  /\ reserved'[v] <= available'[v]
                        /\ reserved'[v] + logged'[v]["schedule_debit"]
                             + logged'[v]["admin_debit"] <= credited'[v]
      BY DEF NeverSpentUncredited
    <3>1. /\ reserved[v] <= available[v]
          /\ reserved[v] + logged[v]["schedule_debit"] + logged[v]["admin_debit"] <= credited[v]
      BY <1>1 DEF LedgerBalances, NeverSpentUncredited
    <3>2. CASE v # u
      BY <1>1, <1>4, <2>5, <3>1, <3>2
    <3>3. CASE v = u
      <4>1. /\ logged[u]["schedule_debit"] \in Nat /\ logged[u]["admin_debit"] \in Nat
            /\ logged'[u]["admin_debit"] = logged[u]["admin_debit"]
        BY <1>3, <1>4, <2>4 DEF LogKind
      <4>2. reserved[u] \in Nat /\ available[u] \in Nat /\ credited[u] \in Nat
        BY <1>1, <1>3 DEF LedgerTypeOK
      <4>3. QED
        BY <1>1, <1>3, <1>4, <2>5, <3>1, <3>3, <4>1, <4>2
    <3>4. QED
      BY <3>2, <3>3
  <2>8. QED
    BY <2>2, <2>3, <2>6, <2>7 DEF LedgerBalances
<1>7. ReversedWithinCredit' /\ CreditsHaveOrigin'
  BY <1>1 DEF ReversedWithinCredit, CreditsHaveOrigin
<1>8. QuotesAdmitOnce' /\ RowsHaveQuotes'
  <2>1. \A i \in Job : \/ reservation'[i] = NoRow
                       \/ /\ reservation[i] # NoRow
                          /\ reservation'[i].user = reservation[i].user
                          /\ reservation'[i].amount = reservation[i].amount
    BY <1>1, <1>3 DEF LedgerTypeOK
  <2>2. \A i \in Job : job[i] # "none" => job'[i] # "none"
    BY <1>1 DEF LedgerTypeOK
  <2>3. QED
    BY <1>1, <2>1, <2>2, RowsKeepQuotes
<1>9. QED
  BY <1>5, <1>6, <1>7, <1>8 DEF LedgerInv

\* Points that are held no longer: nothing else of the accounts changes.
LEMMA HoldingLess ==
  ASSUME LedgerInv, UNCHANGED <<available, credited, reversed, debt, history>>,
         \A v \in User : reserved'[v] <= reserved[v] /\ reserved'[v] \in Nat
  PROVE  LedgerBalances'
<1>1. LedgerTypeOK /\ LedgerBalances
  BY DEF LedgerInv
<1>2. NetWorthMatchesLog' /\ DebtComesFromReversals' /\ QualificationMatchesLog'
  BY <1>1 DEF LedgerBalances, NetWorthMatchesLog, DebtComesFromReversals,
              QualificationMatchesLog, history
<1>3. NeverSpentUncredited'
  <2> SUFFICES ASSUME NEW v \in User
               PROVE  /\ reserved'[v] <= available'[v]
                      /\ reserved'[v] + logged'[v]["schedule_debit"]
                           + logged'[v]["admin_debit"] <= credited'[v]
    BY DEF NeverSpentUncredited
  <2>1. /\ reserved[v] \in Nat /\ available[v] \in Nat /\ credited[v] \in Nat
        /\ logged[v]["schedule_debit"] \in Nat /\ logged[v]["admin_debit"] \in Nat
    BY <1>1 DEF LedgerTypeOK, LogKind
  <2>2. QED
    BY <1>1, <2>1 DEF LedgerBalances, NeverSpentUncredited, history
<1>4. QED
  BY <1>2, <1>3 DEF LedgerBalances

LEMMA ReleaseJobStep ==
  ASSUME LedgerInv, NEW j \in Job, ReleaseJob(j)
  PROVE  LedgerInv'
<1> DEFINE u == reservation[j].user
           c == reservation[j].amount
           row == [reservation[j] EXCEPT !.status = "released"]
<1>1. /\ job[j] = "active"
      /\ reservation[j] # NoRow
      /\ reserved[u] >= c
      /\ job' = [job EXCEPT ![j] = "ended"]
      /\ reserved' = [reserved EXCEPT ![u] = @ - c]
      /\ reservation' = [reservation EXCEPT ![j] = row]
      /\ UNCHANGED <<member, available, credited, reversed, debt, history, quote>>
      /\ LedgerTypeOK /\ LedgerBalances /\ ReversedWithinCredit /\ CreditsHaveOrigin
  BY DEF ReleaseJob, LedgerInv
<1>2. reservation[j] \in ReservationRow
  BY <1>1 DEF LedgerTypeOK
<1>3. /\ u \in User
      /\ c \in Nat \ {0}
      /\ row \in ReservationRow
      /\ row.user = reservation[j].user
      /\ row.amount = reservation[j].amount
  BY <1>2, AmountAssumption DEF ReservationRow, Charges
<1> HIDE DEF u, c, row
<1>4. LedgerTypeOK'
  <2>1. reserved' \in [User -> Nat]
    BY <1>1, <1>3 DEF LedgerTypeOK
  <2>2. job' \in [Job -> {"none", "active", "succeeded", "ended", "gone"}]
    BY <1>1 DEF LedgerTypeOK
  <2>3. reservation' \in [Job -> ReservationRow \cup {NoRow}]
    BY <1>1, <1>3 DEF LedgerTypeOK
  <2>4. QED
    BY <1>1, <2>1, <2>2, <2>3 DEF LedgerTypeOK, history
<1>5. LedgerBalances'
  <2>1. \A v \in User : reserved'[v] <= reserved[v] /\ reserved'[v] \in Nat
    BY <1>1, <1>3 DEF LedgerTypeOK
  <2>2. QED
    BY <1>1, <2>1, HoldingLess
<1>6. ReversedWithinCredit' /\ CreditsHaveOrigin'
  BY <1>1 DEF ReversedWithinCredit, CreditsHaveOrigin, history
<1>7. QuotesAdmitOnce' /\ RowsHaveQuotes'
  <2>1. \A i \in Job : \/ reservation'[i] = NoRow
                       \/ /\ reservation[i] # NoRow
                          /\ reservation'[i].user = reservation[i].user
                          /\ reservation'[i].amount = reservation[i].amount
    BY <1>1, <1>3 DEF LedgerTypeOK
  <2>2. \A i \in Job : job[i] # "none" => job'[i] # "none"
    BY <1>1 DEF LedgerTypeOK
  <2>3. QED
    BY <1>1, <2>1, <2>2, RowsKeepQuotes
<1>8. QED
  BY <1>4, <1>5, <1>6, <1>7 DEF LedgerInv

LEMMA ForgetJobStep ==
  ASSUME LedgerInv, NEW j \in Job, ForgetJob(j)
  PROVE  LedgerInv'
<1>1. /\ job' = [job EXCEPT ![j] = "gone"]
      /\ reservation' = [reservation EXCEPT ![j] = NoRow]
      /\ UNCHANGED <<member, columns, history, quote>>
      /\ LedgerTypeOK
  BY DEF ForgetJob, LedgerInv
<1>2. LedgerTypeOK'
  BY <1>1 DEF LedgerTypeOK, columns, history
<1>3. QuotesAdmitOnce' /\ RowsHaveQuotes'
  <2>1. \A i \in Job : \/ reservation'[i] = NoRow
                       \/ reservation'[i] = reservation[i]
    BY <1>1 DEF LedgerTypeOK
  <2>2. \A i \in Job : job[i] # "none" => job'[i] # "none"
    BY <1>1 DEF LedgerTypeOK
  <2>3. QED
    BY <1>1, <2>1, <2>2, RowsKeepQuotes
<1>4. QED
  BY <1>1, <1>2, <1>3, AccountsUntouched DEF LedgerInv

LEMMA ReleaseJobsOfStep ==
  ASSUME LedgerInv, NEW u \in User, ReleaseJobsOf(u)
  PROVE  LedgerInv'
<1>1. PICK n \in 0 .. reserved[u] : reserved' = [reserved EXCEPT ![u] = @ - n]
  BY DEF ReleaseJobsOf
<1>2. /\ reservation' = [i \in Job |-> IF i \in HeldRows(u)
                                       THEN [reservation[i] EXCEPT !.status = "released"]
                                       ELSE reservation[i]]
      /\ job' = [i \in Job |-> IF i \in HeldRows(u) THEN "ended" ELSE job[i]]
      /\ UNCHANGED <<member, available, credited, reversed, debt, history, quote>>
      /\ LedgerTypeOK /\ LedgerBalances /\ ReversedWithinCredit /\ CreditsHaveOrigin
  BY DEF ReleaseJobsOf, LedgerInv
<1>3. ASSUME NEW i \in HeldRows(u)
      PROVE  /\ reservation[i] # NoRow
             /\ reservation'[i] \in ReservationRow
             /\ reservation'[i].user = reservation[i].user
             /\ reservation'[i].amount = reservation[i].amount
  <2>1. i \in Job /\ reservation[i] \in ReservationRow /\ reservation[i] # NoRow
    BY <1>2, <1>3 DEF HeldRows, LedgerTypeOK
  <2>2. reservation'[i] = [reservation[i] EXCEPT !.status = "released"]
    BY <1>2, <1>3, <2>1
  <2>3. QED
    BY <2>1, <2>2 DEF ReservationRow
<1>4. \A i \in Job \ HeldRows(u) : reservation'[i] = reservation[i]
  BY <1>2
<1>5. LedgerTypeOK'
  <2>1. reserved' \in [User -> Nat]
    BY <1>1, <1>2 DEF LedgerTypeOK
  <2>2. reservation' \in [Job -> ReservationRow \cup {NoRow}]
    <3>1. \A i \in Job : reservation'[i] \in ReservationRow \cup {NoRow}
      BY <1>2, <1>3, <1>4 DEF LedgerTypeOK
    <3>2. QED
      BY <1>2, <3>1
  <2>3. job' \in [Job -> {"none", "active", "succeeded", "ended", "gone"}]
    BY <1>2 DEF LedgerTypeOK
  <2>4. QED
    BY <1>2, <2>1, <2>2, <2>3 DEF LedgerTypeOK, history
<1>6. LedgerBalances'
  <2>1. \A v \in User : reserved'[v] <= reserved[v] /\ reserved'[v] \in Nat
    BY <1>1, <1>2 DEF LedgerTypeOK
  <2>2. QED
    BY <1>2, <2>1, HoldingLess
<1>7. ReversedWithinCredit' /\ CreditsHaveOrigin'
  BY <1>2 DEF ReversedWithinCredit, CreditsHaveOrigin, history
<1>8. QuotesAdmitOnce' /\ RowsHaveQuotes'
  <2>1. \A i \in Job : \/ reservation'[i] = NoRow
                       \/ /\ reservation[i] # NoRow
                          /\ reservation'[i].user = reservation[i].user
                          /\ reservation'[i].amount = reservation[i].amount
    BY <1>3, <1>4
  <2>2. \A i \in Job : job[i] # "none" => job'[i] # "none"
    BY <1>2
  <2>3. QED
    BY <1>2, <2>1, <2>2, RowsKeepQuotes
<1>9. QED
  BY <1>5, <1>6, <1>7, <1>8 DEF LedgerInv

LEMMA DeleteUserRowsStep ==
  ASSUME LedgerInv, NEW u \in User, DeleteUserRows(u)
  PROVE  LedgerInv'
<1>1. /\ LedgerTypeOK /\ LedgerBalances /\ ReversedWithinCredit /\ CreditsHaveOrigin
      /\ QuotesAdmitOnce /\ RowsHaveQuotes
  BY DEF LedgerInv
<1>2. LedgerTypeOK'
  <2>1. /\ member' \subseteq User
        /\ available' \in [User -> Nat] /\ reserved' \in [User -> Nat]
        /\ debt' \in [User -> Nat]
        /\ credited' \in [User -> Nat] /\ reversed' \in [User -> Nat]
    BY <1>1 DEF LedgerTypeOK, DeleteUserRows
  <2>2. /\ logged' \in [User -> [LogKind -> Nat]]
        /\ credit' \in [User -> [Source -> Nat]]
        /\ clawed' \in [User -> [Source -> Nat]]
        /\ operation' \in [User -> [Key -> Request \cup {NoRequest}]]
        /\ code' \in [Code -> {"unused", "used"}]
    BY <1>1 DEF LedgerTypeOK, DeleteUserRows
  <2>3. /\ quote' \in [Quote -> QuoteRow \cup {NoQuote}]
        /\ reservation' \in [Job -> ReservationRow \cup {NoRow}]
        /\ job' \in [Job -> {"none", "active", "succeeded", "ended", "gone"}]
    BY <1>1 DEF LedgerTypeOK, DeleteUserRows
  <2>4. QED
    BY <2>1, <2>2, <2>3 DEF LedgerTypeOK
<1>3. \A v \in User : \/ /\ available'[v] = available[v] /\ reserved'[v] = reserved[v]
                          /\ credited'[v] = credited[v] /\ reversed'[v] = reversed[v]
                          /\ debt'[v] = debt[v] /\ logged'[v] = logged[v]
                       \/ /\ available'[v] = 0 /\ reserved'[v] = 0
                          /\ credited'[v] = 0 /\ reversed'[v] = 0
                          /\ debt'[v] = 0 /\ logged'[v] = [k \in LogKind |-> 0]
  BY <1>1 DEF LedgerTypeOK, DeleteUserRows
<1>4. LedgerBalances'
  <2>1. NetWorthMatchesLog' /\ DebtComesFromReversals'
    BY <1>1, <1>3 DEF LedgerBalances, NetWorthMatchesLog, DebtComesFromReversals, LogKind
  <2>2. QualificationMatchesLog' /\ NeverSpentUncredited'
    BY <1>1, <1>3 DEF LedgerBalances, QualificationMatchesLog, NeverSpentUncredited, LogKind
  <2>3. QED
    BY <2>1, <2>2 DEF LedgerBalances
<1>5. \A v \in User : \/ /\ credit'[v] = credit[v] /\ clawed'[v] = clawed[v]
                          /\ operation'[v] = operation[v]
                       \/ /\ credit'[v] = [s \in Source |-> 0]
                          /\ clawed'[v] = [s \in Source |-> 0]
  BY <1>1 DEF LedgerTypeOK, DeleteUserRows
<1>6. ReversedWithinCredit'
  BY <1>1, <1>5 DEF ReversedWithinCredit
<1>7. CreditsHaveOrigin'
  <2>1. code' = code
    BY DEF DeleteUserRows
  <2>2. QED
    BY <1>1, <1>5, <2>1 DEF CreditsHaveOrigin, Source
<1>8. /\ \A q \in Quote : quote'[q] # NoQuote => quote'[q] = quote[q]
      /\ \A q \in Quote : quote[q] # NoQuote /\ quote[q].user # u => quote'[q] = quote[q]
      /\ \A i \in Job : reservation'[i] # NoRow =>
            reservation'[i] = reservation[i] /\ reservation[i].user # u
      /\ \A i \in Job : job'[i] = job[i] \/ job'[i] = "gone"
  BY DEF DeleteUserRows
<1>9. QuotesAdmitOnce'
  <2>1. \A i \in Job, q \in Quote : quote'[q] # NoQuote /\ quote'[q].job = i => job'[i] # "none"
    BY <1>1, <1>8 DEF QuotesAdmitOnce
  <2>2. QED
    BY <1>1, <1>8, <2>1 DEF QuotesAdmitOnce
<1>10. RowsHaveQuotes'
  <2> SUFFICES ASSUME NEW i \in Job, reservation'[i] # NoRow
               PROVE  \E p \in Quote : /\ quote'[p] # NoQuote
                                       /\ quote'[p].job = i
                                       /\ quote'[p].user = reservation'[i].user
                                       /\ reservation'[i].amount <= quote'[p].charge
    BY DEF RowsHaveQuotes
  <2>1. reservation'[i] = reservation[i] /\ reservation[i].user # u
    BY <1>8
  <2>2. PICK p \in Quote : /\ quote[p] # NoQuote
                           /\ quote[p].job = i
                           /\ quote[p].user = reservation[i].user
                           /\ reservation[i].amount <= quote[p].charge
    BY <1>1, <2>1 DEF RowsHaveQuotes
  <2>3. QED
    BY <1>8, <2>1, <2>2
<1>11. QED
  BY <1>2, <1>4, <1>6, <1>7, <1>9, <1>10 DEF LedgerInv

-----------------------------------------------------------------------------
LEMMA LedgerInvStep ==
  ASSUME LedgerInv, [LedgerNext]_ledgerVars
  PROVE  LedgerInv'
<1>1. CASE UNCHANGED ledgerVars
  <2>1. LedgerTypeOK'
    BY <1>1 DEF LedgerInv, LedgerTypeOK, ledgerVars, columns, history, billing
  <2>2. QED
    BY <1>1, <2>1, AccountsUntouched, BillingUntouched DEF LedgerInv, ledgerVars
<1>2. ASSUME NEW u \in User, PointsStep(u)
      PROVE  LedgerInv'
  BY <1>2, AdminCreditStep, AdminDebitStep, ReverseCreditStep, RedeemCodeStep DEF PointsStep
<1>3. ASSUME NEW u \in User, QuoteStep(u) \/ AdmissionStep(u)
      PROVE  LedgerInv'
  BY <1>3, IssueQuoteStep, AdmitJobStep DEF QuoteStep, AdmissionStep
<1>4. CASE SystemStep
  BY <1>4, ExpireQuoteStep, SettleJobStep, ReleaseJobStep, ForgetJobStep DEF SystemStep
<1>5. QED
  BY <1>1, <1>2, <1>3, <1>4, ReleaseJobsOfStep, DeleteUserRowsStep DEF LedgerNext

\* Every state the ledger reaches satisfies the inductive invariant.
THEOREM LedgerStaysSound == LedgerSpec => []LedgerInv
BY InitLedger, LedgerInvStep, PTL DEF LedgerSpec

\* Whatever the transactions and their order, the columns, the rows and the log hold amounts
\* that are never negative.
THEOREM LedgerTypeInvariant == LedgerSpec => []LedgerTypeOK
<1>1. LedgerInv => LedgerTypeOK
  BY DEF LedgerInv
<1>2. QED
  BY LedgerStaysSound, <1>1, PTL

\* The account's columns, its log and the counters of the commercial tier agree after any
\* sequence of credits, debits, charges, reversals and repayments, and nothing that was not
\* credited is spent or held.
THEOREM LedgerAlwaysBalances == LedgerSpec => []LedgerBalances
<1>1. LedgerInv => LedgerBalances
  BY DEF LedgerInv
<1>2. QED
  BY LedgerStaysSound, <1>1, PTL

\* The reversals of a credit never add up to more than it.
THEOREM CreditsReversedAtMostOnce == LedgerSpec => []ReversedWithinCredit
<1>1. LedgerInv => ReversedWithinCredit
  BY DEF LedgerInv
<1>2. QED
  BY LedgerStaysSound, <1>1, PTL

\* No job costs more than its owner accepted, in the only quote that admitted it.
THEOREM JobsNeverOvercharged == LedgerSpec => []NeverOvercharged
<1>1. LedgerInv => NeverOvercharged
  <2> SUFFICES ASSUME LedgerInv, NEW j \in Job, reservation[j] # NoRow
               PROVE  \E q \in Quote :
                        /\ quote[q] # NoQuote
                        /\ quote[q].job = j
                        /\ quote[q].user = reservation[j].user
                        /\ reservation[j].amount <= quote[q].charge
                        /\ \A other \in Quote \ {q} : quote[other] # NoQuote => quote[other].job # j
    BY DEF NeverOvercharged
  <2>1. PICK q \in Quote : /\ quote[q] # NoQuote
                           /\ quote[q].job = j
                           /\ quote[q].user = reservation[j].user
                           /\ reservation[j].amount <= quote[q].charge
    BY DEF LedgerInv, RowsHaveQuotes
  <2>2. \A other \in Quote \ {q} : quote[other] # NoQuote => quote[other].job # j
    BY <2>1, NullAssumption DEF LedgerInv, QuotesAdmitOnce
  <2>3. QED
    BY <2>1, <2>2
<1>2. QED
  BY LedgerStaysSound, <1>1, PTL

-----------------------------------------------------------------------------
(***************************************************************************)
(* The ledger is a wallet.                                                 *)
(***************************************************************************)
net == [u \in User |-> available[u] - debt[u]]

LEMMA WalletKept ==
  ASSUME UNCHANGED <<available, debt, reserved>>
  PROVE  UNCHANGED Wallet!walletVars
BY DEF Wallet!walletVars

\* A step that moves user u's points moves nobody else's.
LEMMA OnlyUsersPoints ==
  ASSUME LedgerTypeOK, LedgerTypeOK', NEW u \in User,
         \A v \in User \ {u} : /\ available'[v] = available[v]
                               /\ debt'[v] = debt[v]
                               /\ reserved'[v] = reserved[v]
  PROVE  /\ net' = [net EXCEPT ![u] = net'[u]]
         /\ reserved' = [reserved EXCEPT ![u] = reserved'[u]]
         /\ net[u] = available[u] - debt[u]
         /\ net'[u] = available'[u] - debt'[u]
         /\ net \in [User -> Int] /\ net' \in [User -> Int]
<1>1. net \in [User -> Int] /\ net' \in [User -> Int]
  BY DEF LedgerTypeOK, net
<1>2. \A v \in User \ {u} : net'[v] = net[v]
  BY DEF net
<1>3. net' = [net EXCEPT ![u] = net'[u]]
  BY <1>1, <1>2
<1>4. reserved' = [reserved EXCEPT ![u] = reserved'[u]]
  BY DEF LedgerTypeOK
<1>5. QED
  BY <1>1, <1>3, <1>4 DEF net

LEMMA WalletGains ==
  ASSUME LedgerInv, LedgerInv', NEW u \in User, NEW kind, NEW s, NEW n \in Nat \ {0},
         Credited(u, kind, s, n)
  PROVE  Wallet!WalletNext
<1> DEFINE repaid == Lesser(debt[u], Free(u) + n)
<1>1. LedgerTypeOK /\ LedgerTypeOK' /\ LedgerBalances
  BY DEF LedgerInv
<1>2. repaid \in Nat
  BY <1>1 DEF LedgerTypeOK, LedgerBalances, NeverSpentUncredited, Lesser, Free
<1>3. /\ available' = [available EXCEPT ![u] = @ + n - repaid]
      /\ debt' = [debt EXCEPT ![u] = @ - repaid]
      /\ UNCHANGED reserved
  BY DEF Credited
<1> HIDE DEF repaid
<1>4. /\ available'[u] = available[u] + n - repaid
      /\ debt'[u] = debt[u] - repaid
      /\ \A v \in User \ {u} : /\ available'[v] = available[v]
                               /\ debt'[v] = debt[v]
                               /\ reserved'[v] = reserved[v]
  BY <1>1, <1>3 DEF LedgerTypeOK
<1>5. net' = [net EXCEPT ![u] = net'[u]] /\ net'[u] > net[u]
  <2>1. available[u] \in Nat /\ debt[u] \in Nat
    BY <1>1 DEF LedgerTypeOK
  <2>2. QED
    BY <1>1, <1>2, <1>4, <2>1, OnlyUsersPoints
<1>6. Wallet!Gain(u)
  BY <1>3, <1>5 DEF Wallet!Gain, Wallet!OnlyOf, net
<1>7. QED
  BY <1>6 DEF Wallet!WalletNext

LEMMA WalletLoses ==
  ASSUME LedgerInv, LedgerInv', NEW u \in User, UNCHANGED reserved,
         \A v \in User \ {u} : available'[v] = available[v] /\ debt'[v] = debt[v],
         available'[u] - debt'[u] < available[u] - debt[u]
  PROVE  Wallet!WalletNext
<1>1. LedgerTypeOK /\ LedgerTypeOK'
  BY DEF LedgerInv
<1>2. net' = [net EXCEPT ![u] = net'[u]] /\ net'[u] < net[u]
  BY <1>1, OnlyUsersPoints
<1>3. Wallet!Lose(u)
  BY <1>2 DEF Wallet!Lose, Wallet!OnlyOf, net
<1>4. QED
  BY <1>3 DEF Wallet!WalletNext

LEMMA WalletHolds ==
  ASSUME LedgerInv, LedgerInv', NEW u \in User, NEW j \in Job, NEW q \in Quote,
         AdmitJob(u, j, q)
  PROVE  Wallet!WalletNext
<1>1. LedgerTypeOK /\ LedgerTypeOK'
  BY DEF LedgerInv
<1>2. PICK c \in Charges : Confirmed(u, q, c) /\ Reserved(u, j, c)
  BY DEF AdmitJob
<1>3. /\ available[u] - reserved[u] >= c
      /\ debt[u] = 0
      /\ reserved' = [reserved EXCEPT ![u] = @ + c]
      /\ UNCHANGED <<available, debt>>
      /\ c \in Nat \ {0}
  <2>1. c \in Nat \ {0}
    BY AmountAssumption DEF Charges
  <2>2. UNCHANGED <<available, debt>>
    BY DEF AdmitJob
  <2>3. QED
    BY <1>2, <2>1, <2>2 DEF Confirmed, Reserved, Free
<1>4. /\ reserved'[u] = reserved[u] + c
      /\ reserved' = [reserved EXCEPT ![u] = reserved'[u]]
  BY <1>1, <1>3 DEF LedgerTypeOK
<1>5. /\ net' = net
      /\ net[u] >= reserved'[u]
      /\ reserved'[u] > reserved[u]
  BY <1>1, <1>3, <1>4 DEF LedgerTypeOK, net
<1>6. Wallet!Hold(u)
  BY <1>4, <1>5 DEF Wallet!Hold, Wallet!OnlyOf, net
<1>7. QED
  BY <1>6 DEF Wallet!WalletNext

LEMMA WalletLetsGo ==
  ASSUME LedgerInv, LedgerInv', NEW u \in User, NEW n \in 0 .. reserved[u],
         reserved' = [reserved EXCEPT ![u] = @ - n], UNCHANGED <<available, debt>>
  PROVE  Wallet!WalletNext
<1>1. LedgerTypeOK
  BY DEF LedgerInv
<1>2. /\ reserved'[u] \in 0 .. reserved[u]
      /\ reserved' = [reserved EXCEPT ![u] = reserved'[u]]
  BY <1>1 DEF LedgerTypeOK
<1>3. Wallet!LetGo(u)
  BY <1>2 DEF Wallet!LetGo, Wallet!OnlyOf
<1>4. QED
  BY <1>3 DEF Wallet!WalletNext

LEMMA WalletSpends ==
  ASSUME LedgerInv, LedgerInv', NEW j \in Job, SettleJob(j)
  PROVE  Wallet!WalletNext
<1>1. LedgerTypeOK /\ LedgerTypeOK' /\ reservation[j] \in ReservationRow
  BY DEF LedgerInv, LedgerTypeOK, SettleJob
<1>2. PICK u \in User, c \in Nat \ {0} : u = reservation[j].user /\ c = reservation[j].amount
  BY <1>1, AmountAssumption DEF ReservationRow, Charges
<1>3. /\ reserved[u] >= c
      /\ available' = [available EXCEPT ![u] = @ - c]
      /\ reserved' = [reserved EXCEPT ![u] = @ - c]
      /\ UNCHANGED debt
  BY <1>2 DEF SettleJob
<1>4. /\ available'[u] = available[u] - c
      /\ reserved'[u] = reserved[u] - c
      /\ debt'[u] = debt[u]
      /\ \A v \in User \ {u} : /\ available'[v] = available[v]
                               /\ debt'[v] = debt[v]
                               /\ reserved'[v] = reserved[v]
  BY <1>1, <1>2, <1>3 DEF LedgerTypeOK
<1>5. available[u] \in Nat /\ debt[u] \in Nat /\ reserved[u] \in Nat
  BY <1>1, <1>2 DEF LedgerTypeOK
<1>6. /\ net' = [net EXCEPT ![u] = net'[u]]
      /\ reserved' = [reserved EXCEPT ![u] = reserved'[u]]
      /\ net[u] = available[u] - debt[u]
      /\ net'[u] = available'[u] - debt'[u]
  BY <1>1, <1>2, <1>4, OnlyUsersPoints
<1>7. /\ reserved'[u] \in 0 .. reserved[u]
      /\ net'[u] - net[u] = reserved'[u] - reserved[u]
  BY <1>2, <1>3, <1>4, <1>5, <1>6
<1>8. Wallet!Spend(u)
  BY <1>6, <1>7 DEF Wallet!Spend, Wallet!OnlyOf, net
<1>9. QED
  BY <1>8 DEF Wallet!WalletNext

LEMMA WalletCloses ==
  ASSUME LedgerInv, NEW u \in User, DeleteUserRows(u)
  PROVE  Wallet!WalletNext
<1>1. LedgerTypeOK
  BY DEF LedgerInv
<1>2. /\ available' = [available EXCEPT ![u] = 0]
      /\ debt' = [debt EXCEPT ![u] = 0]
      /\ reserved' = [reserved EXCEPT ![u] = 0]
  BY DEF DeleteUserRows
<1>3. net' = [net EXCEPT ![u] = 0]
  <2>1. \A v \in User : available'[v] - debt'[v] = IF v = u THEN 0 ELSE available[v] - debt[v]
    BY <1>1, <1>2 DEF LedgerTypeOK
  <2>2. QED
    BY <2>1 DEF net
<1>4. Wallet!CloseWallet(u)
  BY <1>2, <1>3 DEF Wallet!CloseWallet, net
<1>5. QED
  BY <1>4 DEF Wallet!WalletNext

LEMMA LedgerStepIsWalletStep ==
  ASSUME LedgerInv, LedgerInv', [LedgerNext]_ledgerVars
  PROVE  [Wallet!WalletNext]_(Wallet!walletVars)
<1>1. CASE UNCHANGED ledgerVars
  BY <1>1, WalletKept DEF ledgerVars, columns
<1>2. ASSUME NEW u \in User, NEW k \in Key, NEW n \in Amount, AdminCredit(u, k, n)
      PROVE  Wallet!WalletNext
  BY <1>2, WalletGains, AmountAssumption DEF AdminCredit
<1>3. ASSUME NEW u \in User, NEW c \in Code, RedeemCode(u, c)
      PROVE  Wallet!WalletNext
  BY <1>3, WalletGains, AmountAssumption DEF RedeemCode
<1>4. ASSUME NEW u \in User, NEW k \in Key, NEW n \in Amount, AdminDebit(u, k, n)
      PROVE  Wallet!WalletNext
  <2>1. /\ available'[u] = available[u] - n /\ debt'[u] = debt[u]
        /\ available[u] \in Nat /\ debt[u] \in Nat /\ n \in Nat \ {0}
        /\ \A v \in User \ {u} : available'[v] = available[v] /\ debt'[v] = debt[v]
    BY <1>4, AmountAssumption DEF AdminDebit, LedgerInv, LedgerTypeOK
  <2>2. UNCHANGED reserved
    BY <1>4 DEF AdminDebit
  <2>3. QED
    BY <2>1, <2>2, WalletLoses
<1>5. ASSUME NEW u \in User, NEW k \in Key, NEW s \in Source, NEW n \in Amount,
             ReverseCredit(u, k, s, n)
      PROVE  Wallet!WalletNext
  <2> DEFINE taken == Lesser(n, Free(u))
  <2>1. n \in Nat \ {0} /\ taken \in Nat
    BY AmountAssumption
       DEF LedgerInv, LedgerTypeOK, LedgerBalances, NeverSpentUncredited, Lesser, Free
  <2>2. /\ available' = [available EXCEPT ![u] = @ - taken]
        /\ debt' = [debt EXCEPT ![u] = @ + (n - taken)]
        /\ UNCHANGED reserved
    BY <1>5 DEF ReverseCredit
  <2> HIDE DEF taken
  <2>3. /\ available'[u] = available[u] - taken /\ debt'[u] = debt[u] + (n - taken)
        /\ available[u] \in Nat /\ debt[u] \in Nat
        /\ \A v \in User \ {u} : available'[v] = available[v] /\ debt'[v] = debt[v]
    BY <2>2 DEF LedgerInv, LedgerTypeOK
  <2>4. available'[u] - debt'[u] < available[u] - debt[u]
    BY <2>1, <2>3
  <2>5. QED
    BY <2>2, <2>3, <2>4, WalletLoses
<1>6. ASSUME NEW u \in User, QuoteStep(u)
      PROVE  UNCHANGED Wallet!walletVars
  BY <1>6, WalletKept DEF QuoteStep, IssueQuote, columns
<1>7. ASSUME NEW u \in User, AdmissionStep(u)
      PROVE  Wallet!WalletNext
  BY <1>7, WalletHolds DEF AdmissionStep
<1>8. ASSUME NEW u \in User, ReleaseJobsOf(u)
      PROVE  Wallet!WalletNext
  <2>1. PICK n \in 0 .. reserved[u] : reserved' = [reserved EXCEPT ![u] = @ - n]
    BY <1>8 DEF ReleaseJobsOf
  <2>2. UNCHANGED <<available, debt>>
    BY <1>8 DEF ReleaseJobsOf
  <2>3. QED
    BY <2>1, <2>2, WalletLetsGo
<1>9. ASSUME NEW q \in Quote, ExpireQuote(q)
      PROVE  UNCHANGED Wallet!walletVars
  BY <1>9, WalletKept DEF ExpireQuote, columns
<1>10. ASSUME NEW j \in Job, ReleaseJob(j)
       PROVE  Wallet!WalletNext
  <2> DEFINE u == reservation[j].user
             c == reservation[j].amount
  <2>1. reservation[j] \in ReservationRow
    BY <1>10 DEF LedgerInv, LedgerTypeOK, ReleaseJob
  <2>2. u \in User /\ c \in Nat /\ reserved[u] \in Nat
    BY <2>1, AmountAssumption DEF ReservationRow, Charges, LedgerInv, LedgerTypeOK
  <2>3. /\ reserved[u] >= c
        /\ reserved' = [reserved EXCEPT ![u] = @ - c]
        /\ UNCHANGED <<available, debt>>
    BY <1>10 DEF ReleaseJob
  <2> HIDE DEF u, c
  <2>4. c \in 0 .. reserved[u]
    BY <2>2, <2>3
  <2>5. QED
    BY <2>2, <2>3, <2>4, WalletLetsGo
<1>11. ASSUME NEW j \in Job, ForgetJob(j)
       PROVE  UNCHANGED Wallet!walletVars
  BY <1>11, WalletKept DEF ForgetJob, columns
<1>12. ASSUME NEW u \in User, PointsStep(u)
       PROVE  Wallet!WalletNext
  BY <1>2, <1>3, <1>4, <1>5, <1>12 DEF PointsStep
<1>13. CASE SystemStep
  BY <1>9, <1>10, <1>11, <1>13, WalletSpends DEF SystemStep
<1>14. QED
  BY <1>1, <1>6, <1>7, <1>8, <1>12, <1>13, WalletCloses DEF LedgerNext

\* The ledger with its columns, rows and log is an implementation of the wallet: every
\* transaction is a step the wallet allows, or leaves it as it is.
THEOREM LedgerImplementsWallet == LedgerSpec => ImplementsWallet
<1>1. LedgerInit => Wallet!WalletInit
  BY DEF LedgerInit, NothingYet, Wallet!WalletInit
<1>2. LedgerInv /\ LedgerInv' /\ [LedgerNext]_ledgerVars
        => [Wallet!WalletNext]_(Wallet!walletVars)
  BY LedgerStepIsWalletStep
<1>3. QED
  BY <1>1, <1>2, LedgerStaysSound, PTL DEF LedgerSpec, ImplementsWallet, Wallet!WalletSpec

-----------------------------------------------------------------------------
(* The reserved column and the rows.  The points rows hold are a finite set *)
(* that each transaction adds one row's points to, or takes them from.      *)

RowPoints(j, n) == {j} \X (1 .. n)

HeldInv ==
    \A u \in User :
        /\ IsFiniteSet(PointsHeld(u))
        /\ reserved[u] = Cardinality(PointsHeld(u))

LEMMA PointsOfOneRow ==
  ASSUME NEW j, NEW n \in Nat
  PROVE  IsFiniteSet(RowPoints(j, n)) /\ Cardinality(RowPoints(j, n)) = n
<1>1. IsFiniteSet({j}) /\ Cardinality({j}) = 1
  BY FS_Singleton
<1>2. IsFiniteSet(1 .. n) /\ Cardinality(1 .. n) = n
  BY FS_Interval
<1>3. /\ IsFiniteSet({j} \X (1 .. n))
      /\ Cardinality({j} \X (1 .. n)) = Cardinality({j}) * Cardinality(1 .. n)
  <2> DEFINE S == {j}
             T == 1 .. n
  <2>1. IsFiniteSet(S) /\ IsFiniteSet(T)
    BY <1>1, <1>2
  <2> HIDE DEF S, T
  <2>2. IsFiniteSet(S \X T) /\ Cardinality(S \X T) = Cardinality(S) * Cardinality(T)
    BY <2>1, FS_Product
  <2> QED
    BY <2>2 DEF S, T
<1>4. Cardinality({j}) * Cardinality(1 .. n) = 1 * n
  BY <1>1, <1>2
<1>5. 1 * n = n
  OBVIOUS
<1> QED
  BY <1>3, <1>4, <1>5 DEF RowPoints

\* Nothing a row holds for this user changes.
LEMMA SamePoints ==
  ASSUME NEW u \in User, HeldInv, reserved'[u] = reserved[u],
         HeldRows(u)' = HeldRows(u),
         \A j \in HeldRows(u) : reservation'[j].amount = reservation[j].amount
  PROVE  IsFiniteSet(PointsHeld(u)') /\ reserved'[u] = Cardinality(PointsHeld(u)')
<1>1. PointsHeld(u)' = PointsHeld(u)
  BY DEF PointsHeld
<1> QED
  BY <1>1 DEF HeldInv

LEMMA MorePoints ==
  ASSUME NEW u \in User, NEW j, NEW n \in Nat, HeldInv, reserved'[u] = reserved[u] + n,
         j \notin HeldRows(u), HeldRows(u)' = HeldRows(u) \cup {j},
         reservation'[j].amount = n,
         \A i \in HeldRows(u) : reservation'[i].amount = reservation[i].amount
  PROVE  IsFiniteSet(PointsHeld(u)') /\ reserved'[u] = Cardinality(PointsHeld(u)')
<1>1. PointsHeld(u)' = PointsHeld(u) \cup RowPoints(j, n)
  BY DEF PointsHeld, RowPoints
<1>2. PointsHeld(u) \cap RowPoints(j, n) = {}
  BY DEF PointsHeld, RowPoints
<1>3. IsFiniteSet(RowPoints(j, n)) /\ Cardinality(RowPoints(j, n)) = n
  BY PointsOfOneRow
<1>4. IsFiniteSet(PointsHeld(u)) /\ reserved[u] = Cardinality(PointsHeld(u))
  BY DEF HeldInv
<1> DEFINE S == PointsHeld(u)
           T == RowPoints(j, n)
<1> HIDE DEF S, T
<1>5. IsFiniteSet(S \cup T)
      /\ Cardinality(S \cup T) = Cardinality(S) + Cardinality(T) - Cardinality(S \cap T)
  BY <1>3, <1>4, FS_Union DEF S, T
<1>6. Cardinality(S \cap T) = 0 /\ Cardinality(S) \in Nat
  BY <1>2, <1>4, FS_EmptySet, FS_CardinalityType DEF S, T
<1> QED
  BY <1>1, <1>3, <1>4, <1>5, <1>6 DEF S, T

LEMMA FewerPoints ==
  ASSUME NEW u \in User, NEW j, NEW n \in Nat, HeldInv, reserved'[u] = reserved[u] - n,
         j \in HeldRows(u), HeldRows(u)' = HeldRows(u) \ {j},
         reservation[j].amount = n,
         \A i \in HeldRows(u) \ {j} : reservation'[i].amount = reservation[i].amount
  PROVE  IsFiniteSet(PointsHeld(u)') /\ reserved'[u] = Cardinality(PointsHeld(u)')
<1>1. PointsHeld(u)' = PointsHeld(u) \ RowPoints(j, n)
  BY DEF PointsHeld, RowPoints
<1>2. PointsHeld(u) \cap RowPoints(j, n) = RowPoints(j, n)
  BY DEF PointsHeld, RowPoints
<1>3. Cardinality(RowPoints(j, n)) = n
  BY PointsOfOneRow
<1>4. IsFiniteSet(PointsHeld(u)) /\ reserved[u] = Cardinality(PointsHeld(u))
  BY DEF HeldInv
<1> DEFINE S == PointsHeld(u)
           T == RowPoints(j, n)
<1> HIDE DEF S, T
<1>5. IsFiniteSet(S \ T) /\ Cardinality(S \ T) = Cardinality(S) - Cardinality(S \cap T)
  BY <1>4, FS_Difference DEF S
<1> QED
  BY <1>1, <1>2, <1>3, <1>4, <1>5 DEF S, T

LEMMA NoPoints ==
  ASSUME NEW u \in User, reserved'[u] = 0, HeldRows(u)' = {}
  PROVE  IsFiniteSet(PointsHeld(u)') /\ reserved'[u] = Cardinality(PointsHeld(u)')
<1>1. PointsHeld(u)' = {}
  BY DEF PointsHeld
<1> QED
  BY <1>1, FS_EmptySet

\* The rows of everybody but user u stay as they are.
OnlyRowsOf(u) ==
    \A v \in User \ {u} :
        /\ reserved'[v] = reserved[v]
        /\ HeldRows(v)' = HeldRows(v)
        /\ \A j \in HeldRows(v) : reservation'[j].amount = reservation[j].amount

LEMMA OneUsersRows ==
  ASSUME HeldInv, NEW u \in User, OnlyRowsOf(u),
         IsFiniteSet(PointsHeld(u)') /\ reserved'[u] = Cardinality(PointsHeld(u)')
  PROVE  HeldInv'
<1>1. ASSUME NEW v \in User PROVE IsFiniteSet(PointsHeld(v)') /\ reserved'[v] = Cardinality(PointsHeld(v)')
  <2>1. CASE v = u
    BY <2>1
  <2>2. CASE v # u
    BY <2>2, SamePoints DEF OnlyRowsOf
  <2> QED
    BY <2>1, <2>2
<1> QED
  BY <1>1 DEF HeldInv

LEMMA RowsUntouched ==
  ASSUME HeldInv, UNCHANGED <<reserved, reservation>>
  PROVE  HeldInv'
BY DEF HeldInv, PointsHeld, HeldRows

LEMMA AdmitJobHolds ==
  ASSUME LedgerInv, HeldInv, NEW u \in User, NEW j \in Job, NEW q \in Quote, AdmitJob(u, j, q)
  PROVE  HeldInv'
<1>1. PICK c \in Charges : Reserved(u, j, c)
  BY DEF AdmitJob
<1> DEFINE row == [user |-> u, amount |-> c, status |-> "reserved"]
<1>2. c \in Nat
  BY AmountAssumption DEF Charges
<1>3. row \in ReservationRow /\ row # NoRow
  BY NullAssumption DEF ReservationRow
<1>4. /\ reservation[j] = NoRow /\ reservation' = [reservation EXCEPT ![j] = row]
      /\ reserved' = [reserved EXCEPT ![u] = @ + c] /\ LedgerTypeOK
  BY <1>1 DEF Reserved, LedgerInv
<1>5. /\ reservation'[j] = row
      /\ \A i \in Job \ {j} : reservation'[i] = reservation[i]
      /\ \A v \in User \ {u} : reserved'[v] = reserved[v]
      /\ reserved'[u] = reserved[u] + c
  BY <1>4 DEF LedgerTypeOK
<1>6. row.user = u /\ row.amount = c /\ row.status = "reserved"
  OBVIOUS
<1> HIDE DEF row
<1>7. /\ HeldRows(u)' = HeldRows(u) \cup {j} /\ j \notin HeldRows(u)
      /\ \A v \in User \ {u} : HeldRows(v)' = HeldRows(v)
  BY <1>3, <1>4, <1>5, <1>6 DEF HeldRows
<1>8. \A v \in User : \A i \in HeldRows(v) : reservation'[i].amount = reservation[i].amount
  BY <1>4, <1>5 DEF HeldRows
<1>9. IsFiniteSet(PointsHeld(u)') /\ reserved'[u] = Cardinality(PointsHeld(u)')
  BY <1>2, <1>5, <1>6, <1>7, <1>8, MorePoints
<1>10. OnlyRowsOf(u)
  BY <1>5, <1>7, <1>8 DEF OnlyRowsOf
<1> QED
  BY <1>9, <1>10, OneUsersRows

\* A job that ends, with or without a result, gives its points back once.
LEMMA EndedJobHolds ==
  ASSUME LedgerInv, HeldInv, NEW j \in Job, SettleJob(j) \/ ReleaseJob(j)
  PROVE  HeldInv'
<1>1. /\ LedgerTypeOK /\ reservation[j] # NoRow /\ reservation[j].status = "reserved"
      /\ reservation[j] \in ReservationRow
  BY DEF SettleJob, ReleaseJob, LedgerInv, LedgerTypeOK
<1>2. PICK u \in User, c \in Nat : u = reservation[j].user /\ c = reservation[j].amount
  BY <1>1, AmountAssumption DEF ReservationRow, Charges
<1>3. PICK s \in {"consumed", "released"} :
         reservation' = [reservation EXCEPT ![j] = [@ EXCEPT !.status = s]]
  BY DEF SettleJob, ReleaseJob
<1>4. reserved' = [reserved EXCEPT ![u] = @ - c]
  BY <1>2 DEF SettleJob, ReleaseJob
<1>5. /\ reservation'[j].status # "reserved"
      /\ \A i \in Job \ {j} : reservation'[i] = reservation[i]
      /\ \A v \in User \ {u} : reserved'[v] = reserved[v]
      /\ reserved'[u] = reserved[u] - c
  BY <1>1, <1>3, <1>4 DEF LedgerTypeOK, ReservationRow
<1>6. /\ HeldRows(u)' = HeldRows(u) \ {j} /\ j \in HeldRows(u)
      /\ \A v \in User \ {u} : HeldRows(v)' = HeldRows(v) /\ j \notin HeldRows(v)
  BY <1>1, <1>2, <1>5 DEF HeldRows
<1>7. \A v \in User : \A i \in HeldRows(v) \ {j} : reservation'[i].amount = reservation[i].amount
  BY <1>5 DEF HeldRows
<1>8. IsFiniteSet(PointsHeld(u)') /\ reserved'[u] = Cardinality(PointsHeld(u)')
  BY <1>2, <1>5, <1>6, <1>7, FewerPoints
<1>9. OnlyRowsOf(u)
  BY <1>5, <1>6, <1>7 DEF OnlyRowsOf
<1> QED
  BY <1>8, <1>9, OneUsersRows

\* A deletion request, or the deletion of the account, ends every row of the user.
LEMMA AllRowsEnd ==
  ASSUME LedgerInv, HeldInv, NEW u \in User, ReleaseJobsOf(u) \/ DeleteUserRows(u)
  PROVE  HeldInv'
<1>1. LedgerTypeOK
  BY DEF LedgerInv
<1>2. reserved' = [reserved EXCEPT ![u] = 0]
  <2>1. CASE ReleaseJobsOf(u)
    <3>1. reserved' = [reserved EXCEPT ![u] = @ - HeldPoints(u)]
      BY <2>1 DEF ReleaseJobsOf
    <3>2. reserved[u] = HeldPoints(u) /\ reserved[u] \in Nat
      BY <1>1 DEF HeldInv, HeldPoints, LedgerTypeOK
    <3>3. PICK n \in Nat : n = HeldPoints(u)
      BY <3>2
    <3>4. reserved' = [reserved EXCEPT ![u] = reserved[u] - n] /\ reserved[u] = n
      BY <1>1, <3>1, <3>2, <3>3 DEF LedgerTypeOK
    <3>5. n - n = 0
      OBVIOUS
    <3> QED
      BY <3>4, <3>5
  <2>2. CASE DeleteUserRows(u)
    BY <2>2 DEF DeleteUserRows
  <2> QED
    BY <2>1, <2>2
<1>3. ASSUME NEW j \in Job
      PROVE  /\ reservation[j] # NoRow /\ reservation[j].user = u /\ reservation[j].status = "reserved" =>
                   reservation'[j] = NoRow \/ reservation'[j].status # "reserved"
             /\ reservation[j] # NoRow /\ reservation[j].user # u => reservation'[j] = reservation[j]
             /\ reservation'[j] # NoRow /\ reservation'[j].status = "reserved" =>
                   reservation'[j] = reservation[j]
  <2>1. CASE ReleaseJobsOf(u)
    <3>1. reservation' = [i \in Job |-> IF i \in HeldRows(u)
                                       THEN [reservation[i] EXCEPT !.status = "released"]
                                       ELSE reservation[i]]
      BY <2>1 DEF ReleaseJobsOf
    <3>2. CASE j \in HeldRows(u)
      <4>1. reservation[j] \in ReservationRow /\ reservation[j].user = u
        BY <1>1, <3>2 DEF HeldRows, LedgerTypeOK
      <4>2. reservation'[j] = [reservation[j] EXCEPT !.status = "released"]
        BY <3>1, <3>2
      <4>3. reservation'[j].status = "released"
        BY <4>1, <4>2 DEF ReservationRow
      <4> QED
        BY <4>1, <4>3
    <3>3. CASE j \notin HeldRows(u)
      BY <3>1, <3>3 DEF HeldRows
    <3> QED
      BY <3>2, <3>3
  <2>2. CASE DeleteUserRows(u)
    BY <2>2 DEF DeleteUserRows
  <2> QED
    BY <2>1, <2>2
<1>4. HeldRows(u)' = {} /\ \A v \in User \ {u} : HeldRows(v)' = HeldRows(v)
  BY <1>3 DEF HeldRows
<1>5. IsFiniteSet(PointsHeld(u)') /\ reserved'[u] = Cardinality(PointsHeld(u)')
  BY <1>1, <1>2, <1>4, NoPoints DEF LedgerTypeOK
<1>6. OnlyRowsOf(u)
  BY <1>1, <1>2, <1>3, <1>4 DEF OnlyRowsOf, HeldRows, LedgerTypeOK
<1> QED
  BY <1>5, <1>6, OneUsersRows

\* Retention forgets rows that hold nothing.
LEMMA ForgetJobHolds ==
  ASSUME LedgerInv, HeldInv, NEW j \in Job, ForgetJob(j)
  PROVE  HeldInv'
<1>1. /\ reserved' = reserved
      /\ reservation' = [reservation EXCEPT ![j] = NoRow]
      /\ reservation[j] # NoRow => reservation[j].status # "reserved"
      /\ LedgerTypeOK
  BY DEF ForgetJob, columns, LedgerInv
<1>2. \A v \in User : HeldRows(v)' = HeldRows(v) /\ j \notin HeldRows(v)
  BY <1>1 DEF HeldRows, LedgerTypeOK
<1>3. \A v \in User : \A i \in HeldRows(v) : reservation'[i].amount = reservation[i].amount
  BY <1>1, <1>2 DEF HeldRows, LedgerTypeOK
<1> QED
  BY <1>1, <1>2, <1>3, SamePoints DEF HeldInv

LEMMA HeldStep ==
  ASSUME LedgerInv, HeldInv, [LedgerNext]_ledgerVars
  PROVE  HeldInv'
<1>1. CASE UNCHANGED ledgerVars
  BY <1>1, RowsUntouched DEF ledgerVars, columns, billing
<1>2. ASSUME NEW u \in User, PointsStep(u) \/ QuoteStep(u) PROVE HeldInv'
  BY <1>2, RowsUntouched DEF PointsStep, QuoteStep, AdminCredit, AdminDebit, ReverseCredit,
     RedeemCode, Credited, IssueQuote, columns, billing
<1>3. ASSUME NEW u \in User, AdmissionStep(u) PROVE HeldInv'
  BY <1>3, AdmitJobHolds DEF AdmissionStep
<1>4. CASE SystemStep
  <2>1. ASSUME NEW q \in Quote, ExpireQuote(q) PROVE HeldInv'
    BY <2>1, RowsUntouched DEF ExpireQuote, columns
  <2> QED
    BY <1>4, <2>1, EndedJobHolds, ForgetJobHolds DEF SystemStep
<1>5. QED
  BY <1>1, <1>2, <1>3, <1>4, AllRowsEnd DEF LedgerNext

\* Points are held for unfinished jobs only: the reserved column is what their rows add up to,
\* through any order of admissions, settlements, releases, deletion requests and deletions.
THEOREM ReservedAlwaysMatchesRows == LedgerSpec => []ReservedMatchesRows
<1>1. LedgerInit => HeldInv
  <2> SUFFICES ASSUME LedgerInit, NEW u \in User
               PROVE  IsFiniteSet(PointsHeld(u)) /\ reserved[u] = Cardinality(PointsHeld(u))
    BY DEF HeldInv
  <2>1. PointsHeld(u) = {}
    BY DEF LedgerInit, PointsHeld, HeldRows
  <2> QED
    BY <2>1, FS_EmptySet DEF LedgerInit, NothingYet
<1>2. LedgerInv /\ HeldInv /\ [LedgerNext]_ledgerVars => HeldInv'
  BY HeldStep
<1>3. HeldInv => ReservedMatchesRows
  BY DEF HeldInv, ReservedMatchesRows, HeldPoints
<1>4. QED
  BY <1>1, <1>2, <1>3, LedgerStaysSound, PTL DEF LedgerSpec
=============================================================================
