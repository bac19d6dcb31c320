SPECIFICATION LedgerSpec
CONSTANTS
    u1 = u1
    j1 = j1
    j2 = j2
    q1 = q1
    q2 = q2
    k1 = k1
    k2 = k2
    k3 = k3
    c1 = c1
    User = {u1}
    Job = {j1, j2}
    Quote = {q1, q2}
    Key = {k1, k2, k3}
    Code = {c1}
    Amount = {1, 3}
    CodeValue <- CodeWorthTwo
    PersonalCharge = 2
    Tier <- TwoTiers
    NoRequest = NoRequest
    NoQuote = NoQuote
    NoRow = NoRow
    NoJob = NoJob
    NoSource = NoSource
INVARIANTS
    LedgerBalances
    ReservedMatchesRows
    ReversedWithinCredit
    NeverOvercharged
PROPERTIES
    ImplementsWallet
CHECK_DEADLOCK FALSE
