SPECIFICATION Spec
CONSTANTS
    j1 = j1
    j2 = j2
    j3 = j3
    w1 = w1
    w2 = w2
    o1 = o1
    o2 = o2
    o3 = o3
    acct = acct
    Job = {j1, j2, j3}
    NoJob = NoJob
    Worker = {w1}
    NoWorker = NoWorker
    Owner = {o1, o2}
    Account = {acct}
    NoAccount = NoAccount
    OwnerOf <- RivalOwner
    AccountOf <- RivalAccount
    UserOf <- RivalAccount
    CommercialJob = {j2, j3}
    PriorityOf <- RivalPriority
    PreviewJob = {}
    AnalysisJob = {j2}
    Needs <- RivalNeeds
    ClaimPriorityOf <- EqualClaimPriority
    Concurrency <- OneSlotEach
    MaxFailures = 1
    MaxGlobalRunning = 2
    OwnerQueuedLimit = 1
    AccountRunningLimit = 1
    AccountQueuedLimit = 2
    GlobalQueueLimit = 3
    AnalysisQueueLimit = 1
    StandardTurn = 1
    AttemptBound = 2
INVARIANTS
    OwnerBacklogBounded
    ConcurrencyLimits
CHECK_DEADLOCK FALSE
