SPECIFICATION FairSpec
CONSTANTS
    j1 = j1
    j2 = j2
    j3 = j3
    w1 = w1
    w2 = w2
    o1 = o1
    o2 = o2
    o3 = o3
    acct = acct
    Job = {j1, j2}
    NoJob = NoJob
    Worker = {w1}
    NoWorker = NoWorker
    Owner = {o1}
    Account = {acct}
    NoAccount = NoAccount
    OwnerOf <- SameOwner
    AccountOf <- NotBilled
    UserOf <- OneUser
    CommercialJob = {}
    PriorityOf <- BothFree
    PreviewJob = {}
    AnalysisJob = {}
    Needs <- OneItemEach
    ClaimPriorityOf <- EqualClaimPriority
    Concurrency <- OneSlotEach
    MaxFailures = 2
    MaxGlobalRunning = 1
    OwnerQueuedLimit = 2
    AccountRunningLimit = 2
    AccountQueuedLimit = 8
    GlobalQueueLimit = 2
    AnalysisQueueLimit = 1
    StandardTurn = 1
    AttemptBound = 2
INVARIANTS
    QueuedJobsStayClaimable
    FailureBudgetCountsFailures
    DeadLettersMatchJobs
PROPERTIES
    ImplementsSettlement
    OutcomeMatchesAttempt
    EveryJobEnds
    CancelRequestIsHonoured
CHECK_DEADLOCK FALSE
