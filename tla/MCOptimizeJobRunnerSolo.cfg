SPECIFICATION RunnerFairSpec
CONSTANTS
    j1 = j1
    j2 = j2
    o1 = o1
    o2 = o2
    acct = acct
    Job = {j1}
    NoJob = NoJob
    Me = w1
    Worker = {w1, w2}
    NoWorker = NoWorker
    Owner = {o1, o2}
    Account = {acct}
    NoAccount = NoAccount
    OwnerOf <- TwoOwners
    AccountOf <- NotBilled
    UserOf <- OneUser
    CommercialJob = {}
    PriorityOf <- Paid
    PreviewJob = {}
    AnalysisJob = {}
    Needs <- NothingNeeded
    ClaimPriorityOf <- NoClaimPriority
    Concurrency <- TwoSlots
    MaxFailures = 2
    MaxGlobalRunning = 2
    OwnerQueuedLimit = 2
    AccountRunningLimit = 2
    AccountQueuedLimit = 8
    GlobalQueueLimit = 2
    AnalysisQueueLimit = 1
    StandardTurn = 1
    AttemptBound = 2
    FaultBound = 1
    ThreadOutcome = {"complete"}
    RivalPlan <- AllButRelease
    Disturbed <- CancelOrLeaseLost
INVARIANTS
    RunnerTypeOK
    RunningIsTended
    ForgottenThreadsLostTheirJob
    StoppedComputesNothing
PROPERTIES
    GivenUpJobsComeBack
    CancelIsNoticed
CHECK_DEADLOCK FALSE
