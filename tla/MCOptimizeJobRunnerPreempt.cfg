SPECIFICATION RunnerFairSpec
CONSTANTS
    j1 = j1
    j2 = j2
    o1 = o1
    o2 = o2
    acct = acct
    Job = {j1, j2}
    NoJob = NoJob
    Me = w1
    Worker = {w1}
    NoWorker = NoWorker
    Owner = {o1, o2}
    Account = {acct}
    NoAccount = NoAccount
    OwnerOf <- TwoOwners
    AccountOf <- NotBilled
    UserOf <- NoUser
    CommercialJob = {}
    PriorityOf <- FreeAndPaid
    PreviewJob = {}
    AnalysisJob = {}
    Needs <- NothingNeeded
    ClaimPriorityOf <- NoClaimPriority
    Concurrency <- TwoSlots
    MaxFailures = 1
    MaxGlobalRunning = 1
    OwnerQueuedLimit = 2
    AccountRunningLimit = 2
    AccountQueuedLimit = 8
    GlobalQueueLimit = 2
    AnalysisQueueLimit = 1
    StandardTurn = 1
    AttemptBound = 6
    FaultBound = 0
    ThreadOutcome = {"fail"}
    RivalPlan = {}
    Disturbed <- LeaseLostOrOvertime
INVARIANTS
    RunningIsTended
PROPERTIES
    PaidWorkGetsASlot
CHECK_DEADLOCK FALSE
