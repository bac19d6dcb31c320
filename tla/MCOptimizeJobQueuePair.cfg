SPECIFICATION Spec
CONSTANTS
    j1 = j1
    j2 = j2
    j3 = j3
    w1 = w1
    w2 = w2
    o1 = o1
    o2 = o2
    o3 = o3
    acct = acct
    Job = {j1, j2}
    NoJob = NoJob
    Worker = {w1, w2}
    NoWorker = NoWorker
    Owner = {o1, o2}
    Account = {acct}
    NoAccount = NoAccount
    OwnerOf <- PairOwner
    AccountOf <- PairAccount
    UserOf <- OneUser
    CommercialJob = {}
    PriorityOf <- PairPriority
    PreviewJob = {j2}
    AnalysisJob = {}
    Needs <- PairNeeds
    ClaimPriorityOf <- UnequalClaimPriority
    Concurrency <- OneSlotEach
    MaxFailures = 2
    MaxGlobalRunning = 1
    OwnerQueuedLimit = 1
    AccountRunningLimit = 2
    AccountQueuedLimit = 8
    GlobalQueueLimit = 2
    AnalysisQueueLimit = 1
    StandardTurn = 1
    AttemptBound = 1
INVARIANTS
    TypeOK
    RunningAttemptMatchesRow
    ReservationFollowsJob
PROPERTIES
    FinishedStaysFinished
    CancelRequestWins
CHECK_DEADLOCK FALSE
