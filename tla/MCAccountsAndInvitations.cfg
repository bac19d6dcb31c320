SPECIFICATION Spec
CONSTANTS
    owner = owner
    Email = {owner}
    Process = {p1, p2}
    Settler = {s1, s2}
    Invitation = {i1, i2}
    InviterOf <- OwnersFriends
    MaxDeletionAttempts = 2
    MaxEmailAttempts = 1
    MaxSettlementAttempts = 2
    DailyLimit = 1
    NoRow = NoRow
    NoLease = NoLease
    NoInvitation = NoInvitation
    NoInviter = NoInviter
    NoTask = NoTask
    Idle = Idle
INVARIANTS
    DeletedStaysDeleted
    HolderKeepsClaim
PROPERTIES
    RemovedOnRequest
    RewardsAreDue
    SettledIsFinal
SYMMETRY Alike
CHECK_DEADLOCK FALSE
