SPECIFICATION AccountSpec
CONSTANTS
    Email = {owner}
    Process = {p1, p2}
    MaxDeletionAttempts = 2
    MaxEmailAttempts = 1
    NoRow = NoRow
    NoLease = NoLease
    Idle = Idle
PROPERTIES
    ActiveAccountsStay
CHECK_DEADLOCK FALSE
