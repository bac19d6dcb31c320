\* The jobs of MCJobAftermath.cfg.
CONSTANTS
    lost = lost
    kept = kept
    dead = dead
    ann = ann
    bob = bob
    Job <- MCJob
    Orphan <- MCOrphan
    DeadLetterJob <- MCDeadLetterJob
    User <- MCUser
    UserOf <- MCUserOf
    Maintenance = maintenance
    BatchLimit = 2
    FaultBound = 2
SPECIFICATION FairSpec
PROPERTY PlainJobsGetDeleted
