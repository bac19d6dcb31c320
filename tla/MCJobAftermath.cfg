\* An orphaned job, a job to be applied and a dead-lettered one.  BatchLimit is
\* one more than the number of orphans.
CONSTANTS
    lost = lost
    kept = kept
    dead = dead
    ann = ann
    bob = bob
    Job <- MCJob
    Orphan <- MCOrphan
    DeadLetterJob <- MCDeadLetterJob
    User <- MCUser
    UserOf <- MCUserOf
    Maintenance = maintenance
    BatchLimit = 2
    FaultBound = 2
SPECIFICATION FairSpec
INVARIANTS TypeOK CountedOnce
PROPERTIES GoneStaysGone EffectsGetApplied PlainJobsGetDeletedWithoutLetters
