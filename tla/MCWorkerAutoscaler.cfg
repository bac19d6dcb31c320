SPECIFICATION AutoscalerFairSpec
CONSTANTS
    a = a
    b = b
    Host = {a, b}
    MaxJobs = 2
    ScaleUp = 1
    ScaleDown = 0
    FaultBound = 1
    ExitBound = 1
    Nobody = Nobody
INVARIANTS
    PowerCallsFitInstance
PROPERTIES
    NoRunAfterStop
    WaitingWorkGetsAnInstance
