SPECIFICATION Spec
CONSTANTS
    MayRoll = TRUE
    MaxLsn = 7
    MaxTxns = 3
    MaxCrashes = 3
    MaxRots = 1
    MaxLosses = 1
    MaxFaults = 3
INVARIANTS
    NoGhost
    AckedServed
    AckedNeverCut
    RecoveredLogIsClean
    InterruptedIsRerun
    DiscardedPreserved
    RerunConverges
PROPERTIES
    PublishedNeverLowered
