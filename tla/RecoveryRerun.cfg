SPECIFICATION Spec
CONSTANTS
    MayRoll = FALSE
    MaxLsn = 7
    MaxTxns = 3
    MaxCrashes = 2
    MaxRots = 0
    MaxLosses = 1
    MaxFaults = 3
INVARIANTS
    InterruptedCutIsRerun
