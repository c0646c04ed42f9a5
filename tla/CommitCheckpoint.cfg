CONSTANTS
    NoOwner = NoOwner
    Participants = {p1, p2}
    k1 = k1
    k2 = k2
    k3 = k3
    g1 = g1
    g2 = g2
    Keys = {k1, k2}
    Pages = {g1}
    PageOf <- OnePage
    Workload <- Alternating
    MaxLsn = 3
    MaxFailures = 0
    MaxOutages = 1
    MaxCheckpoints = 2
    MaxLoad = 8
SPECIFICATION Spec
SYMMETRY Symmetry
INVARIANTS
    FirstCommitterWins
    PinKeepsLog
    SnapshotComplete
    AckedRecoverable
PROPERTIES
    NeverRetreats
