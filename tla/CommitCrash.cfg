CONSTANTS
    NoOwner = NoOwner
    Participants = {p1, p2}
    k1 = k1
    k2 = k2
    k3 = k3
    g1 = g1
    g2 = g2
    Keys = {k1, k2, k3}
    Pages = {g1, g2}
    PageOf <- TwoPages
    Workload <- Dependent
    MaxLsn = 2
    MaxFailures = 1
    MaxOutages = 1
    MaxCheckpoints = 0
    MaxLoad = 8
SPECIFICATION Spec
SYMMETRY Symmetry
INVARIANTS
    NoLostUpdate
    WriteAhead
    PublishedApplied
PROPERTIES
    ImplementsStore
