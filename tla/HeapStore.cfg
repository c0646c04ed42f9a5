CONSTANTS
    Participants = {p1, p2}
    MaxPage = 3
    PageSlots = 2
    MaxId = 3
    Named = {3}
    LeaseSize = 2
    MaxCsn = 4
    MaxAttempts = 3
    MaxOps = 2
    MaxOpen = 1
    MaxDeaths = 1
    MaxFaults = 2
    Big = {FALSE, TRUE}
SPECIFICATION Spec
SYMMETRY Symmetry
CHECK_DEADLOCK FALSE
INVARIANTS
    SnapshotReads
    LinksIntact
    WalkableAtRest
    OverflowAtRest
    IdentityNeverReused
    LeasesDisjoint
