CONSTANTS
    Participants = {p1, p2}
    NoOwner = NoOwner
    OwnerStall = 1
    MaxEpoch = 2
    MaxBeat = 2
SPECIFICATION FairSpec
INVARIANTS
    LeaseInvariant
    BelieverIsOwner
PROPERTIES
    NeverRepeats
    ImplementsFencing
    DeadOwnerReplaced
    OnlyStalledDisplaced
