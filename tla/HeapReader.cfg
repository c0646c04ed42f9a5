CONSTANTS
    Participants = {p1, p2}
    MaxPage = 4
    PageSlots = 2
    MaxId = 3
    Named = {3}
    LeaseSize = 2
    MaxCsn = 3
    MaxAttempts = 2
    MaxOps = 2
    MaxOpen = 1
    MaxDeaths = 0
    MaxFaults = 0
    Big = {FALSE}
SPECIFICATION Spec
SYMMETRY Symmetry
CHECK_DEADLOCK FALSE
INVARIANTS
    DeviceWalkable
