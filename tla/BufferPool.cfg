SPECIFICATION Spec
CONSTANTS
    w = w
    r1 = r1
    r2 = r2
    NoThread = NoThread
    Threads = {w, r1}
    Writer = w
    Stranded = {r1}
    Capacity = 2
    InitPages = 2
    MaxPages = 3
    MaxAttempts = 1
    MaxForeign = 1
    MaxFaults = 1
    WriterPins = 2
    ReaderPins = 1
INVARIANTS
    SlotsAccounted
    NobodyWaitsForNothing
    PinsAreHolders
    ViewIsFresh
    CommitWritten
    UndoAloneIsAllOrNothing
PROPERTIES
    NoStaleWrite
