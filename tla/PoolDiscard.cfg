SPECIFICATION Spec
CONSTANTS
    w = w
    r1 = r1
    r2 = r2
    NoThread = NoThread
    Threads = {w, r1}
    Writer = w
    Stranded = {}
    Capacity = 1
    InitPages = 1
    MaxPages = 2
    MaxAttempts = 2
    MaxForeign = 1
    MaxFaults = 0
    WriterPins = 2
    ReaderPins = 1
INVARIANTS
    HoldersKeepTheirPins
