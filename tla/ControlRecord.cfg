CONSTANTS
    Readers = {r1}
    ReadAttempts = 2
    MaxVersion = 4
    MaxAbandoned = 2
    MaxOutages = 2
SPECIFICATION Spec
INVARIANTS
    AckedRecordStays
    ReadIsRecent
    RefusedOnlyWhenOvertaken
PROPERTIES
    GenerationNeverRegresses
