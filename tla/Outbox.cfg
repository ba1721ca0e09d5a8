SPECIFICATION FairSpec
CONSTANTS
    Event <- MCEvent
    CallbackEvent <- MCCallbackEvent
    Publisher = {p1, p2}
    BatchSize = 2
    MaxFaults = 2
INVARIANTS
    TypeOK
    PublishedStored
    StoredCommitted
    CopiesBounded
PROPERTIES
    EventuallyAnnounced
