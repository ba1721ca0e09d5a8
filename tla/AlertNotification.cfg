SPECIFICATION FairSpec
CONSTANTS
    Request = {q1, q2}
    Row = {r1, r2}
    NoRow = none
    Member = {m1}
    MaxRetries = 1
    MaxFaults = 2
INVARIANTS
    TypeOK
    StoredWithNotifications
    MailedAlertsStored
    DuplicatesExplained
PROPERTIES
    OutcomesFinal
    JobsSettle
