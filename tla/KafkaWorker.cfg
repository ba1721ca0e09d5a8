SPECIFICATION FairSpec
CONSTANTS
    w1 = w1
    w2 = w2
    Worker <- MCWorker
    NoWorker = none
    none = none
    N = 3
    K = 2
    Poison <- MCPoison
    MaxFaults = 2
    MaxResets = 1
INVARIANTS
    TypeOK
    CommittedHandled
    OwnerInStep
    OutputsConfirmed
PROPERTIES
    ContractSpec
    EventuallyConsumed
