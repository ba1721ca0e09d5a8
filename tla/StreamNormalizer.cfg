SPECIFICATION FairSpec
CONSTANTS
    Pod = {w1, w2}
    NoPod = none
    N = 4
    Hash <- MCHash
    ContentOf <- MCContentOf
    Malformed = {4}
    Unreadable = {"b"}
    MaxFaults = 2
    MaxExpiries = 1
INVARIANTS
    TypeOK
    NormalizedOnce
    RequestHasText
    DuplicatesAccounted
PROPERTIES
    ContractSpec
    DecodableConsumed
