SPECIFICATION Spec
CONSTANTS
    Endpoint = {"phone", "hook"}
    platform <- MCPlatform
    Events <- MCEvents
    MaxAttempts = 3
    MaxCrashes = 1
INVARIANT LedgerPreventsDuplicates
CHECK_DEADLOCK FALSE
