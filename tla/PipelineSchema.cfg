SPECIFICATION Spec
CONSTANTS
    casefolded <- MCFold
    slug <- MCFold
    DEFAULT_ALIASES <- MCAliases
    Tenant = {"t1", "t2"}
    Source = {"s1", "s2"}
    Partition = {1, 2}
    Scenarios <- Shared
INVARIANT TenantsIndependent
CHECK_DEADLOCK FALSE
