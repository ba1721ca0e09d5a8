SPECIFICATION Spec
CONSTANTS
    casefolded <- MCFold
    slug <- MCFold
    DEFAULT_ALIASES <- MCAliases
    Tenant = {"t1", "t2"}
    Source = {"s1", "s2"}
    Partition = {1, 2}
    Scenarios <- MCScenarios
INVARIANTS
    TypeOK
    NothingInvented
    PlaceholdersAwaited
    OneAlertPerDocument
    QueriesStayInTenant
    ExtractionExact
CHECK_DEADLOCK FALSE
PROPERTIES
    EventuallyConverged
    TakedownTakes
