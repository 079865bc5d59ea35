CONSTANTS
    q1 = q1
    q2 = q2
    p1 = p1
    p2 = p2
    Query = {q1, q2}
    Path = {p1, p2}
    Services = {"query-manager", "cache-manager", "swapi-connector", "request-scheduler"}
    Restartable = {"query-manager", "cache-manager", "swapi-connector"}
    DatabaseMayFail = TRUE
    MaxSubqueries = 3
    Workloads <- CompetingWorkloads
    SwapiResults = {"null", "data"}
    SwapiMayFail = TRUE
    CallbackMayBeUnreachable = TRUE
    Observed = {}
SPECIFICATION Spec
SYMMETRY Symmetry
INVARIANTS
    TypeOK
    IInv
    CompletedIsDownloaded
    NotifiedIsStored
    RowsPrecedeFetches
    FetchedOncePerQuery
    NoFetchLost
PROPERTIES
    ResultsNeverLost
    LifeKept
CHECK_DEADLOCK FALSE
