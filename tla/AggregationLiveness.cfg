CONSTANTS
    q1 = q1
    q2 = q2
    p1 = p1
    p2 = p2
    Query = {q1, q2}
    Path = {p1, p2}
    Services = {"query-manager", "cache-manager", "swapi-connector", "request-scheduler"}
    Restartable = {"query-manager", "cache-manager", "swapi-connector"}
    DatabaseMayFail = FALSE
    MaxSubqueries = 2
    Workloads <- UnevenWorkloads
    SwapiResults = {"data"}
    SwapiMayFail = FALSE
    CallbackMayBeUnreachable = FALSE
    Observed = {}
SPECIFICATION FairSpec
PROPERTIES
    EventuallyAnswered
    EventuallyCached
    EventuallyStored
CHECK_DEADLOCK FALSE
