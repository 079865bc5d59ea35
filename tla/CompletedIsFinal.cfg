CONSTANTS
    q1 = q1
    p1 = p1
    p2 = p2
    Query = {q1}
    Path = {p1, p2}
    Services = {"query-manager", "cache-manager", "swapi-connector", "request-scheduler"}
    Restartable = {}
    DatabaseMayFail = FALSE
    MaxSubqueries = 2
    Workloads <- PairWorkloads
    SwapiResults = {"data"}
    SwapiMayFail = FALSE
    CallbackMayBeUnreachable = FALSE
    Observed = {}
SPECIFICATION Spec
SYMMETRY Symmetry
PROPERTIES
    CompletedIsFinal
CHECK_DEADLOCK FALSE
