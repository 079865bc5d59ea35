CONSTANTS
    q1 = q1
    q2 = q2
    p1 = p1
    p2 = p2
    Query = {q1, q2}
    Path = {p1, p2}
    Services = {"query-manager", "cache-manager", "swapi-connector", "request-scheduler"}
    Restartable = {}
    DatabaseMayFail = FALSE
    MaxSubqueries = 3
    Workloads <- CompetingWorkloads
    SwapiResults = {"data"}
    SwapiMayFail = FALSE
    CallbackMayBeUnreachable = FALSE
    Observed = {}
SPECIFICATION Spec
SYMMETRY Symmetry
INVARIANTS
    PendingIsProcessing
CHECK_DEADLOCK FALSE
