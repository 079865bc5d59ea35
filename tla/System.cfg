CONSTANTS
    q1 = q1
    p1 = p1
    p2 = p2
    Query = {q1}
    Path = {p1, p2}
    Services = {"query-manager", "cache-manager", "swapi-connector", "request-scheduler", "traffic-controller"}
    Restartable = {"query-manager", "cache-manager"}
    DatabaseMayFail = TRUE
    MaxSubqueries = 2
    Workloads <- PairWorkloads
    SwapiResults = {"data"}
    SwapiMayFail = TRUE
    CallbackMayBeUnreachable = FALSE
    Observed = {q1}
    RequestLimit = 1
    Window = 1
    Delay = 1
    RedisMayFail = TRUE
SPECIFICATION Spec
SYMMETRY Symmetry
INVARIANTS
    TypeOK
    IInv
    GivenIdsAreKnown
    CompletedSeenIsDownloaded
    NoFetchLost
PROPERTIES
    SeenResultsStay
CHECK_DEADLOCK FALSE
