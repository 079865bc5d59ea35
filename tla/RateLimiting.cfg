CONSTANTS
    q1 = q1
    q2 = q2
    p1 = p1
    p2 = p2
    Query = {q1, q2}
    Path = {p1, p2}
    Services = {"request-scheduler", "traffic-controller"}
    Restartable = {"request-scheduler", "traffic-controller"}
    MaxSubqueries = 2
    Workloads <- MixedWorkloads
    RequestLimit = 1
    Window = 2
    Delay = 2
    RedisMayFail = TRUE
SPECIFICATION FairSpec
INVARIANTS
    TypeOK
    UsageCoversCalls
    SerialLimit
    IInv
PROPERTIES
    DispatchKept
    DispatchContinues
CHECK_DEADLOCK FALSE
