CONSTANTS
    q1 = q1
    q2 = q2
    p1 = p1
    Query = {q1, q2}
    Path = {p1}
    Services = {"request-scheduler", "traffic-controller"}
    Restartable = {}
    MaxSubqueries = 1
    Workloads <- SingleWorkloads
    RequestLimit = 1
    Window = 2
    Delay = 2
    RedisMayFail = FALSE
SPECIFICATION FairSpec
PROPERTIES
    EventuallyPublished
CHECK_DEADLOCK FALSE
