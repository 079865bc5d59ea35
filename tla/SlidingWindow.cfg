CONSTANTS
    q1 = q1
    q2 = q2
    q3 = q3
    p1 = p1
    Query = {q1, q2, q3}
    Path = {p1}
    Services = {"request-scheduler", "traffic-controller"}
    Restartable = {}
    MaxSubqueries = 1
    Workloads <- SingleWorkloads
    RequestLimit = 2
    Window = 2
    Delay = 2
    RedisMayFail = FALSE
SPECIFICATION Spec
SYMMETRY Symmetry
INVARIANTS
    SlidingWindow
CHECK_DEADLOCK FALSE
