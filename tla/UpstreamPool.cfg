SPECIFICATION Spec
CHECK_DEADLOCK FALSE
CONSTANTS
    Addrs = {a, b, c, d, e, f}
    Down = {b, c}
    Streams = {a, b, d, f}
    Tls = {a, d, f}
    Named = {a, f}
    Misnamed = {f}
    Hostnames = {e}
    Queries = {q1}
    Handlers = {h1, h2}
    FailoverBudget = 1
    AttemptTimeout = 2
    RequestTimeout = 5
    Fanouts = {0, 2}
    SeededFanout = 2
    MaxQueries = 1
    MaxEdits = 3
    MaxFaults = 1
SYMMETRY Symmetry
INVARIANTS
    FailoverFits
    MasksFailures
    PoolFollowsEdits
