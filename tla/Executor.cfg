SPECIFICATION Spec
CONSTANTS
    Searches = {"s1", "s2"}
    Coordinator = "coordinator"
    Ops = {"op"}
    NoOp = "none"
    MaxParts = 2
    Workloads <- MCWorkloads
INVARIANTS TypeOK RepliesMatch AlignedWhenFree ReadyMeansChild FallbackIsComplete EventsFollowReceipt ExitsAreReal
PROPERTIES RequestsEnd
CHECK_DEADLOCK FALSE
