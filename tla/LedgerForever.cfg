SPECIFICATION FairSpec
CONSTANTS
    Ops = {3}
    NoOp = NoOp
    Deps <- MCDeps
    AddMemory = {}
    Invalid = {"invalid"}
    EmptyPlan = {"empty"}
    Refused = {"refused"}
    Parts = {p}
    Models = {m}
    Hashes = {"h", "task", "invalid", "empty", "refused"}
    Clients = {7}
    Request <- MCRequest
    WakeCap = 1
    InDoubt = FALSE
    Workloads <- RefusedWork
PROPERTY NothingRetriesForever
