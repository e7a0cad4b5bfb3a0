SPECIFICATION Spec
CONSTANTS
    Ops = {1}
    NoOp = NoOp
    Deps <- MCDeps
    AddMemory = {1}
    Invalid = {"invalid"}
    EmptyPlan = {"empty"}
    Refused = {"refused"}
    Parts = {p}
    Models = {m}
    Hashes = {"h", "task", "invalid", "empty", "refused"}
    Clients = {1}
    Request <- MCRequest
    WakeCap = 1
    InDoubt = FALSE
    Workloads <- UnavailableWork
INVARIANT UnavailableIsNotAccepted
