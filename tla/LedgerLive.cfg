SPECIFICATION FairSpec
CONSTANTS
    Ops = {1, 3}
    NoOp = NoOp
    Deps <- MCDeps
    AddMemory = {1}
    Invalid = {"invalid"}
    EmptyPlan = {"empty"}
    Refused = {"refused"}
    Parts = {p, q}
    Models = {m, n}
    Hashes = {"h", "task", "invalid", "empty", "refused"}
    Clients = {1, 3, 6, 7}
    Request <- MCRequest
    WakeCap = 1
    InDoubt = FALSE
    Workloads <- LiveWork
INVARIANT RejectedIsNotStored
PROPERTY StatesInOrder DrivenToTheEnd
