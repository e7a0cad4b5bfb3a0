SPECIFICATION Spec
CONSTANTS
    Ops = {1, 2, 3}
    NoOp = NoOp
    Deps <- MCDeps
    AddMemory = {1}
    Invalid = {"invalid"}
    EmptyPlan = {"empty"}
    Refused = {"refused"}
    Parts = {p, q}
    Models = {m, n}
    Hashes = {"h", "task", "invalid", "empty", "refused"}
    Clients = {1, 2, 3, 4, 5}
    Request <- MCRequest
    WakeCap = 1
    InDoubt = TRUE
    Workloads <- SafetyWork
INVARIANT TypeOK StartedAfterDependencies EventLogComplete CommittedIsStored SubmitAnswersTruly
PROPERTY TerminalImmutable ImplementsReceipt
SYMMETRY MCSymmetry
