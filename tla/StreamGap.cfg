SPECIFICATION Spec
CONSTANTS
    Writers = {submitter, coordinator, operator}
    Submitter = submitter
    Capacity = 2
    MaxEvents = 3
    MaxOthers = 0
    MaxLost = 0
    MaxErrors = 0
INVARIANT NoGap
CHECK_DEADLOCK FALSE
