SPECIFICATION Spec
CONSTANTS
    Writers = {submitter, coordinator}
    Submitter = submitter
    Capacity = 2
    MaxEvents = 4
    MaxOthers = 2
    MaxLost = 1
    MaxErrors = 1
INVARIANT OnlyUnsentMissing
PROPERTY AllDelivered
CHECK_DEADLOCK FALSE
