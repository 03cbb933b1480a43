CONSTANTS
    N = 2
    Window = 1
    Slots = 2
    NoProgress = 2
    Revisions = 2
    MaxLeaves = 1
SPECIFICATION Spec
CHECK_DEADLOCK FALSE
INVARIANTS DeliveryBinds
