\* A body of up to three parts, of two chunks each.
SPECIFICATION Spec
CONSTANTS
    MaxParts = 3
    MaxChunks = 2
    Faults = {"client", "disk", "register"}
CHECK_DEADLOCK FALSE
INVARIANTS
    IntakeInv
    QueuedIsWhole
    SizeCovers
    AnsweredLeavesNothing
