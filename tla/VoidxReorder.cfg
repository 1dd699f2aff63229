SPECIFICATION Spec
CONSTANTS
    Count = 3
    Names = {n1, n2, n3}
    Blobs = {b1, b2}
    Free = free
    None = none
    Values = {on, off}
    MaxJobs = 4
    MaxFaults = 0
    MaxPanel = 0
    Ops <- Reordering
SYMMETRY Alike
CHECK_DEADLOCK FALSE
INVARIANTS ArmedRestoreUndoes
