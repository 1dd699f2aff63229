SPECIFICATION Spec
CONSTANTS
    Count = 3
    Names = {n1, n2, n3}
    Blobs = {b1, b2, b3}
    Free = free
    None = none
    Values = {on, off}
    MaxJobs = 4
    MaxFaults = 1
    MaxPanel = 1
    Ops <- Everything
SYMMETRY Alike
CHECK_DEADLOCK FALSE
INVARIANTS TypeOK CaptureIsTrue RollbackIsWhatWasThere ReportIsTrue MoveIsWhole
