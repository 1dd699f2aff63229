SPECIFICATION Spec
CONSTANTS
    new = new
    d1 = d1
    d2 = d2
    raw = raw
    s1 = s1
    s2 = s2
    n1 = n1
    m1 = m1
    on = on
    off = off
    Count = 2
    Names = {new, n1}
    Default = new
    Docs = {d1, d2, raw}
    Unreadable = {raw}
    IrNames = {m1}
    Samples = {s1, s2}
    Values = {on, off}
    None = none
    Blank = blank
    Unnamed = unnamed
    Stock <- OneOrTwo
    Keep = 1
    MaxChanges = 1
    MaxTroubles = 1
    MaxJobs = 2
SYMMETRY Alike
CHECK_DEADLOCK FALSE
INVARIANTS TypeOK StaysWhole CurrentIsHeld RestoreIsWhole
PROPERTIES HistoryKept
