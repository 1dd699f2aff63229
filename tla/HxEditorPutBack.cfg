SPECIFICATION Spec
CONSTANTS
    Presets = {p1, p2}
    Texts = {t1, t2}
    None = none
    MaxHistory = 2
    Commands <- Everything
    Troubles <- Refused
SYMMETRY Alike
INVARIANTS AuditionNeverSaved
