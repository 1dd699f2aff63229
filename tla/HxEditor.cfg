SPECIFICATION Spec
CONSTANTS
    Presets = {p1, p2}
    Texts = {t1, t2}
    None = none
    MaxHistory = 2
    Commands <- Everything
    Troubles <- Lossy
SYMMETRY Alike
INVARIANTS TypeOK KeptIsLoaded CleanIsStored AuditionNeverSaved
PROPERTIES AuditionRestores
