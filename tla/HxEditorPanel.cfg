SPECIFICATION Spec
CONSTANTS
    Presets = {p1, p2}
    Texts = {t1, t2}
    None = none
    MaxHistory = 1
    Commands <- Following
    Troubles <- Panel
SYMMETRY Alike
INVARIANTS FollowsPedal
