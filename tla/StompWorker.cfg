SPECIFICATION Spec
CONSTANTS
    gain = gain
    chain = chain
    v1 = v1
    v2 = v2
    odd = odd
    Paths = {gain, chain}
    Router = chain
    Values = {v1, v2, odd}
    Keep <- Normal
    Contents <- TwoContents
    Tones <- TwoTones
    None = none
    MaxQueue = 3
    MaxSends = 4
    MaxLosses = 1
    MaxRefusals = 1
CHECK_DEADLOCK FALSE
INVARIANTS TypeOK LeadsBack ShownIsPlayed
PROPERTIES OwnSurvives RefusedStepUndone
