SPECIFICATION Spec
CONSTANTS
    MaxGen = 3
    MaxFaults = 1
INVARIANT
    RecoveryRemovesPrevious
