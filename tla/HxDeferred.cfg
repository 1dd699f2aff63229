SPECIFICATION Spec
CONSTANTS
    Values = {v1, v2}
    Empty = empty
    MaxTxn = 3
    Calls <- AllCalls
    CallerContinues = FALSE
INVARIANTS TypeOK  
CHECK_DEADLOCK FALSE
