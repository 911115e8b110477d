SPECIFICATION DeliverySpec
CONSTANTS
    NoState = noState
    Garbage = garbage
    Limit = 3
    MaxStarts = 2
    MaxResets = 3
    MaxEvents = 2
INVARIANTS
    StatesValidate
CHECK_DEADLOCK FALSE
