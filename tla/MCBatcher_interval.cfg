\* The adaptive interval against the formula of spec section 4.4.
CONSTANTS
    BatchSize = 2
    MaxItems = 5
    InitFlushInterval = 1000000
    MaxFlushInterval = 1000000000
SPECIFICATION Spec
PROPERTY IntervalAdaptsPerSpec
CHECK_DEADLOCK FALSE
