\* One client and its peer; one partition. The model stops for good only
\* when Connect fails (onJoin drops the client) or Send panics (the
\* process dies), so deadlock is not checked.
CONSTANTS
    MaxFaults = 1
SPECIFICATION Spec
INVARIANT TypeOK
PROPERTY SendReturns
CHECK_DEADLOCK FALSE
