\* Split-heal and Shutdown: clusters {a1, a2} and {b1}, b1's endpoint
\* added to a2's discovery, at most two Shutdown calls in all, so that a
\* node's second call (which panics) and two nodes shutting down are reached.
CONSTANTS
    a1 = a1  a2 = a2  b1 = b1
    Node = {a1, a2, b1}
    InitialView <- MCInitialView
    InitialPorts <- MCInitialPorts
    AddablePorts <- MCAddablePorts
    MaxShutdowns = 2
SPECIFICATION Spec
INVARIANT TypeOK
PROPERTY SplitHeals
PROPERTY ShutdownReturns
