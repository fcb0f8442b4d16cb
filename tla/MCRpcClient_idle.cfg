\* Spec 4.5: deadlines are per call. Does an idle client to a live,
\* reachable peer stay usable?
CONSTANTS
    MaxFaults = 0
SPECIFICATION Spec
PROPERTY IdleClientStaysUsable
CHECK_DEADLOCK FALSE
