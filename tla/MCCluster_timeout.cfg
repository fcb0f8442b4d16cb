\* Spec 5: a Get whose 5 s deadline passes returns (zero, false).  No
\* faults, no crashes, the callers follow
\* cmd/diskey's loop; client1 makes three calls (Get, Set, Get).
CONSTANTS
    n1 = n1  n2 = n2  c1 = c1  c2 = c2  k1 = k1  k2 = k2
    rpc1 = rpc1  rpc2 = rpc2  gossip1 = gossip1  gossip2 = gossip2
    v1 = v1
    NoValue = NoValue
    Node = {n1, n2}
    Caller = {c1, c2}
    Key = {k1}
    Value = {v1}
    Oversized = {}
    Home <- MCHome
    NodeSlot <- MCNodeSlot
    KeySlot <- MCKeySlot
    RpcEndpoint <- MCRpcEndpoint
    GossipEndpoint <- MCGossipEndpoint
    MaxHashSlot = 8
    BatchSize = 2
    Script <- MainScript
    MaxOps <- MCMaxOps3
    Crashable = {}
    MaxRestarts = 1
    MaxFaults = 0
SPECIFICATION Spec
PROPERTY TimedOutGetReportsMissing
CHECK_DEADLOCK FALSE
