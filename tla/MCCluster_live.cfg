\* Progress of the flusher: every enqueued request is taken by a flush,
\* under weak fairness of the flusher goroutine's steps.
CONSTANTS
    n1 = n1  n2 = n2  c1 = c1  c2 = c2  k1 = k1  k2 = k2
    rpc1 = rpc1  rpc2 = rpc2  gossip1 = gossip1  gossip2 = gossip2
    v1 = v1
    NoValue = NoValue
    Node = {n1, n2}
    Caller = {c1, c2}
    Key = {k1}
    Value = {v1}
    Oversized = {}
    Home <- MCHome
    NodeSlot <- MCNodeSlot
    KeySlot <- MCKeySlot
    RpcEndpoint <- MCRpcEndpoint
    GossipEndpoint <- MCGossipEndpoint
    MaxHashSlot = 8
    BatchSize = 2
    Script <- MCAnyOps
    MaxOps <- MCMaxOps1
    Crashable = {n2}
    MaxRestarts = 1
    MaxFaults = 1
SPECIFICATION Spec
PROPERTY EnqueuedRequestsFlushed
CHECK_DEADLOCK FALSE
