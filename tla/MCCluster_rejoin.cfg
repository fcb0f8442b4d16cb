\* n2 restarts; after n1's memberlist reports the old n2 gone and the new one
\* joined, is n1's client connected to the new process?  No transport faults.
CONSTANTS
    n1 = n1  n2 = n2  c1 = c1  c2 = c2  k1 = k1  k2 = k2
    rpc1 = rpc1  rpc2 = rpc2  gossip1 = gossip1  gossip2 = gossip2
    v1 = v1
    NoValue = NoValue
    Node = {n1, n2}
    Caller = {c1, c2}
    Key = {k1}
    Value = {v1}
    Oversized = {}
    Home <- MCHome
    NodeSlot <- MCNodeSlot
    KeySlot <- MCKeySlot
    RpcEndpoint <- MCRpcEndpoint
    GossipEndpoint <- MCGossipEndpoint
    MaxHashSlot = 8
    BatchSize = 2
    Script <- MCAnyOps
    MaxOps <- MCMaxOps1
    Crashable = {n2}
    MaxRestarts = 1
    MaxFaults = 0
SPECIFICATION Spec
INVARIANT RejoinedPeerConnected
CHECK_DEADLOCK FALSE
