\* Two nodes with one caller each, one key, one value, batches of 2,
\* two calls by c1 and one by c2, one restart of n2, and two events of the
\* fault budget (Connect failure, transport fault, store expiry).
CONSTANTS
    n1 = n1  n2 = n2  c1 = c1  c2 = c2  k1 = k1  k2 = k2
    rpc1 = rpc1  rpc2 = rpc2  gossip1 = gossip1  gossip2 = gossip2
    v1 = v1
    NoValue = NoValue
    Node = {n1, n2}
    Caller = {c1, c2}
    Key = {k1}
    Value = {v1, v2}
    Oversized = {v2}
    Home <- MCHome
    NodeSlot <- MCNodeSlot
    KeySlot <- MCKeySlot
    RpcEndpoint <- MCRpcEndpoint
    GossipEndpoint <- MCGossipEndpoint
    MaxHashSlot = 8
    BatchSize = 2
    Script <- MCAnyOps
    MaxOps <- MCMaxOps2
    Crashable = {n2}
    MaxRestarts = 1
    MaxFaults = 1
SPECIFICATION Spec
INVARIANT TypeOK
INVARIANT NoFlusherPanic
INVARIANT DoneRequestsApplied
INVARIANT AddressesMirrorClients
INVARIANT GetRepliesMatchStore
CHECK_DEADLOCK FALSE
