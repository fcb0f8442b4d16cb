----------------------------- MODULE MCCluster -----------------------------
(***************************************************************************)
(* Two nodes, one caller on each, one key (owned by n2 once both know     *)
(* each other; k2 is declared for configurations that use it), one value: *)
(* every Get tells a written key from a missing one.  The properties of   *)
(* the coordinator are stated here.                                        *)
(***************************************************************************)
EXTENDS Cluster

CONSTANTS n1, n2, c1, c2, k1, k2, rpc1, rpc2, gossip1, gossip2

(* cmd/diskey's main starts client1 and client2, each with its own Cluster *)
(* in one process; both discover the same two gossip ports.               *)
MCHome == [c \in {c1, c2} |-> IF c = c1 THEN n1 ELSE n2]
MCNodeSlot == [n \in {n1, n2} |-> IF n = n1 THEN 0 ELSE 4]
MCKeySlot == [k \in Key |-> IF k = k1 THEN 3 ELSE 1]
(* Each node's ServerToServerPort (8000, 8001) and MemberListPort (7950,   *)
(* 7951): four distinct endpoints.                                         *)
MCRpcEndpoint == [n \in {n1, n2} |-> IF n = n1 THEN rpc1 ELSE rpc2]
MCGossipEndpoint == [n \in {n1, n2} |-> IF n = n1 THEN gossip1 ELSE gossip2]

(* c1 on n1 makes two calls, a remote one able to time out and one sharing *)
(* its batch; c2 runs on n2, which owns k1 in every table it has, so its  *)
(* calls are always local and one is enough to race c1's batches.         *)
MCMaxOps2 == [c \in {c1, c2} |-> IF c = c1 THEN 2 ELSE 1]
MCMaxOps1 == [c \in {c1, c2} |-> 1]

(* Callers free to make any Get, Set or Delete.                            *)
MCAnyOps == [c \in {c1, c2} |-> <<>>]

(* cmd/diskey's client1 and client2, each started with its own Cluster:    *)
(* Get, Set, Get, Delete, Get on "key" with one value, then a sleep, for  *)
(* ever.                                                                   *)
MainScript == [c \in {c1, c2} |-> <<"get", "set", "get", "delete", "get">>]

(* Enough calls for client1 to reach the Get after its Set.                *)
MCMaxOps3 == [c \in {c1, c2} |-> IF c = c1 THEN 3 ELSE 1]

Pipeline(n) == ToSet(outbox[n]) \cup ToSet(flusher[n].batch)

TypeOK ==
    /\ up \in [Node -> BOOLEAN]
    /\ inc \in [Node -> 1..(MaxRestarts + 1)]
    /\ members \in [Node -> SUBSET (Node \X (1..(MaxRestarts + 1)))]
    /\ \A n \in Node : addresses[n] \in Seq(Node) /\ Head(addresses[n]) = n
    /\ \A n \in Node : clients[n] \in Seq([peer : Node \ {n}, inc : 1..(MaxRestarts + 1),
                                           state : ClientState])
    /\ store \in [Node -> [Key -> Value \cup {NoValue}]]
    /\ \A n \in Node : outbox[n] \in Seq(ReqId)
                       /\ Len(outbox[n]) <= 2 * BatchSize - 1
    /\ \A n \in Node : flusher[n].phase \in {"idle", "route", "send"}
                       /\ Len(flusher[n].batch) <= BatchSize
    /\ \A id \in ReqId : reqs[id].op \in Op \cup {"none"}
    /\ pc \in [Caller -> {"idle", "waiting"}]
    /\ faults \in 0..MaxFaults
    /\ applied \subseteq ReqId
    /\ seen \in [ReqId -> Value \cup {NoValue}]
    /\ panicked \subseteq Node

(* The flusher goroutine never panics.  runBatch's local path asserts the  *)
(* args of a caller-built request to a map and panics, and so does a Get  *)
(* reply read after Send returned nil on a disconnected client; neither   *)
(* may be reachable, or one request takes the whole process down.         *)
NoFlusherPanic == panicked = {}

(* Every call that reports completion without an error (local, or done   *)
(* set by runBatch) was executed by a store: a done Set or Delete is never *)
(* silently dropped, whether the batch was lost, timed out, or stopped at  *)
(* a request bigcache rejected.                                            *)
DoneRequestsApplied ==
    \A id \in ReqId : reqs[id].done /\ ~reqs[id].err => id \in applied

(* Spec section 3, invariants 1 and 2: on a running node the address table *)
(* is self followed by exactly the peers of its clients, in order.         *)
AddressesMirrorClients ==
    \A n \in Node : up[n] =>
        addresses[n] = <<n>> \o [i \in DOMAIN clients[n] |-> clients[n][i].peer]

(* Spec 8.6: reply[i] of a Batch corresponds to request[i].  A Get that   *)
(* reports completion, served locally or through a Batch whose responses  *)
(* runBatch copied back index by index, carries the value its key had in  *)
(* the store that executed it, at the moment it ran.                      *)
GetRepliesMatchStore ==
    \A id \in ReqId :
        reqs[id].done /\ reqs[id].op = "get" =>
            /\ reqs[id].replyValue = seen[id]
            /\ reqs[id].replyExists = (seen[id] # NoValue)

(* Spec 8.1: two nodes whose memberlists report the same members, both of *)
(* them included, compute the same owner for every key.                   *)
OwnersAgree ==
    \A n, m \in Node, k \in Key :
        LET view(x) == {y[1] : y \in members[x]}
        IN  (up[n] /\ up[m] /\ view(n) = view(m) /\ {n, m} \subseteq view(n))
                => Owner(n, k) = Owner(m, k)

(* Spec 5 and 9: when sendRequest's 5 s deadline passes first, Get returns *)
(* (zero, false).  Get reads the GetReply right after the spin loop,      *)
(* unsynchronised with runBatch, which copies the replies before it sets  *)
(* done: a caller that gives up in between reads a reply already filled.  *)
TimedOutGetReportsMissing ==
    [][\A c \in Caller :
          LET r == reqs[<<c, ops[c]>>]
          IN  (Timeout(c) /\ r.op = "get") => ~r.replyExists]_vars

(* Every keyRequest put on a batch channel is eventually taken by a flush. *)
EnqueuedRequestsFlushed ==
    \A n \in Node, id \in ReqId :
        (id \in ToSet(outbox[n])) ~> (id \notin ToSet(outbox[n]))

(* Spec 4.7 and section 3 invariant 3: a batch that completes, with or     *)
(* without error, marks all its requests done.  So a caller still waiting  *)
(* on a request that is not done finds it in its node's outbox or in the   *)
(* flusher's current batch.                                                *)
WaitingRequestsInPipeline ==
    \A c \in Caller :
        (pc[c] = "waiting" /\ ~reqs[<<c, ops[c]>>].done)
            => <<c, ops[c]>> \in Pipeline(Home[c])

(* Spec 4.7: a peer lost and re-announced re-enters through onJoin.  Once  *)
(* n's memberlist has reported the old member of m gone and the current   *)
(* one joined, n's client for m is connected to m's current process.      *)
RejoinedPeerConnected ==
    \A n, m \in Node :
        (/\ up[n] /\ up[m] /\ n # m
         /\ <<m, inc[m]>> \in members[n]
         /\ \A i \in 1..inc[m] : <<m, i>> \in members[n] => i = inc[m]
         /\ m \in Peers(n))
            => clients[n][ClientIndex(n, m)].inc = inc[m]
=============================================================================
