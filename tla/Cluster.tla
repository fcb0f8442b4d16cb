------------------------------ MODULE Cluster ------------------------------
(***************************************************************************)
(* The cluster coordinator of pkg/cluster (cluster.go, cluster_commands.go)*)
(* run by every node: callers' Get/Set/Delete, the outbox and the flusher  *)
(* that runs runBatch, the Batch RPC handler on the owner, the membership *)
(* callbacks onJoin/onLeave, and process crashes and restarts.            *)
(*                                                                         *)
(* The outbox is the batcher seen through its abstract specification     *)
(* BatchQueue (checked in MCBatcher): a FIFO from which one flush takes   *)
(* the next 1..BatchSize requests.  The gossip layer (hashicorp           *)
(* memberlist) is abstracted to the join and leave notifications it       *)
(* delivers: a node's view holds <<node, incarnation>> pairs, a restarted *)
(* process being a new member (a fresh UUID name).  An RPC Send is one    *)
(* step: the owner runs the whole Batch handler and the reply is copied.  *)
(***************************************************************************)
EXTENDS Router, FiniteSets, TLC

CONSTANTS Node,            \* the nodes (processes), each at its own endpoints
          Key, Value,
          Oversized,       \* values whose bigcache entry is larger than a shard
          NoValue,         \* absence of a value in a store or a reply
          Caller,          \* goroutines calling Get/Set/Delete
          Home,            \* Home[c]: the node caller c runs on
          NodeSlot,        \* Slot(host + ":" + port) of each node
          KeySlot,         \* Slot(key)
          RpcEndpoint,     \* host:port of each node's RPC server
          GossipEndpoint,  \* host:port of each node's memberlist
          BatchSize,       \* batchSize of NewCluster (1000 in the code)
          MaxOps,          \* bound: MaxOps[c] calls by caller c
          Script,          \* Script[c]: the ops c makes in a loop, <<>> for any
          Crashable,       \* the nodes whose process may stop and restart
          MaxRestarts,     \* bound: restarts per node
          MaxFaults        \* bound: connect failures, RPC transport faults
                           \* and store expiries

ASSUME /\ Home \in [Caller -> Node]
       /\ NodeSlot \in [Node -> HashSlot]
       /\ KeySlot \in [Key -> HashSlot]
       /\ NoValue \notin Value
       /\ Oversized \subseteq Value
       /\ BatchSize \in Nat \ {0}
       /\ Crashable \subseteq Node
       /\ MaxOps \in [Caller -> Nat]
       /\ Script \in [Caller -> Seq({"get", "set", "delete"})]

ReqId == UNION {{c} \X (1..MaxOps[c]) : c \in Caller}
Op == {"get", "set", "delete"}
(* "armed": a Send has set the socket deadline, which nothing clears.    *)
ClientState == {"connected", "armed", "broken", "closed"}
Usable == {"connected", "armed"}

VARIABLES up,         \* up[n]: the process of node n is running
          inc,        \* inc[n]: incarnation of node n (its memberlist name)
          members,    \* members[n]: the <<node, inc>> n's memberlist announced
          addresses,  \* addresses[n]: Cluster.addresses, self first
          clients,    \* clients[n]: Cluster.clients, one record per rpc.Client
          store,      \* store[n]: the local bigcache, Key -> Value \cup {NoValue}
          outbox,     \* outbox[n]: keyRequests sent to batchChannel, not flushed
          flusher,    \* flusher[n]: the runBatch in progress on node n
          reqs,       \* reqs[id]: the keyRequest (envelope, reply, done flag)
          pc,         \* pc[c]: "idle" or "waiting" in sendRequest
          ops,        \* ops[c]: calls caller c has made
          faults,     \* faults injected so far
          applied,    \* requests some owner's Batch handler has executed
          seen,       \* seen[id]: the value of id's key when a store executed it
          panicked    \* nodes whose flusher goroutine panicked

vars == <<up, inc, members, addresses, clients, store, outbox, flusher, reqs,
          pc, ops, faults, applied, seen, panicked>>

(* The ops caller c may make next: any, or the next one of its loop.       *)
NextOps(c) ==
    IF Script[c] = <<>> THEN Op ELSE {Script[c][(ops[c] % Len(Script[c])) + 1]}

NoGroups == [m \in Node |-> <<>>]
IdleFlusher == [phase |-> "idle", batch |-> <<>>, next |-> 1, groups |-> NoGroups]
NoRequest == [op |-> "none", key |-> CHOOSE k \in Key : TRUE, val |-> NoValue,
              done |-> FALSE, err |-> FALSE, replyValue |-> NoValue,
              replyExists |-> FALSE]
EmptyStore == [k \in Key |-> NoValue]

(* getClosestAddress on node n's table.                                     *)
Owner(n, key) == getClosestAddress(addresses[n], KeySlot[key], NodeSlot)

(* Fault-injected variant: callers never serve their own keys locally.    *)
CallerRoutesLocallyNever(n, key) == FALSE

(* The owner test of Get, Set and Delete.                                  *)
CallerRoutesLocally(n, key) == Owner(n, key) = n

(* The owner test of runBatch.                                             *)
BatchRoutesLocally(n, key) == Owner(n, key) = n

(* getClientByHostPort: the index of n's client for peer m, 0 if none.     *)
ClientIndex(n, m) ==
    LET is == {i \in DOMAIN clients[n] : clients[n][i].peer = m}
    IN  IF is = {} THEN 0 ELSE CHOOSE i \in is : \A j \in is : i <= j

Peers(n) == {clients[n][i].peer : i \in DOMAIN clients[n]}

Init ==
    /\ up = [n \in Node |-> TRUE]
    /\ inc = [n \in Node |-> 1]
    /\ members = [n \in Node |-> {}]
    /\ addresses = [n \in Node |-> <<n>>]
    /\ clients = [n \in Node |-> <<>>]
    /\ store = [n \in Node |-> EmptyStore]
    /\ outbox = [n \in Node |-> <<>>]
    /\ flusher = [n \in Node |-> IdleFlusher]
    /\ reqs = [id \in ReqId |-> NoRequest]
    /\ pc = [c \in Caller |-> "idle"]
    /\ ops = [c \in Caller |-> 0]
    /\ faults = 0
    /\ applied = {}
    /\ seen = [id \in ReqId |-> NoValue]
    /\ panicked = {}

-----------------------------------------------------------------------------
(* bigcache's Set rejects an entry larger than one shard (HardMaxCacheSize *)
(* over Shards: 1 MB) with an error and stores nothing.                    *)
StoreFails(r) == r.op = "set" /\ r.val \in Oversized

(* Local store operations (bigcache Get/Set/Delete; a missing key on       *)
(* Delete is not an error).                                                 *)
StoreExec(st, r) ==
    CASE r.op = "set" /\ ~StoreFails(r) -> [st EXCEPT ![r.key] = r.val]
      [] r.op = "delete"             -> [st EXCEPT ![r.key] = NoValue]
      [] OTHER                       -> st

(* The store after the owner's Batch handler ran the first i requests of a *)
(* group in order.                                                          *)
StoreAfter(st, group, i) ==
    FoldLeft(LAMBDA s, id : StoreExec(s, reqs[id]), st, SubSeq(group, 1, i))

-----------------------------------------------------------------------------
(* Get, Set or Delete by caller c.  The owner is computed on the caller's  *)
(* node; a local owner is served from the local store and the call        *)
(* returns (a Set with the store's error), a remote one makes a keyRequest that sendRequest puts on the  *)
(* batch channel (blocking while the outbox is full), then waits.          *)
Call(c, op, key, val) ==
    LET n  == Home[c]
        id == <<c, ops[c] + 1>>
        st == store[n][key]
        r  == [op |-> op, key |-> key, val |-> val]
    IN
    /\ up[n]
    /\ pc[c] = "idle"
    /\ ops[c] < MaxOps[c]
    /\ ops' = [ops EXCEPT ![c] = @ + 1]
    /\ \/ /\ CallerRoutesLocally(n, key)
          /\ store' = [store EXCEPT ![n] = StoreExec(@, r)]
          /\ reqs' = [reqs EXCEPT ![id] = [op |-> op, key |-> key, val |-> val,
                        done |-> TRUE, err |-> StoreFails(r),
                        replyValue |-> IF op = "get" THEN st ELSE NoValue,
                        replyExists |-> op = "get" /\ st # NoValue]]
          /\ applied' = IF StoreFails(r) THEN applied ELSE applied \cup {id}
          /\ seen' = [seen EXCEPT ![id] = st]
          /\ UNCHANGED <<outbox, pc>>
       \/ /\ ~CallerRoutesLocally(n, key)
          /\ Len(outbox[n]) < 2 * BatchSize - 1
          /\ outbox' = [outbox EXCEPT ![n] = Append(@, id)]
          /\ reqs' = [reqs EXCEPT ![id] = [NoRequest EXCEPT !.op = op, !.key = key,
                                                            !.val = val]]
          /\ pc' = [pc EXCEPT ![c] = "waiting"]
          /\ UNCHANGED <<store, applied, seen>>
    /\ UNCHANGED <<up, inc, members, addresses, clients, flusher, faults,
                   panicked>>

(* sendRequest's loop sees done and returns (Get reads its reply).         *)
Return(c) ==
    /\ pc[c] = "waiting"
    /\ reqs[<<c, ops[c]>>].done
    /\ pc' = [pc EXCEPT ![c] = "idle"]
    /\ UNCHANGED <<up, inc, members, addresses, clients, store, outbox, flusher,
                   reqs, ops, faults, applied, seen, panicked>>

(* sendRequest's 5 s deadline passes first; the keyRequest stays wherever  *)
(* it is in the outbox or the flusher, and may still be executed.          *)
Timeout(c) ==
    /\ pc[c] = "waiting"
    /\ ~reqs[<<c, ops[c]>>].done
    /\ pc' = [pc EXCEPT ![c] = "idle"]
    /\ UNCHANGED <<up, inc, members, addresses, clients, store, outbox, flusher,
                   reqs, ops, faults, applied, seen, panicked>>

-----------------------------------------------------------------------------
(* Fault-injected variant: the batcher flushes full batches only.         *)
FlushStartFullOnly(n) ==
    /\ up[n]
    /\ flusher[n].phase = "idle"
    /\ BatchSize <= Len(outbox[n])
    /\ flusher' = [flusher EXCEPT ![n] =
                     [phase |-> "route", batch |-> SubSeq(outbox[n], 1, BatchSize),
                      next |-> 1, groups |-> NoGroups]]
    /\ outbox' = [outbox EXCEPT ![n] = SubSeq(@, BatchSize + 1, Len(@))]
    /\ UNCHANGED <<up, inc, members, addresses, clients, store, reqs, pc, ops,
                   faults, applied, seen, panicked>>

(* The batcher flushes the next 1..BatchSize keyRequests to runBatch.       *)
FlushStart(n) ==
    /\ up[n]
    /\ flusher[n].phase = "idle"
    /\ \E len \in 1..BatchSize :
          /\ len <= Len(outbox[n])
          /\ flusher' = [flusher EXCEPT ![n] =
                           [phase |-> "route", batch |-> SubSeq(outbox[n], 1, len),
                            next |-> 1, groups |-> NoGroups]]
          /\ outbox' = [outbox EXCEPT ![n] = SubSeq(@, len + 1, Len(@))]
    /\ UNCHANGED <<up, inc, members, addresses, clients, store, reqs, pc, ops,
                   faults, applied, seen, panicked>>

(* Node n's process stops: it loses its store, its outbox, its flusher,    *)
(* its tables and its memberlist view, and its callers are gone.           *)
Down(n) ==
    /\ up' = [up EXCEPT ![n] = FALSE]
    /\ members' = [members EXCEPT ![n] = {}]
    /\ addresses' = [addresses EXCEPT ![n] = <<n>>]
    /\ clients' = [clients EXCEPT ![n] = <<>>]
    /\ store' = [store EXCEPT ![n] = EmptyStore]
    /\ outbox' = [outbox EXCEPT ![n] = <<>>]
    /\ flusher' = [flusher EXCEPT ![n] = IdleFlusher]
    /\ pc' = [c \in Caller |-> IF Home[c] = n THEN "idle" ELSE pc[c]]

(* A panic in the flusher goroutine ends the whole process.               *)
Panic(n) ==
    /\ Down(n)
    /\ panicked' = panicked \cup {n}
    /\ UNCHANGED <<inc, reqs, ops, faults, applied, seen>>

(* runBatch, first loop: the owner of the next keyRequest is computed      *)
(* again on this node's table.  A local owner makes runBatchRequest       *)
(* assert args.(map[string]any) on the GetArgs/SetArgs struct the caller  *)
(* built, which panics; a remote one appends it to requestsByClient.       *)
RouteRequest(n) ==
    LET f   == flusher[n]
        id  == f.batch[f.next]
        key == reqs[id].key
    IN
    /\ up[n]
    /\ f.phase = "route"
    /\ \/ /\ BatchRoutesLocally(n, key)
          /\ Panic(n)
       \/ /\ ~BatchRoutesLocally(n, key)
          /\ flusher' = [flusher EXCEPT
                ![n].groups[Owner(n, key)] = Append(@, id),
                ![n].next = @ + 1,
                ![n].phase = IF f.next = Len(f.batch) THEN "send" ELSE "route"]
          /\ UNCHANGED <<up, members, addresses, clients, store, outbox, pc,
                         inc, reqs, ops, faults, applied, seen, panicked>>

(* The Batch handler on owner m: reply.Responses[j] is the reply of the   *)
(* group's j-th request, run in order on m's store (a Get's is the value  *)
(* its key has after the first j - 1).                                     *)
Responses(m, group) ==
    [j \in DOMAIN group |-> StoreAfter(store[m], group, j - 1)[reqs[group[j]].key]]

(* The requests of a group whose store operation fails.                    *)
Failing(group) == {j \in DOMAIN group : StoreFails(reqs[group[j]])}

(* Fault-injected variant: a failed request is skipped and the handler    *)
(* goes on, returning nil.                                                 *)
HandledSkippingErrors(group) == [ran |-> Len(group), fails |-> FALSE]

(* The Batch handler runs the requests in order and returns the first      *)
(* store error: how many it ran, the failing one included, and whether    *)
(* Send returns that error to runBatch.                                    *)
Handled(group) ==
    IF Failing(group) = {} THEN [ran |-> Len(group), fails |-> FALSE]
    ELSE [ran |-> Min(Failing(group)), fails |-> TRUE]

ServeBatch(m, group) ==
    LET ran == {j \in 1..Handled(group).ran : j \notin Failing(group)}
    IN
    /\ store' = [store EXCEPT ![m] = StoreAfter(@, group, Handled(group).ran)]
    /\ applied' = applied \cup {group[j] : j \in ran}
    /\ seen' = [id \in ReqId |->
                  IF \E j \in ran : group[j] = id
                  THEN Responses(m, group)[CHOOSE j \in ran : group[j] = id]
                  ELSE seen[id]]

(* The Get reply of the j-th request, the response it is copied from.     *)
GetReply(r, v) == [r EXCEPT !.replyValue = v, !.replyExists = v # NoValue]

(* Fault-injected variant: the responses are copied in reverse order.     *)
CopyRepliesReversed(m, group) ==
    reqs' = [id \in ReqId |->
               IF \E j \in DOMAIN group : group[j] = id /\ reqs[id].op = "get"
               THEN LET j == CHOOSE j \in DOMAIN group : group[j] = id
                    IN  GetReply(reqs[id], Responses(m, group)[Len(group) + 1 - j])
               ELSE reqs[id]]

(* runBatch copies response.Responses[index] into the Get reply of         *)
(* requests[index], index by index over the group it sent.                *)
CopyReplies(m, group) ==
    reqs' = [id \in ReqId |->
               IF \E j \in DOMAIN group : group[j] = id /\ reqs[id].op = "get"
               THEN LET j == CHOOSE j \in DOMAIN group : group[j] = id
                    IN  GetReply(reqs[id], Responses(m, group)[j])
               ELSE reqs[id]]

(* runBatch returns the Send error: the batch is abandoned, no done flag is *)
(* set, and the flusher takes the next batch.                               *)
AbortBatch(n) == flusher' = [flusher EXCEPT ![n] = IdleFlusher]

SetClientState(n, i, s) == clients' = [clients EXCEPT ![n][i].state = s]

(* runBatch, second loop: one Batch RPC to the owner m of a group, through *)
(* getClientByHostPort and Client.Send.                                    *)
SendGroup(n, m) ==
    LET f         == flusher[n]
        group     == f.groups[m]
        i         == ClientIndex(n, m)
        cl        == clients[n][i]
        reachable == up[m] /\ cl.inc = inc[m] /\ cl.state \in Usable
        hasGet    == \E j \in DOMAIN group : reqs[group[j]].op = "get"
        Done      == flusher' = [flusher EXCEPT ![n].groups[m] = <<>>]
    IN
    /\ up[n]
    /\ f.phase = "send"
    /\ group # <<>>
    /\ \/ /\ i = 0                               \* no client: group skipped
          /\ Done
          /\ UNCHANGED <<up, members, addresses, clients, store, outbox, pc, inc,
                         reqs, ops, faults, applied, seen, panicked>>
       \/ /\ i # 0                               \* Disconnect()ed: Send returns
          /\ cl.state = "closed"                 \* nil, Responses is empty
          /\ \/ hasGet /\ Panic(n)
             \/ /\ ~hasGet
                /\ Done
                /\ UNCHANGED <<up, members, addresses, clients, store, outbox, pc,
                               inc, reqs, ops, faults, applied, seen, panicked>>
       \/ /\ i # 0                               \* the call succeeds
          /\ reachable
          /\ ~Handled(group).fails
          /\ ServeBatch(m, group)
          /\ CopyReplies(m, group)
          /\ SetClientState(n, i, "armed")
          /\ Done
          /\ UNCHANGED <<up, members, addresses, outbox, pc, inc, ops,
                         faults, panicked>>
       \/ /\ i # 0                               \* the handler returns a store
          /\ reachable                           \* error: the call fails
          /\ Handled(group).fails
          /\ ServeBatch(m, group)
          /\ SetClientState(n, i, "armed")
          /\ AbortBatch(n)
          /\ UNCHANGED <<up, members, addresses, outbox, pc, inc, reqs, ops,
                         faults, panicked>>
       \/ /\ i # 0                               \* served, reply past deadline
          /\ reachable
          /\ faults < MaxFaults
          /\ faults' = faults + 1
          /\ ServeBatch(m, group)
          /\ SetClientState(n, i, "broken")
          /\ AbortBatch(n)
          /\ UNCHANGED <<up, members, addresses, outbox, pc, inc, reqs, ops,
                         panicked>>
       \/ /\ i # 0                               \* lost before the owner
          /\ cl.state \in Usable
          /\ faults < MaxFaults
          /\ faults' = faults + 1
          /\ SetClientState(n, i, "broken")
          /\ AbortBatch(n)
          /\ UNCHANGED <<up, members, addresses, store, outbox, pc, inc, reqs,
                         ops, applied, seen, panicked>>
       \/ /\ i # 0                               \* dead, restarted or broken
          /\ cl.state # "closed"                 \* connection: the call fails
          /\ ~reachable
          /\ SetClientState(n, i, "broken")
          /\ AbortBatch(n)
          /\ UNCHANGED <<up, members, addresses, store, outbox, pc, inc, reqs,
                         ops, faults, applied, seen, panicked>>

(* The deadline the last Send set on client i passes while no call is     *)
(* running: net/rpc's reader goroutine gets the timeout and shuts the      *)
(* rpc.Client down, so every later Send on it fails.                       *)
DeadlinePasses(n, i) ==
    /\ up[n]
    /\ i \in DOMAIN clients[n]
    /\ clients[n][i].state = "armed"
    /\ SetClientState(n, i, "broken")
    /\ UNCHANGED <<up, inc, members, addresses, store, outbox, flusher, reqs, pc,
                   ops, faults, applied, seen, panicked>>

(* runBatch, last loop: every keyRequest of the batch is marked done.      *)
FinishBatch(n) ==
    LET f == flusher[n] IN
    /\ up[n]
    /\ f.phase = "send"
    /\ \A m \in Node : f.groups[m] = <<>>
    /\ reqs' = [id \in ReqId |->
                  IF \E j \in DOMAIN f.batch : f.batch[j] = id
                  THEN [reqs[id] EXCEPT !.done = TRUE] ELSE reqs[id]]
    /\ flusher' = [flusher EXCEPT ![n] = IdleFlusher]
    /\ UNCHANGED <<up, inc, members, addresses, clients, store, outbox, pc, ops,
                   faults, applied, seen, panicked>>

-----------------------------------------------------------------------------
(* Fault-injected variant: onJoin without its "this is me" check.         *)
JoinableNoSelfCheck(n, m) == m \notin Peers(n)

(* onJoin goes on past its early returns: "this is me" and "already        *)
(* connected" (a client with the same host and port).                     *)
Joinable(n, m) == m # n /\ m \notin Peers(n)

(* Fault-injected variant: the client is appended, its address is not.    *)
AppendPeerClientOnly(n, m) ==
    /\ clients' = [clients EXCEPT ![n] =
                     Append(@, [peer |-> m, inc |-> inc[m], state |-> "connected"])]
    /\ UNCHANGED addresses

(* Under the write lock: the new client and its address are appended.     *)
AppendPeer(n, m) ==
    /\ clients' = [clients EXCEPT ![n] =
                     Append(@, [peer |-> m, inc |-> inc[m], state |-> "connected"])]
    /\ addresses' = [addresses EXCEPT ![n] = Append(@, m)]

(* memberlist notifies n that member <<m, inc[m]>> joined; onJoin ignores  *)
(* itself and an endpoint it already has a client for, else connects a new *)
(* rpc.Client and appends it and its address under the write lock.  A     *)
(* failed Connect is logged and never retried.                             *)
OnJoin(n, m) ==
    /\ up[n]
    /\ up[m]
    /\ <<m, inc[m]>> \notin members[n]
    /\ members' = [members EXCEPT ![n] = @ \cup {<<m, inc[m]>>}]
    /\ \/ /\ ~Joinable(n, m)
          /\ UNCHANGED <<addresses, clients, faults>>
       \/ /\ Joinable(n, m)                      \* Connect succeeds
          /\ AppendPeer(n, m)
          /\ UNCHANGED faults
       \/ /\ Joinable(n, m)                      \* Connect fails
          /\ faults < MaxFaults
          /\ faults' = faults + 1
          /\ UNCHANGED <<addresses, clients>>
    /\ UNCHANGED <<up, inc, store, outbox, flusher, reqs, pc, ops, applied, seen,
                   panicked>>

(* Fault-injected variant: onLeave compares the client's node with the    *)
(* node that left, as intended.                                            *)
LeaveMatchesPeer(n, i, m) == clients[n][i].peer = m

(* onLeave's test: the client's host and port against node.Addr and       *)
(* node.Port, the member's gossip endpoint.                                *)
LeaveMatches(n, i, m) == RpcEndpoint[clients[n][i].peer] = GossipEndpoint[m]

(* memberlist notifies n that member <<m, i>> left (the process stopped or *)
(* was replaced).  onLeave looks for a client whose host and port equal   *)
(* the node's memberlist address; a match is disconnected and             *)
(* slices.Delete(clients, index, index) removes nothing.                   *)
OnLeave(n, mi) ==
    LET m  == mi[1]
        is == {i \in DOMAIN clients[n] : LeaveMatches(n, i, m)}
    IN
    /\ up[n]
    /\ mi \in members[n]
    /\ ~up[m] \/ inc[m] # mi[2]
    /\ members' = [members EXCEPT ![n] = @ \ {mi}]
    /\ IF is = {} THEN UNCHANGED clients
       ELSE SetClientState(n, CHOOSE i \in is : \A j \in is : i <= j, "closed")
    /\ UNCHANGED <<up, inc, addresses, store, outbox, flusher, reqs, pc, ops,
                   faults, applied, seen, panicked>>

(* bigcache's cleanup, every CleanWindow, removes an entry older than its  *)
(* LifeWindow; a Set resets the age, so an entry expires at any moment    *)
(* after its last Set.                                                     *)
Expire(n, key) ==
    /\ up[n]
    /\ store[n][key] # NoValue
    /\ faults < MaxFaults
    /\ faults' = faults + 1
    /\ store' = [store EXCEPT ![n][key] = NoValue]
    /\ UNCHANGED <<up, inc, members, addresses, clients, outbox, flusher, reqs,
                   pc, ops, applied, seen, panicked>>

(* The process of node n stops (crash, or Close and exit); the last        *)
(* incarnation a model allows keeps running.                               *)
Crash(n) ==
    /\ n \in Crashable
    /\ up[n]
    /\ inc[n] <= MaxRestarts
    /\ Down(n)
    /\ UNCHANGED <<inc, reqs, ops, faults, applied, seen, panicked>>

(* A new process starts at n's endpoints with a fresh memberlist name.      *)
Restart(n) ==
    /\ ~up[n]
    /\ inc[n] <= MaxRestarts
    /\ up' = [up EXCEPT ![n] = TRUE]
    /\ inc' = [inc EXCEPT ![n] = @ + 1]
    /\ UNCHANGED <<members, addresses, clients, store, outbox, flusher, reqs, pc,
                   ops, faults, applied, seen, panicked>>

-----------------------------------------------------------------------------
Next ==
    \/ \E c \in Caller, key \in Key :
          \/ "get" \in NextOps(c) /\ Call(c, "get", key, NoValue)
          \/ "delete" \in NextOps(c) /\ Call(c, "delete", key, NoValue)
          \/ "set" \in NextOps(c) /\ \E v \in Value : Call(c, "set", key, v)
    \/ \E c \in Caller : Return(c) \/ Timeout(c)
    \/ \E n \in Node :
          \/ FlushStart(n) \/ RouteRequest(n) \/ FinishBatch(n)
          \/ \E m \in Node : SendGroup(n, m)
          \/ \E i \in DOMAIN clients[n] : DeadlinePasses(n, i)
    \/ \E n, m \in Node : OnJoin(n, m)
    \/ \E n \in Node, mi \in Node \X (1..(MaxRestarts + 1)) : OnLeave(n, mi)
    \/ \E n \in Node : Crash(n) \/ Restart(n)
    \/ \E n \in Node, key \in Key : Expire(n, key)

(* The flusher goroutine runs whenever it has work; callers, membership    *)
(* and failures are under no obligation to act.                            *)
Fairness ==
    \A n \in Node :
        /\ WF_vars(FlushStart(n))
        /\ WF_vars(RouteRequest(n))
        /\ WF_vars(FinishBatch(n))
        /\ \A m \in Node : WF_vars(SendGroup(n, m))

Spec == Init /\ [][Next]_vars /\ Fairness
=============================================================================
