# TLA+ models of diskey

diskey is a distributed key-value cache. Every node runs a `Cluster`
(`src/pkg/cluster`). It consists of:

- a local bigcache store;
- an RPC server that serves `ClusterCommandRpcHandlers` (Get, Set, Delete, Batch);
- one `rpc.Client` per known peer;
- a hashicorp memberlist whose join and leave callbacks maintain those clients;
- an adaptive micro-batcher (`src/pkg/batcher`) that groups the remote requests of local callers into one Batch RPC per owner.

A key belongs to the node whose address slot is "closest" to the key's slot
(`getClosestAddress`, `src/pkg/cluster/hash.go`).

## How the parts interact

1. A caller's `Get/Set/Delete` computes the owner on its node's table.
   - If the owner is the local node, the call is served from the local store.
   - Otherwise `sendRequest` puts a `keyRequest` on the batch channel and spins until `done` is set or 5 s pass.
2. The batcher's goroutine calls `runBatch` with 1..batchSize requests.
3. `runBatch` computes every request's owner again and groups the requests by owner.
4. For each group it sends one Batch RPC through `getClientByHostPort`, then copies the Get replies back and sets `done` on the whole batch.
5. memberlist calls:
   - `onJoin` for every member, which connects a client and appends it, and its address, to the tables;
   - `onLeave` for a departed member, which should disconnect its client.

## Modules

| Module | Models | Source |
|---|---|---|
| `Router` | slot arithmetic: `abs`, the wraparound `Distance`, one loop step `ClosestStep`, `getClosestAddress` as a `FoldLeft`, `Range.Contains`, `Range.Overlaps` (`RECURSIVE`, with fuel) | `hash.go` |
| `MCRouter` | one node's address table growing by `onJoin` appends, over every slot assignment | `cluster.go` onJoin |
| `MCRange` | calls of `Range.Overlaps` on every pair of ranges (not among the runs; see the observations) | `hash.go` |
| `Batcher` | `processBatches`: callers' `Send`/`Close`, `Receive`, `ReceiveClosed`, `Tick`, the interval arithmetic `AdaptedInterval` | `batcher.go` |
| `BatchQueue` | the abstract batcher: a FIFO that each flush drains by 1..BatchSize | spec 4.4 |
| `MCBatcher` | the batcher's properties and the refinement `BQ == INSTANCE BatchQueue WITH pending <- batchedItems \o batchChannel, delivered <- flushed` | |
| `Cluster` | the coordinator of every node, with callers, outbox, flusher, Batch handler, membership callbacks, crashes and restarts | `cluster.go`, `cluster_commands.go`, `rpc/client.go` |
| `MCCluster` | two nodes, two callers, the coordinator's properties | |
| `Membership` | `NewMemberList`, the `discoverNodes` loop (Discover, shuffle, join loop, select on `done`), `MemberList.Shutdown`, `Localhost.Discover`/`AddPort`; memberlist abstracted to view merges and failure detection | `member_list.go`, `localhost.go` |
| `MCMembership` | two clusters formed apart and a seed added to one node's discovery; one formed cluster for leave and shutdown | |
| `RpcClient` | one `rpc.Client` and the peer's side of its connection: `NewClient`, `Connect` and its Disconnect goroutine, the steps of `Send` and of `Disconnect`, net/rpc's reader goroutine, `AcceptConnections`, `handleConnection`; the peer's exit and a partition as faults | `rpc/client.go`, `rpc/server.go`, the codecs, `command/command.go` |
| `MCRpcClient` | the RPC client's properties | |

### State of `Cluster`

Per node:

- `up` and `inc` (the process, and its incarnation, i.e. a fresh memberlist name after restart);
- `members` (the `<<node, inc>>` pairs its memberlist announced);
- `addresses` and `clients` (`Cluster.addresses` and `Cluster.clients`). A client is `[peer, inc, state]`, where `state` is:
  - `connected`;
  - `armed`, after a successful `Send`: its socket deadline is set and nothing clears it;
  - `broken`, after a transport error: net/rpc shuts the client down for good;
  - `closed`, after `Disconnect`: `Send` returns nil without sending.
- `store`, `outbox` and `flusher` (the `runBatch` in progress: the batch, the routing position, `requestsByClient`).

Per request: `reqs` (the `keyRequest`: op, key, value, `done`, Get reply, and `err` for a local Set that returned the store's error).

Per caller: `pc` (idle / waiting in `sendRequest`) and `ops`.

Ghost state:

- `applied` (the requests some store executed);
- `panicked` (nodes whose flusher goroutine panicked);
- `faults` (the events charged to `MaxFaults`: connect and transport faults, and store expiries).

### Actions of `Cluster`, and the code behind them

- `Call`: `Get`, `Set` or `Delete` (`cluster_commands.go:51-176`).
  - The local path executes on the store and returns; a Set bigcache rejects returns its error.
  - The remote path blocks while the channel and buffer are full.
- `Return`, `Timeout`: `sendRequest`'s spin loop (301-313).
- `FlushStart`: the batcher hands 1..BatchSize requests to `runBatch`. The batcher itself is checked separately; here it is used through its abstract spec `BatchQueue`.
- `RouteRequest`: one iteration of `runBatch`'s first loop (254-264). A request that is now local reaches `runBatchRequest`, whose `args.(map[string]any)` assertion panics on the caller's struct.
- `SendGroup`: one iteration of the loop over `requestsByClient` (266-292). Its cases:
  - no client;
  - a Disconnected client: `Send` returns nil with no reply, and the Get reply loop panics;
  - success: the owner's Batch handler runs the group, the replies are copied and the client is `armed`;
  - the Batch handler returns a store error (`Handled`, 186-195): it ran the group up to the first request bigcache rejects, the client stays usable and `runBatch` returns the error;
  - served but the reply is lost: the client breaks and `runBatch` returns;
  - lost before the owner;
  - a dead, restarted or broken peer: `return err`.
- `DeadlinePasses`: the deadline of an `armed` client passes while no call runs. net/rpc's reader gets the timeout and the client breaks. This is the `rpc_idle` finding, carried into the coordinator (`client.go:141`). It is not a fault and is not bounded: it happens at most once per client, because a broken client stays broken.
- `FinishBatch`: the `done.Store` loop (294-298).
- `OnJoin`: `onJoin` (`cluster.go:142-181`), with its "this is me" and "already connected" early returns and Connect failure.
- `OnLeave`: `onLeave` (183-198). It compares the client's RPC host:port with the member's memberlist address.
- `StoreFails`: bigcache's Set rejects an entry larger than one shard (HardMaxCacheSize / Shards = 1 MB, `cache.go:84-87`) and stores nothing. The values in `Oversized` stand for such entries.
- `Expire`: bigcache's cleanup removes an entry whose LifeWindow (10 min) has passed since its last Set (`cache.go:67-73`).
- `Crash`, `Restart`: the process stops (`Close`, memberlist `Shutdown`) and a new one starts at the same endpoints.

Ghost state `seen[id]` records the value of a request's key in the store that executed it. `Responses(m, group)` is the Batch handler's `reply.Responses`: the value of the j-th request's key after the first j - 1 requests ran. `CopyReplies` copies `Responses[j]` into the reply of `group[j]`.

### State and actions of `Membership`

Per node:

- `alive`: its memberlist is running;
- `view`: its `Members()`;
- `ports`: its Localhost discovery's `Ports`;
- `running`: `discoverNodes` has not returned;
- `pending`: the endpoints of the current round not yet tried;
- `doneClosed`.

`shutdowns` counts Shutdown calls, `panicked` records the nodes whose Shutdown panicked, and `shut[n]` is where n's Shutdown call is: none, sending, leaving, returned or failed.

- `Tick`: the ticker fires and a round starts over `Discover` (83-98).
- `TryJoin`: one iteration of the join loop (102-121). A join with a live member merges both views. The loop continues after a failed join, or when the only member is self, and otherwise breaks. The shuffle is modelled by letting any remaining endpoint come next.
- `AddPort`: `Localhost.AddPort`.
- `MemberList.Shutdown` (146-157), called by `Cluster.Close`, in three steps:
  - `ShutdownCall`: the send on the unbuffered `done` channel starts and blocks. A call after `done` was closed panics.
  - `ReceiveDone`: `discoverNodes` at its select after a round takes `done` and returns (123-131). At the same select the ticker may win instead, and another round starts.
  - `Leave`: `done` is closed and the node leaves. `Leave` may time out, and then Shutdown returns the error without stopping the memberlist. The node has still left, because memberlist marked it left and queued the broadcast.
- `Gossip` and `DropDead`: memberlist's push/pull and its failure detection, which ends in `NotifyLeave`.

### State and actions of `RpcClient`

The client's fields are `cancel`, `tcp` (`tcpConnection`) and `rpc` (`rpcClient`). The rest of the state:

- `sock`: the socket;
- `deadline`: the socket's deadline;
- `shut`: net/rpc's reader goroutine has ended, and every later `Call` fails with `ErrShutdown`;
- `watcher`: Connect's goroutine;
- `spc`: where the sending goroutine (the flusher in `runBatch`) is in `Send`;
- the peer: `listening`, `backlog` (dialled, not yet accepted), `serving` (`handleConnection` runs), `peerUp`;
- the network: `partitioned`, with `faults` bounded by `MaxFaults`.

Actions:

- `Connect` (client.go 89-128). On a failed dial, `cancel` stays set and is never called.
- `Send` in three steps, because another goroutine may run between them:
  - `SendCheck`: the nil checks (130-139);
  - `SetDeadline`: now + 3 s, never cleared (141-144);
  - `Call`: `command.Send`, which panics on a nil client, fails on a shut client, and fails when `WriteRequest` (`client_codec.go:29-37`) flushes into a socket Disconnect already closed.
- `Reply`: the server codec reads the request and writes the response.
- `InputFails`: the client codec's read fails and net/rpc shuts the client down. The read fails on a closed socket, a passed deadline, a peer that exited (FIN), or a listener closed before Accept (RST).
- `Accept` and `ServeEnds`: the accept loop and `ServeCodec`. `ServeEnds` happens on a closed socket or a partition.
- `ServerCancel`: the goroutine that closes the listener when the server's context ends.
- `CancelCtx` and `WatchWake`: Connect's context ends and its goroutine wakes.
- `DisconnectCancel`, `DisconnectClose` and `DisconnectClear`: the three steps of `Disconnect` (53-66).
- `PeerExit` and `Partition`: faults of the environment.

The abstraction of time: `Timeout` may happen whenever a request is not done, and a "reply past deadline" is a nondeterministic fault. An RPC is one atomic step. Gossip is reduced to the callbacks it delivers, in any order.

## Runs

| Run | Checks | Result |
|---|---|---|
| `router` (MCRouter.cfg) | `TypeOK`, `OwnerAgreementDistinctSlots`: same addresses in any order give the same owner when no two nodes share a slot | pass, 20480 states |
| `router_ring` | `OwnerAtMinimalRingDistance` (spec 4.3) | violation: `1 - d` makes a far address win |
| `batcher` | `NoLossNoDuplication`, `EveryItemFlushed`, `BatchQueueSpec` (refinement: every flush takes the next 1..BatchSize items in order) | pass |
| `cluster` | `TypeOK`, `NoFlusherPanic`, `DoneRequestsApplied`, `AddressesMirrorClients`, `GetRepliesMatchStore` (spec 8.6) | pass, 966K states, about 1 min 15 s |
| `cluster_live` | `EnqueuedRequestsFlushed` (liveness) | pass |
| `cluster_done` | `WaitingRequestsInPipeline` (spec 4.7, section 3 inv. 3) | violation: a Send error skips the done loop |
| `cluster_rejoin` | `RejoinedPeerConnected` (spec 4.7) | violation: a restarted peer keeps a stale client |
| `cluster_agree` | `OwnersAgree` (spec 8.1) | violation: after one failed Connect, two nodes with the same membership disagree on an owner for good; memberlist never notifies the join again (with no fault it holds) |
| `cluster_timeout` | `TimedOutGetReportsMissing` (spec 5) | violation: with both callers following `cmd/diskey`'s loop (`MainScript`: Get, Set, Get, Delete, Get), client1's second Get times out between the reply copy and `done` and returns the value (a data race in the code) |
| `membership` (MCMembership.cfg) | `TypeOK`, `SplitHeals` (spec 8.7), `ShutdownReturns` (the send on `done` is eventually taken), all liveness except `TypeOK` | pass, 2343 states, about 2 min |
| `rpc` (MCRpcClient.cfg) | `TypeOK` (`tcpConnection` and `rpcClient` set and cleared together), `SendReturns` (every Send returns or panics, under a partition too) | pass, 790 states |
| `rpc_idle` (MCRpcClient_idle.cfg) | `IdleClientStaysUsable` (spec 4.5: deadlines reset per call) | violation: the deadline of the last Send passes on the idle connection, net/rpc's reader fails and the client is shut down for good, with the peer alive. main.go's client2 sleeps 5 s between rounds, longer than the 3 s deadline |

What the passing cluster run shows:

- **`NoFlusherPanic`.** Neither panic path of the flusher is reachable.
  - A request routed to a peer is never routed locally again. Tables only grow, a join moves keys only to the newcomer, and a crash empties the outbox together with the table.
  - No client is ever Disconnected, because `onLeave` never matches.
  - So both panics are masked by the `onLeave` bug. The mutant that fixes the comparison (`LeaveMatchesPeer`) breaks `DoneRequestsApplied`: a Set through a closed client is reported done and never executed.
- **`DoneRequestsApplied`.** A request marked done, without a store error returned to its caller, was executed by some store. This includes a batch that the owner's handler stopped at a rejected Set: the requests it ran are applied but none is marked done. The mutant `HandledSkippingErrors`, a handler that skips the failed request and returns nil, makes a rejected Set look done.
- **`GetRepliesMatchStore`.** A Get that completes, locally or remotely, carries the value its key had when the owner executed it. The run reaches a group with a timed-out Set followed by a Get, so a reply copied to the wrong index is caught (mutant `CopyRepliesReversed`).

Each property of a passing run has a mutant in `PROJECT.json`: a plausible bug in the mapped definition, which TLC finds.

## Bounds

- **`MCCluster`:**
  - 2 nodes with distinct slots (0 and 4 on an 8-slot ring), one caller on each;
  - one key, owned by n2 once both know each other, so n1's callers go remote and n2's stay local;
  - one value, and in `cluster` a second one that bigcache rejects (`Oversized = {v2}`), so that a Batch stops part-way;
  - BatchSize 2 (a group of two requests exercises index-by-index reply copying);
  - callers free to make any op (`Script <- MCAnyOps`), except in `cluster_timeout`, where both follow main.go's loop (`MainScript`, through `NextOps`) and c1 makes three calls (`MCMaxOps3`), the first Get after its Set;
  - 2 calls by c1 and 1 by c2 (`MCMaxOps2`), and 1 each in the other violation runs and the liveness run. c2 runs on n2, which owns k1 in every table it ever has, so all of c2's calls are local. One local call is enough to race c1's batches. c1 needs two calls, a timed-out one and one sharing its batch.
  - only n2 crashes, at most once;
  - `MaxFaults` bounds Connect failures, transport faults and store expiries together: 1 in `cluster` and in the other runs (the oversized value takes the state space a second fault used to). There are none in `cluster_rejoin` and `cluster_timeout`, so that only the restart or the timeout is at work. Idle deadlines passing are not bounded.
  - These bounds reach every `SendGroup` case that the code can reach, crash and rejoin, and a batch with requests of both a timed-out and a current call. A second key or a third call per caller multiplies the states beyond a few minutes.
- **`MCMembership`:**
  - 3 nodes in two clusters, {a1, a2} and {b1}. Each discovers only its own endpoints until `AddPort(b1)` on a2. a2 then has to choose between its own cluster and the other one, which is the smallest case where the shuffle matters.
  - At most two Shutdown calls. These cover two nodes leaving, a node leaving before or after the heal (including the node holding the seed), and a retry of `Close` after a failed `Leave`, which panics.
- **`MCBatcher`:** BatchSize 2 and 5 items. That is enough for a full batch, a partial batch flushed by a tick, a tick that observed more than one batch (the division), and close with a buffered item.
- **`MCRpcClient`:** one client and one peer, at most one partition (none in `rpc_idle`, so that only the deadline is at work). The peer's exit and the listener's close are single events, so every order of Connect, Accept, Send, Disconnect and the faults is explored.
- **`MCRouter`:** 3 nodes with every slot assignment on a 16-slot ring: collisions, ties on both sides, and wraparound.

## Fairness

- `Batcher`: weak fairness of `Receive`, `ReceiveClosed` and `Tick`. The flusher goroutine loops forever on a `select` and its ticker keeps firing. Callers are not obliged to send or close.
- `Membership`:
  - Weak fairness of `Tick`: the ticker keeps firing.
  - Weak fairness of `Gossip` and `DropDead`: memberlist's background push/pull and failure detection.
  - Strong fairness of each `TryJoin(n, c)`: `rand.Shuffle` puts every endpoint first with positive probability, so an endpoint offered in infinitely many rounds is eventually tried. Without it, `SplitHeals` fails (mutant `TryJoinNoShuffle`).
  - Strong fairness of `ReceiveDone`: when both cases of the select are ready, Go picks one at random, so a `done` that waits through infinitely many selects is eventually taken. The ticker's round ends because each join returns (memberlist's join has a timeout). Without the round ending, `ShutdownReturns` fails (mutant `TryJoinRetrySelf`, a join that found only self retries the same endpoint).
  - Weak fairness of `Leave`: the goroutine in Shutdown runs on once its send is taken.
  - `AddPort` and `ShutdownCall` are calls of the program and get no fairness.
- `RpcClient`: weak fairness of these steps:
  - the steps of `Send` after its checks;
  - `Reply`, `InputFails` (the kernel delivers the error);
  - `Accept` and `ServeEnds`;
  - `WatchWake` and the `Disconnect` steps (goroutines already running).

  `Connect`, starting a `Send`, cancelling a context and the faults are choices of the caller or the environment.
- `Cluster`: weak fairness of each node's flusher steps (`FlushStart`, `RouteRequest`, `SendGroup`, `FinishBatch`), for the same reason. Callers, membership events, faults and crashes get no fairness.

## Observations not checked by a run

- Two addresses that hash to the same slot: `getClosestAddress` picks the one met first, and every node's table starts with itself, so both nodes claim the same keys. `MCRouter.tla` states this as `OwnerAgreement`. The `router` run checks only the distinct-slot case.
- `MemberList.Shutdown` sends on `done` and then closes it. A second call sends on a closed channel and panics, although spec 4.6 calls it idempotent. The `membership` run reaches it: `ShutdownCall` after a failed `Leave` records the node in `panicked`. No property states it, because nothing in the repository calls `Close` twice.

- `Range.Overlaps` ends with `other.Overlaps(self)`. For disjoint ranges it recurses without end. Nothing in the repository calls it, so it is not listed as a hazard of the program. `MCRange.tla` with `MCRange.cfg` shows the recursion (`OverlapsAnswers` violated).
- The batcher's interval only shrinks. A tick that saw at most batchSize items sets it to 1 ns, and a larger count divides it. Spec 4.4 gives flushInterval / batchesSinceLastTick clamped to [1 ns, 1 s]. `MCBatcher_interval.cfg` shows the divergence (`IntervalAdaptsPerSpec` violated). No run checks the interval: the clamps of lines 65-70 keep it in [1 ns, 1 s] by construction, so an invariant on its range would only restate them.
- `Client.Send` checks `rpcClient` for nil, then reads it again for the call. If the Disconnect goroutine clears it in between, the call is made on a nil client and panics. `RpcClient` reaches this. No run checks it, because main never cancels the context given to Connect.
- `handleConnection` ignores its context (the code that closes the connection is commented out). Cancelling a server closes only its listener, although spec section 4 says the context cancels the handlers. `RpcClient` models it (`ServerCancel` leaves `serving` alone), but stating it takes a violation run.

## Not modelled

- In `Cluster`, the RPC is one atomic Batch step. `RpcClient` models the connection on its own, and the two are not composed. The server's `Listen` and `RegisterHandler` are start-up. The Ping handler and the gob codecs are unused.
- memberlist's SWIM protocol: library behaviour. It is abstracted to join and leave notifications in `Cluster`, and to view merges in `Membership`. That a left node vanishes from every view (spec 8.8) is therefore memberlist's promise, assumed by the model (`Merge` drops dead members, `DropDead` is fair) and not checked. When `Leave` fails, the memberlist that Shutdown never stops (its goroutines and sockets) is not state of the model.
- bigcache internals: shards, and the NoSpace eviction, which the 1024 MB cap keeps out of reach. The removal callbacks are nil in the cluster's empty config.
- The byte pool, the error types and the `diskey` wrapper (JSON encoding around `Cluster`'s calls): no protocol state. Of the CLI, only the client loops are modelled (`MainScript`); their printing, sleeps and setup are not.
- `hashtag.Slot`: not in the repository, so slots are free choices of the models.

## Plan for later work

1. Compose `Membership` with `Cluster`, so that the join and leave notifications come from modelled views.
2. A caller whose Set returned is eventually visible, or is shown not to be (timeout with an abandoned batch).
3. A refinement of `Cluster` to an abstract replicated map (key → owner's store).
