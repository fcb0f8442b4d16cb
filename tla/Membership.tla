----------------------------- MODULE Membership -----------------------------
(***************************************************************************)
(* The gossip membership of pkg/cluster/member_list.go and the localhost  *)
(* discovery of pkg/discovery/localhost.go: every node runs a memberlist  *)
(* and a discovery loop that, on every tick, shuffles the discovered      *)
(* endpoints and joins them one by one until a join succeeds with more    *)
(* than one member; Shutdown stops the loop and the memberlist.           *)
(*                                                                         *)
(* hashicorp/memberlist itself is abstracted: a node's view is the set of *)
(* members it knows; a Join, like memberlist's periodic push/pull, merges *)
(* the views of two live members; a dead member is eventually dropped     *)
(* (NotifyLeave) and, being dead, is never merged back in.  The shuffle   *)
(* is modelled by trying the remaining endpoints in any order.            *)
(***************************************************************************)
EXTENDS Naturals, Sequences, SequencesExt, FiniteSets

CONSTANTS Node,          \* the nodes, each at its own memberlist endpoint
          InitialView,   \* InitialView[n]: the cluster n has already formed
          InitialPorts,  \* InitialPorts[n]: the Ports of n's Localhost discovery
          AddablePorts,  \* pairs <<n, m>>: AddPort(m) may be called on n's discovery
          MaxShutdowns   \* bound: calls of Shutdown

ASSUME /\ \A n \in Node : n \in InitialView[n] /\ InitialView[n] \subseteq Node
       /\ InitialPorts \in [Node -> Seq(Node)]
       /\ AddablePorts \subseteq Node \X Node

VARIABLES alive,      \* the memberlist of n is running
          view,       \* view[n]: n's Members()
          ports,      \* ports[n]: the discovery's Ports slice
          running,    \* n's discoverNodes goroutine has not returned
          pending,    \* endpoints of the current round not yet tried
          doneClosed, \* Shutdown has closed n's done channel
          shutdowns,  \* Shutdown calls so far
          panicked,   \* nodes whose Shutdown panicked
          shut        \* shut[n]: where n's Shutdown call is

vars == <<alive, view, ports, running, pending, doneClosed, shutdowns, panicked, shut>>

Alive == {n \in Node : alive[n]}

Init ==
    /\ alive = [n \in Node |-> TRUE]
    /\ view = InitialView
    /\ ports = InitialPorts
    /\ running = [n \in Node |-> TRUE]
    /\ pending = [n \in Node |-> {}]
    /\ doneClosed = [n \in Node |-> FALSE]
    /\ shutdowns = 0
    /\ panicked = {}
    /\ shut = [n \in Node |-> "none"]

(* Localhost.Discover: one DiscoveredNode per port.                          *)
Discover(n) == ToSet(ports[n])

(* Localhost.AddPort: the port is appended under the write lock.           *)
AddPort(n, m) ==
    /\ <<n, m>> \in AddablePorts
    /\ m \notin ToSet(ports[n])
    /\ ports' = [ports EXCEPT ![n] = Append(@, m)]
    /\ UNCHANGED <<alive, view, running, pending, doneClosed, shutdowns, panicked, shut>>

(* discoverNodes at its select: the ticker fires and a new round starts    *)
(* over the discovered endpoints.                                          *)
Tick(n) ==
    /\ running[n]
    /\ pending[n] = {}
    /\ pending' = [pending EXCEPT ![n] = Discover(n)]
    /\ UNCHANGED <<alive, view, ports, running, doneClosed, shutdowns, panicked, shut>>

(* Fault-injected variant: the joining node adopts the other's view.      *)
MergeAdopt(a, b) == {m \in view[b] : alive[m]}

(* The members a push/pull between a and b leaves both with: all members  *)
(* either knew, except those memberlist already knows to be dead.         *)
Merge(a, b) == {m \in view[a] \cup view[b] : alive[m]}

(* Fault-injected variant: no shuffle, the endpoints are tried in the      *)
(* order Discover returns them.                                             *)
TryJoinNoShuffle(n, c) ==
    /\ c \in pending[n]
    /\ \A i \in DOMAIN ports[n] : ports[n][i] \in pending[n] =>
           \E j \in 1..i : ports[n][j] = c
    /\ IF alive[c]
       THEN LET merged == Merge(n, c)
            IN  /\ view' = [view EXCEPT ![n] = merged, ![c] = merged]
                /\ pending' = [pending EXCEPT ![n] =
                                 IF merged = {n} THEN @ \ {c} ELSE {}]
       ELSE /\ pending' = [pending EXCEPT ![n] = @ \ {c}]
            /\ UNCHANGED view
    /\ UNCHANGED <<alive, ports, running, doneClosed, shutdowns, panicked, shut>>

(* Fault-injected variant: a join that found only self retries the same   *)
(* endpoint instead of going on with the next one.                          *)
TryJoinRetrySelf(n, c) ==
    /\ c \in pending[n]
    /\ IF alive[c]
       THEN LET merged == Merge(n, c)
            IN  /\ view' = [view EXCEPT ![n] = merged, ![c] = merged]
                /\ pending' = [pending EXCEPT ![n] = IF merged = {n} THEN @ ELSE {}]
       ELSE /\ pending' = [pending EXCEPT ![n] = @ \ {c}]
            /\ UNCHANGED view
    /\ UNCHANGED <<alive, ports, running, doneClosed, shutdowns, panicked, shut>>

(* One iteration of the round: memberlist.Join on endpoint c, the next one *)
(* of the shuffled order.  A join with a live member exchanges both views; *)
(* the round ends when the join succeeded and Members() is more than self, *)
(* and goes on with the next endpoint otherwise.                           *)
TryJoin(n, c) ==
    /\ c \in pending[n]
    /\ IF alive[c]
       THEN LET merged == Merge(n, c)
            IN  /\ view' = [view EXCEPT ![n] = merged, ![c] = merged]
                /\ pending' = [pending EXCEPT ![n] =
                                 IF merged = {n} THEN @ \ {c} ELSE {}]
       ELSE /\ pending' = [pending EXCEPT ![n] = @ \ {c}]
            /\ UNCHANGED view
    /\ UNCHANGED <<alive, ports, running, doneClosed, shutdowns, panicked, shut>>

(* memberlist's periodic push/pull between two live members that know each *)
(* other.                                                                  *)
Gossip(a, b) ==
    /\ alive[a] /\ alive[b]
    /\ b \in view[a]
    /\ view[a] # view[b]
    /\ view' = [view EXCEPT ![a] = Merge(a, b), ![b] = Merge(a, b)]
    /\ UNCHANGED <<alive, ports, running, pending, doneClosed, shutdowns, panicked, shut>>

(* memberlist declares a stopped member dead or left: NotifyLeave.         *)
DropDead(n, m) ==
    /\ alive[n]
    /\ m \in view[n]
    /\ ~alive[m]
    /\ view' = [view EXCEPT ![n] = @ \ {m}]
    /\ UNCHANGED <<alive, ports, running, pending, doneClosed, shutdowns, panicked, shut>>

(* MemberList.Shutdown, called by Cluster.Close: the send on the           *)
(* unbuffered done channel blocks until discoverNodes takes it at its      *)
(* select.  A call after done was closed sends on a closed channel and     *)
(* panics.  One call of a node is outstanding at a time.                   *)
ShutdownCall(n) ==
    /\ shutdowns < MaxShutdowns
    /\ shut[n] \in {"none", "returned", "failed"}
    /\ shutdowns' = shutdowns + 1
    /\ \/ /\ ~doneClosed[n]
          /\ shut' = [shut EXCEPT ![n] = "sending"]
          /\ UNCHANGED panicked
       \/ /\ doneClosed[n]
          /\ panicked' = panicked \cup {n}
          /\ UNCHANGED shut
    /\ UNCHANGED <<alive, view, ports, running, pending, doneClosed>>

(* discoverNodes at its select after a round: the done case is taken and   *)
(* the goroutine returns, which lets the send in Shutdown complete.        *)
ReceiveDone(n) ==
    /\ running[n]
    /\ pending[n] = {}
    /\ shut[n] = "sending"
    /\ running' = [running EXCEPT ![n] = FALSE]
    /\ shut' = [shut EXCEPT ![n] = "leaving"]
    /\ UNCHANGED <<alive, view, ports, pending, doneClosed, shutdowns, panicked>>

(* The rest of Shutdown: done is closed and the node Leaves, which marks   *)
(* it left and queues the leave broadcast.  If the broadcast is not sent   *)
(* within the timeout Leave fails and Shutdown returns the error before    *)
(* memberlist's Shutdown; the node has still left.                         *)
Leave(n) ==
    /\ shut[n] = "leaving"
    /\ doneClosed' = [doneClosed EXCEPT ![n] = TRUE]
    /\ alive' = [alive EXCEPT ![n] = FALSE]
    /\ view' = [view EXCEPT ![n] = {n}]
    /\ \E outcome \in {"returned", "failed"} : shut' = [shut EXCEPT ![n] = outcome]
    /\ UNCHANGED <<ports, running, pending, shutdowns, panicked>>

Next ==
    \/ \E n, m \in Node : AddPort(n, m) \/ TryJoin(n, m) \/ Gossip(n, m) \/ DropDead(n, m)
    \/ \E n \in Node : Tick(n) \/ ShutdownCall(n) \/ ReceiveDone(n) \/ Leave(n)

(* The discovery goroutine's ticker keeps firing and a round goes on until *)
(* it ends; rand.Shuffle puts every endpoint first with positive           *)
(* probability, so an endpoint tried in infinitely many rounds is          *)
(* eventually tried before the others (strong fairness per endpoint);     *)
(* memberlist keeps gossiping and detecting failures.  At the select both *)
(* cases may be ready; Go picks one at random, so a done that waits        *)
(* through infinitely many selects is eventually taken (strong fairness of *)
(* ReceiveDone); the goroutine in Shutdown then runs on (weak fairness of  *)
(* Leave).  AddPort and ShutdownCall are calls by the program, not         *)
(* obligations.                                                            *)
Fairness ==
    /\ \A n \in Node : WF_vars(Tick(n)) /\ SF_vars(ReceiveDone(n)) /\ WF_vars(Leave(n))
    /\ \A n, c \in Node : SF_vars(TryJoin(n, c))
    /\ \A a, b \in Node : WF_vars(Gossip(a, b)) /\ WF_vars(DropDead(a, b))

Spec == Init /\ [][Next]_vars /\ Fairness
=============================================================================
