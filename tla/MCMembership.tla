---------------------------- MODULE MCMembership ----------------------------
(***************************************************************************)
(* Three nodes in two clusters that formed apart, A = {a1, a2} and        *)
(* B = {b1}, each discovering only its own endpoints, until the endpoint  *)
(* of b1 is added to the discovery of a2 (spec 8.7); nodes may shut down. *)
(***************************************************************************)
EXTENDS Membership

CONSTANTS a1, a2, b1

A == {a1, a2}
B == {b1}

MCInitialView == [n \in Node |-> IF n \in A THEN A ELSE B]
MCInitialPorts == [n \in Node |-> IF n \in A THEN <<a1, a2>> ELSE <<b1>>]
MCAddablePorts == {<<a2, b1>>}

TypeOK ==
    /\ alive \in [Node -> BOOLEAN]
    /\ view \in [Node -> SUBSET Node]
    /\ \A n \in Alive : n \in view[n]
    /\ ports \in [Node -> Seq(Node)]
    /\ running \in [Node -> BOOLEAN]
    /\ pending \in [Node -> SUBSET Node]
    /\ doneClosed \in [Node -> BOOLEAN]
    /\ shutdowns \in 0..MaxShutdowns
    /\ panicked \subseteq Node
    /\ shut \in [Node -> {"none", "sending", "leaving", "returned", "failed"}]

OneCluster == \A n \in Alive : view[n] = Alive

(* Spec 8.7, split-heal: once an endpoint of the other cluster is in some  *)
(* node's discovery, all live nodes eventually see one membership, unless *)
(* that node shut down first.  It rests on discoverNodes shuffling the    *)
(* endpoints: without the shuffle a node already in a cluster always      *)
(* joins its own cluster first and stops.                                 *)
SplitHeals ==
    (\A p \in AddablePorts : p[2] \in ToSet(ports[p[1]]))
        ~> (OneCluster \/ \E p \in AddablePorts : doneClosed[p[1]])

(* A Shutdown call returns: its send on the unbuffered done channel is     *)
(* taken once discoverNodes finishes its round of joins and, against the  *)
(* ticker, picks done at its select; Leave then returns or fails.  A      *)
(* round that never ends, or a loop that never selects done, leaves       *)
(* Cluster.Close blocked for good.                                         *)
ShutdownReturns ==
    \A n \in Node : shut[n] = "sending" ~> shut[n] \in {"returned", "failed"}

=============================================================================
