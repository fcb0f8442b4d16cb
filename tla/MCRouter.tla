------------------------------ MODULE MCRouter ------------------------------
(***************************************************************************)
(* Checks getClosestAddress over every address table a node can build and *)
(* every assignment of slots to nodes.  A node's table starts as <<Self>> *)
(* and grows by one append per successful onJoin (cluster.go:176); the    *)
(* slots of the nodes are chosen once, in Init, over all functions, so    *)
(* hash collisions between nodes are among the cases checked.             *)
(***************************************************************************)
EXTENDS Router, FiniteSets, TLC

CONSTANTS Node,      \* the nodes (their "host:port" addresses)
          Self       \* the node whose table is built

ASSUME Self \in Node

VARIABLES slotOf,    \* Slot(host + ":" + port) of every node
          addresses  \* the table self.addresses of node Self

vars == <<slotOf, addresses>>

Init ==
    /\ slotOf \in [Node -> HashSlot]
    /\ addresses = <<Self>>

(* Fault-injected variant: the "already connected" check is skipped.      *)
JoinAddressAnyNode ==
    /\ Len(addresses) < Cardinality(Node)
    /\ \E m \in Node : addresses' = Append(addresses, m)
    /\ UNCHANGED slotOf

(* A further node joins: the append of onJoin, which is reached only for  *)
(* a node that is not self and has no client yet.                          *)
JoinAddress ==
    /\ \E m \in Node \ ToSet(addresses) : addresses' = Append(addresses, m)
    /\ UNCHANGED slotOf

Next == JoinAddress

Spec == Init /\ [][Next]_vars

Owner(table, keySlot) == getClosestAddress(table, keySlot, slotOf)

(* The ring distance of spec section 4.3: min(|k - s|, MaxHashSlot - |k - s|). *)
RingDistance(k, s) ==
    LET d == abs(k - s) IN IF d <= MaxHashSlot - d THEN d ELSE MaxHashSlot - d

TypeOK ==
    /\ slotOf \in [Node -> HashSlot]
    /\ addresses \in Seq(Node)
    /\ Head(addresses) = Self
    /\ Len(addresses) = Cardinality(ToSet(addresses))

(* Owner agreement (spec 8.1): two nodes whose tables hold the same set of *)
(* addresses, in whatever order their onJoin calls appended them, pick the *)
(* same owner for every key slot in getClosestAddress.                     *)
OwnerAgreement ==
    \A k \in HashSlot, p \in SetToSeqs(ToSet(addresses)) :
        Owner(p, k) = Owner(addresses, k)

(* The same agreement, for tables in which no two nodes share a slot: the *)
(* tie-break on the smaller slot in getClosestAddress then makes the      *)
(* choice independent of the order of the table.                          *)
OwnerAgreementDistinctSlots ==
    (\A a, b \in ToSet(addresses) : a # b => slotOf[a] # slotOf[b])
        => OwnerAgreement

(* Owner selection (spec 4.3): the owner getClosestAddress returns is at   *)
(* minimal ring distance from the key's slot among all addresses.          *)
OwnerAtMinimalRingDistance ==
    \A k \in HashSlot, b \in ToSet(addresses) :
        RingDistance(k, slotOf[Owner(addresses, k)]) <= RingDistance(k, slotOf[b])
=============================================================================
