\* Owner selection over every 3-node table and every slot assignment on a
\* 16-slot ring.  Tables stop growing once every node has joined.
CONSTANTS
    Node = {n1, n2, n3}
    Self = n1
    MaxHashSlot = 16
SPECIFICATION Spec
INVARIANT TypeOK
INVARIANT OwnerAgreementDistinctSlots
CHECK_DEADLOCK FALSE
