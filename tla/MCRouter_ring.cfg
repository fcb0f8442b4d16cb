\* The owner against the ring distance of spec section 4.3.
CONSTANTS
    Node = {n1, n2, n3}
    Self = n1
    MaxHashSlot = 16
SPECIFICATION Spec
INVARIANT OwnerAtMinimalRingDistance
CHECK_DEADLOCK FALSE
