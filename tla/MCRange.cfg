\* Every pair of inclusive ranges on an 8-slot ring.
CONSTANTS
    MaxHashSlot = 8
SPECIFICATION Spec
INVARIANT OverlapsAnswers
