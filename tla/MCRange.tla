------------------------------ MODULE MCRange ------------------------------
(***************************************************************************)
(* Checks Range.Overlaps (pkg/cluster/hash.go) on every pair of inclusive *)
(* slot ranges of a small ring.  The state is the pair the caller passes; *)
(* each step is a new call.                                                *)
(***************************************************************************)
EXTENDS Router

Ranges == {r \in [Begin : HashSlot, End : HashSlot] : r.Begin <= r.End}

VARIABLES self, other

vars == <<self, other>>

Init == self \in Ranges /\ other \in Ranges

(* The caller asks about another pair of ranges.                           *)
Call == self' \in Ranges /\ other' \in Ranges

Spec == Init /\ [][Call]_vars

(* Spec 4.3: Overlaps(other) reports whether two inclusive ranges share a *)
(* slot.  A call on disjoint ranges must return false, and return at all. *)
OverlapsAnswers ==
    Overlaps(self, other, 3) =
        IF self.Begin <= other.End /\ other.Begin <= self.End THEN "true" ELSE "false"
=============================================================================
