------------------------------- MODULE Router -------------------------------
(***************************************************************************)
(* Slot arithmetic and owner selection of pkg/cluster/hash.go.            *)
(*                                                                         *)
(* An address is identified with the node it names; its slot is given by  *)
(* a function slotOf (Slot(host + ":" + port) in the code, a CRC-16 hash   *)
(* whose value is abstracted to an arbitrary slot).  The loop of          *)
(* getClosestAddress is a left fold over the address table whose          *)
(* accumulator is the code's three locals.                                *)
(***************************************************************************)
EXTENDS Integers, Sequences, SequencesExt

CONSTANT MaxHashSlot   \* 16384 in the code; a small even ring in models

ASSUME MaxHashSlot \in Nat \ {0} /\ MaxHashSlot % 2 = 0

HashSlot == 0..(MaxHashSlot - 1)

abs(x) == IF x < 0 THEN -1 * x ELSE x

(* The "wraparound" distance exactly as getClosestAddress computes it.     *)
Distance(keySlot, addressSlot) ==
    LET distance == abs(keySlot - addressSlot)
    IN  IF distance > MaxHashSlot \div 2 THEN 1 - distance ELSE distance

(* Fault-injected variant: equal distances keep the earlier address.      *)
ClosestStepNoTieBreak(keySlot, slotOf, acc, a) ==
    LET distance == Distance(keySlot, slotOf[a])
    IN  IF distance < acc.closestDistance
        THEN [closestAddress |-> a, closestAddressSlot |-> slotOf[a],
              closestDistance |-> distance]
        ELSE acc

(* One iteration of the loop over self.addresses, after the first.         *)
ClosestStep(keySlot, slotOf, acc, a) ==
    LET distance == Distance(keySlot, slotOf[a])
        chosen   == [closestAddress |-> a, closestAddressSlot |-> slotOf[a],
                     closestDistance |-> distance]
    IN  IF distance <= acc.closestDistance
        THEN IF distance = acc.closestDistance
             THEN IF slotOf[a] < acc.closestAddressSlot THEN chosen ELSE acc
             ELSE chosen
        ELSE acc

(* getClosestAddress: the first address initialises the three locals (the *)
(* empty-host check), every later one is a ClosestStep.                    *)
getClosestAddress(addresses, keySlot, slotOf) ==
    LET first == Head(addresses)
        init  == [closestAddress |-> first, closestAddressSlot |-> slotOf[first],
                  closestDistance |-> Distance(keySlot, slotOf[first])]
        Step(acc, a) == ClosestStep(keySlot, slotOf, acc, a)
    IN  FoldLeft(Step, init, Tail(addresses)).closestAddress

(* Range.Contains.                                                        *)
RangeContains(range, testSlot) == range.Begin <= testSlot /\ testSlot <= range.End

(* Range.Overlaps: either end of self inside other, else the call is      *)
(* repeated with the ranges swapped.  fuel bounds the nesting; since two  *)
(* swaps give back the original call, a chain that exhausts fuel >= 3     *)
(* never returns in the code.                                              *)
RECURSIVE Overlaps(_, _, _)
Overlaps(self, other, fuel) ==
    IF fuel = 0 THEN "diverges"
    ELSE IF \/ RangeContains(other, self.Begin)
            \/ RangeContains(other, self.End)
         THEN "true"
         ELSE Overlaps(other, self, fuel - 1)
=============================================================================
