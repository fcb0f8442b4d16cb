----------------------------- MODULE BatchQueue -----------------------------
(***************************************************************************)
(* What the batcher promises (spec section 4.4), without its buffer, its  *)
(* ticker or its interval: items enter a FIFO queue until it is closed;   *)
(* each flush hands the next 1..BatchSize items to the callback, in       *)
(* order; every queued item is eventually flushed.  The queue holds at    *)
(* most a full channel plus a buffer one short of a batch.                *)
(***************************************************************************)
EXTENDS Naturals, Sequences

CONSTANTS BatchSize, MaxItems

VARIABLES pending,     \* items sent and not yet flushed
          delivered,   \* items handed to the callback, in order
          closed,
          nextItem

vars == <<pending, delivered, closed, nextItem>>

Init ==
    /\ pending = <<>>
    /\ delivered = <<>>
    /\ closed = FALSE
    /\ nextItem = 1

Put ==
    /\ ~closed
    /\ nextItem <= MaxItems
    /\ Len(pending) < 2 * BatchSize - 1
    /\ pending' = Append(pending, nextItem)
    /\ nextItem' = nextItem + 1
    /\ UNCHANGED <<delivered, closed>>

Flush ==
    \E n \in 1..BatchSize :
        /\ n <= Len(pending)
        /\ delivered' = delivered \o SubSeq(pending, 1, n)
        /\ pending' = SubSeq(pending, n + 1, Len(pending))
        /\ UNCHANGED <<closed, nextItem>>

Close ==
    /\ ~closed
    /\ closed' = TRUE
    /\ UNCHANGED <<pending, delivered, nextItem>>

Next == Put \/ Flush \/ Close

Spec == Init /\ [][Next]_vars /\ WF_vars(Flush)
=============================================================================
