------------------------------ MODULE MCBatcher -----------------------------
(***************************************************************************)
(* Model-checking harness for Batcher: its properties, and its refinement *)
(* of BatchQueue.                                                          *)
(***************************************************************************)
EXTENDS Batcher

TypeOK ==
    /\ batchChannel \in Seq(1..MaxItems) /\ Len(batchChannel) <= BatchSize
    /\ closed \in BOOLEAN
    /\ batchedItems \in Seq(1..MaxItems) /\ Len(batchedItems) < BatchSize
    /\ itemsSinceLastInterval \in 0..MaxItems
    /\ flushInterval \in Nat
    /\ running \in BOOLEAN
    /\ nextItem \in 1..(MaxItems + 1)
    /\ flushed \in Seq(1..MaxItems)

(* No item is lost or flushed twice, and onFlush sees items in send order: *)
(* what was flushed, then the flusher's buffer, then the channel, is      *)
(* exactly what the callers sent.  It rests on processBatches resetting   *)
(* length after every onFlush and on every received item being buffered. *)
NoLossNoDuplication ==
    flushed \o batchedItems \o batchChannel = Sent

(* Every item a caller sends is eventually passed to onFlush, whether or   *)
(* not the batch fills and whether or not the channel is ever closed.      *)
EveryItemFlushed ==
    \A i \in 1..MaxItems : (i < nextItem) ~> (i \in ToSet(flushed))

(* Spec 4.4: after every tick with items observed, the interval becomes   *)
(* flushInterval / batchesSinceLastTick (batches = items / batchSize),    *)
(* clamped to [1 ns, 1 s].                                                 *)
IntervalAdaptsPerSpec ==
    [][(itemsSinceLastInterval > 0 /\ itemsSinceLastInterval' = 0
        /\ nextItem' = nextItem)
         => flushInterval' =
              LET spec == (flushInterval * BatchSize) \div itemsSinceLastInterval
              IN  IF spec > MaxFlushInterval THEN MaxFlushInterval
                  ELSE IF spec < 1 THEN 1 ELSE spec]_vars

(* Batcher implements BatchQueue: the queue is the buffer followed by the  *)
(* channel.                                                                *)
BQ == INSTANCE BatchQueue WITH pending <- batchedItems \o batchChannel,
                               delivered <- flushed

BatchQueueSpec == BQ!Spec
=============================================================================
