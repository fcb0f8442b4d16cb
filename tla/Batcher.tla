------------------------------ MODULE Batcher ------------------------------
(***************************************************************************)
(* The adaptive micro-batcher of pkg/batcher/batcher.go: callers send     *)
(* items on a channel of capacity BatchSize, one flusher goroutine        *)
(* (processBatches) collects them and calls onFlush when the buffer is    *)
(* full, when its ticker fires, or when the channel is closed.            *)
(*                                                                         *)
(* Time is abstracted: a tick may fire whenever the flusher waits in its  *)
(* select, so every interleaving of ticks and receives is explored;       *)
(* flushInterval is kept, in nanoseconds, because its arithmetic is       *)
(* checked.  Items are 1, 2, ... in the order callers send them.          *)
(***************************************************************************)
EXTENDS Naturals, Sequences, SequencesExt

CONSTANTS BatchSize,          \* capacity of the channel and of one batch
          MaxItems,           \* bound on the items the callers send
          InitFlushInterval,  \* time.Millisecond, in ns
          MaxFlushInterval    \* time.Second, in ns

ASSUME /\ BatchSize \in Nat \ {0}
       /\ MaxItems \in Nat
       /\ InitFlushInterval \in 1..MaxFlushInterval

VARIABLES batchChannel,           \* the buffered channel
          closed,                 \* close(batchChannel) has been called
          batchedItems,           \* batchedItems[:length]
          itemsSinceLastInterval,
          flushInterval,          \* in ns
          running,                \* the flusher has not returned
          nextItem,               \* the next item a caller sends
          flushed                 \* every item passed to onFlush, in order

vars == <<batchChannel, closed, batchedItems, itemsSinceLastInterval,
          flushInterval, running, nextItem, flushed>>

Sent == [i \in 1..(nextItem - 1) |-> i]

Init ==
    /\ batchChannel = <<>>
    /\ closed = FALSE
    /\ batchedItems = <<>>
    /\ itemsSinceLastInterval = 0
    /\ flushInterval = InitFlushInterval
    /\ running = TRUE
    /\ nextItem = 1
    /\ flushed = <<>>

(* Fault-injected variant: length is not reset after onFlush.            *)
FlushAfterSelectNoReset(buffer) ==
    /\ flushed' = IF buffer # <<>> THEN flushed \o buffer ELSE flushed
    /\ batchedItems' = buffer

(* The code after the select: onFlush(batchedItems[:length]) when length   *)
(* is not zero, then length = 0.                                           *)
FlushAfterSelect(buffer) ==
    /\ flushed' = IF buffer # <<>> THEN flushed \o buffer ELSE flushed
    /\ batchedItems' = <<>>

(* A caller: batchChannel <- item.  Blocks while the channel is full.      *)
Send ==
    /\ ~closed
    /\ nextItem <= MaxItems
    /\ Len(batchChannel) < BatchSize
    /\ batchChannel' = Append(batchChannel, nextItem)
    /\ nextItem' = nextItem + 1
    /\ UNCHANGED <<closed, batchedItems, itemsSinceLastInterval, flushInterval,
                   running, flushed>>

(* A caller closes the channel; callers send nothing afterwards.           *)
Close ==
    /\ ~closed
    /\ closed' = TRUE
    /\ UNCHANGED <<batchChannel, batchedItems, itemsSinceLastInterval,
                   flushInterval, running, nextItem, flushed>>

(* Fault-injected variant: the buffer counts as full one item late.       *)
BufferFullOffByOne(buffer) == Len(buffer) > BatchSize

(* length == batchSize after the append.                                   *)
BufferFull(buffer) == Len(buffer) = BatchSize

(* case item, running = <-batchChannel, with an item: it is buffered; the  *)
(* loop continues unless the buffer is now full, in which case it is      *)
(* flushed.                                                                *)
Receive ==
    /\ running
    /\ batchChannel # <<>>
    /\ LET buffer == Append(batchedItems, Head(batchChannel))
       IN  IF ~BufferFull(buffer)
           THEN batchedItems' = buffer /\ UNCHANGED flushed
           ELSE FlushAfterSelect(buffer)
    /\ batchChannel' = Tail(batchChannel)
    /\ itemsSinceLastInterval' = itemsSinceLastInterval + 1
    /\ UNCHANGED <<closed, flushInterval, running, nextItem>>

(* The same case once the channel is closed and drained: running = false,  *)
(* the ticker stops, the buffer is flushed and the flusher returns.        *)
ReceiveClosed ==
    /\ running
    /\ closed
    /\ batchChannel = <<>>
    /\ running' = FALSE
    /\ FlushAfterSelect(batchedItems)
    /\ UNCHANGED <<batchChannel, closed, itemsSinceLastInterval, flushInterval,
                   nextItem>>

(* The interval computed on a tick that observed items: 1 ns unless more   *)
(* than one batch's worth arrived, else flushInterval divided by the      *)
(* number of batches (float64 arithmetic, truncated to whole ns), then    *)
(* clamped to [1 ns, MaxFlushInterval].                                    *)
AdaptedInterval(interval, items) ==
    LET newInterval == IF items > BatchSize
                       THEN (interval * BatchSize) \div items
                       ELSE 1
        capped      == IF newInterval > MaxFlushInterval
                       THEN MaxFlushInterval ELSE newInterval
    IN  IF capped <= 0 THEN 1 ELSE capped

(* Fault-injected variant: a tick adapts the interval but never flushes.  *)
TickNoFlush ==
    /\ running
    /\ IF itemsSinceLastInterval > 0
       THEN /\ flushInterval' = AdaptedInterval(flushInterval, itemsSinceLastInterval)
            /\ itemsSinceLastInterval' = 0
       ELSE UNCHANGED <<flushInterval, itemsSinceLastInterval>>
    /\ UNCHANGED <<batchChannel, closed, running, nextItem, batchedItems, flushed>>

(* case <-ticker.C: adapt the interval when items were seen since the last *)
(* adapting tick, then flush whatever is buffered and reset the ticker.    *)
Tick ==
    /\ running
    /\ IF itemsSinceLastInterval > 0
       THEN /\ flushInterval' = AdaptedInterval(flushInterval, itemsSinceLastInterval)
            /\ itemsSinceLastInterval' = 0
       ELSE UNCHANGED <<flushInterval, itemsSinceLastInterval>>
    /\ FlushAfterSelect(batchedItems)
    /\ UNCHANGED <<batchChannel, closed, running, nextItem>>

Next == Send \/ Close \/ Receive \/ ReceiveClosed \/ Tick

(* The flusher goroutine keeps running and its ticker keeps firing; the    *)
(* callers are under no obligation to send or to close.                    *)
Fairness == WF_vars(Receive) /\ WF_vars(ReceiveClosed) /\ WF_vars(Tick)

Spec == Init /\ [][Next]_vars /\ Fairness
=============================================================================
