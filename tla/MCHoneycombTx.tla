--------------------------- MODULE MCHoneycombTx ---------------------------
(* Small instances of HoneycombTx.  The symmetric sets are used by the     *)
(* runs that check safety only.                                            *)
EXTENDS HoneycombTx, TLC

Symmetry == Permutations(Events) \cup Permutations(Adders) \cup Permutations(Flushers)
Server == {1}  \* every event gets one response

\* Batches of two, one Fire at a time, a Work channel of one.
Buffered(send, response) ==
  [MaxBatchSize |-> 2, BatchTimeout |-> TRUE, MaxConcurrentBatches |-> 1,
   PendingWorkCapacity |-> 1, BlockOnSend |-> send, BlockOnResponse |-> response]

\* Batches fired by the timer only, as many as come, no buffer.
Unbuffered ==
  [MaxBatchSize |-> 0, BatchTimeout |-> TRUE, MaxConcurrentBatches |-> 0,
   PendingWorkCapacity |-> 0, BlockOnSend |-> FALSE, BlockOnResponse |-> TRUE]

\* Batches fired when full, by Flush and by Stop.
NoTimer ==
  [MaxBatchSize |-> 2, BatchTimeout |-> FALSE, MaxConcurrentBatches |-> 0,
   PendingWorkCapacity |-> 1, BlockOnSend |-> TRUE, BlockOnResponse |-> FALSE]

\* Batches of one, one Fire at a time, no buffer: an event that is fired, one that
\* waits for its Fire and one in Add are enough for a Flush to wait for all of them.
Rendezvous ==
  [MaxBatchSize |-> 1, BatchTimeout |-> FALSE, MaxConcurrentBatches |-> 1,
   PendingWorkCapacity |-> 0, BlockOnSend |-> TRUE, BlockOnResponse |-> TRUE]

Dropping == {Buffered(FALSE, FALSE)}
Blocking == {Buffered(TRUE, TRUE), Rendezvous}
AllKinds == Dropping \cup {Unbuffered, NoTimer}
=============================================================================
