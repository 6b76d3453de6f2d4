------------------------------- MODULE Muster -------------------------------
(***************************************************************************)
(* The batching queue github.com/facebookgo/muster, as the type Honeycomb  *)
(* of transmission/transmission.go uses it.  A muster.Client owns a Work   *)
(* channel, one worker goroutine that collects what arrives on Work into a *)
(* Batch, and one goroutine per fired batch.  Honeycomb creates a client   *)
(* at Start and a further one at each Flush, so all state is indexed by    *)
(* the generation m of the client.                                         *)
(*                                                                         *)
(* The library is not part of this repository: the actions below are what  *)
(* createMuster, Start, Stop, tryAdd and batchAgg.Fire rely on.            *)
(***************************************************************************)
EXTENDS Integers, Sequences, FiniteSets

CONSTANTS
  Events,      \* the events the program hands to the transmission
  MaxMusters,  \* bound: how many muster clients are ever created
  Configs      \* the values the fields of Honeycomb may have at Start

ASSUME MusterAssumption ==
  /\ MaxMusters \in Nat \ {0}
  /\ Configs \subseteq [MaxBatchSize : Nat, BatchTimeout : BOOLEAN,
                       MaxConcurrentBatches : Nat, PendingWorkCapacity : Nat,
                       BlockOnSend : BOOLEAN, BlockOnResponse : BOOLEAN]
  /\ \A c \in Configs :  \* else muster.Client.Start fails
        c.MaxBatchSize # 0 \/ c.BatchTimeout

Musters == 1 .. MaxMusters

VARIABLES
  conf,    \* the fields of Honeycomb that createMuster and the sends go by
  work,    \* work[m]: contents of the channel m.Work
  closed,  \* the clients whose Work has been closed
  worker,  \* worker[m]: where m's worker goroutine is
  batch,   \* batch[m]: the events of the Batch being collected
  firing   \* firing[m]: the fired batches whose Fire has not returned

musterVars == <<conf, work, closed, worker, batch, firing>>

(***************************************************************************)
(* The worker goroutine: not yet started; in its select; about to fire a   *)
(* full or timed-out batch; about to fire the last batch after Work was    *)
(* closed; returned.                                                       *)
(***************************************************************************)
WorkerStates == {"none", "recv", "send", "last", "done"}

MusterTypeOK ==
  /\ conf \in Configs
  /\ work \in [Musters -> Seq(Events)]
  /\ closed \subseteq Musters
  /\ worker \in [Musters -> WorkerStates]
  /\ batch \in [Musters -> SUBSET Events]
  /\ firing \in [Musters -> SUBSET (SUBSET Events)]

\* Only the first client, the one Honeycomb.Start creates, is running.
MusterInit ==
  /\ conf \in Configs
  /\ work = [m \in Musters |-> <<>>]
  /\ closed = {}
  /\ worker = [m \in Musters |-> IF m = 1 THEN "recv" ELSE "none"]
  /\ batch = [m \in Musters |-> {}]
  /\ firing = [m \in Musters |-> {}]

\* Client.Start: make the Work channel and start the worker goroutine.
MusterStart(m) ==
  /\ worker[m] = "none"
  /\ worker' = [worker EXCEPT ![m] = "recv"]
  /\ UNCHANGED <<conf, work, closed, batch, firing>>

(***************************************************************************)
(* A send on m.Work can proceed: there is room in the buffer or, on an     *)
(* unbuffered channel, the worker is in its select to take the event.      *)
(***************************************************************************)
Room(m) ==
  \/ Len(work[m]) < conf.PendingWorkCapacity
  \/ conf.PendingWorkCapacity = 0 /\ work[m] = <<>> /\ worker[m] = "recv"

\* Work <- e
Enqueue(m, e) ==
  /\ work' = [work EXCEPT ![m] = Append(@, e)]
  /\ UNCHANGED <<conf, closed, worker, batch, firing>>

\* Client.Stop, first half: close(Work).
CloseWork(m) ==
  /\ closed' = closed \cup {m}
  /\ UNCHANGED <<conf, work, worker, batch, firing>>

\* Client.Stop, second half: what its wait on the work group waits for.
Drained(m) == worker[m] = "done" /\ firing[m] = {}

\* A batch of this size is fired at once.
Full(b) == conf.MaxBatchSize # 0 /\ Cardinality(b) >= conf.MaxBatchSize

\* The worker takes an event off Work and adds it to the batch.
WorkerRecv(m) ==
  /\ worker[m] = "recv"
  /\ work[m] # <<>>
  /\ LET b == batch[m] \cup {Head(work[m])}
     IN  /\ batch' = [batch EXCEPT ![m] = b]
         /\ worker' = [worker EXCEPT ![m] = IF Full(b) THEN "send" ELSE "recv"]
  /\ work' = [work EXCEPT ![m] = Tail(@)]
  /\ UNCHANGED <<conf, closed, firing>>

\* The batch timer, started by the batch's first event, has run out.
BatchTimer(m) ==
  /\ worker[m] = "recv"
  /\ conf.BatchTimeout
  /\ batch[m] # {}
  /\ conf.PendingWorkCapacity = 0 => work[m] = <<>>  \* else it has taken that event
  /\ worker' = [worker EXCEPT ![m] = "send"]
  /\ UNCHANGED <<conf, work, closed, batch, firing>>

\* The worker has drained a closed Work: fire what is collected, then return.
WorkerClosed(m) ==
  /\ worker[m] = "recv"
  /\ m \in closed
  /\ work[m] = <<>>
  /\ worker' = [worker EXCEPT ![m] = IF batch[m] = {} THEN "done" ELSE "last"]
  /\ UNCHANGED <<conf, work, closed, batch, firing>>

\* A slot of the work group is free for one more Fire goroutine.
Slot(m) ==
  conf.MaxConcurrentBatches = 0 \/ Cardinality(firing[m]) < conf.MaxConcurrentBatches

\* go batch.Fire(workGroup), and a new empty batch.
WorkerFire(m) ==
  /\ worker[m] \in {"send", "last"}
  /\ Slot(m)
  /\ firing' = [firing EXCEPT ![m] = @ \cup {batch[m]}]
  /\ batch' = [batch EXCEPT ![m] = {}]
  /\ worker' = [worker EXCEPT ![m] = IF @ = "last" THEN "done" ELSE "recv"]
  /\ UNCHANGED <<conf, work, closed>>

\* notifier.Done(): the Fire goroutine of batch b returns.
FireEnd(m, b) ==
  /\ b \in firing[m]
  /\ firing' = [firing EXCEPT ![m] = @ \ {b}]
  /\ UNCHANGED <<conf, work, closed, worker, batch>>

=============================================================================
