---------------------------- MODULE HoneycombTx ----------------------------
(***************************************************************************)
(* The default transmission, type Honeycomb of transmission/transmission.go*)
(* with writeToResponse of transmission/response.go: goroutines that call  *)
(* Add, Flush and SendResponse concurrently, Stop, and Start again, the    *)
(* muster clients that batch the events and the channel the responses come *)
(* back on.  What one Fire does with its batch is module BatchAgg; here a Fire  *)
(* posts, in any order, some number of responses for each of its events.   *)
(*                                                                         *)
(* The contract the callers keep: nothing is added or flushed once Stop    *)
(* was called, unless Start has been called since (sender.go:14), and Stop *)
(* is not called while an Add is running.                                  *)
(***************************************************************************)
EXTENDS Muster

CONSTANTS
  Adders,           \* goroutines that call Add or SendResponse
  Flushers,         \* goroutines that call Flush
  Answers,          \* how many responses Fire may post for an event
  NoEvent,          \* stands for no event
  StopDuringFlush   \* TRUE if Stop may be called while a Flush is running

ASSUME HoneycombAssumption ==
  /\ StopDuringFlush \in BOOLEAN
  /\ Answers \subseteq Nat
  /\ NoEvent \notin Events

VARIABLES
  curr,       \* h.muster
  made,       \* the clients created so far are 1 .. made
  adder,      \* adder[a]: where goroutine a is in Add or SendResponse
  adding,     \* adding[a]: the event of that call, or NoEvent
  via,        \* via[a]: the client whose Work a sends on, or 0
  flusher,    \* flusher[f]: where goroutine f is in Flush
  held,       \* held[f]: newMuster before the swap, m after it
  stop,       \* where the caller of Stop is
  halted,     \* the client that Stop stops
  responses,  \* h.responses, each response named by its event
  owed,       \* owed[e]: responses that the Fire of e has still to post
  program     \* "panicked" after a send on, or a close of, a closed channel

txVars == <<curr, made, adder, adding, via, flusher, held, stop, halted,
            responses, owed, program>>

VARIABLES     \* history, only read by the properties
  handed,     \* events given to Add or SendResponse
  accepted,   \* events that Add put on a Work channel
  sent,       \* events whose Fire has returned
  answered,   \* answered[e]: responses generated for e, dropped ones included
  awaited     \* awaited[f]: events in flight when f called Flush, kept until
              \* no Flush is running

history == <<handed, accepted, sent, answered, awaited>>
vars == <<musterVars, txVars, history>>

AdderStates == {"idle", "rlock", "send", "respond"}
FlusherStates == {"idle", "lock", "swap", "close", "wait"}
StopStates == {"no", "close", "wait", "done"}

TypeOK ==
  /\ MusterTypeOK
  /\ curr \in Musters /\ made \in Musters /\ halted \in Musters
  /\ adder \in [Adders -> AdderStates]
  /\ adding \in [Adders -> Events \cup {NoEvent}]
  /\ via \in [Adders -> Musters \cup {0}]
  /\ flusher \in [Flushers -> FlusherStates]
  /\ held \in [Flushers -> Musters]
  /\ stop \in StopStates
  /\ responses \in Seq(Events)
  /\ owed \in [Events -> Nat]
  /\ program \in {"running", "panicked"}
  /\ handed \subseteq Events /\ accepted \subseteq Events /\ sent \subseteq Events
  /\ answered \in [Events -> Nat]
  /\ awaited \in [Flushers -> SUBSET Events]

\* Honeycomb.Start has returned.
Init ==
  /\ MusterInit
  /\ curr = 1 /\ made = 1 /\ halted = 1
  /\ adder = [a \in Adders |-> "idle"]
  /\ adding = [a \in Adders |-> NoEvent]
  /\ via = [a \in Adders |-> 0]
  /\ flusher = [f \in Flushers |-> "idle"]
  /\ held = [f \in Flushers |-> 1]
  /\ stop = "no"
  /\ responses = <<>>
  /\ owed = [e \in Events |-> 0]
  /\ program = "running"
  /\ handed = {} /\ accepted = {} /\ sent = {}
  /\ answered = [e \in Events |-> 0]
  /\ awaited = [f \in Flushers |-> {}]

-----------------------------------------------------------------------------
(***************************************************************************)
(* musterLock is held where its holders are: a read lock by each adder in  *)
(* "send", the write lock by the flusher in "swap".  A flusher in "swap"   *)
(* keeps new readers out but has the lock only when the readers are gone.  *)
(***************************************************************************)
Readers == {a \in Adders : adder[a] = "send"}
Writers == {f \in Flushers : flusher[f] = "swap"}

(***************************************************************************)
(* The channel of the responses.  Unbuffered, a send proceeds only if the  *)
(* reader is waiting for it, so there a send may succeed or fail.          *)
(***************************************************************************)
ResponseCapacity == 2 * conf.PendingWorkCapacity
ResponsesClosed == stop = "done"
ResponseRoom ==
  \/ Len(responses) < ResponseCapacity
  \/ ResponseCapacity = 0 /\ responses = <<>>
ResponsesFull == Len(responses) >= ResponseCapacity

\* writeToResponse(h.responses, the response for e, h.BlockOnResponse)
PostResponse(e) ==
  \/ /\ ResponsesClosed
     /\ program' = "panicked"
     /\ UNCHANGED <<responses, answered>>
  \/ /\ ~ResponsesClosed
     /\ \/ ResponseRoom /\ responses' = Append(responses, e)
        \/ ~conf.BlockOnResponse /\ ResponsesFull /\ UNCHANGED responses
     /\ answered' = [answered EXCEPT ![e] = @ + 1]
     /\ UNCHANGED program

-----------------------------------------------------------------------------
AddCall(a, e) ==
  /\ stop = "no"
  /\ adder[a] = "idle"
  /\ e \notin handed
  /\ adder' = [adder EXCEPT ![a] = "rlock"]
  /\ adding' = [adding EXCEPT ![a] = e]
  /\ handed' = handed \cup {e}
  /\ UNCHANGED <<musterVars, curr, made, via, flusher, held, stop, halted,
                 responses, owed, program, accepted, sent, answered, awaited>>

\* libhoney answers a sampled-out event by SendResponse, without Add.
SendResponse(a, e) ==
  /\ stop = "no"
  /\ adder[a] = "idle"
  /\ e \notin handed
  /\ adder' = [adder EXCEPT ![a] = "respond"]
  /\ adding' = [adding EXCEPT ![a] = e]
  /\ handed' = handed \cup {e}
  /\ UNCHANGED <<musterVars, curr, made, via, flusher, held, stop, halted,
                 responses, owed, program, accepted, sent, answered, awaited>>

\* h.musterLock.RLock(), then h.muster.Work is read.
AddRLock(a) ==
  /\ adder[a] = "rlock"
  /\ Writers = {}
  /\ adder' = [adder EXCEPT ![a] = "send"]
  /\ via' = [via EXCEPT ![a] = curr]
  /\ UNCHANGED <<musterVars, curr, made, adding, flusher, held, stop, halted,
                 responses, owed, program, history>>

\* A wrong AddSend: the select sends ev and yet reports an overflow.
AddSendReportsOverflow(a) ==
  /\ adder[a] = "send"
  /\ via[a] \notin closed
  /\ Room(via[a])
  /\ Enqueue(via[a], adding[a])
  /\ adder' = [adder EXCEPT ![a] = "respond"]
  /\ via' = [via EXCEPT ![a] = 0]
  /\ UNCHANGED <<curr, made, adding, flusher, held, stop, halted, responses, owed,
                 program, history>>

\* Work <- ev, which may have waited, and the deferred RUnlock.
AddSend(a) ==
  /\ adder[a] = "send"
  /\ \/ /\ via[a] \in closed
        /\ program' = "panicked"
        /\ UNCHANGED <<musterVars, adder, adding, via, accepted>>
     \/ /\ via[a] \notin closed
        /\ Room(via[a])
        /\ Enqueue(via[a], adding[a])
        /\ accepted' = accepted \cup {adding[a]}
        /\ adder' = [adder EXCEPT ![a] = "idle"]
        /\ adding' = [adding EXCEPT ![a] = NoEvent]
        /\ via' = [via EXCEPT ![a] = 0]
        /\ UNCHANGED program
  /\ UNCHANGED <<curr, made, flusher, held, stop, halted, responses, owed,
                 handed, sent, answered, awaited>>

(***************************************************************************)
(* The default branch of tryAdd's select: queue overflow.  Unbuffered, the *)
(* worker may have been away from its select.                              *)
(***************************************************************************)
AddFull(a) ==
  /\ adder[a] = "send"
  /\ ~conf.BlockOnSend
  /\ via[a] \notin closed
  /\ Len(work[via[a]]) >= conf.PendingWorkCapacity
  /\ adder' = [adder EXCEPT ![a] = "respond"]
  /\ via' = [via EXCEPT ![a] = 0]
  /\ UNCHANGED <<musterVars, curr, made, adding, flusher, held, stop, halted,
                 responses, owed, program, history>>

\* Add's queue overflow response, or the response given to SendResponse.
Respond(a) ==
  /\ adder[a] = "respond"
  /\ PostResponse(adding[a])
  /\ adder' = [adder EXCEPT ![a] = "idle"]
  /\ adding' = [adding EXCEPT ![a] = NoEvent]
  /\ UNCHANGED <<musterVars, curr, made, via, flusher, held, stop, halted,
                 owed, handed, accepted, sent, awaited>>

-----------------------------------------------------------------------------
\* A wrong Collect: createMuster passes no BatchTimeout on.
CollectNoTimer(m) ==
  /\ WorkerRecv(m) \/ WorkerClosed(m)
  /\ UNCHANGED <<txVars, history>>

\* The worker goroutine of client m, up to the firing of a batch.
Collect(m) ==
  /\ WorkerRecv(m) \/ BatchTimer(m) \/ WorkerClosed(m)
  /\ UNCHANGED <<txVars, history>>

\* go batch.Fire(): n says how many responses it will post for each event.
GoFire(m) ==
  /\ WorkerFire(m)
  /\ \E n \in [batch[m] -> Answers] :
        owed' = [e \in Events |-> IF e \in batch[m] THEN n[e] ELSE owed[e]]
  /\ UNCHANGED <<curr, made, adder, adding, via, flusher, held, stop, halted,
                 responses, program, history>>

\* A wrong FirePost: it answers an event again after its last response.
FirePostAgain(m, b, e) ==
  /\ b \in firing[m]
  /\ e \in b
  /\ PostResponse(e)
  /\ owed' = [owed EXCEPT ![e] = @ - 1]
  /\ UNCHANGED <<musterVars, curr, made, adder, adding, via, flusher, held, stop,
                 halted, handed, accepted, sent, awaited>>

\* Fire enqueues a response for an event of its batch b.
FirePost(m, b, e) ==
  /\ b \in firing[m]
  /\ e \in b
  /\ owed[e] > 0
  /\ PostResponse(e)
  /\ owed' = [owed EXCEPT ![e] = @ - 1]
  /\ UNCHANGED <<musterVars, curr, made, adder, adding, via, flusher, held, stop,
                 halted, handed, accepted, sent, awaited>>

\* Fire returns.
FireDone(m, b) ==
  /\ \A e \in b : owed[e] = 0
  /\ FireEnd(m, b)
  /\ sent' = sent \cup b
  /\ UNCHANGED <<txVars, handed, accepted, answered, awaited>>

-----------------------------------------------------------------------------
\* Flush is called: newMuster := h.createMuster(); newMuster.Start()
FlushStart(f) ==
  /\ stop = "no"
  /\ flusher[f] = "idle"
  /\ made < MaxMusters
  /\ MusterStart(made + 1)
  /\ made' = made + 1
  /\ held' = [held EXCEPT ![f] = made + 1]
  /\ flusher' = [flusher EXCEPT ![f] = "lock"]
  /\ awaited' = [awaited EXCEPT ![f] = accepted \ sent]
  /\ UNCHANGED <<curr, adder, adding, via, stop, halted, responses, owed, program,
                 handed, accepted, sent, answered>>

\* h.musterLock.Lock(), up to the wait for the readers.
FlushLock(f) ==
  /\ flusher[f] = "lock"
  /\ Writers = {}
  /\ flusher' = [flusher EXCEPT ![f] = "swap"]
  /\ UNCHANGED <<musterVars, curr, made, adder, adding, via, held, stop, halted,
                 responses, owed, program, history>>

\* A wrong FlushSwap: the lock does not wait for the readers.
FlushSwapUnlocked(f) ==
  /\ flusher[f] = "swap"
  /\ curr' = held[f]
  /\ held' = [held EXCEPT ![f] = curr]
  /\ flusher' = [flusher EXCEPT ![f] = "close"]
  /\ UNCHANGED <<musterVars, made, adder, adding, via, stop, halted, responses,
                 owed, program, history>>

\* m := h.muster; h.muster = newMuster; h.musterLock.Unlock()
FlushSwap(f) ==
  /\ flusher[f] = "swap"
  /\ Readers = {}
  /\ curr' = held[f]
  /\ held' = [held EXCEPT ![f] = curr]
  /\ flusher' = [flusher EXCEPT ![f] = "close"]
  /\ UNCHANGED <<musterVars, made, adder, adding, via, stop, halted, responses,
                 owed, program, history>>

\* A wrong FlushClose: Work is left open.
FlushCloseLeftOpen(f) ==
  /\ flusher[f] = "close"
  /\ flusher' = [flusher EXCEPT ![f] = "wait"]
  /\ UNCHANGED <<musterVars, curr, made, adder, adding, via, held, stop, halted,
                 responses, owed, program, history>>

\* m.Stop() closes Work ...
FlushClose(f) ==
  /\ flusher[f] = "close"
  /\ CloseWork(held[f])
  /\ program' = IF held[f] \in closed THEN "panicked" ELSE "running"
  /\ flusher' = [flusher EXCEPT ![f] = "wait"]
  /\ UNCHANGED <<curr, made, adder, adding, via, held, stop, halted, responses,
                 owed, history>>

\* Only history: the last Flush to return has nothing left to wait for.
Forget(f) ==
  awaited' = IF \A g \in Flushers \ {f} : flusher[g] = "idle"
             THEN [g \in Flushers |-> {}] ELSE awaited

\* A wrong FlushReturn: the client is stopped in the background.
FlushReturnEarly(f) ==
  /\ flusher[f] = "wait"
  /\ flusher' = [flusher EXCEPT ![f] = "idle"]
  /\ Forget(f)
  /\ UNCHANGED <<musterVars, curr, made, adder, adding, via, held, stop, halted,
                 responses, owed, program, handed, accepted, sent, answered>>

\* ... and waits for the worker and its Fires; Flush returns.
FlushReturn(f) ==
  /\ flusher[f] = "wait"
  /\ Drained(held[f])
  /\ flusher' = [flusher EXCEPT ![f] = "idle"]
  /\ Forget(f)
  /\ UNCHANGED <<musterVars, curr, made, adder, adding, via, held, stop, halted,
                 responses, owed, program, handed, accepted, sent, answered>>

-----------------------------------------------------------------------------
\* Stop reads h.muster, without musterLock.
StopCall ==
  /\ stop = "no"
  /\ \A a \in Adders : adder[a] = "idle"
  /\ StopDuringFlush \/ \A f \in Flushers : flusher[f] = "idle"
  /\ halted' = curr
  /\ stop' = "close"
  /\ UNCHANGED <<musterVars, curr, made, adder, adding, via, flusher, held,
                 responses, owed, program, history>>

\* h.muster.Stop() closes Work ...
StopClose ==
  /\ stop = "close"
  /\ CloseWork(halted)
  /\ program' = IF halted \in closed THEN "panicked" ELSE "running"
  /\ stop' = "wait"
  /\ UNCHANGED <<curr, made, adder, adding, via, flusher, held, halted, responses,
                 owed, history>>

\* A wrong StopReturn: the responses are closed without waiting for the Fires.
StopReturnEarly ==
  /\ stop = "wait"
  /\ stop' = "done"
  /\ UNCHANGED <<musterVars, curr, made, adder, adding, via, flusher, held, halted,
                 responses, owed, program, history>>

\* ... and waits for the worker and its Fires; then close(h.responses).
StopReturn ==
  /\ stop = "wait"
  /\ Drained(halted)
  /\ stop' = "done"
  /\ UNCHANGED <<musterVars, curr, made, adder, adding, via, flusher, held, halted,
                 responses, owed, program, history>>

\* A wrong StartAgain: the client that was stopped stays h.muster.
StartAgainOldClient ==
  /\ stop = "done"
  /\ made < MaxMusters
  /\ MusterStart(made + 1)
  /\ made' = made + 1
  /\ responses' = <<>>
  /\ stop' = "no"
  /\ UNCHANGED <<curr, adder, adding, via, flusher, held, halted, owed, program, history>>

\* Start after Stop: a new channel, a new client.  Who still has the channel of
\* before may read what is left in it.
StartAgain ==
  /\ stop = "done"
  /\ made < MaxMusters
  /\ MusterStart(made + 1)
  /\ made' = made + 1
  /\ curr' = made + 1
  /\ responses' = <<>>
  /\ stop' = "no"
  /\ UNCHANGED <<adder, adding, via, flusher, held, halted, owed, program, history>>

\* The program reads a response from TxResponses().
Consume ==
  /\ responses # <<>>
  /\ responses' = Tail(responses)
  /\ UNCHANGED <<musterVars, curr, made, adder, adding, via, flusher, held, stop,
                 halted, owed, program, history>>

\* The program has ended, by a panic or with all goroutines gone.
Terminated ==
  /\ \/ program = "panicked"
     \/ /\ stop = "done"
        /\ responses = <<>>
        /\ \A f \in Flushers : flusher[f] = "idle"
  /\ UNCHANGED vars

-----------------------------------------------------------------------------
AddStep(a) == AddRLock(a) \/ AddSend(a) \/ AddFull(a) \/ Respond(a)
FireStep(m) == \E b \in firing[m] : FireDone(m, b) \/ \E e \in b : FirePost(m, b, e)
FlushStep(f) == FlushLock(f) \/ FlushSwap(f) \/ FlushClose(f) \/ FlushReturn(f)

Running == program = "running"

Next ==
  \/ \E a \in Adders, e \in Events : Running /\ AddCall(a, e)
  \/ \E a \in Adders, e \in Events : Running /\ SendResponse(a, e)
  \/ \E a \in Adders : Running /\ AddRLock(a)
  \/ \E a \in Adders : Running /\ AddSend(a)
  \/ \E a \in Adders : Running /\ AddFull(a)
  \/ \E a \in Adders : Running /\ Respond(a)
  \/ \E m \in Musters : Running /\ Collect(m)
  \/ \E m \in Musters : Running /\ GoFire(m)
  \/ \E m \in Musters : Running /\ FireStep(m)
  \/ \E f \in Flushers : Running /\ FlushStart(f)
  \/ \E f \in Flushers : Running /\ FlushLock(f)
  \/ \E f \in Flushers : Running /\ FlushSwap(f)
  \/ \E f \in Flushers : Running /\ FlushClose(f)
  \/ \E f \in Flushers : Running /\ FlushReturn(f)
  \/ Running /\ StopCall
  \/ Running /\ StopClose
  \/ Running /\ StopReturn
  \/ Running /\ StartAgain
  \/ Running /\ Consume
  \/ Terminated

Spec == Init /\ [][Next]_vars

(***************************************************************************)
(* Every goroutine that can run does: the scheduler is fair, a Fire ends   *)
(* because each request has a timeout and at most one retry, and the       *)
(* program keeps reading the responses, as it must when it asks to block   *)
(* on them.  Nothing obliges the program to call Add, Flush, Stop or Start.*)
(***************************************************************************)
Fairness ==
  /\ \A a \in Adders : WF_vars(Running /\ AddStep(a))
  /\ \A m \in Musters : /\ WF_vars(Running /\ Collect(m))
                        /\ WF_vars(Running /\ GoFire(m))
                        /\ WF_vars(Running /\ FireStep(m))
  /\ \A f \in Flushers : WF_vars(Running /\ FlushStep(f))
  /\ WF_vars(Running /\ (StopClose \/ StopReturn))
  /\ WF_vars(Running /\ Consume)

FairSpec == Spec /\ Fairness

-----------------------------------------------------------------------------
(***************************************************************************)
(* No send on a closed channel and no second close, whatever Add, Flush,   *)
(* Fire and Stop do around each other: the swap of h.muster under          *)
(* musterLock (tryAdd, Flush) and the close of h.responses in Stop.        *)
(***************************************************************************)
NoPanic == program = "running"

\* Where an accepted event that is not yet sent can be.
Places(e) ==
  UNION {{<<"work", m, i>> : i \in {j \in DOMAIN work[m] : work[m][j] = e}}
           \cup (IF e \in batch[m] THEN {<<"batch", m>>} ELSE {})
           \cup {<<"fire", m, b>> : b \in {c \in firing[m] : e \in c}}
         : m \in Musters}

(***************************************************************************)
(* An event that Add accepted is in exactly one queue, batch or Fire of    *)
(* one client until its Fire returns, across any number of Flush swaps:    *)
(* none is lost with a replaced client and none is sent by two.            *)
(***************************************************************************)
EventInOnePlace ==
  /\ sent \subseteq accepted
  /\ \A e \in Events :
        Cardinality(Places(e)) = IF e \in accepted \ sent THEN 1 ELSE 0

(***************************************************************************)
(* A client with work left is the current one or one that a running Flush  *)
(* or Stop is going to wait for: Flush abandons none.                      *)
(***************************************************************************)
NoOrphan ==
  \A m \in Musters :
     \/ worker[m] \in {"none", "done"} /\ firing[m] = {}
     \/ (m = curr /\ stop # "done")
     \/ \E f \in Flushers : flusher[f] # "idle" /\ held[f] = m

(***************************************************************************)
(* The transmission keeps the promises of the interface Sender: one        *)
(* response per event handed over, Stop returns only when what was in      *)
(* flight has been sent, and so does Flush, where of several Flushes that  *)
(* overlap the last one does, with everything that any of them found.      *)
(***************************************************************************)
Promise == INSTANCE Sender WITH
  pending <- accepted \ sent,
  answers <- answered,
  flushing <- {f \in Flushers : flusher[f] # "idle"},
  awaited <- (UNION {awaited[f] : f \in Flushers}) \ sent,
  stop <- IF stop = "close" THEN "wait" ELSE stop
ImplementsSender == Promise!Spec

(***************************************************************************)
(* The batches in flight, counted over all clients, stay within the limit  *)
(* of one client, and one more for each Flush that is running, which waits *)
(* for the batches of the client it replaced.                              *)
(***************************************************************************)
InFlight == UNION {{<<m, b>> : b \in firing[m]} : m \in Musters}
InFlightBound ==
  conf.MaxConcurrentBatches # 0 =>
    Cardinality(InFlight) <=
      (1 + Cardinality({f \in Flushers : flusher[f] # "idle"})) * conf.MaxConcurrentBatches

(***************************************************************************)
(* Every call of Add, SendResponse, Flush and Stop returns, with the       *)
(* blocking options too: tryAdd waits for room with the read lock held,    *)
(* Flush for that lock, further Adds for Flush, Stop for every request.    *)
(***************************************************************************)
CallsReturn ==
  /\ \A a \in Adders : adder[a] # "idle" ~> adder[a] = "idle"
  /\ \A f \in Flushers : flusher[f] # "idle" ~> flusher[f] = "idle"
  /\ stop \in {"close", "wait"} ~> stop = "done"

\* With a BatchTimeout, an accepted event is sent even if the batch it is in
\* never fills and nobody flushes.
AllSent == \A e \in Events : conf.BatchTimeout /\ e \in accepted ~> e \in sent

\* When responses are not to be dropped, the program reads one for each event
\* it handed over, the events of the last batches before Stop included.
AllRead ==
  \A e \in Events :
     conf.BlockOnResponse /\ e \in handed ~>
       (answered[e] > 0 /\ \A i \in DOMAIN responses : responses[i] # e)

(***************************************************************************)
(* sender.go:13: Stop "blocks until everything in flight has been sent".   *)
(***************************************************************************)
StopSendsAll == [][stop = "wait" /\ stop' = "done" => accepted \subseteq sent]_vars

-----------------------------------------------------------------------------
(***************************************************************************)
(* sender.go:18: Flush "blocks until everything in flight has been sent".  *)
(* The code does that for one goroutine, see ImplementsSender, but not     *)
(* when several are in Flush.                                              *)
(***************************************************************************)
FlushSendsAll ==
  [][\A f \in Flushers : flusher[f] = "wait" /\ flusher'[f] = "idle"
        => awaited[f] \subseteq sent]_vars

=============================================================================
