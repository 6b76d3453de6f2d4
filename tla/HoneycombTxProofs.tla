------------------------- MODULE HoneycombTxProofs -------------------------
(***************************************************************************)
(* What is proved of HoneycombTx, for any number of events, goroutines and *)
(* Flushes and any capacities.                                             *)
(***************************************************************************)
EXTENDS HoneycombTx, SequenceTheorems, TLAPS

-----------------------------------------------------------------------------
(***************************************************************************)
(* Types.  TypeOK alone is not inductive: an Add that is under way has an  *)
(* event and, while it holds the read lock, a client to send it to.        *)
(***************************************************************************)
TypeInv ==
  /\ TypeOK
  /\ \A a \in Adders :
        /\ adder[a] # "idle" => adding[a] \in Events
        /\ adder[a] = "send" => via[a] \in Musters

\* The steps that are not stuttering, by who takes them.
LEMMA NextCases ==
  ASSUME Next
  PROVE  \/ \E a \in Adders, e \in Events : AddCall(a, e) \/ SendResponse(a, e)
         \/ \E a \in Adders : AddStep(a)
         \/ \E m \in Musters : Collect(m) \/ GoFire(m) \/ FireStep(m)
         \/ \E f \in Flushers : FlushStart(f) \/ FlushStep(f)
         \/ StopCall \/ StopClose \/ StopReturn \/ StartAgain
         \/ Consume
         \/ Terminated
<1> QED
  BY DEF Next, AddStep, FlushStep

\* The initial state has the types, for any choice of the constants.
LEMMA TypeInit == Init => TypeInv
<1> SUFFICES ASSUME Init PROVE TypeInv
  OBVIOUS
<1>1. 1 \in Musters
  BY MusterAssumption DEF Musters
<1>2. MusterTypeOK
  BY DEF Init, MusterInit, MusterTypeOK, WorkerStates
<1>3. TypeOK
  BY <1>1, <1>2 DEF Init, TypeOK, AdderStates, FlusherStates, StopStates
<1> QED
  BY <1>3 DEF Init, TypeInv

\* The operations of a muster client preserve the types of its state.
LEMMA EnqueueType ==
  ASSUME MusterTypeOK, NEW m \in Musters, NEW e \in Events, Enqueue(m, e)
  PROVE  MusterTypeOK'
<1> QED
  BY DEF Enqueue, MusterTypeOK

LEMMA WorkerType ==
  ASSUME MusterTypeOK, NEW m \in Musters,
         WorkerRecv(m) \/ BatchTimer(m) \/ WorkerClosed(m) \/ WorkerFire(m)
  PROVE  MusterTypeOK'
<1> USE DEF MusterTypeOK, WorkerStates
<1>1. CASE WorkerRecv(m)
  <2>1. work[m] \in Seq(Events) /\ work[m] # <<>>
    BY <1>1 DEF WorkerRecv
  <2>2. Head(work[m]) \in Events /\ Tail(work[m]) \in Seq(Events)
    BY <2>1
  <2> QED
    BY <1>1, <2>2 DEF WorkerRecv
<1>2. CASE BatchTimer(m)
  BY <1>2 DEF BatchTimer
<1>3. CASE WorkerClosed(m)
  BY <1>3 DEF WorkerClosed
<1>4. CASE WorkerFire(m)
  BY <1>4 DEF WorkerFire
<1> QED
  BY <1>1, <1>2, <1>3, <1>4

LEMMA FireEndType ==
  ASSUME MusterTypeOK, NEW m \in Musters, NEW b, FireEnd(m, b)
  PROVE  MusterTypeOK'
<1> QED
  BY DEF FireEnd, MusterTypeOK

\* Posting a response preserves the types of what it changes.
LEMMA PostResponseType ==
  ASSUME NEW e \in Events, PostResponse(e),
         responses \in Seq(Events), answered \in [Events -> Nat],
         program \in {"running", "panicked"}
  PROVE  /\ responses' \in Seq(Events)
         /\ answered' \in [Events -> Nat]
         /\ program' \in {"running", "panicked"}
<1>1. responses' = responses \/ responses' = Append(responses, e)
  BY DEF PostResponse
<1>2. answered' \in [Events -> Nat]
  BY DEF PostResponse
<1>3. program' \in {"running", "panicked"}
  BY DEF PostResponse
<1>4. responses' \in Seq(Events)
  BY <1>1
<1> QED
  BY <1>2, <1>3, <1>4

LEMMA TypeNext == TypeInv /\ [Next]_vars => TypeInv'
<1> SUFFICES ASSUME TypeInv, [Next]_vars PROVE TypeInv'
  OBVIOUS
<1> USE DEF TypeInv, TypeOK, AdderStates, FlusherStates, StopStates
<1>1. ASSUME NEW a \in Adders, NEW e \in Events, AddCall(a, e) \/ SendResponse(a, e)
      PROVE  TypeInv'
  <2>1. CASE AddCall(a, e)
    BY <2>1 DEF AddCall, musterVars, MusterTypeOK
  <2>2. CASE SendResponse(a, e)
    BY <2>2 DEF SendResponse, musterVars, MusterTypeOK
  <2> QED
    BY <1>1, <2>1, <2>2
<1>2. ASSUME NEW a \in Adders, AddRLock(a) \/ AddFull(a)
      PROVE  TypeInv'
  <2>1. CASE AddRLock(a)
    BY <2>1 DEF AddRLock, musterVars, history, MusterTypeOK
  <2>2. CASE AddFull(a)
    BY <2>2 DEF AddFull, musterVars, history, MusterTypeOK
  <2> QED
    BY <1>2, <2>1, <2>2
<1>3. ASSUME NEW a \in Adders, AddSend(a) PROVE TypeInv'
  <2>0. adder[a] = "send"
    BY <1>3 DEF AddSend
  <2>1. adding[a] \in Events /\ via[a] \in Musters
    BY <2>0
  <2>2. CASE via[a] \in closed /\ program' = "panicked"
             /\ UNCHANGED <<musterVars, adder, adding, via, accepted>>
    BY <1>3, <2>2 DEF AddSend, musterVars, MusterTypeOK
  <2>3. CASE via[a] \notin closed /\ Enqueue(via[a], adding[a])
             /\ accepted' = accepted \cup {adding[a]}
             /\ adder' = [adder EXCEPT ![a] = "idle"]
             /\ adding' = [adding EXCEPT ![a] = NoEvent]
             /\ via' = [via EXCEPT ![a] = 0]
             /\ UNCHANGED program
    <3>1. MusterTypeOK'
      BY <1>3, <2>1, <2>3, EnqueueType DEF AddSend
    <3> QED
      BY <1>3, <2>1, <2>3, <3>1 DEF AddSend
  <2> QED
    BY <1>3, <2>2, <2>3 DEF AddSend
<1>4. ASSUME NEW a \in Adders, Respond(a) PROVE TypeInv'
  <2>1. adding[a] \in Events
    BY <1>4 DEF Respond
  <2>2. /\ responses' \in Seq(Events)
        /\ answered' \in [Events -> Nat]
        /\ program' \in {"running", "panicked"}
    BY <1>4, <2>1, PostResponseType DEF Respond
  <2> QED
    BY <1>4, <2>2 DEF Respond, musterVars, MusterTypeOK
<1>5. ASSUME NEW m \in Musters, Collect(m) PROVE TypeInv'
  <2>1. MusterTypeOK'
    BY <1>5, WorkerType DEF Collect
  <2> QED
    BY <1>5, <2>1 DEF Collect, txVars, history
<1>6. ASSUME NEW m \in Musters, GoFire(m) PROVE TypeInv'
  <2>1. MusterTypeOK'
    BY <1>6, WorkerType DEF GoFire
  <2>2. owed' \in [Events -> Nat]
    BY <1>6, HoneycombAssumption DEF GoFire
  <2> QED
    BY <1>6, <2>1, <2>2 DEF GoFire, history
<1>7. ASSUME NEW m \in Musters, FireStep(m) PROVE TypeInv'
  <2>1. PICK b \in firing[m] : FireDone(m, b) \/ \E e \in b : FirePost(m, b, e)
    BY <1>7 DEF FireStep
  <2>2. b \subseteq Events
    BY <2>1 DEF MusterTypeOK
  <2>3. CASE FireDone(m, b)
    <3>1. MusterTypeOK'
      BY <2>3, FireEndType DEF FireDone
    <3> QED
      BY <2>2, <2>3, <3>1 DEF FireDone, txVars
  <2>4. ASSUME NEW e \in b, FirePost(m, b, e) PROVE TypeInv'
    <3>1. e \in Events
      BY <2>2
    <3>2. owed' \in [Events -> Nat]
      BY <2>4, <3>1 DEF FirePost
    <3> QED
      BY <2>4, <3>1, <3>2, PostResponseType DEF FirePost, musterVars, MusterTypeOK
  <2> QED
    BY <2>1, <2>3, <2>4
<1>8. ASSUME NEW f \in Flushers, FlushStart(f) PROVE TypeInv'
  <2>1. made + 1 \in Musters
    BY <1>8, MusterAssumption DEF FlushStart, Musters
  <2>2. MusterTypeOK'
    BY <1>8, <2>1 DEF FlushStart, MusterStart, MusterTypeOK, WorkerStates
  <2> QED
    BY <1>8, <2>1, <2>2 DEF FlushStart
<1>9. ASSUME NEW f \in Flushers, FlushStep(f) PROVE TypeInv'
  <2> USE DEF musterVars, history, MusterTypeOK
  <2>1. CASE FlushLock(f)
    BY <2>1 DEF FlushLock
  <2>2. CASE FlushSwap(f)
    BY <2>2 DEF FlushSwap
  <2>3. CASE FlushClose(f)
    BY <2>3 DEF FlushClose, CloseWork
  <2>4. CASE FlushReturn(f)
    BY <2>4 DEF FlushReturn, Forget
  <2> QED
    BY <1>9, <2>1, <2>2, <2>3, <2>4 DEF FlushStep
<1>10. CASE StopCall \/ StopClose \/ StopReturn
  <2> USE DEF musterVars, history, MusterTypeOK
  <2>1. CASE StopCall
    BY <2>1 DEF StopCall
  <2>2. CASE StopClose
    BY <2>2 DEF StopClose, CloseWork
  <2>3. CASE StopReturn
    BY <2>3 DEF StopReturn
  <2> QED
    BY <1>10, <2>1, <2>2, <2>3
<1>11. CASE Consume
  <2>1. responses' \in Seq(Events)
    BY <1>11 DEF Consume
  <2> QED
    BY <1>11, <2>1 DEF Consume, musterVars, history, MusterTypeOK
<1>12. CASE StartAgain
  <2>1. made + 1 \in Musters
    BY <1>12, MusterAssumption DEF StartAgain, Musters
  <2>2. MusterTypeOK'
    BY <1>12, <2>1 DEF StartAgain, MusterStart, MusterTypeOK, WorkerStates
  <2> QED
    BY <1>12, <2>1, <2>2 DEF StartAgain, history
<1>13. CASE UNCHANGED vars
  BY <1>13 DEF vars, musterVars, txVars, history, MusterTypeOK
<1> QED
  BY <1>1, <1>2, <1>3, <1>4, <1>5, <1>6, <1>7, <1>8, <1>9, <1>10, <1>11, <1>12, <1>13,
     NextCases
     DEF AddStep, Terminated

LEMMA TypeInvariant == Spec => []TypeInv
<1> QED
  BY TypeInit, TypeNext, PTL DEF Spec

\* Type correctness of the transmission's state.
THEOREM TypeCorrect == Spec => []TypeOK
<1>1. TypeInv => TypeOK
  BY DEF TypeInv
<1> QED
  BY <1>1, TypeInvariant, PTL

-----------------------------------------------------------------------------
(***************************************************************************)
(* Clients: the invariant from which NoPanic and NoOrphan follow.  A       *)
(* client has one owner who may close it: h.muster until Stop, or the      *)
(* Flush that created it and has not swapped it in, or the Flush that has  *)
(* swapped it out.  A client without owner has nothing left to do.         *)
(***************************************************************************)
Busy(f) == flusher[f] # "idle"
Quiet(m) == worker[m] \in {"none", "done"} /\ firing[m] = {}

\* Clients not yet made are untouched, so a new one starts empty.
FreshInv ==
  /\ curr <= made
  /\ \A f \in Flushers : Busy(f) => held[f] <= made
  /\ \A m \in Musters : m > made => Quiet(m) /\ m \notin closed

\* No client has two owners, and one still to be closed is open.
OwnerInv ==
  /\ \A f \in Flushers : Busy(f) => held[f] # curr
  /\ \A f, g \in Flushers : f # g /\ Busy(f) /\ Busy(g) => held[f] # held[g]
  /\ \A f \in Flushers : flusher[f] \in {"lock", "swap", "close"} => held[f] \notin closed
  /\ stop \in {"no", "close"} => curr \notin closed

\* An Add that holds the read lock sends to the current client.
ReaderInv == \A a \in Adders : adder[a] = "send" => via[a] = curr

\* Stop finds no call under way and stops the current client.
StopInv ==
  /\ stop # "no" => /\ halted = curr
                    /\ \A a \in Adders : adder[a] = "idle"
                    /\ \A f \in Flushers : ~Busy(f)
  /\ stop = "done" => Quiet(curr)

\* A client that still has work has an owner.
OwnedInv ==
  \A m \in Musters :
     Quiet(m) \/ m = curr \/ \E f \in Flushers : Busy(f) /\ held[f] = m

ClientInv ==
  /\ TypeInv /\ NoPanic
  /\ FreshInv /\ OwnerInv /\ ReaderInv /\ StopInv /\ OwnedInv

LEMMA ClientInit == Init => ClientInv
<1> SUFFICES ASSUME Init PROVE ClientInv
  OBVIOUS
<1>1. TypeInv
  BY TypeInit
<1>2. /\ \A m \in Musters : m # 1 => Quiet(m)
      /\ closed = {}
  BY DEF Init, MusterInit, Quiet
<1>3. FreshInv /\ OwnedInv
  BY <1>2 DEF Init, FreshInv, OwnedInv, Busy, Musters
<1>4. OwnerInv /\ ReaderInv /\ StopInv /\ NoPanic
  BY <1>2 DEF Init, OwnerInv, ReaderInv, StopInv, NoPanic, Busy
<1> QED
  BY <1>1, <1>3, <1>4 DEF ClientInv

\* A step of a client's goroutines closes no channel, and cannot wake a client
\* that has nothing left to do.
LEMMA QuietStays ==
  ASSUME TypeOK, NEW m \in Musters,
         \/ WorkerRecv(m) \/ BatchTimer(m) \/ WorkerClosed(m) \/ WorkerFire(m)
         \/ \E b \in firing[m] : FireEnd(m, b)
  PROVE  closed' = closed /\ \A n \in Musters : Quiet(n) => Quiet(n)'
<1> USE DEF Quiet, TypeOK, MusterTypeOK
<1>1. CASE WorkerRecv(m)
  BY <1>1 DEF WorkerRecv
<1>2. CASE BatchTimer(m)
  BY <1>2 DEF BatchTimer
<1>3. CASE WorkerClosed(m)
  BY <1>3 DEF WorkerClosed
<1>4. CASE WorkerFire(m)
  BY <1>4 DEF WorkerFire
<1>5. ASSUME NEW b \in firing[m], FireEnd(m, b)
      PROVE  closed' = closed /\ \A n \in Musters : Quiet(n) => Quiet(n)'
  BY <1>5 DEF FireEnd
<1> QED
  BY <1>1, <1>2, <1>3, <1>4, <1>5

\* So it preserves the invariant.
LEMMA ClientGoroutine ==
  ASSUME ClientInv, NoPanic', TypeInv',
         closed' = closed, \A n \in Musters : Quiet(n) => Quiet(n)',
         UNCHANGED <<curr, made, adder, via, flusher, held, stop, halted>>
  PROVE  ClientInv'
<1> USE DEF ClientInv, Busy
<1>0. curr \in Musters
  BY DEF TypeInv, TypeOK
<1>1. FreshInv'
  BY DEF FreshInv
<1>2. OwnerInv' /\ ReaderInv'
  BY DEF OwnerInv, ReaderInv
<1>3. StopInv'
  BY <1>0 DEF StopInv
<1>4. OwnedInv'
  BY DEF OwnedInv
<1> QED
  BY <1>1, <1>2, <1>3, <1>4

\* While the channel of the responses is open, posting one does not panic.
LEMMA PostSafe ==
  ASSUME NEW e \in Events, PostResponse(e), NoPanic, stop # "done"
  PROVE  NoPanic'
<1> QED
  BY DEF PostResponse, ResponsesClosed, NoPanic

\* The invariant is inductive if Stop is not called while a Flush is running.
LEMMA ClientNext ==
  ASSUME ~StopDuringFlush, ClientInv, [Next]_vars
  PROVE  ClientInv'
<1> USE DEF ClientInv, Busy
<1>0. TypeInv' /\ TypeOK
  BY TypeNext DEF TypeInv
<1>1. ASSUME NEW a \in Adders, NEW e \in Events, AddCall(a, e) \/ SendResponse(a, e)
      PROVE  ClientInv'
  <2>1. UNCHANGED <<musterVars, curr, made, via, flusher, held, stop, halted, program>>
        /\ stop = "no"
        /\ \A c \in Adders : adder'[c] = "send" => adder[c] = "send"
    BY <1>0, <1>1 DEF AddCall, SendResponse, TypeOK
  <2> QED
    BY <1>0, <2>1 DEF musterVars, FreshInv, OwnerInv, ReaderInv, StopInv, OwnedInv,
                      Quiet, NoPanic
<1>2. ASSUME NEW a \in Adders, AddRLock(a) PROVE ClientInv'
  <2>1. /\ UNCHANGED <<musterVars, curr, made, flusher, held, stop, halted, program>>
        /\ stop = "no"
        /\ \A c \in Adders : adder'[c] = "send" => adder[c] = "send" \/ c = a
        /\ \A c \in Adders : via'[c] = IF c = a THEN curr ELSE via[c]
    BY <1>0, <1>2 DEF AddRLock, TypeOK, StopInv, StopStates
  <2> QED
    BY <1>0, <2>1 DEF musterVars, FreshInv, OwnerInv, ReaderInv, StopInv, OwnedInv,
                      Quiet, NoPanic
<1>3. ASSUME NEW a \in Adders, AddSend(a) \/ AddFull(a) PROVE ClientInv'
  <2>1. adder[a] = "send" /\ stop = "no" /\ via[a] \notin closed
    BY <1>0, <1>3 DEF AddSend, AddFull, ReaderInv, OwnerInv, StopInv, TypeOK, StopStates
  <2>2. /\ UNCHANGED <<closed, worker, firing>>
        /\ UNCHANGED <<curr, made, flusher, held, stop, halted, program>>
        /\ \A c \in Adders : adder'[c] = "send" => c # a
        /\ \A c \in Adders : c # a => adder'[c] = adder[c] /\ via'[c] = via[c]
    <3>1. CASE AddSend(a)
      BY <1>0, <2>1, <3>1 DEF AddSend, Enqueue, TypeOK
    <3>2. CASE AddFull(a)
      BY <1>0, <2>1, <3>2 DEF AddFull, musterVars, TypeOK
    <3> QED
      BY <1>3, <3>1, <3>2
  <2> QED
    BY <1>0, <2>1, <2>2 DEF FreshInv, OwnerInv, ReaderInv, StopInv, OwnedInv,
                            Quiet, NoPanic
<1>4. ASSUME NEW a \in Adders, Respond(a) PROVE ClientInv'
  <2>1. adder[a] = "respond" /\ adding[a] \in Events /\ stop = "no"
    BY <1>0, <1>4 DEF Respond, StopInv, TypeInv, TypeOK, StopStates
  <2>2. NoPanic'
    BY <1>4, <2>1, PostSafe DEF Respond
  <2>3. /\ UNCHANGED <<musterVars, curr, made, via, flusher, held, stop, halted>>
        /\ \A c \in Adders : adder'[c] = "send" => adder[c] = "send"
    BY <1>0, <1>4 DEF Respond, TypeOK
  <2> QED
    BY <1>0, <2>1, <2>2, <2>3 DEF musterVars, FreshInv, OwnerInv, ReaderInv, StopInv,
                                  OwnedInv, Quiet
<1>5. ASSUME NEW m \in Musters, Collect(m) \/ GoFire(m) PROVE ClientInv'
  <2>1. UNCHANGED <<curr, made, adder, via, flusher, held, stop, halted, program>>
    BY <1>5 DEF Collect, GoFire, txVars, history
  <2>2. WorkerRecv(m) \/ BatchTimer(m) \/ WorkerClosed(m) \/ WorkerFire(m)
    BY <1>5 DEF Collect, GoFire
  <2>3. closed' = closed /\ \A n \in Musters : Quiet(n) => Quiet(n)'
    BY <1>0, <2>2, QuietStays
  <2>4. NoPanic'
    BY <2>1 DEF NoPanic
  <2> QED
    BY <1>0, <2>1, <2>3, <2>4, ClientGoroutine
<1>6. ASSUME NEW m \in Musters, FireStep(m) PROVE ClientInv'
  <2>1. PICK b \in firing[m] : FireDone(m, b) \/ \E e \in b : FirePost(m, b, e)
    BY <1>6 DEF FireStep
  <2>2. CASE FireDone(m, b)
    <3>1. UNCHANGED <<curr, made, adder, via, flusher, held, stop, halted, program>>
      BY <2>2 DEF FireDone, txVars
    <3>2. closed' = closed /\ \A n \in Musters : Quiet(n) => Quiet(n)'
      BY <1>0, <2>2, QuietStays DEF FireDone
    <3>3. NoPanic'
      BY <3>1 DEF NoPanic
    <3> QED
      BY <1>0, <3>1, <3>2, <3>3, ClientGoroutine
  <2>3. ASSUME NEW e \in b, FirePost(m, b, e) PROVE ClientInv'
    <3>1. UNCHANGED <<musterVars, curr, made, adder, via, flusher, held, stop, halted>>
      BY <2>3 DEF FirePost
    <3>2. closed' = closed /\ \A n \in Musters : Quiet(n) => Quiet(n)'
      BY <3>1 DEF musterVars, Quiet
    <3>3. e \in Events
      BY <1>0, <2>1 DEF TypeOK, MusterTypeOK
    <3>4. stop # "done"
      BY <2>1 DEF StopInv, OwnedInv, Quiet
    <3>5. NoPanic'
      BY <2>3, <3>3, <3>4, PostSafe DEF FirePost
    <3> QED
      BY <1>0, <3>1, <3>2, <3>5, ClientGoroutine
  <2> QED
    BY <2>1, <2>2, <2>3
<1>7. ASSUME NEW f \in Flushers, FlushStart(f) PROVE ClientInv'
  <2>1. /\ stop = "no" /\ flusher[f] = "idle"
        /\ made + 1 \in Musters /\ made' = made + 1
        /\ UNCHANGED <<closed, firing, curr, adder, via, stop, halted, program>>
        /\ flusher' = [flusher EXCEPT ![f] = "lock"]
        /\ held' = [held EXCEPT ![f] = made + 1]
        /\ worker' = [worker EXCEPT ![made + 1] = "recv"]
    BY <1>0, <1>7, MusterAssumption DEF FlushStart, MusterStart, TypeOK, Musters
  <2>2. \A g \in Flushers : /\ flusher'[g] = IF g = f THEN "lock" ELSE flusher[g]
                            /\ held'[g] = IF g = f THEN made + 1 ELSE held[g]
    BY <1>0, <2>1 DEF TypeOK
  <2>3. \A m \in Musters : m # made + 1 => Quiet(m)' = Quiet(m)
    BY <1>0, <2>1 DEF Quiet, TypeOK, MusterTypeOK
  <2>4. \A g \in Flushers : Busy(g) => held[g] # made + 1
    BY <1>0 DEF FreshInv, TypeOK, Musters
  <2>5. made + 1 # curr /\ made + 1 \notin closed
    BY <1>0, <2>1 DEF FreshInv, TypeOK, Musters
  <2>6. FreshInv'
    BY <1>0, <2>1, <2>2, <2>3 DEF FreshInv, TypeOK, Musters
  <2>7. OwnerInv'
    BY <1>0, <2>1, <2>2, <2>4, <2>5 DEF OwnerInv
  <2>8. ReaderInv' /\ StopInv' /\ NoPanic'
    BY <2>1 DEF ReaderInv, StopInv, NoPanic
  <2>9. OwnedInv'
    BY <1>0, <2>1, <2>2, <2>3 DEF OwnedInv
  <2> QED
    BY <1>0, <2>6, <2>7, <2>8, <2>9
<1>8. ASSUME NEW f \in Flushers, FlushLock(f) PROVE ClientInv'
  <2>1. /\ UNCHANGED <<musterVars, curr, made, adder, via, held, stop, halted, program>>
        /\ flusher[f] = "lock"
        /\ \A g \in Flushers : flusher'[g] = IF g = f THEN "swap" ELSE flusher[g]
    BY <1>0, <1>8 DEF FlushLock, TypeOK
  <2> QED
    BY <1>0, <2>1 DEF musterVars, FreshInv, OwnerInv, ReaderInv, StopInv, OwnedInv,
                      Quiet, NoPanic
<1>9. ASSUME NEW f \in Flushers, FlushSwap(f) PROVE ClientInv'
  <2>1. /\ UNCHANGED <<musterVars, made, adder, via, stop, halted, program>>
        /\ flusher[f] = "swap" /\ Readers = {} /\ curr' = held[f]
        /\ \A g \in Flushers : /\ flusher'[g] = IF g = f THEN "close" ELSE flusher[g]
                               /\ held'[g] = IF g = f THEN curr ELSE held[g]
    BY <1>0, <1>9 DEF FlushSwap, TypeOK
  <2>2. stop = "no"
    BY <1>0, <2>1 DEF StopInv
  <2>3. FreshInv'
    BY <2>1 DEF FreshInv, Quiet, musterVars
  <2>4. OwnerInv'
    BY <2>1, <2>2 DEF OwnerInv, musterVars
  <2>5. ReaderInv' /\ StopInv' /\ NoPanic'
    BY <2>1, <2>2 DEF ReaderInv, Readers, StopInv, NoPanic
  <2>6. OwnedInv'
    BY <2>1 DEF OwnedInv, Quiet, musterVars
  <2> QED
    BY <1>0, <2>3, <2>4, <2>5, <2>6
<1>10. ASSUME NEW f \in Flushers, FlushClose(f) PROVE ClientInv'
  <2>1. /\ UNCHANGED <<worker, firing, curr, made, adder, via, held, stop, halted>>
        /\ flusher[f] = "close" /\ closed' = closed \cup {held[f]}
        /\ program' = IF held[f] \in closed THEN "panicked" ELSE "running"
        /\ \A g \in Flushers : flusher'[g] = IF g = f THEN "wait" ELSE flusher[g]
    BY <1>0, <1>10 DEF FlushClose, CloseWork, TypeOK
  <2>2. NoPanic'
    BY <2>1 DEF OwnerInv, NoPanic
  <2>3. FreshInv'
    <3>1. \A g \in Flushers : Busy(g)' <=> Busy(g)
      BY <2>1 DEF Busy
    <3>2. held[f] <= made /\ held[f] \in Nat /\ made \in Nat
      BY <1>0, <2>1 DEF FreshInv, Busy, TypeOK, Musters
    <3>3. \A m \in Musters : m > made => m \notin closed'
      BY <2>1, <3>2 DEF FreshInv, Musters
    <3> QED
      BY <2>1, <3>1, <3>3 DEF FreshInv, Quiet
  <2>4. OwnerInv'
    BY <2>1 DEF OwnerInv
  <2>5. ReaderInv' /\ StopInv' /\ OwnedInv'
    BY <2>1 DEF ReaderInv, StopInv, OwnedInv, Quiet
  <2> QED
    BY <1>0, <2>2, <2>3, <2>4, <2>5
<1>11. ASSUME NEW f \in Flushers, FlushReturn(f) PROVE ClientInv'
  <2>1. /\ UNCHANGED <<musterVars, curr, made, adder, via, held, stop, halted, program>>
        /\ flusher[f] = "wait" /\ Quiet(held[f])
        /\ \A g \in Flushers : flusher'[g] = IF g = f THEN "idle" ELSE flusher[g]
    BY <1>0, <1>11 DEF FlushReturn, TypeOK, Drained, Quiet
  <2> QED
    BY <1>0, <2>1 DEF musterVars, FreshInv, OwnerInv, ReaderInv, StopInv, OwnedInv,
                      Quiet, NoPanic
<1>12. CASE StopCall
  <2>1. /\ UNCHANGED <<musterVars, curr, made, adder, via, flusher, held, program>>
        /\ stop = "no" /\ stop' = "close" /\ halted' = curr
        /\ \A a \in Adders : adder[a] = "idle"
        /\ \A f \in Flushers : ~Busy(f)
    BY <1>12 DEF StopCall
  <2> QED
    BY <1>0, <2>1 DEF musterVars, FreshInv, OwnerInv, ReaderInv, StopInv, OwnedInv,
                      Quiet, NoPanic
<1>13. CASE StopClose
  <2>1. /\ UNCHANGED <<worker, firing, curr, made, adder, via, flusher, held, halted>>
        /\ stop = "close" /\ stop' = "wait" /\ closed' = closed \cup {curr}
        /\ program' = IF curr \in closed THEN "panicked" ELSE "running"
    BY <1>13 DEF StopClose, CloseWork, StopInv
  <2>2. NoPanic' /\ OwnerInv'
    BY <2>1 DEF OwnerInv, NoPanic, StopInv
  <2>3. FreshInv'
    BY <1>0, <2>1 DEF FreshInv, Quiet, TypeOK, Musters
  <2>4. ReaderInv' /\ StopInv' /\ OwnedInv'
    BY <2>1 DEF ReaderInv, StopInv, OwnedInv, Quiet
  <2> QED
    BY <1>0, <2>2, <2>3, <2>4
<1>14. CASE StopReturn
  <2>1. /\ UNCHANGED <<musterVars, curr, made, adder, via, flusher, held, halted, program>>
        /\ stop = "wait" /\ stop' = "done" /\ Quiet(curr)
    BY <1>14 DEF StopReturn, StopInv, Drained, Quiet
  <2> QED
    BY <1>0, <2>1 DEF musterVars, FreshInv, OwnerInv, ReaderInv, StopInv, OwnedInv,
                      Quiet, NoPanic
<1>15. CASE StartAgain
  <2>1. /\ stop = "done" /\ stop' = "no"
        /\ made + 1 \in Musters /\ made' = made + 1 /\ curr' = made + 1
        /\ UNCHANGED <<closed, firing, adder, via, flusher, held, program>>
        /\ worker' = [worker EXCEPT ![made + 1] = "recv"]
    BY <1>0, <1>15, MusterAssumption DEF StartAgain, MusterStart, history, TypeOK, Musters
  <2>2. /\ Quiet(curr)
        /\ \A a \in Adders : adder[a] = "idle"
        /\ \A f \in Flushers : ~Busy(f)
    BY <2>1 DEF StopInv
  <2>3. \A m \in Musters : m # made + 1 => Quiet(m)' = Quiet(m)
    BY <1>0, <2>1 DEF Quiet, TypeOK, MusterTypeOK
  <2>4. made + 1 \notin closed
    BY <1>0, <2>1 DEF FreshInv, TypeOK, Musters
  <2>5. FreshInv'
    BY <1>0, <2>1, <2>2, <2>3 DEF FreshInv, TypeOK, Musters
  <2>6. OwnerInv' /\ ReaderInv' /\ StopInv' /\ NoPanic'
    BY <2>1, <2>2, <2>4 DEF OwnerInv, ReaderInv, StopInv, NoPanic
  <2>7. OwnedInv'
    BY <1>0, <2>1, <2>2, <2>3 DEF OwnedInv
  <2> QED
    BY <1>0, <2>5, <2>6, <2>7
<1>16. CASE Consume \/ UNCHANGED vars
  <2>1. UNCHANGED <<musterVars, curr, made, adder, via, flusher, held, stop, halted, program>>
    BY <1>16 DEF Consume, vars, txVars
  <2> QED
    BY <1>0, <2>1 DEF musterVars, FreshInv, OwnerInv, ReaderInv, StopInv, OwnedInv,
                      Quiet, NoPanic
<1> QED
  BY <1>1, <1>2, <1>3, <1>4, <1>5, <1>6, <1>7, <1>8, <1>9, <1>10, <1>11, <1>12,
     <1>13, <1>14, <1>15, <1>16, NextCases
     DEF AddStep, FlushStep, Terminated

LEMMA ClientInvariant ==
  ASSUME ~StopDuringFlush PROVE Spec => []ClientInv
<1>1. ClientInv /\ [Next]_vars => ClientInv'
  BY ClientNext
<1> QED
  BY ClientInit, <1>1, PTL DEF Spec

(***************************************************************************)
(* Add, any number of Flushes and Stop never send on or close a channel    *)
(* that was closed: the swap of h.muster under musterLock is enough, as    *)
(* long as no Flush is running when Stop is called.                        *)
(***************************************************************************)
THEOREM NeverPanics ==
  ASSUME ~StopDuringFlush PROVE Spec => []NoPanic
<1>1. ClientInv => NoPanic
  BY DEF ClientInv
<1> QED
  BY <1>1, ClientInvariant, PTL

\* No Flush leaves a client behind that still has events or requests.
THEOREM NoneOrphaned ==
  ASSUME ~StopDuringFlush PROVE Spec => []NoOrphan
<1>1. ClientInv => NoOrphan
  BY DEF ClientInv, OwnedInv, StopInv, NoOrphan, Quiet, Busy
<1> QED
  BY <1>1, ClientInvariant, PTL


-----------------------------------------------------------------------------
(***************************************************************************)
(* Events: an accepted event stays with a client until it is sent, and a   *)
(* client with nothing left to do has none.                                *)
(***************************************************************************)
Carries(m, e) ==
  \/ \E i \in DOMAIN work[m] : work[m][i] = e
  \/ e \in batch[m]
  \/ \E b \in firing[m] : e \in b

KeptInv == \A e \in accepted \ sent : \E m \in Musters : Carries(m, e)

\* What a worker goroutine has seen by the time it ends, or before it starts.
EndedInv ==
  \A m \in Musters :
     /\ worker[m] \in {"last", "done"} => m \in closed /\ work[m] = <<>>
     /\ worker[m] = "done" => batch[m] = {}
     /\ worker[m] = "none" => m > made /\ work[m] = <<>> /\ batch[m] = {}

EventInv == ClientInv /\ EndedInv /\ KeptInv

LEMMA EventInit == Init => EventInv
<1> SUFFICES ASSUME Init PROVE EventInv
  OBVIOUS
<1>1. ClientInv
  BY ClientInit
<1>2. EndedInv
  BY DEF Init, MusterInit, EndedInv, Musters
<1>3. KeptInv
  BY DEF Init, KeptInv
<1> QED
  BY <1>1, <1>2, <1>3 DEF EventInv

\* What Append does to the elements of a sequence.
LEMMA AppendElements ==
  ASSUME NEW S, NEW s \in Seq(S), NEW x \in S
  PROVE  /\ \A i \in DOMAIN s : i \in DOMAIN Append(s, x) /\ Append(s, x)[i] = s[i]
         /\ \E i \in DOMAIN Append(s, x) : Append(s, x)[i] = x
<1>1. Len(s) + 1 \in DOMAIN Append(s, x) /\ Append(s, x)[Len(s) + 1] = x
  OBVIOUS
<1>2. \A i \in DOMAIN s : i \in DOMAIN Append(s, x) /\ Append(s, x)[i] = s[i]
  OBVIOUS
<1> QED
  BY <1>1, <1>2

\* A step of the worker goroutine takes no event away from its client.
LEMMA WorkerKeeps ==
  ASSUME TypeOK, NEW m \in Musters,
         WorkerRecv(m) \/ BatchTimer(m) \/ WorkerClosed(m) \/ WorkerFire(m),
         NEW n \in Musters, NEW e, Carries(n, e)
  PROVE  Carries(n, e)'
<1> USE DEF Carries, TypeOK, MusterTypeOK
<1>1. CASE WorkerRecv(m)
  <2>1. /\ work[m] \in Seq(Events) /\ work[m] # <<>>
        /\ \A k \in Musters : work'[k] = IF k = m THEN Tail(work[m]) ELSE work[k]
        /\ \A k \in Musters : batch'[k] = IF k = m THEN batch[m] \cup {Head(work[m])}
                                                   ELSE batch[k]
        /\ firing' = firing
    BY <1>1 DEF WorkerRecv
  <2>2. CASE n # m
    BY <2>1, <2>2
  <2>3. CASE n = m /\ (e \in batch[m] \/ \E b \in firing[m] : e \in b)
    BY <2>1, <2>3
  <2>4. ASSUME n = m, NEW i \in DOMAIN work[m], work[m][i] = e
        PROVE  Carries(n, e)'
    <3>1. CASE i = 1
      BY <2>1, <2>4, <3>1
    <3>2. CASE i # 1
      <4>1. i - 1 \in DOMAIN Tail(work[m]) /\ Tail(work[m])[i - 1] = e
        BY <2>1, <2>4, <3>2
      <4> QED
        BY <2>1, <2>4, <4>1
    <3> QED
      BY <3>1, <3>2
  <2> QED
    BY <2>2, <2>3, <2>4
<1>2. CASE BatchTimer(m)
  BY <1>2 DEF BatchTimer
<1>3. CASE WorkerClosed(m)
  BY <1>3 DEF WorkerClosed
<1>4. CASE WorkerFire(m)
  BY <1>4 DEF WorkerFire
<1> QED
  BY <1>1, <1>2, <1>3, <1>4

\* The worker goroutine ends only with Work closed and empty.
LEMMA WorkerEnds ==
  ASSUME TypeOK, EndedInv, made' = made, NEW m \in Musters,
         WorkerRecv(m) \/ BatchTimer(m) \/ WorkerClosed(m) \/ WorkerFire(m)
  PROVE  EndedInv'
<1> USE DEF EndedInv, TypeOK, MusterTypeOK
<1>1. CASE WorkerRecv(m)
  BY <1>1 DEF WorkerRecv
<1>2. CASE BatchTimer(m)
  BY <1>2 DEF BatchTimer
<1>3. CASE WorkerClosed(m)
  BY <1>3 DEF WorkerClosed
<1>4. CASE WorkerFire(m)
  BY <1>4 DEF WorkerFire
<1> QED
  BY <1>1, <1>2, <1>3, <1>4

LEMMA EventNext ==
  ASSUME ~StopDuringFlush, EventInv, [Next]_vars
  PROVE  EventInv'
<1> USE DEF EventInv
<1>0. ClientInv' /\ TypeOK /\ TypeOK'
  BY ClientNext DEF ClientInv, TypeInv
<1>1. ASSUME UNCHANGED <<work, batch, firing, accepted, sent>>, UNCHANGED <<worker, made>>,
             closed \subseteq closed'
      PROVE  EventInv'
  BY <1>0, <1>1 DEF KeptInv, Carries, EndedInv
<1>2. ASSUME NEW a \in Adders, AddSend(a) PROVE EventInv'
  <2>0. PICK m \in Musters : m = curr
    BY <1>0 DEF TypeOK
  <2>1. adder[a] = "send" /\ via[a] = m /\ m \notin closed
        /\ adding[a] \in Events /\ m <= made
    BY <1>0, <1>2, <2>0 DEF AddSend, ClientInv, TypeInv, ReaderInv, OwnerInv, StopInv,
                            FreshInv, TypeOK, StopStates
  <2>2. PICK x \in Events : x = adding[a]
    BY <2>1
  <2>3. Enqueue(m, x) /\ accepted' = accepted \cup {x} /\ UNCHANGED <<made, sent>>
    BY <1>2, <2>1, <2>2 DEF AddSend
  <2>4. /\ work[m] \in Seq(Events)
        /\ \A k \in Musters : work'[k] = IF k = m THEN Append(work[m], x) ELSE work[k]
        /\ UNCHANGED <<closed, worker, batch, firing>>
    BY <1>0, <2>1, <2>3 DEF Enqueue, TypeOK, MusterTypeOK
  <2>5. EndedInv'
    <3>1. worker[m] \notin {"last", "done", "none"}
      BY <1>0, <2>1, MusterAssumption DEF EndedInv, TypeOK, Musters
    <3> QED
      BY <2>1, <2>3, <2>4, <3>1 DEF EndedInv
  <2>6. /\ \A i \in DOMAIN work[m] : i \in DOMAIN work'[m] /\ work'[m][i] = work[m][i]
        /\ \E i \in DOMAIN work'[m] : work'[m][i] = x
    <3>1. work'[m] = Append(work[m], x)
      BY <2>4
    <3> QED
      BY <2>4, <3>1, AppendElements
  <2>7. ASSUME NEW n \in Musters, NEW e, Carries(n, e) PROVE Carries(n, e)'
    <3>1. ASSUME n = m, NEW i \in DOMAIN work[m], work[m][i] = e
          PROVE  Carries(n, e)'
      <4>1. i \in DOMAIN work'[n] /\ work'[n][i] = e
        BY <2>6, <3>1
      <4> QED
        BY <3>1, <4>1 DEF Carries
    <3>2. CASE n = m /\ (e \in batch[m] \/ \E b \in firing[m] : e \in b)
      BY <2>4, <3>2 DEF Carries
    <3>3. CASE n # m
      BY <2>4, <2>7, <3>3 DEF Carries
    <3> QED
      BY <2>7, <3>1, <3>2, <3>3 DEF Carries
  <2>8. Carries(m, x)'
    BY <2>6 DEF Carries
  <2>9. ASSUME NEW e \in accepted' \ sent'
        PROVE  \E n \in Musters : Carries(n, e)'
    <3>1. CASE e = x
      BY <2>8, <3>1
    <3>2. CASE e # x
      BY <2>3, <2>7, <3>2 DEF KeptInv
    <3> QED
      BY <3>1, <3>2
  <2> QED
    BY <1>0, <2>5, <2>9 DEF KeptInv
<1>3. ASSUME NEW m \in Musters, Collect(m) \/ GoFire(m) PROVE EventInv'
  <2>1. /\ WorkerRecv(m) \/ BatchTimer(m) \/ WorkerClosed(m) \/ WorkerFire(m)
        /\ UNCHANGED <<made, accepted, sent>>
    BY <1>3 DEF Collect, GoFire, txVars, history
  <2>2. EndedInv'
    BY <1>0, <2>1, WorkerEnds
  <2>3. \A n \in Musters, e \in Events : Carries(n, e) => Carries(n, e)'
    BY <1>0, <2>1, WorkerKeeps
  <2>4. KeptInv'
    BY <1>0, <2>1, <2>3 DEF KeptInv, TypeOK
  <2> QED
    BY <1>0, <2>2, <2>4
<1>4. ASSUME NEW m \in Musters, NEW b \in firing[m], FireDone(m, b) PROVE EventInv'
  <2>1. /\ UNCHANGED <<work, closed, worker, batch, made, accepted>>
        /\ sent' = sent \cup b
        /\ \A k \in Musters : firing'[k] = IF k = m THEN firing[m] \ {b} ELSE firing[k]
    BY <1>0, <1>4 DEF FireDone, FireEnd, txVars, TypeOK, MusterTypeOK
  <2>2. EndedInv'
    BY <2>1 DEF EndedInv
  <2>3. ASSUME NEW e, e \notin b, NEW n \in Musters, Carries(n, e)
        PROVE  Carries(n, e)'
    BY <2>1, <2>3 DEF Carries
  <2>4. KeptInv'
    BY <2>1, <2>3 DEF KeptInv
  <2> QED
    BY <1>0, <2>2, <2>4
<1>5. ASSUME NEW f \in Flushers, FlushStart(f) PROVE EventInv'
  <2>1. /\ UNCHANGED <<work, closed, batch, firing, accepted, sent>>
        /\ made' = made + 1
        /\ \A k \in Musters : worker'[k] = IF k = made + 1 THEN "recv" ELSE worker[k]
    BY <1>0, <1>5 DEF FlushStart, MusterStart, TypeOK, MusterTypeOK
  <2>2. EndedInv'
    <3>1. made \in Nat /\ \A k \in Musters : k \in Nat
      BY <1>0, MusterAssumption DEF TypeOK, Musters
    <3> QED
      BY <2>1, <3>1 DEF EndedInv
  <2>3. KeptInv'
    BY <2>1 DEF KeptInv, Carries
  <2> QED
    BY <1>0, <2>2, <2>3
<1>6. ASSUME NEW a \in Adders, NEW e \in Events, AddCall(a, e) \/ SendResponse(a, e)
      PROVE  EventInv'
  BY <1>1, <1>6 DEF AddCall, SendResponse, musterVars
<1>7. ASSUME NEW a \in Adders, AddRLock(a) \/ AddFull(a) \/ Respond(a)
      PROVE  EventInv'
  BY <1>1, <1>7 DEF AddRLock, AddFull, Respond, musterVars, history
<1>8. ASSUME NEW m \in Musters, NEW b, NEW e, FirePost(m, b, e) PROVE EventInv'
  BY <1>1, <1>8 DEF FirePost, musterVars
<1>9. ASSUME NEW f \in Flushers, FlushStep(f) PROVE EventInv'
  BY <1>1, <1>9 DEF FlushStep, FlushLock, FlushSwap, FlushClose, FlushReturn, CloseWork,
                    musterVars, history
<1>10. CASE StopCall \/ StopClose \/ StopReturn
  BY <1>1, <1>10 DEF StopCall, StopClose, StopReturn, CloseWork, musterVars, history
<1>11. CASE Consume \/ UNCHANGED vars
  BY <1>1, <1>11 DEF Consume, vars, txVars, musterVars, history
<1>12. CASE StartAgain
  <2>1. /\ UNCHANGED <<work, closed, batch, firing, accepted, sent>>
        /\ made' = made + 1
        /\ \A k \in Musters : worker'[k] = IF k = made + 1 THEN "recv" ELSE worker[k]
    BY <1>0, <1>12 DEF StartAgain, MusterStart, history, TypeOK, MusterTypeOK
  <2>2. EndedInv'
    <3>1. made \in Nat /\ \A k \in Musters : k \in Nat
      BY <1>0, MusterAssumption DEF TypeOK, Musters
    <3> QED
      BY <2>1, <3>1 DEF EndedInv
  <2>3. KeptInv'
    BY <2>1 DEF KeptInv, Carries
  <2> QED
    BY <1>0, <2>2, <2>3
<1> QED
  BY <1>2, <1>3, <1>4, <1>5, <1>6, <1>7, <1>8, <1>9, <1>10, <1>11, <1>12, NextCases
     DEF AddStep, FireStep, Terminated

LEMMA EventInvariant ==
  ASSUME ~StopDuringFlush PROVE Spec => []EventInv
<1>1. EventInv /\ [Next]_vars => EventInv'
  BY EventNext
<1> QED
  BY EventInit, <1>1, PTL DEF Spec

(***************************************************************************)
(* When Stop returns, every event that Add accepted has been sent, those   *)
(* that an earlier Flush took with the client it replaced included.        *)
(***************************************************************************)
THEOREM StopComplete ==
  ASSUME ~StopDuringFlush PROVE Spec => StopSendsAll
<1>1. ASSUME EventInv, [Next]_vars, stop = "wait", stop' = "done"
      PROVE  accepted \subseteq sent
  <2>1. StopReturn
    BY <1>1 DEF Next, AddStep, AddCall, SendResponse, AddRLock, AddSend, AddFull, Respond,
                Collect, GoFire, FireStep, FireDone, FirePost, FlushStart, FlushStep,
                FlushLock, FlushSwap, FlushClose, FlushReturn, StopCall, StopClose, StartAgain,
                Consume, Terminated, vars, txVars
  <2>2. Quiet(curr) /\ \A f \in Flushers : ~Busy(f)
    BY <1>1, <2>1 DEF StopReturn, Drained, Quiet, EventInv, ClientInv, StopInv
  <2>3. \A m \in Musters : Quiet(m)
    BY <1>1, <2>2 DEF EventInv, ClientInv, OwnedInv
  <2>4. \A m \in Musters, e \in accepted : ~Carries(m, e)
    BY <1>1, <2>3 DEF EventInv, EndedInv, Carries, Quiet
  <2> QED
    BY <1>1, <2>4 DEF EventInv, KeptInv
<1>2. EventInv /\ [Next]_vars =>
        [stop = "wait" /\ stop' = "done" => accepted \subseteq sent]_vars
  BY <1>1
<1> QED
  BY <1>2, EventInvariant, PTL DEF Spec, StopSendsAll

=============================================================================
