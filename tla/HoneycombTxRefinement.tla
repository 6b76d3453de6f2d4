------------------------ MODULE HoneycombTxRefinement -----------------------
(***************************************************************************)
(* HoneycombTx implements Sender: the proof, for any number of events,     *)
(* goroutines and Flushes and any capacities.                              *)
(***************************************************************************)
EXTENDS HoneycombTxPlaces

-----------------------------------------------------------------------------
(***************************************************************************)
(* Answers: an event has no response until it overflows, is given to       *)
(* SendResponse or is in a Fire, whose responses are those it still owes.  *)
(* Here Fire answers each event of its batch once: BatchAgg shows when.    *)
(***************************************************************************)
Fired(m, e) == \E b \in firing[m] : e \in b
InAdd(e) == \E a \in Adders : adder[a] # "idle" /\ adding[a] = e

AnswerInv ==
  /\ \A e \in Events \ handed : answered[e] = 0
  /\ \A a \in Adders : adder[a] # "idle" => answered[adding[a]] = 0
  /\ \A m \in Musters, e \in Events : Carries(m, e) => answered[e] = 0 \/ Fired(m, e)
  /\ \A m \in Musters, e \in Events : Fired(m, e) => answered[e] + owed[e] = 1
  /\ \A e \in sent : answered[e] = 1
  /\ \A e \in handed \ accepted : answered[e] = 1 \/ InAdd(e)

LEMMA AnswerInit == Init => AnswerInv
<1> SUFFICES ASSUME Init PROVE AnswerInv
  OBVIOUS
<1>1. /\ \A m \in Musters : work[m] = <<>> /\ batch[m] = {} /\ firing[m] = {}
      /\ handed = {} /\ accepted = {} /\ sent = {}
      /\ \A e \in Events : answered[e] = 0
      /\ \A a \in Adders : adder[a] = "idle"
  BY DEF Init, MusterInit
<1> QED
  BY <1>1 DEF AnswerInv, Carries, Fired

\* Posting a response, when that does not panic, counts it.
LEMMA PostCounts ==
  ASSUME TypeOK, NEW e \in Events, PostResponse(e), NoPanic'
  PROVE  /\ answered'[e] = answered[e] + 1
         /\ \A x \in Events : x # e => answered'[x] = answered[x]
<1> QED
  BY DEF PostResponse, NoPanic, TypeOK

LEMMA AnswerNext ==
  ASSUME ~StopDuringFlush, Answers = {1}, PlaceInv, AnswerInv, [Next]_vars
  PROVE  AnswerInv'
<1>0. /\ HandInv /\ OncePerClient /\ OneClient /\ OnlyAccepted /\ TypeInv /\ TypeOK
      /\ MusterTypeOK /\ NoPanic' /\ OnlyAccepted'
  BY PlaceNext, EventNext, ClientNext DEF PlaceInv, EventInv, ClientInv, TypeInv, TypeOK
<1>t. /\ adder \in [Adders -> AdderStates] /\ adding \in [Adders -> Events \cup {NoEvent}]
      /\ answered \in [Events -> Nat] /\ owed \in [Events -> Nat]
      /\ handed \subseteq Events /\ accepted \subseteq Events /\ sent \subseteq Events
      /\ firing \in [Musters -> SUBSET (SUBSET Events)]
      /\ batch \in [Musters -> SUBSET Events]
      /\ \A a \in Adders : adder[a] # "idle" => adding[a] \in Events
  BY <1>0 DEF TypeInv, TypeOK, MusterTypeOK
<1>1. ASSUME UNCHANGED <<handed, accepted, sent, adding, answered, owed, firing>>,
             \A a \in Adders : adder[a] = "idle" <=> adder'[a] = "idle",
             \A m \in Musters, e \in Events : Carries(m, e)' => Carries(m, e)
      PROVE  AnswerInv'
  BY <1>1 DEF AnswerInv, Fired, InAdd
<1>2. ASSUME UNCHANGED <<work, batch, firing>>, NEW m \in Musters, NEW e
      PROVE  (Carries(m, e)' <=> Carries(m, e)) /\ (Fired(m, e)' <=> Fired(m, e))
  BY <1>2 DEF Carries, Fired
<1>3. ASSUME NEW a \in Adders, NEW e \in Events, AddCall(a, e) \/ SendResponse(a, e)
      PROVE  AnswerInv'
  <2>1. /\ e \notin handed /\ handed' = handed \cup {e}
        /\ UNCHANGED <<work, batch, firing, accepted, sent, answered, owed>>
        /\ adder[a] = "idle" /\ adder'[a] # "idle" /\ adding'[a] = e
        /\ \A c \in Adders : c # a => adder'[c] = adder[c] /\ adding'[c] = adding[c]
    BY <1>t, <1>3 DEF AddCall, SendResponse, musterVars
  <2>2. \A x \in Events : InAdd(x) => InAdd(x)'
    BY <2>1 DEF InAdd
  <2>3. InAdd(e)'
    BY <2>1 DEF InAdd
  <2> QED
    BY <1>2, <1>t, <2>1, <2>2, <2>3 DEF AnswerInv
<1>4. ASSUME NEW a \in Adders, AddSend(a) PROVE AnswerInv'
  <2>1. CASE UNCHANGED <<musterVars, adder, adding, accepted>>
    <3>1. UNCHANGED <<work, batch, firing, handed, accepted, sent, adder, adding, answered, owed>>
      BY <1>4, <2>1 DEF AddSend, musterVars
    <3> QED
      BY <1>1, <1>2, <3>1
  <2>2. CASE ~UNCHANGED <<musterVars, adder, adding, accepted>>
    <3>1. PICK x \in Events : x = adding[a]
      BY <1>4, <1>t DEF AddSend
    <3>2. PICK m \in Musters : m = via[a]
      BY <1>4, <1>0 DEF AddSend, TypeInv
    <3>3. /\ adder[a] = "send" /\ adder'[a] = "idle"
          /\ accepted' = accepted \cup {x}
          /\ UNCHANGED <<batch, firing, handed, sent, answered, owed>>
          /\ \A c \in Adders : c # a => adder'[c] = adder[c] /\ adding'[c] = adding[c]
      BY <1>4, <1>t, <2>2, <3>1 DEF AddSend, Enqueue
    <3>4. /\ work[m] \in Seq(Events) /\ work'[m] = Append(work[m], x)
          /\ \A n \in Musters : n # m => work'[n] = work[n]
      BY <1>0, <1>4, <2>2, <3>1, <3>2 DEF AddSend, Enqueue, MusterTypeOK
    <3>5. \A n \in Musters, e \in Events : Carries(n, e)' => Carries(n, e) \/ e = x
      BY <3>3, <3>4, CarriesAppend, CarriesSame
    <3>6. \A n \in Musters, e \in Events : Fired(n, e)' <=> Fired(n, e)
      BY <3>3 DEF Fired
    <3>7. \A e \in Events : InAdd(e) => InAdd(e)' \/ e = x
      BY <3>1, <3>3 DEF InAdd
    <3>8. /\ answered[x] = 0
          /\ \A c \in Adders : c # a /\ adder[c] # "idle" => adding[c] # x
      BY <1>0, <3>1, <3>3 DEF AnswerInv, HandInv
    <3> QED
      BY <1>t, <3>3, <3>5, <3>6, <3>7, <3>8 DEF AnswerInv
  <2> QED
    BY <2>1, <2>2
<1>5. ASSUME NEW a \in Adders, Respond(a) PROVE AnswerInv'
  <2>1. PICK x \in Events : x = adding[a]
    BY <1>5, <1>t DEF Respond
  <2>2. /\ adder[a] = "respond" /\ adder'[a] = "idle"
        /\ UNCHANGED <<work, batch, firing, handed, accepted, sent, owed>>
        /\ \A c \in Adders : c # a => adder'[c] = adder[c] /\ adding'[c] = adding[c]
        /\ PostResponse(x)
    BY <1>5, <1>t, <2>1 DEF Respond, musterVars
  <2>3. /\ answered'[x] = answered[x] + 1
        /\ \A e \in Events : e # x => answered'[e] = answered[e]
    BY <1>0, <2>2, PostCounts
  <2>4. /\ answered[x] = 0 /\ x \in handed \ accepted
        /\ \A c \in Adders : c # a /\ adder[c] # "idle" => adding[c] # x
    BY <1>0, <2>1, <2>2 DEF AnswerInv, HandInv
  <2>5. answered'[x] = 1
    BY <2>3, <2>4
  <2>6. \A e \in Events : InAdd(e) => InAdd(e)' \/ e = x
    BY <2>1, <2>2 DEF InAdd
  <2>7. x \notin sent /\ \A m \in Musters : ~Carries(m, x) /\ ~Fired(m, x)
    BY <1>0, <2>4 DEF OnlyAccepted, Carries, Fired
  <2> QED
    BY <1>2, <1>t, <2>2, <2>3, <2>4, <2>5, <2>6, <2>7 DEF AnswerInv
<1>6. ASSUME NEW m \in Musters, Collect(m) PROVE AnswerInv'
  <2>1. /\ WorkerRecv(m) \/ BatchTimer(m) \/ WorkerClosed(m)
        /\ UNCHANGED <<firing, handed, accepted, sent, adder, adding, answered, owed>>
    BY <1>6 DEF Collect, txVars, history, WorkerRecv, BatchTimer, WorkerClosed
  <2>2. \A n \in Musters, e \in Events : Carries(n, e)' => Carries(n, e)
    BY <1>0, <2>1, WorkerPlaces DEF PlaceInv
  <2> QED
    BY <1>1, <2>1, <2>2
<1>7. ASSUME NEW m \in Musters, GoFire(m) PROVE AnswerInv'
  <2>1. /\ WorkerFire(m)
        /\ UNCHANGED <<handed, accepted, sent, adder, adding, answered>>
    BY <1>7 DEF GoFire, history
  <2>2. /\ \A n \in Musters : n # m => firing'[n] = firing[n]
        /\ firing'[m] = firing[m] \cup {batch[m]}
    BY <1>t, <2>1 DEF WorkerFire
  <2>3. \A n \in Musters, e \in Events : Carries(n, e)' => Carries(n, e)
    BY <1>0, <2>1, WorkerPlaces DEF PlaceInv
  <2>4. \A e \in Events : owed'[e] = IF e \in batch[m] THEN 1 ELSE owed[e]
    BY <1>7, <1>t DEF GoFire
  <2>5. \A e \in batch[m] : Carries(m, e) /\ ~Fired(m, e) /\ e \in Events
    BY <1>0, <1>t DEF Carries, Fired, OncePerClient, OnceIn
  <2>6. \A e \in batch[m] : answered[e] = 0 /\ owed'[e] = 1
    BY <2>4, <2>5 DEF AnswerInv
  <2>7. \A n \in Musters, e \in Events : Fired(n, e) => Fired(n, e)'
    BY <2>2 DEF Fired
  <2>8. ASSUME NEW n \in Musters, NEW e \in Events, Fired(n, e)', e \notin batch[m]
        PROVE  Fired(n, e)
    <3>1. CASE n = m
      BY <2>2, <2>8, <3>1 DEF Fired
    <3>2. CASE n # m
      BY <2>2, <2>8, <3>2 DEF Fired
    <3> QED
      BY <3>1, <3>2
  <2>9. ASSUME NEW n \in Musters, NEW e \in Events, Fired(n, e)'
        PROVE  answered'[e] + owed'[e] = 1
    <3>1. CASE e \in batch[m]
      BY <2>1, <2>6, <3>1
    <3>2. CASE e \notin batch[m]
      BY <2>1, <2>4, <2>8, <2>9, <3>2 DEF AnswerInv
    <3> QED
      BY <3>1, <3>2
  <2>10. \A e \in Events : InAdd(e)' <=> InAdd(e)
    BY <2>1 DEF InAdd
  <2> QED
    BY <1>t, <2>1, <2>3, <2>7, <2>9, <2>10 DEF AnswerInv
<1>8. ASSUME NEW m \in Musters, NEW b \in firing[m], NEW x \in b, FirePost(m, b, x)
      PROVE  AnswerInv'
  <2>1. /\ UNCHANGED <<work, batch, firing, handed, accepted, sent, adder, adding>>
        /\ PostResponse(x) /\ owed[x] > 0 /\ x \in Events
        /\ owed' = [owed EXCEPT ![x] = @ - 1]
    BY <1>8, <1>t DEF FirePost, musterVars
  <2>2. /\ answered'[x] = answered[x] + 1
        /\ \A e \in Events : e # x => answered'[e] = answered[e]
    BY <1>0, <2>1, PostCounts
  <2>3. Fired(m, x) /\ Carries(m, x)
    BY DEF Fired, Carries
  <2>4. answered[x] = 0 /\ owed[x] = 1
    BY <1>t, <2>1, <2>3 DEF AnswerInv
  <2>5. /\ answered'[x] = 1 /\ owed'[x] = 0
        /\ \A e \in Events : e # x => owed'[e] = owed[e]
    BY <1>t, <2>1, <2>2, <2>4
  <2>6. /\ x \in accepted \ sent
        /\ \A a \in Adders : adder[a] # "idle" => adding[a] # x
        /\ \A n \in Musters : Carries(n, x) => n = m
    BY <1>0, <2>1, <2>3 DEF OnlyAccepted, HandInv, OneClient
  <2>7. \A e \in Events : InAdd(e)' <=> InAdd(e)
    BY <2>1 DEF InAdd
  <2> QED
    BY <1>0, <1>2, <1>t, <2>1, <2>2, <2>3, <2>5, <2>6, <2>7 DEF AnswerInv, HandInv
<1>9. ASSUME NEW m \in Musters, NEW b \in firing[m], FireDone(m, b) PROVE AnswerInv'
  <2>1. /\ UNCHANGED <<work, batch, handed, accepted, adder, adding, answered, owed>>
        /\ sent' = sent \cup b /\ \A e \in b : owed[e] = 0
        /\ b \subseteq Events
        /\ \A n \in Musters : firing'[n] = IF n = m THEN firing[m] \ {b} ELSE firing[n]
    BY <1>9, <1>t DEF FireDone, FireEnd, txVars
  <2>2. \A e \in b : answered[e] = 1
    BY <1>t, <2>1 DEF AnswerInv, Fired
  <2>3. \A n \in Musters, e \in Events : /\ Carries(n, e)' => Carries(n, e)
                                         /\ Fired(n, e)' => Fired(n, e)
    BY <2>1 DEF Carries, Fired
  <2>4. \A n \in Musters, e \in Events : Carries(n, e)' => e \notin b
    BY <1>0, <2>1 DEF OnlyAccepted
  <2>5. \A n \in Musters, e \in Events : Fired(n, e) => Fired(n, e)' \/ e \in b
    BY <2>1 DEF Fired
  <2>6. \A e \in Events : InAdd(e)' <=> InAdd(e)
    BY <2>1 DEF InAdd
  <2> QED
    BY <1>t, <2>1, <2>2, <2>3, <2>4, <2>5, <2>6 DEF AnswerInv
<1>10. ASSUME NEW a \in Adders, AddRLock(a) \/ AddFull(a) PROVE AnswerInv'
  <2>1. /\ UNCHANGED <<work, batch, firing, handed, accepted, sent, adding, answered, owed>>
        /\ \A c \in Adders : adder[c] = "idle" <=> adder'[c] = "idle"
    BY <1>10, <1>t DEF AddRLock, AddFull, musterVars, history
  <2> QED
    BY <1>1, <1>2, <2>1
<1>11. ASSUME UNCHANGED <<work, batch, firing, handed, accepted, sent, adder, adding, answered, owed>>
       PROVE  AnswerInv'
  BY <1>1, <1>2, <1>11
<1>12. ASSUME NEW f \in Flushers, FlushStart(f) \/ FlushStep(f) PROVE AnswerInv'
  BY <1>11, <1>12 DEF FlushStart, FlushStep, FlushLock, FlushSwap, FlushClose, FlushReturn,
                      MusterStart, CloseWork, musterVars, history
<1>13. CASE StopCall \/ StopClose \/ StopReturn \/ StartAgain \/ Consume \/ UNCHANGED vars
  BY <1>11, <1>13 DEF StopCall, StopClose, StopReturn, StartAgain, Consume, vars, txVars,
                      MusterStart, CloseWork, musterVars, history
<1> QED
  BY <1>3, <1>4, <1>5, <1>6, <1>7, <1>8, <1>9, <1>10, <1>12, <1>13, NextCases
     DEF AddStep, FireStep, Terminated

LEMMA AnswerInvariant ==
  ASSUME ~StopDuringFlush, Answers = {1} PROVE Spec => [](PlaceInv /\ AnswerInv)
<1>1. PlaceInv /\ AnswerInv /\ [Next]_vars => (PlaceInv /\ AnswerInv)'
  BY PlaceNext, AnswerNext
<1> QED
  BY PlaceInit, AnswerInit, <1>1, PTL DEF Spec

-----------------------------------------------------------------------------
(***************************************************************************)
(* What a Flush awaits is in a client that was swapped out, its own or     *)
(* that of a Flush that is still running.                                  *)
(***************************************************************************)
Swapping(f) == flusher[f] \in {"lock", "swap"}

AwaitInv ==
  /\ \A f \in Flushers : awaited[f] \subseteq accepted
  /\ \A f \in Flushers, e \in Events : Swapping(f) => ~Carries(held[f], e)
  /\ \A f \in Flushers, m \in Musters : \A e \in awaited[f] \ sent :
        ~Swapping(f) /\ Carries(m, e) => m # curr
  /\ (\A f \in Flushers : ~Busy(f)) => \A f \in Flushers : awaited[f] = {}

LEMMA AwaitInit == Init => AwaitInv
<1> QED
  BY DEF Init, AwaitInv, Swapping, Busy

\* A client that has not been started, or has nothing left to do, has no event.
LEMMA QuietEmpty ==
  ASSUME EndedInv, NEW m \in Musters, Quiet(m), NEW e PROVE ~Carries(m, e)
<1> QED
  BY DEF EndedInv, Quiet, Carries

LEMMA AwaitNext ==
  ASSUME ~StopDuringFlush, PlaceInv, AwaitInv, [Next]_vars
  PROVE  AwaitInv'
<1>0. /\ HandInv /\ OncePerClient /\ OneClient /\ OnlyAccepted /\ TypeInv /\ TypeOK
      /\ MusterTypeOK /\ FreshInv /\ OwnerInv /\ ReaderInv /\ StopInv /\ EndedInv
  BY DEF PlaceInv, EventInv, ClientInv, TypeInv, TypeOK
<1>t. /\ flusher \in [Flushers -> FlusherStates] /\ held \in [Flushers -> Musters]
      /\ awaited \in [Flushers -> SUBSET Events] /\ curr \in Musters /\ made \in Nat
      /\ accepted \subseteq Events /\ sent \subseteq Events
  BY <1>0, MusterAssumption DEF TypeOK, Musters
<1>1. ASSUME UNCHANGED <<curr, flusher, held, awaited>>,
             accepted \subseteq accepted', sent \subseteq sent',
             \A m \in Musters, e \in Events : Carries(m, e)' => Carries(m, e)
      PROVE  AwaitInv'
  <2>1. \A f \in Flushers : (Swapping(f)' <=> Swapping(f)) /\ (Busy(f)' <=> Busy(f))
    BY <1>1 DEF Swapping, Busy
  <2> QED
    BY <1>1, <1>t, <2>1 DEF AwaitInv
<1>2. ASSUME UNCHANGED <<work, batch, firing>>, NEW m, NEW e
      PROVE  Carries(m, e)' <=> Carries(m, e)
  BY <1>2 DEF Carries
<1>3. ASSUME NEW a \in Adders, AddSend(a) PROVE AwaitInv'
  <2>1. PICK m \in Musters, x \in Events : m = via[a] /\ x = adding[a]
    BY <1>0, <1>3 DEF AddSend, TypeInv
  <2>2. /\ m = curr /\ m \notin closed /\ adder[a] = "send"
    BY <1>0, <1>3, <2>1 DEF AddSend, ReaderInv, OwnerInv, StopInv, TypeOK, StopStates
  <2>3. /\ UNCHANGED <<batch, firing, sent, curr, flusher, held, awaited>>
        /\ accepted' = accepted \cup {x}
        /\ work[m] \in Seq(Events) /\ work'[m] = Append(work[m], x)
        /\ \A n \in Musters : n # m => work'[n] = work[n]
    BY <1>0, <1>3, <2>1, <2>2 DEF AddSend, Enqueue, MusterTypeOK
  <2>4. /\ \A n \in Musters, e \in Events : n # m => (Carries(n, e)' <=> Carries(n, e))
        /\ \A n \in Musters, e \in Events : Carries(n, e)' => Carries(n, e) \/ e = x
    BY <2>3, CarriesAppend, CarriesSame
  <2>5. \A f \in Flushers : (Swapping(f)' <=> Swapping(f)) /\ (Busy(f)' <=> Busy(f))
    BY <2>3 DEF Swapping, Busy
  <2>6. \A f \in Flushers : Swapping(f) => held[f] \in Musters \ {m}
    BY <1>0, <1>t, <2>2 DEF OwnerInv, Swapping, Busy
  <2>7. \A f \in Flushers : x \notin awaited[f]
    BY <1>0, <2>1, <2>2 DEF AwaitInv, HandInv
  <2> QED
    BY <1>t, <2>3, <2>4, <2>5, <2>6, <2>7 DEF AwaitInv
<1>4. ASSUME NEW m \in Musters, Collect(m) \/ GoFire(m) PROVE AwaitInv'
  <2>1. /\ WorkerRecv(m) \/ BatchTimer(m) \/ WorkerClosed(m) \/ WorkerFire(m)
        /\ UNCHANGED <<accepted, sent, curr, flusher, held, awaited>>
    BY <1>4 DEF Collect, GoFire, txVars, history
  <2>2. \A n \in Musters, e \in Events : Carries(n, e)' => Carries(n, e)
    BY <1>0, <2>1, WorkerPlaces DEF PlaceInv
  <2> QED
    BY <1>1, <2>1, <2>2
<1>5. ASSUME NEW m \in Musters, NEW b \in firing[m], FireDone(m, b) PROVE AwaitInv'
  <2>1. /\ UNCHANGED <<work, batch, accepted, curr, flusher, held, awaited>>
        /\ sent' = sent \cup b
        /\ \A n \in Musters : firing'[n] = IF n = m THEN firing[m] \ {b} ELSE firing[n]
    BY <1>0, <1>5 DEF FireDone, FireEnd, txVars, MusterTypeOK
  <2>2. \A n \in Musters, e \in Events : Carries(n, e)' => Carries(n, e)
    BY <2>1 DEF Carries
  <2> QED
    BY <1>1, <2>1, <2>2
<1>6. ASSUME NEW f \in Flushers, FlushStart(f) PROVE AwaitInv'
  <2>1. /\ UNCHANGED <<work, batch, firing, accepted, sent, curr>>
        /\ flusher'[f] = "lock" /\ held'[f] = made + 1 /\ made + 1 \in Musters
        /\ awaited'[f] = accepted \ sent
        /\ \A g \in Flushers : g # f => /\ flusher'[g] = flusher[g]
                                        /\ held'[g] = held[g] /\ awaited'[g] = awaited[g]
    BY <1>6, <1>t, MusterAssumption DEF FlushStart, MusterStart, Musters
  <2>2. \A e : ~Carries(made + 1, e)
    BY <1>0, <1>t, <2>1, QuietEmpty DEF FreshInv
  <2>3. \A m, e : Carries(m, e)' <=> Carries(m, e)
    BY <1>2, <2>1
  <2>4. Busy(f)' /\ Swapping(f)'
    BY <2>1 DEF Busy, Swapping
  <2>5. \A g \in Flushers : g # f => (Swapping(g)' <=> Swapping(g))
    BY <2>1 DEF Swapping
  <2> QED
    BY <1>t, <2>1, <2>2, <2>3, <2>4, <2>5 DEF AwaitInv
<1>7. ASSUME NEW f \in Flushers, FlushLock(f) PROVE AwaitInv'
  <2>1. /\ UNCHANGED <<work, batch, firing, accepted, sent, curr, held, awaited>>
        /\ flusher[f] = "lock" /\ flusher' = [flusher EXCEPT ![f] = "swap"]
    BY <1>7 DEF FlushLock, musterVars, history
  <2>2. \A g \in Flushers : (Swapping(g)' <=> Swapping(g)) /\ (Busy(g)' <=> Busy(g))
    BY <1>t, <2>1 DEF Swapping, Busy
  <2> QED
    BY <1>2, <2>1, <2>2 DEF AwaitInv
<1>8. ASSUME NEW f \in Flushers, FlushSwap(f) PROVE AwaitInv'
  <2>1. /\ UNCHANGED <<work, batch, firing, accepted, sent, awaited>>
        /\ flusher[f] = "swap" /\ flusher'[f] = "close"
        /\ curr' = held[f] /\ held'[f] = curr
        /\ \A g \in Flushers : g # f => flusher'[g] = flusher[g] /\ held'[g] = held[g]
    BY <1>8, <1>t DEF FlushSwap, musterVars, history
  <2>2. Swapping(f) /\ ~Swapping(f)' /\ Busy(f)'
    BY <2>1 DEF Swapping, Busy
  <2>3. \A g \in Flushers : g # f => (Swapping(g)' <=> Swapping(g))
    BY <2>1 DEF Swapping
  <2>4. \A m, e : Carries(m, e)' <=> Carries(m, e)
    BY <1>2, <2>1
  <2>5. \A e \in Events : ~Carries(curr', e)
    BY <2>1, <2>2 DEF AwaitInv
  <2> QED
    BY <1>t, <2>1, <2>2, <2>3, <2>4, <2>5 DEF AwaitInv
<1>9. ASSUME NEW f \in Flushers, FlushClose(f) PROVE AwaitInv'
  <2>1. /\ UNCHANGED <<work, batch, firing, accepted, sent, curr, held, awaited>>
        /\ flusher[f] = "close" /\ flusher' = [flusher EXCEPT ![f] = "wait"]
    BY <1>9 DEF FlushClose, CloseWork, history
  <2>2. \A g \in Flushers : (Swapping(g)' <=> Swapping(g)) /\ (Busy(g)' <=> Busy(g))
    BY <1>t, <2>1 DEF Swapping, Busy
  <2> QED
    BY <1>2, <2>1, <2>2 DEF AwaitInv
<1>10. ASSUME NEW f \in Flushers, FlushReturn(f) PROVE AwaitInv'
  <2>1. /\ UNCHANGED <<work, batch, firing, accepted, sent, curr, held>>
        /\ flusher[f] = "wait" /\ flusher' = [flusher EXCEPT ![f] = "idle"]
        /\ awaited' = IF \A g \in Flushers \ {f} : flusher[g] = "idle"
                      THEN [g \in Flushers |-> {}] ELSE awaited
    BY <1>10 DEF FlushReturn, Forget, musterVars
  <2>2. \A g \in Flushers : /\ Swapping(g)' <=> Swapping(g)
                            /\ g # f => (Busy(g)' <=> flusher[g] # "idle")
    BY <1>t, <2>1 DEF Swapping, Busy
  <2>3. \A g \in Flushers : awaited'[g] \subseteq awaited[g]
    BY <1>t, <2>1
  <2>4. (\A g \in Flushers : ~Busy(g)') => \A g \in Flushers : awaited'[g] = {}
    BY <2>1, <2>2
  <2> QED
    BY <1>2, <1>t, <2>1, <2>2, <2>3, <2>4 DEF AwaitInv
<1>11. CASE StartAgain
  <2>1. /\ UNCHANGED <<work, batch, firing, accepted, sent, flusher, held, awaited>>
        /\ curr' = made + 1 /\ made + 1 \in Musters
    BY <1>11, <1>t, MusterAssumption DEF StartAgain, MusterStart, history, Musters
  <2>2. \A e : ~Carries(made + 1, e)
    BY <1>0, <1>t, <2>1, QuietEmpty DEF FreshInv
  <2>3. \A m, e : Carries(m, e)' <=> Carries(m, e)
    BY <1>2, <2>1
  <2>4. \A g \in Flushers : (Swapping(g)' <=> Swapping(g)) /\ (Busy(g)' <=> Busy(g))
    BY <2>1 DEF Swapping, Busy
  <2> QED
    BY <1>t, <2>1, <2>2, <2>3, <2>4 DEF AwaitInv
<1>12. ASSUME UNCHANGED <<work, batch, firing, accepted, sent, curr, flusher, held, awaited>>
       PROVE  AwaitInv'
  BY <1>1, <1>2, <1>12
<1>13. ASSUME NEW a \in Adders, NEW e \in Events, AddCall(a, e) \/ SendResponse(a, e)
       PROVE  AwaitInv'
  BY <1>12, <1>13 DEF AddCall, SendResponse, musterVars
<1>14. ASSUME NEW a \in Adders, AddRLock(a) \/ AddFull(a) \/ Respond(a) PROVE AwaitInv'
  BY <1>12, <1>14 DEF AddRLock, AddFull, Respond, musterVars, history
<1>15. ASSUME NEW m \in Musters, NEW b, NEW e, FirePost(m, b, e) PROVE AwaitInv'
  BY <1>12, <1>15 DEF FirePost, musterVars
<1>16. CASE StopCall \/ StopClose \/ StopReturn \/ Consume \/ UNCHANGED vars
  BY <1>12, <1>16 DEF StopCall, StopClose, StopReturn, CloseWork, Consume, vars, txVars,
                      musterVars, history
<1> QED
  BY <1>3, <1>4, <1>5, <1>6, <1>7, <1>8, <1>9, <1>10, <1>11, <1>13, <1>14, <1>15, <1>16,
     NextCases DEF AddStep, FireStep, FlushStep, Terminated

LEMMA SenderInvariant ==
  ASSUME ~StopDuringFlush, Answers = {1}
  PROVE  Spec => [](PlaceInv /\ AnswerInv /\ AwaitInv)
<1>1. PlaceInv /\ AnswerInv /\ AwaitInv /\ [Next]_vars => (PlaceInv /\ AnswerInv /\ AwaitInv)'
  BY PlaceNext, AnswerNext, AwaitNext
<1> QED
  BY PlaceInit, AnswerInit, AwaitInit, <1>1, PTL DEF Spec

-----------------------------------------------------------------------------
(***************************************************************************)
(* Refinement: what the state is to the callers of a Sender, and the step  *)
(* of Sender that each action is.                                          *)
(***************************************************************************)
Pending == accepted \ sent
Flushing == {f \in Flushers : flusher[f] # "idle"}
Awaited == (UNION {awaited[f] : f \in Flushers}) \ sent
StopSeen == IF stop = "close" THEN "wait" ELSE stop

senderSeen == <<handed, Pending, sent, answered, Flushing, Awaited, StopSeen>>

LEMMA SenderInit == Init => Promise!Init
<1> SUFFICES ASSUME Init PROVE Promise!Init
  OBVIOUS
<1>1. /\ handed = {} /\ sent = {} /\ Pending = {} /\ StopSeen = "no"
      /\ answered = [e \in Events |-> 0]
  BY DEF Init, Pending, StopSeen
<1>2. Flushing = {}
  BY DEF Init, Flushing
<1>3. \A f \in Flushers : awaited[f] = {}
  BY DEF Init
<1>4. Awaited = {}
  BY <1>3 DEF Awaited
<1> QED
  BY <1>1, <1>2, <1>4 DEF Promise!Init, Pending, Flushing, Awaited, StopSeen

\* With no work left in any client, every event that was accepted is sent.
LEMMA NothingPending ==
  ASSUME PlaceInv, \A m \in Musters : Quiet(m)
  PROVE  Pending = {}
<1>1. \A m \in Musters, e \in Events : ~Carries(m, e)
  BY QuietEmpty DEF PlaceInv, EventInv
<1> QED
  BY <1>1 DEF PlaceInv, EventInv, KeptInv, Pending, ClientInv, TypeInv, TypeOK

LEMMA SenderStep ==
  ASSUME ~StopDuringFlush, Answers = {1}, PlaceInv, AnswerInv, AwaitInv, [Next]_vars
  PROVE  [Promise!Next]_(Promise!senderVars)
<1>0. /\ HandInv /\ OncePerClient /\ OneClient /\ OnlyAccepted /\ FilledInv
      /\ TypeInv /\ TypeOK /\ MusterTypeOK /\ StopInv /\ OwnedInv /\ EndedInv /\ KeptInv
      /\ NoPanic' /\ PlaceInv' /\ AnswerInv' /\ EventInv
  BY PlaceNext, AnswerNext, EventNext, ClientNext
     DEF PlaceInv, EventInv, ClientInv, TypeInv, TypeOK
<1>t. /\ flusher \in [Flushers -> FlusherStates] /\ held \in [Flushers -> Musters]
      /\ awaited \in [Flushers -> SUBSET Events] /\ stop \in StopStates
      /\ answered \in [Events -> Nat] /\ owed \in [Events -> Nat]
      /\ handed \subseteq Events /\ accepted \subseteq Events /\ sent \subseteq Events
      /\ firing \in [Musters -> SUBSET (SUBSET Events)]
  BY <1>0 DEF TypeOK, MusterTypeOK
<1> DEFINE Step == [Promise!Next]_(Promise!senderVars)
<1>s. ASSUME UNCHANGED senderSeen PROVE Step
  BY <1>s DEF senderSeen, Promise!senderVars, Pending, Flushing, Awaited, StopSeen
<1>n. ASSUME \/ \E e \in Events : Promise!Hand(e) \/ Promise!Queue(e) \/ Promise!Answer(e)
             \/ \E S \in SUBSET Events : Promise!Finish(S)
             \/ \E f \in Flushers : Promise!FlushCall(f) \/ Promise!FlushReturn(f)
             \/ Promise!StopCall \/ Promise!StopReturn \/ Promise!StartAgain
      PROVE  Step
  BY <1>n DEF Promise!Next
<1> HIDE DEF Step
<1>f. ASSUME UNCHANGED <<flusher, awaited, sent>> PROVE UNCHANGED <<Flushing, Awaited>>
  BY <1>f DEF Flushing, Awaited
<1>u. ASSUME UNCHANGED <<handed, accepted, sent, answered, flusher, awaited, stop>> PROVE Step
  BY <1>s, <1>f, <1>u DEF senderSeen, Pending, StopSeen
<1>1. ASSUME NEW a \in Adders, NEW e \in Events, AddCall(a, e) \/ SendResponse(a, e) PROVE Step
  <2>1. /\ UNCHANGED <<accepted, sent, answered, flusher, awaited, stop>>
        /\ stop = "no" /\ e \notin handed /\ handed' = handed \cup {e}
    BY <1>1 DEF AddCall, SendResponse
  <2>2. Promise!Hand(e)
    BY <1>f, <2>1 DEF Promise!Hand, Flushing, Awaited
  <2> QED
    BY <1>n, <2>2
<1>2. ASSUME NEW a \in Adders, AddSend(a) PROVE Step
  <2>1. CASE UNCHANGED accepted
    BY <1>2, <1>u, <2>1 DEF AddSend
  <2>2. CASE accepted' # accepted
    <3>1. PICK x \in Events : x = adding[a]
      BY <1>0, <1>2 DEF AddSend, TypeInv
    <3>2. /\ UNCHANGED <<handed, sent, answered, flusher, awaited, stop>>
          /\ accepted' = accepted \cup {x} /\ adder[a] = "send"
      BY <1>2, <2>2, <3>1 DEF AddSend
    <3>3. x \in handed \ accepted /\ x \notin sent /\ answered[x] = 0
      BY <1>0, <3>1, <3>2 DEF HandInv, AnswerInv, OnlyAccepted
    <3>4. Promise!Queue(x)
      BY <1>f, <3>2, <3>3 DEF Promise!Queue, Flushing, Awaited
    <3> QED
      BY <1>n, <3>4
  <2> QED
    BY <2>1, <2>2
<1>3. ASSUME NEW x \in Events, PostResponse(x), x \in handed, answered[x] = 0,
             UNCHANGED <<handed, accepted, sent, flusher, awaited, stop>>
      PROVE  Step
  <2>1. answered' = [answered EXCEPT ![x] = 1]
    BY <1>0, <1>3, <1>t DEF PostResponse, NoPanic
  <2>2. Promise!Answer(x)
    BY <1>3, <1>f, <2>1 DEF Promise!Answer, Flushing, Awaited
  <2> QED
    BY <1>n, <2>2
<1>4. ASSUME NEW a \in Adders, Respond(a) PROVE Step
  <2>1. adder[a] # "idle" /\ adding[a] \in Events
    BY <1>0, <1>4 DEF Respond, TypeInv
  <2>2. adding[a] \in handed /\ answered[adding[a]] = 0
    BY <1>0, <2>1 DEF HandInv, AnswerInv
  <2> QED
    BY <1>3, <1>4, <2>1, <2>2 DEF Respond
<1>5. ASSUME NEW m \in Musters, NEW b \in firing[m], NEW x \in b, FirePost(m, b, x) PROVE Step
  <2>1. x \in Events /\ Fired(m, x) /\ Carries(m, x) /\ owed[x] > 0
    BY <1>5, <1>t DEF FirePost, Fired, Carries
  <2>2. x \in handed /\ answered[x] = 0
    BY <1>0, <1>t, <2>1 DEF AnswerInv, OnlyAccepted, HandInv
  <2> QED
    BY <1>3, <1>5, <2>1, <2>2 DEF FirePost
<1>6. ASSUME NEW m \in Musters, NEW b \in firing[m], FireDone(m, b) PROVE Step
  <2>1. /\ UNCHANGED <<handed, accepted, answered, flusher, awaited, stop>>
        /\ sent' = sent \cup b /\ \A e \in b : owed[e] = 0
    BY <1>6 DEF FireDone, txVars
  <2>2. b # {} /\ b \in SUBSET Events
    BY <1>0, <1>t DEF FilledInv
  <2>3. \A e \in b : Carries(m, e) /\ Fired(m, e)
    BY DEF Carries, Fired
  <2>4. b \subseteq Pending
    BY <1>0, <2>2, <2>3 DEF OnlyAccepted, Pending
  <2>5. \A e \in b : answered[e] = 1
    BY <1>t, <2>1, <2>2, <2>3 DEF AnswerInv
  <2>6. Pending' = Pending \ b /\ Awaited' = Awaited \ b /\ Flushing' = Flushing
        /\ StopSeen' = StopSeen
    BY <2>1 DEF Pending, Awaited, Flushing, StopSeen
  <2>7. Promise!Finish(b)
    BY <2>1, <2>2, <2>4, <2>5, <2>6
       DEF Promise!Finish, Pending, Flushing, Awaited, StopSeen
  <2> QED
    BY <1>n, <2>2, <2>7
<1>7. ASSUME NEW f \in Flushers, FlushStart(f) PROVE Step
  <2>1. /\ UNCHANGED <<handed, accepted, sent, answered, stop>>
        /\ stop = "no" /\ flusher[f] = "idle" /\ flusher'[f] = "lock"
        /\ awaited'[f] = accepted \ sent
        /\ \A g \in Flushers : g # f => /\ flusher'[g] = flusher[g]
                                        /\ awaited'[g] = awaited[g]
    BY <1>7, <1>t DEF FlushStart
  <2>2. f \notin Flushing /\ Flushing' = Flushing \cup {f}
    BY <2>1 DEF Flushing
  <2>3. Awaited' = Awaited \cup Pending
    <3>1. ASSUME NEW e \in Awaited' PROVE e \in Awaited \cup Pending
      BY <2>1, <3>1 DEF Awaited, Pending
    <3>2. ASSUME NEW e \in Awaited PROVE e \in Awaited'
      <4>1. PICK g \in Flushers : e \in awaited[g] /\ e \notin sent
        BY <3>2 DEF Awaited
      <4>2. CASE g = f
        BY <2>1, <4>1, <4>2 DEF AwaitInv, Awaited
      <4>3. CASE g # f
        BY <2>1, <4>1, <4>3 DEF Awaited
      <4> QED
        BY <4>2, <4>3
    <3>3. ASSUME NEW e \in Pending PROVE e \in Awaited'
      BY <2>1, <3>3 DEF Awaited, Pending
    <3> QED
      BY <3>1, <3>2, <3>3
  <2>4. Promise!FlushCall(f)
    BY <2>1, <2>2, <2>3 DEF Promise!FlushCall, Pending, Flushing, Awaited, StopSeen
  <2> QED
    BY <1>n, <2>4
<1>8. ASSUME NEW f \in Flushers, FlushLock(f) \/ FlushSwap(f) \/ FlushClose(f) PROVE Step
  <2>1. /\ UNCHANGED <<handed, accepted, sent, answered, awaited, stop>>
        /\ flusher[f] # "idle" /\ flusher'[f] # "idle"
        /\ \A g \in Flushers : g # f => flusher'[g] = flusher[g]
    BY <1>8, <1>t DEF FlushLock, FlushSwap, FlushClose, history
  <2>2. Flushing' = Flushing /\ Awaited' = Awaited /\ Pending' = Pending /\ StopSeen' = StopSeen
    BY <2>1 DEF Flushing, Awaited, Pending, StopSeen
  <2> QED
    BY <1>s, <2>1, <2>2 DEF senderSeen
<1>9. ASSUME NEW f \in Flushers, FlushReturn(f) PROVE Step
  <2>1. /\ UNCHANGED <<handed, accepted, sent, answered, stop>>
        /\ flusher[f] = "wait" /\ flusher'[f] = "idle" /\ Quiet(held[f])
        /\ \A g \in Flushers : g # f => flusher'[g] = flusher[g]
        /\ awaited' = IF \A g \in Flushers \ {f} : flusher[g] = "idle"
                      THEN [g \in Flushers |-> {}] ELSE awaited
    BY <1>9, <1>t DEF FlushReturn, Forget, Drained, Quiet
  <2>2. f \in Flushing /\ Flushing' = Flushing \ {f}
    BY <2>1 DEF Flushing
  <2>3. ASSUME \A g \in Flushers \ {f} : flusher[g] = "idle" PROVE Awaited = {}
    <3>1. ASSUME NEW g \in Flushers, NEW e \in awaited[g], e \notin sent PROVE FALSE
      <4>1. e \in Events /\ e \in accepted
        BY <1>t, <3>1 DEF AwaitInv
      <4>2. PICK m \in Musters : Carries(m, e)
        BY <1>0, <3>1, <4>1 DEF KeptInv
      <4>3. ~Swapping(g)
        BY <2>1, <2>3 DEF Swapping
      <4>4. m # curr
        BY <3>1, <4>2, <4>3 DEF AwaitInv
      <4>5. ~Quiet(m)
        BY <1>0, <4>2, QuietEmpty
      <4>6. PICK h \in Flushers : Busy(h) /\ held[h] = m
        BY <1>0, <4>4, <4>5 DEF OwnedInv
      <4>7. h = f
        BY <2>3, <4>6 DEF Busy
      <4> QED
        BY <2>1, <4>5, <4>6, <4>7
    <3> QED
      BY <3>1 DEF Awaited
  <2>4. Awaited' = Awaited
    <3>1. CASE \A g \in Flushers \ {f} : flusher[g] = "idle"
      <4>1. \A g \in Flushers : awaited'[g] = {}
        BY <2>1, <3>1
      <4>2. Awaited' = {}
        BY <4>1 DEF Awaited
      <4> QED
        BY <2>3, <3>1, <4>2
    <3>2. CASE ~\A g \in Flushers \ {f} : flusher[g] = "idle"
      <4>1. awaited' = awaited
        BY <2>1, <3>2
      <4> QED
        BY <2>1, <4>1 DEF Awaited
    <3> QED
      BY <3>1, <3>2
  <2>5. Flushing' = {} => Awaited = {}
    BY <2>2, <2>3 DEF Flushing
  <2>6. Promise!FlushReturn(f)
    BY <2>1, <2>2, <2>4, <2>5 DEF Promise!FlushReturn, Pending, Flushing, Awaited, StopSeen
  <2> QED
    BY <1>n, <2>6
<1>10. ASSUME StopCall PROVE Step
  <2>1. /\ UNCHANGED <<handed, accepted, sent, answered, flusher, awaited>>
        /\ stop = "no" /\ stop' = "close"
    BY <1>10 DEF StopCall, history
  <2>2. Promise!StopCall
    BY <1>f, <2>1 DEF Promise!StopCall, Flushing, Awaited
  <2> QED
    BY <1>n, <2>2
<1>11. ASSUME StopClose PROVE Step
  <2>1. /\ UNCHANGED <<handed, accepted, sent, answered, flusher, awaited>>
        /\ stop = "close" /\ stop' = "wait"
    BY <1>11 DEF StopClose, history
  <2>2. StopSeen' = StopSeen /\ Pending' = Pending
    BY <2>1 DEF StopSeen, Pending
  <2> QED
    BY <1>f, <1>s, <2>1, <2>2 DEF senderSeen
<1>12. ASSUME StopReturn PROVE Step
  <2>1. /\ UNCHANGED <<handed, accepted, sent, answered, flusher, awaited>>
        /\ stop = "wait" /\ stop' = "done" /\ Quiet(halted)
    BY <1>12 DEF StopReturn, Drained, Quiet, history
  <2>2. \A m \in Musters : Quiet(m)
    BY <1>0, <2>1 DEF StopInv, OwnedInv
  <2>3. Pending = {}
    BY <2>2, NothingPending
  <2>4. ASSUME NEW e \in handed PROVE answered[e] = 1
    <3>1. CASE e \in accepted
      BY <2>3, <3>1 DEF Pending, AnswerInv
    <3>2. CASE e \notin accepted
      <4>1. ~InAdd(e)
        BY <1>0, <2>1 DEF StopInv, InAdd
      <4> QED
        BY <3>2, <4>1 DEF AnswerInv
    <3> QED
      BY <3>1, <3>2
  <2>5. Promise!StopReturn
    BY <1>f, <2>1, <2>3, <2>4 DEF Promise!StopReturn, Pending, Flushing, Awaited
  <2> QED
    BY <1>n, <2>5
<1>13. ASSUME StartAgain PROVE Step
  <2>1. /\ UNCHANGED <<handed, accepted, sent, answered, flusher, awaited>>
        /\ stop = "done" /\ stop' = "no"
    BY <1>13 DEF StartAgain, history
  <2>2. Promise!StartAgain
    BY <1>f, <2>1 DEF Promise!StartAgain, Flushing, Awaited
  <2> QED
    BY <1>n, <2>2
<1>14. ASSUME NEW a \in Adders, AddRLock(a) \/ AddFull(a) PROVE Step
  BY <1>14, <1>u DEF AddRLock, AddFull, history
<1>15. ASSUME NEW m \in Musters, Collect(m) \/ GoFire(m) PROVE Step
  BY <1>15, <1>u DEF Collect, GoFire, txVars, history
<1>16. ASSUME Consume \/ UNCHANGED vars PROVE Step
  BY <1>16, <1>u DEF Consume, vars, txVars, history
<1>17. Step
  BY <1>1, <1>2, <1>4, <1>5, <1>6, <1>7, <1>8, <1>9, <1>10, <1>11, <1>12, <1>13, <1>14,
     <1>15, <1>16, NextCases DEF AddStep, FireStep, FlushStep, Terminated
<1> QED
  BY <1>17 DEF Step

(***************************************************************************)
(* The transmission keeps the promises of the interface Sender: one        *)
(* response per event handed over, Stop returns only when all has been     *)
(* sent and answered, and so does the last of overlapping Flushes, with    *)
(* everything that any of them found in flight.                            *)
(***************************************************************************)
THEOREM KeepsPromise ==
  ASSUME ~StopDuringFlush, Answers = {1}
  PROVE  Spec => ImplementsSender
<1>1. PlaceInv /\ AnswerInv /\ AwaitInv /\ [Next]_vars => [Promise!Next]_(Promise!senderVars)
  BY SenderStep
<1> QED
  BY SenderInit, SenderInvariant, <1>1, PTL DEF Spec, ImplementsSender, Promise!Spec

=============================================================================
