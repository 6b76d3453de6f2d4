-------------------------- MODULE HoneycombTxPlaces -------------------------
(***************************************************************************)
(* Where the events of HoneycombTx are: each that was accepted in one      *)
(* place at a time, and the batches in flight within a bound.  Proved for  *)
(* any number of events, goroutines and Flushes and any capacities.        *)
(***************************************************************************)
EXTENDS HoneycombTxProofs, FiniteSetTheorems, FunctionTheorems

-----------------------------------------------------------------------------
(***************************************************************************)
(* Places: an event is queued once in a client, or in its batch, or in one *)
(* of its Fires, and no two clients have the same event.                   *)
(***************************************************************************)
OnceIn(queue, collected, fires) ==
  /\ \A i, j \in DOMAIN queue : queue[i] = queue[j] => i = j
  /\ \A i \in DOMAIN queue : /\ queue[i] \notin collected
                             /\ \A b \in fires : queue[i] \notin b
  /\ \A b \in fires : b \cap collected = {}
  /\ \A b, c \in fires : b = c \/ b \cap c = {}

OncePerClient == \A m \in Musters : OnceIn(work[m], batch[m], firing[m])

OneClient ==
  \A m, n \in Musters, e \in Events : Carries(m, e) /\ Carries(n, e) => m = n

OnlyAccepted ==
  /\ sent \subseteq accepted
  /\ \A m \in Musters, e \in Events : Carries(m, e) => e \in accepted \ sent

\* No batch is fired without an event.
FilledInv ==
  \A m \in Musters :
     /\ worker[m] \in {"send", "last"} => batch[m] # {}
     /\ {} \notin firing[m]

\* The event of an Add that is under way belongs to no other, and to no client.
HandInv ==
  /\ accepted \subseteq handed
  /\ \A a \in Adders : adder[a] # "idle" => adding[a] \in handed \ accepted
  /\ \A a, c \in Adders : a # c /\ adder[a] # "idle" /\ adder[c] # "idle"
                            => adding[a] # adding[c]

PlaceInv ==
  EventInv /\ HandInv /\ OncePerClient /\ OneClient /\ OnlyAccepted /\ FilledInv

LEMMA PlaceInit == Init => PlaceInv
<1> SUFFICES ASSUME Init PROVE PlaceInv
  OBVIOUS
<1>1. EventInv
  BY EventInit
<1>2. /\ \A m \in Musters : work[m] = <<>> /\ batch[m] = {} /\ firing[m] = {}
      /\ \A m \in Musters : worker[m] \in {"recv", "none"}
      /\ accepted = {} /\ sent = {}
      /\ \A a \in Adders : adder[a] = "idle"
  BY DEF Init, MusterInit
<1>3. HandInv /\ OnlyAccepted /\ FilledInv /\ OneClient
  BY <1>2 DEF HandInv, OnlyAccepted, FilledInv, OneClient, Carries
<1>4. OncePerClient
  BY <1>2 DEF OncePerClient, OnceIn
<1> QED
  BY <1>1, <1>3, <1>4 DEF PlaceInv

\* An element of an extended sequence was there before or is the new one.
LEMMA AppendOnly ==
  ASSUME NEW w \in Seq(Events), NEW e \in Events, NEW i \in DOMAIN Append(w, e)
  PROVE  \/ i \in DOMAIN w /\ Append(w, e)[i] = w[i]
         \/ i = Len(w) + 1 /\ Append(w, e)[i] = e
<1> QED
  OBVIOUS

\* The operations of a client, on its three places.
LEMMA OnceAppend ==
  ASSUME NEW w \in Seq(Events), NEW b, NEW F, NEW e \in Events, OnceIn(w, b, F),
         \A i \in DOMAIN w : w[i] # e, e \notin b, \A c \in F : e \notin c
  PROVE  OnceIn(Append(w, e), b, F)
<1>1. \A i \in DOMAIN Append(w, e) :
         (i \in DOMAIN w /\ Append(w, e)[i] = w[i]) \/ (i = Len(w) + 1 /\ Append(w, e)[i] = e)
  BY AppendOnly
<1> QED
  BY <1>1 DEF OnceIn

LEMMA TailElements ==
  ASSUME NEW w \in Seq(Events), w # <<>>
  PROVE  /\ Head(w) = w[1] /\ 1 \in DOMAIN w
         /\ \A i \in DOMAIN Tail(w) : /\ i \in Nat \ {0} /\ i + 1 \in DOMAIN w
                                      /\ Tail(w)[i] = w[i + 1]
<1> QED
  OBVIOUS

LEMMA OnceRecv ==
  ASSUME NEW w \in Seq(Events), w # <<>>, NEW b, NEW F, OnceIn(w, b, F)
  PROVE  OnceIn(Tail(w), b \cup {Head(w)}, F)
<1> DEFINE t == Tail(w)
<1>1. /\ Head(w) = w[1] /\ 1 \in DOMAIN w
      /\ \A i \in DOMAIN t : i \in Nat \ {0} /\ i + 1 \in DOMAIN w /\ t[i] = w[i + 1]
  BY TailElements
<1> HIDE DEF t
<1>2. ASSUME NEW i \in DOMAIN t, NEW j \in DOMAIN t, t[i] = t[j] PROVE i = j
  <2>1. i + 1 = j + 1
    BY <1>1, <1>2 DEF OnceIn
  <2> QED
    BY <1>1, <2>1
<1>3. ASSUME NEW i \in DOMAIN t
      PROVE  t[i] \notin b \cup {Head(w)} /\ \A c \in F : t[i] \notin c
  <2>1. i + 1 # 1 /\ i + 1 \in DOMAIN w
    BY <1>1
  <2>2. t[i] # Head(w)
    BY <1>1, <2>1 DEF OnceIn
  <2> QED
    BY <1>1, <2>1, <2>2 DEF OnceIn
<1>4. \A c \in F : c \cap (b \cup {Head(w)}) = {}
  BY <1>1 DEF OnceIn
<1>5. OnceIn(t, b \cup {Head(w)}, F)
  BY <1>2, <1>3, <1>4 DEF OnceIn
<1> QED
  BY <1>5 DEF t

LEMMA OnceFire ==
  ASSUME NEW w, NEW b, NEW F, OnceIn(w, b, F)
  PROVE  OnceIn(w, {}, F \cup {b})
<1> QED
  BY DEF OnceIn

LEMMA OnceDone ==
  ASSUME NEW w, NEW b, NEW F, NEW c, OnceIn(w, b, F)
  PROVE  OnceIn(w, b, F \ {c})
<1> QED
  BY DEF OnceIn

LEMMA HandNext == TypeInv /\ HandInv /\ [Next]_vars => HandInv'
<1> SUFFICES ASSUME TypeInv, HandInv, [Next]_vars PROVE HandInv'
  OBVIOUS
<1> USE DEF HandInv
<1>0. adder \in [Adders -> AdderStates] /\ adding \in [Adders -> Events \cup {NoEvent}]
  BY DEF TypeInv, TypeOK
<1>1. ASSUME NEW a \in Adders, NEW e \in Events, AddCall(a, e) \/ SendResponse(a, e)
      PROVE  HandInv'
  <2>1. /\ e \notin handed /\ handed' = handed \cup {e} /\ accepted' = accepted
        /\ adder[a] = "idle"
        /\ \A c \in Adders : c # a => adder'[c] = adder[c] /\ adding'[c] = adding[c]
        /\ adding'[a] = e
    BY <1>0, <1>1 DEF AddCall, SendResponse
  <2> QED
    BY <2>1
<1>2. ASSUME NEW a \in Adders, AddRLock(a) \/ AddFull(a) PROVE HandInv'
  <2>1. /\ UNCHANGED <<adding, handed, accepted>>
        /\ \A c \in Adders : adder'[c] # "idle" => adder[c] # "idle"
    BY <1>0, <1>2 DEF AddRLock, AddFull, history
  <2> QED
    BY <2>1
<1>3. ASSUME NEW a \in Adders, AddSend(a) PROVE HandInv'
  <2>1. CASE UNCHANGED <<adder, adding, accepted>>
    BY <1>3, <2>1 DEF AddSend
  <2>2. CASE ~UNCHANGED <<adder, adding, accepted>>
    <3>1. /\ accepted' = accepted \cup {adding[a]} /\ handed' = handed
          /\ adder[a] = "send" /\ adder'[a] = "idle"
          /\ \A c \in Adders : c # a => adder'[c] = adder[c] /\ adding'[c] = adding[c]
      BY <1>0, <1>3, <2>2 DEF AddSend
    <3> QED
      BY <3>1
  <2> QED
    BY <2>1, <2>2
<1>4. ASSUME NEW a \in Adders, Respond(a) PROVE HandInv'
  <2>1. /\ UNCHANGED <<handed, accepted>> /\ adder'[a] = "idle"
        /\ \A c \in Adders : c # a => adder'[c] = adder[c] /\ adding'[c] = adding[c]
    BY <1>0, <1>4 DEF Respond
  <2> QED
    BY <2>1
<1>5. ASSUME UNCHANGED <<adder, adding, handed, accepted>> PROVE HandInv'
  BY <1>5
<1>6. ASSUME NEW m \in Musters, Collect(m) \/ GoFire(m) \/ FireStep(m) PROVE HandInv'
  BY <1>5, <1>6 DEF Collect, GoFire, FireStep, FireDone, FirePost, txVars, history
<1>7. ASSUME NEW f \in Flushers, FlushStart(f) \/ FlushStep(f) PROVE HandInv'
  BY <1>5, <1>7 DEF FlushStart, FlushStep, FlushLock, FlushSwap, FlushClose, FlushReturn,
                    history
<1>8. CASE StopCall \/ StopClose \/ StopReturn \/ StartAgain \/ Consume \/ UNCHANGED vars
  BY <1>5, <1>8 DEF StopCall, StopClose, StopReturn, StartAgain, Consume, vars, txVars,
                    history
<1> QED
  BY <1>1, <1>2, <1>3, <1>4, <1>6, <1>7, <1>8, NextCases DEF AddStep, Terminated

\* What a client has depends on its three places only.
LEMMA CarriesSame ==
  ASSUME NEW m, work'[m] = work[m], batch'[m] = batch[m], firing'[m] = firing[m], NEW e
  PROVE  Carries(m, e)' <=> Carries(m, e)
<1> QED
  BY DEF Carries

\* One event more in the queue of a client, one more that it has.
LEMMA CarriesAppend ==
  ASSUME NEW m, work[m] \in Seq(Events), NEW x \in Events,
         work'[m] = Append(work[m], x), batch'[m] = batch[m], firing'[m] = firing[m],
         NEW e, Carries(m, e)'
  PROVE  Carries(m, e) \/ e = x
<1>1. PICK w \in Seq(Events) : w = work[m]
  OBVIOUS
<1>2. \A i \in DOMAIN Append(w, x) : (i \in DOMAIN w /\ Append(w, x)[i] = w[i])
                                     \/ Append(w, x)[i] = x
  BY AppendOnly
<1>3. \A i \in DOMAIN work'[m] : (\E j \in DOMAIN work[m] : work'[m][i] = work[m][j])
                                 \/ work'[m][i] = x
  BY <1>1, <1>2
<1> QED
  BY <1>3 DEF Carries

\* The worker goroutine moves an event from queue to batch, and batches into
\* Fires, without copying any.
LEMMA WorkerPlaces ==
  ASSUME OncePerClient, FilledInv, TypeOK, NEW m \in Musters,
         WorkerRecv(m) \/ BatchTimer(m) \/ WorkerClosed(m) \/ WorkerFire(m)
  PROVE  /\ OncePerClient' /\ FilledInv'
         /\ \A n \in Musters, e \in Events : Carries(n, e)' => Carries(n, e)
<1>0. /\ work \in [Musters -> Seq(Events)] /\ batch \in [Musters -> SUBSET Events]
      /\ worker \in [Musters -> WorkerStates]
      /\ firing \in [Musters -> SUBSET (SUBSET Events)]
  BY DEF TypeOK, MusterTypeOK
<1>1. ASSUME NEW n \in Musters, n # m
      PROVE  /\ work'[n] = work[n] /\ batch'[n] = batch[n]
             /\ firing'[n] = firing[n] /\ worker'[n] = worker[n]
  BY <1>0, <1>1 DEF WorkerRecv, BatchTimer, WorkerClosed, WorkerFire
<1>2. ASSUME OnceIn(work[m], batch[m], firing[m])' PROVE OncePerClient'
  BY <1>1, <1>2 DEF OncePerClient
<1>3. ASSUME (worker[m] \in {"send", "last"} => batch[m] # {})', ({} \notin firing[m])'
      PROVE  FilledInv'
  BY <1>1, <1>3 DEF FilledInv
<1>4. ASSUME \A e \in Events : Carries(m, e)' => Carries(m, e)
      PROVE  \A n \in Musters, e \in Events : Carries(n, e)' => Carries(n, e)
  BY <1>1, <1>4, CarriesSame
<1>5. OnceIn(work[m], batch[m], firing[m]) /\ {} \notin firing[m]
      /\ (worker[m] \in {"send", "last"} => batch[m] # {})
  BY DEF OncePerClient, FilledInv
<1>6. CASE WorkerRecv(m)
  <2>1. /\ work[m] \in Seq(Events) /\ work[m] # <<>>
        /\ work'[m] = Tail(work[m]) /\ batch'[m] = batch[m] \cup {Head(work[m])}
        /\ firing'[m] = firing[m]
    BY <1>0, <1>6 DEF WorkerRecv
  <2>2. OnceIn(work[m], batch[m], firing[m])'
    BY <1>5, <2>1, OnceRecv
  <2>3. ASSUME NEW e \in Events, Carries(m, e)' PROVE Carries(m, e)
    <3>1. /\ Head(work[m]) = work[m][1] /\ 1 \in DOMAIN work[m]
          /\ \A i \in DOMAIN Tail(work[m]) :
                i + 1 \in DOMAIN work[m] /\ Tail(work[m])[i] = work[m][i + 1]
      BY <2>1, TailElements
    <3> QED
      BY <2>1, <2>3, <3>1 DEF Carries
  <2> QED
    BY <1>2, <1>3, <1>4, <1>5, <2>1, <2>2, <2>3
<1>7. CASE BatchTimer(m) \/ WorkerClosed(m)
  <2>1. /\ work'[m] = work[m] /\ batch'[m] = batch[m] /\ firing'[m] = firing[m]
        /\ worker'[m] \in {"send", "last"} => batch[m] # {}
    BY <1>0, <1>7 DEF BatchTimer, WorkerClosed
  <2> QED
    BY <1>2, <1>3, <1>4, <1>5, <2>1, CarriesSame
<1>8. CASE WorkerFire(m)
  <2>1. /\ work'[m] = work[m] /\ batch'[m] = {} /\ firing'[m] = firing[m] \cup {batch[m]}
        /\ worker'[m] \notin {"send", "last"} /\ batch[m] # {}
    BY <1>0, <1>5, <1>8 DEF WorkerFire
  <2>2. OnceIn(work[m], batch[m], firing[m])'
    BY <1>5, <2>1, OnceFire
  <2>3. \A e \in Events : Carries(m, e)' => Carries(m, e)
    BY <2>1 DEF Carries
  <2> QED
    BY <1>2, <1>3, <1>4, <1>5, <2>1, <2>2, <2>3
<1> QED
  BY <1>6, <1>7, <1>8

LEMMA PlaceNext ==
  ASSUME ~StopDuringFlush, PlaceInv, [Next]_vars
  PROVE  PlaceInv'
<1>0. /\ EventInv /\ HandInv /\ OncePerClient /\ OneClient /\ OnlyAccepted /\ FilledInv
      /\ EventInv' /\ TypeInv /\ TypeOK /\ MusterTypeOK
  BY EventNext DEF PlaceInv, EventInv, ClientInv, TypeInv, TypeOK
<1>h. HandInv'
  BY <1>0, HandNext
<1>1. ASSUME UNCHANGED <<work, batch, firing, accepted, sent>>,
             \A m \in Musters : worker'[m] \in {"send", "last"} => worker[m] \in {"send", "last"}
      PROVE  PlaceInv'
  <2>1. OncePerClient'
    BY <1>0, <1>1 DEF OncePerClient
  <2>2. OneClient' /\ OnlyAccepted'
    BY <1>0, <1>1, CarriesSame DEF OneClient, OnlyAccepted
  <2>3. FilledInv'
    BY <1>0, <1>1 DEF FilledInv
  <2> QED
    BY <1>0, <1>h, <2>1, <2>2, <2>3 DEF PlaceInv
<1>2. ASSUME NEW m \in Musters, Collect(m) \/ GoFire(m) PROVE PlaceInv'
  <2>1. /\ WorkerRecv(m) \/ BatchTimer(m) \/ WorkerClosed(m) \/ WorkerFire(m)
        /\ UNCHANGED <<accepted, sent>>
    BY <1>2 DEF Collect, GoFire, history
  <2>2. /\ OncePerClient' /\ FilledInv'
        /\ \A n \in Musters, e \in Events : Carries(n, e)' => Carries(n, e)
    BY <1>0, <2>1, WorkerPlaces
  <2>3. OneClient' /\ OnlyAccepted'
    BY <1>0, <2>1, <2>2 DEF OneClient, OnlyAccepted
  <2> QED
    BY <1>0, <1>h, <2>2, <2>3 DEF PlaceInv
<1>3. ASSUME NEW a \in Adders, AddSend(a) PROVE PlaceInv'
  <2>1. /\ adder[a] = "send" /\ adding[a] \in Events /\ via[a] \in Musters
        /\ via[a] \notin closed
    BY <1>0, <1>3 DEF AddSend, TypeInv, EventInv, ClientInv, ReaderInv, OwnerInv, StopInv,
                      TypeOK, StopStates
  <2>2. PICK m \in Musters, x \in Events : m = via[a] /\ x = adding[a]
    BY <2>1
  <2>3. /\ x \notin accepted /\ x \notin sent
        /\ \A n \in Musters : ~Carries(n, x)
    BY <1>0, <2>1, <2>2 DEF HandInv, OnlyAccepted
  <2>4. /\ accepted' = accepted \cup {x} /\ sent' = sent
        /\ UNCHANGED <<worker, batch, firing>>
        /\ work[m] \in Seq(Events) /\ work'[m] = Append(work[m], x)
        /\ \A n \in Musters : n # m => work'[n] = work[n]
    BY <1>0, <1>3, <2>1, <2>2 DEF AddSend, Enqueue, MusterTypeOK
  <2>5. \A n \in Musters, e \in Events : n # m => (Carries(n, e)' <=> Carries(n, e))
    BY <2>4, CarriesSame
  <2>6. \A e \in Events : Carries(m, e)' => Carries(m, e) \/ e = x
    BY <2>4, CarriesAppend
  <2>7. OnceIn(work[m], batch[m], firing[m])'
    <3>1. /\ \A i \in DOMAIN work[m] : work[m][i] # x
          /\ x \notin batch[m] /\ \A c \in firing[m] : x \notin c
      BY <2>3 DEF Carries
    <3> QED
      BY <1>0, <2>4, <3>1, OnceAppend DEF OncePerClient
  <2>8. OncePerClient'
    BY <1>0, <2>4, <2>7 DEF OncePerClient
  <2>9. OneClient' /\ OnlyAccepted'
    BY <1>0, <2>3, <2>4, <2>5, <2>6 DEF OneClient, OnlyAccepted
  <2>10. FilledInv'
    BY <1>0, <2>4 DEF FilledInv
  <2> QED
    BY <1>0, <1>h, <2>8, <2>9, <2>10 DEF PlaceInv
<1>4. ASSUME NEW m \in Musters, NEW b \in firing[m], FireDone(m, b) PROVE PlaceInv'
  <2>1. /\ UNCHANGED <<work, batch, worker, accepted>> /\ sent' = sent \cup b
        /\ firing'[m] = firing[m] \ {b}
        /\ \A n \in Musters : n # m => firing'[n] = firing[n]
        /\ b \subseteq Events
    BY <1>0, <1>4 DEF FireDone, FireEnd, MusterTypeOK
  <2>2. OncePerClient'
    <3>1. OnceIn(work[m], batch[m], firing[m])'
      <4>1. OnceIn(work[m], batch[m], firing[m])
        BY <1>0 DEF OncePerClient
      <4>2. OnceIn(work[m], batch[m], firing[m] \ {b})
        BY <4>1, OnceDone
      <4> QED
        BY <2>1, <4>2
    <3> QED
      BY <1>0, <2>1, <3>1 DEF OncePerClient
  <2>3. \A n \in Musters, e \in Events : Carries(n, e)' => Carries(n, e)
    BY <2>1 DEF Carries
  <2>4. \A e \in b : Carries(m, e) /\ ~Carries(m, e)'
    BY <1>0, <1>4, <2>1 DEF Carries, OncePerClient, OnceIn
  <2>5. OneClient'
    BY <1>0, <2>3 DEF OneClient
  <2>6. OnlyAccepted'
    <3>1. sent' \subseteq accepted'
      BY <1>0, <2>1, <2>4 DEF OnlyAccepted
    <3>2. ASSUME NEW n \in Musters, NEW e \in Events, Carries(n, e)'
          PROVE  e \in accepted' \ sent'
      <4>1. e \notin b
        BY <1>0, <2>1, <2>3, <2>4, <3>2 DEF OneClient
      <4> QED
        BY <1>0, <2>1, <2>3, <3>2, <4>1 DEF OnlyAccepted
    <3> QED
      BY <3>1, <3>2 DEF OnlyAccepted
  <2>7. FilledInv'
    BY <1>0, <2>1 DEF FilledInv
  <2> QED
    BY <1>0, <1>h, <2>2, <2>5, <2>6, <2>7 DEF PlaceInv
<1>5. CASE StartAgain \/ \E f \in Flushers : FlushStart(f)
  <2>1. /\ UNCHANGED <<work, batch, firing, accepted, sent>>
        /\ worker' = [worker EXCEPT ![made + 1] = "recv"]
    BY <1>5 DEF StartAgain, FlushStart, MusterStart, history
  <2> QED
    BY <1>0, <1>1, <2>1 DEF MusterTypeOK
<1>6. ASSUME NEW a \in Adders, NEW e \in Events, AddCall(a, e) \/ SendResponse(a, e)
      PROVE  PlaceInv'
  BY <1>1, <1>6 DEF AddCall, SendResponse, musterVars
<1>7. ASSUME NEW a \in Adders, AddRLock(a) \/ AddFull(a) \/ Respond(a)
      PROVE  PlaceInv'
  BY <1>1, <1>7 DEF AddRLock, AddFull, Respond, musterVars, history
<1>8. ASSUME NEW m \in Musters, NEW b, NEW e, FirePost(m, b, e) PROVE PlaceInv'
  BY <1>1, <1>8 DEF FirePost, musterVars
<1>9. ASSUME NEW f \in Flushers, FlushStep(f) PROVE PlaceInv'
  BY <1>1, <1>9 DEF FlushStep, FlushLock, FlushSwap, FlushClose, FlushReturn, CloseWork,
                    musterVars, history
<1>10. CASE StopCall \/ StopClose \/ StopReturn \/ Consume \/ UNCHANGED vars
  BY <1>1, <1>10 DEF StopCall, StopClose, StopReturn, CloseWork, Consume, vars, txVars,
                     musterVars, history
<1> QED
  BY <1>2, <1>3, <1>4, <1>5, <1>6, <1>7, <1>8, <1>9, <1>10, NextCases
     DEF AddStep, FireStep, Terminated

LEMMA PlaceInvariant ==
  ASSUME ~StopDuringFlush PROVE Spec => []PlaceInv
<1>1. PlaceInv /\ [Next]_vars => PlaceInv'
  BY PlaceNext
<1> QED
  BY PlaceInit, <1>1, PTL DEF Spec

\* Places, element by element.
LEMMA PlacesMembers ==
  ASSUME NEW e, NEW p
  PROVE  p \in Places(e) <=>
           \E m \in Musters :
              \/ \E i \in DOMAIN work[m] : work[m][i] = e /\ p = <<"work", m, i>>
              \/ e \in batch[m] /\ p = <<"batch", m>>
              \/ \E b \in firing[m] : e \in b /\ p = <<"fire", m, b>>
<1> DEFINE At(m) == {<<"work", m, i>> : i \in {j \in DOMAIN work[m] : work[m][j] = e}}
                      \cup (IF e \in batch[m] THEN {<<"batch", m>>} ELSE {})
                      \cup {<<"fire", m, b>> : b \in {c \in firing[m] : e \in c}}
<1>1. Places(e) = UNION {At(m) : m \in Musters}
  BY DEF Places
<1>2. ASSUME NEW m \in Musters
      PROVE  p \in At(m) <=>
               \/ \E i \in DOMAIN work[m] : work[m][i] = e /\ p = <<"work", m, i>>
               \/ e \in batch[m] /\ p = <<"batch", m>>
               \/ \E b \in firing[m] : e \in b /\ p = <<"fire", m, b>>
  OBVIOUS
<1> HIDE DEF At
<1>3. p \in UNION {At(m) : m \in Musters} <=> \E m \in Musters : p \in At(m)
  OBVIOUS
<1> QED
  BY <1>1, <1>2, <1>3

\* Who has an event has it once.
LEMMA PlacesOnce ==
  ASSUME PlaceInv, NEW e \in Events, NEW p \in Places(e), NEW q \in Places(e)
  PROVE  p = q
<1>1. /\ \A m \in Musters : OnceIn(work[m], batch[m], firing[m])
      /\ \A m, n \in Musters : Carries(m, e) /\ Carries(n, e) => m = n
  BY DEF PlaceInv, OncePerClient, OneClient
<1>2. PICK m \in Musters :
        \/ \E i \in DOMAIN work[m] : work[m][i] = e /\ p = <<"work", m, i>>
        \/ e \in batch[m] /\ p = <<"batch", m>>
        \/ \E b \in firing[m] : e \in b /\ p = <<"fire", m, b>>
  BY PlacesMembers
<1>3. PICK n \in Musters :
        \/ \E i \in DOMAIN work[n] : work[n][i] = e /\ q = <<"work", n, i>>
        \/ e \in batch[n] /\ q = <<"batch", n>>
        \/ \E b \in firing[n] : e \in b /\ q = <<"fire", n, b>>
  BY PlacesMembers
<1>4. m = n
  BY <1>1, <1>2, <1>3 DEF Carries
<1>5. OnceIn(work[m], batch[m], firing[m])
  BY <1>1
<1> QED
  BY <1>2, <1>3, <1>4, <1>5 DEF OnceIn

(***************************************************************************)
(* An event that Add accepted is in exactly one queue, batch or Fire of    *)
(* one client until its Fire returns, across any number of Flushes: none   *)
(* is lost with a client that Flush replaced and none is sent by two.      *)
(***************************************************************************)
THEOREM InOnePlace ==
  ASSUME ~StopDuringFlush PROVE Spec => []EventInOnePlace
<1>1. ASSUME PlaceInv PROVE EventInOnePlace
  <2>1. sent \subseteq accepted /\ accepted \subseteq Events
    BY <1>1 DEF PlaceInv, OnlyAccepted, EventInv, ClientInv, TypeInv, TypeOK
  <2>2. ASSUME NEW e \in Events, e \notin accepted \ sent
        PROVE  Cardinality(Places(e)) = 0
    <3>1. \A m \in Musters : ~Carries(m, e)
      BY <1>1, <2>2 DEF PlaceInv, OnlyAccepted
    <3>2. Places(e) = {}
      BY <3>1, PlacesMembers DEF Carries
    <3> QED
      BY <3>2, FS_EmptySet
  <2>3. ASSUME NEW e \in Events, e \in accepted \ sent
        PROVE  Cardinality(Places(e)) = 1
    <3>1. PICK m \in Musters : Carries(m, e)
      BY <1>1, <2>3 DEF PlaceInv, EventInv, KeptInv
    <3>2. PICK p : p \in Places(e)
      <4>1. ASSUME NEW i \in DOMAIN work[m], work[m][i] = e
            PROVE  <<"work", m, i>> \in Places(e)
        BY <4>1, PlacesMembers
      <4>2. CASE e \in batch[m]
        <5>1. <<"batch", m>> \in Places(e)
          BY <4>2, PlacesMembers
        <5> QED
          BY <5>1
      <4>3. ASSUME NEW b \in firing[m], e \in b
            PROVE  <<"fire", m, b>> \in Places(e)
        BY <4>3, PlacesMembers
      <4> QED
        BY <3>1, <4>1, <4>2, <4>3 DEF Carries
    <3>3. Places(e) = {p}
      BY <1>1, <3>2, PlacesOnce
    <3> QED
      BY <3>3, FS_Singleton
  <2> QED
    BY <2>1, <2>2, <2>3 DEF EventInOnePlace
<1> QED
  BY <1>1, PlaceInvariant, PTL

-----------------------------------------------------------------------------
(***************************************************************************)
(* Batches in flight: each client keeps to its limit, and only the current *)
(* client and those of running Flushes have any.                           *)
(***************************************************************************)
SlotInv ==
  conf.MaxConcurrentBatches # 0 =>
    \A m \in Musters : /\ IsFiniteSet(firing[m])
                       /\ Cardinality(firing[m]) <= conf.MaxConcurrentBatches

LEMMA SlotInit == Init => SlotInv
<1> SUFFICES ASSUME Init, conf.MaxConcurrentBatches # 0, NEW m \in Musters
             PROVE  IsFiniteSet(firing[m]) /\ Cardinality(firing[m]) <= conf.MaxConcurrentBatches
  BY DEF SlotInv
<1>1. conf.MaxConcurrentBatches \in Nat
  BY MusterAssumption DEF Init, MusterInit
<1>2. firing[m] = {}
  BY DEF Init, MusterInit
<1> QED
  BY <1>1, <1>2, FS_EmptySet

LEMMA SlotNext == TypeOK /\ SlotInv /\ [Next]_vars => SlotInv'
<1> SUFFICES ASSUME TypeOK, SlotInv, [Next]_vars PROVE SlotInv'
  OBVIOUS
<1> DEFINE k == conf.MaxConcurrentBatches
<1>0. /\ firing \in [Musters -> SUBSET (SUBSET Events)]
      /\ k \in Nat
  BY MusterAssumption DEF TypeOK, MusterTypeOK
<1>1. ASSUME NEW m \in Musters, conf' = conf,
             \A n \in Musters : n # m => firing'[n] = firing[n],
             k # 0 => IsFiniteSet(firing'[m]) /\ Cardinality(firing'[m]) <= k
      PROVE  SlotInv'
  BY <1>1 DEF SlotInv
<1>2. ASSUME UNCHANGED <<conf, firing>> PROVE SlotInv'
  BY <1>2 DEF SlotInv
<1>3. ASSUME NEW m \in Musters, GoFire(m) PROVE SlotInv'
  <2>1. /\ firing'[m] = firing[m] \cup {batch[m]} /\ conf' = conf
        /\ \A n \in Musters : n # m => firing'[n] = firing[n]
        /\ k = 0 \/ Cardinality(firing[m]) < k
    BY <1>0, <1>3 DEF GoFire, WorkerFire, Slot
  <2>2. k # 0 => IsFiniteSet(firing'[m]) /\ Cardinality(firing'[m]) <= k
    <3> SUFFICES ASSUME k # 0
                 PROVE  IsFiniteSet(firing'[m]) /\ Cardinality(firing'[m]) <= k
      OBVIOUS
    <3>1. IsFiniteSet(firing[m]) /\ Cardinality(firing[m]) < k
      BY <2>1 DEF SlotInv
    <3>2. Cardinality(firing[m]) \in Nat
      BY <3>1, FS_CardinalityType
    <3>3. /\ IsFiniteSet(firing[m] \cup {batch[m]})
          /\ Cardinality(firing[m] \cup {batch[m]}) \in {Cardinality(firing[m]),
                                                         Cardinality(firing[m]) + 1}
      BY <3>1, FS_AddElement
    <3> HIDE DEF k
    <3> QED
      BY <1>0, <2>1, <3>1, <3>2, <3>3
  <2> HIDE DEF k
  <2> QED
    BY <1>1, <2>1, <2>2
<1>4. ASSUME NEW m \in Musters, NEW b \in firing[m], FireDone(m, b) PROVE SlotInv'
  <2>1. /\ firing'[m] = firing[m] \ {b} /\ conf' = conf
        /\ \A n \in Musters : n # m => firing'[n] = firing[n]
    BY <1>0, <1>4 DEF FireDone, FireEnd
  <2>2. k # 0 => IsFiniteSet(firing'[m]) /\ Cardinality(firing'[m]) <= k
    <3> SUFFICES ASSUME k # 0
                 PROVE  IsFiniteSet(firing'[m]) /\ Cardinality(firing'[m]) <= k
      OBVIOUS
    <3>1. IsFiniteSet(firing[m]) /\ Cardinality(firing[m]) <= k
      BY DEF SlotInv
    <3>2. Cardinality(firing[m]) \in Nat
      BY <3>1, FS_CardinalityType
    <3>3. /\ IsFiniteSet(firing[m] \ {b})
          /\ Cardinality(firing[m] \ {b}) \in {Cardinality(firing[m]),
                                                Cardinality(firing[m]) - 1}
      BY <3>1, FS_RemoveElement
    <3> HIDE DEF k
    <3> QED
      BY <1>0, <2>1, <3>1, <3>2, <3>3
  <2> HIDE DEF k
  <2> QED
    BY <1>1, <2>1, <2>2
<1>5. ASSUME NEW a \in Adders, AddStep(a) PROVE SlotInv'
  BY <1>2, <1>5 DEF AddStep, AddRLock, AddSend, AddFull, Respond, Enqueue, musterVars
<1>6. ASSUME NEW a \in Adders, NEW e \in Events, AddCall(a, e) \/ SendResponse(a, e)
      PROVE  SlotInv'
  BY <1>2, <1>6 DEF AddCall, SendResponse, musterVars
<1>7. ASSUME NEW m \in Musters, Collect(m) PROVE SlotInv'
  BY <1>2, <1>7 DEF Collect, WorkerRecv, BatchTimer, WorkerClosed
<1>8. ASSUME NEW m \in Musters, NEW b, NEW e, FirePost(m, b, e) PROVE SlotInv'
  BY <1>2, <1>8 DEF FirePost, musterVars
<1>9. ASSUME NEW f \in Flushers, FlushStart(f) \/ FlushStep(f) PROVE SlotInv'
  BY <1>2, <1>9 DEF FlushStart, FlushStep, FlushLock, FlushSwap, FlushClose, FlushReturn,
                    MusterStart, CloseWork, musterVars
<1>10. CASE StopCall \/ StopClose \/ StopReturn \/ StartAgain \/ Consume \/ UNCHANGED vars
  BY <1>2, <1>10 DEF StopCall, StopClose, StopReturn, StartAgain, MusterStart, CloseWork,
                     Consume, vars, musterVars
<1> HIDE DEF k
<1> QED
  BY <1>3, <1>4, <1>5, <1>6, <1>7, <1>8, <1>9, <1>10, NextCases
     DEF FireStep, Terminated

\* The elements of a small set can be numbered.
LEMMA Numbering ==
  ASSUME NEW F, IsFiniteSet(F), NEW k \in Nat, Cardinality(F) <= k
  PROVE  \E g \in [F -> 1 .. k] : \A x, y \in F : g[x] = g[y] => x = y
<1> DEFINE T == 1 .. Cardinality(F)
<1>1. Cardinality(F) \in Nat /\ ExistsBijection(F, T)
  BY FS_CardinalityType, Fun_ExistsBijSymmetric
<1>2. T \subseteq 1 .. k
  BY <1>1
<1> HIDE DEF T
<1>3. PICK g : g \in Bijection(F, T)
  BY <1>1 DEF ExistsBijection
<1>4. g \in [F -> T] /\ \A x, y \in F : g[x] = g[y] => x = y
  BY <1>3, Fun_BijectionProperties
<1>5. g \in [F -> 1 .. k]
  BY <1>2, <1>4
<1> QED
  BY <1>4, <1>5

\* A family of sets of at most k elements each, over a finite set of indices.
LEMMA FamilyBound ==
  ASSUME NEW T, IsFiniteSet(T), NEW k \in Nat, NEW F, NEW U,
         \A p : p \in U <=> \E m \in T : \E b \in F[m] : p = <<m, b>>,
         \A m \in T : IsFiniteSet(F[m]) /\ Cardinality(F[m]) <= k
  PROVE  IsFiniteSet(U) /\ Cardinality(U) <= Cardinality(T) * k
<1> DEFINE Numbers(m) == {g \in [F[m] -> 1 .. k] : \A x, y \in F[m] : g[x] = g[y] => x = y}
           num(m) == CHOOSE g \in Numbers(m) : TRUE
           index == [p \in U |-> <<p[1], num(p[1])[p[2]]>>]
<1>1. ASSUME NEW m \in T
      PROVE  /\ num(m) \in [F[m] -> 1 .. k]
             /\ \A x, y \in F[m] : num(m)[x] = num(m)[y] => x = y
  <2>1. Numbers(m) # {}
    BY Numbering
  <2>2. num(m) \in Numbers(m)
    BY <2>1
  <2> QED
    BY <2>2
<1>2. \A p \in U : p[1] \in T /\ p[2] \in F[p[1]] /\ p = <<p[1], p[2]>>
  OBVIOUS
<1> HIDE DEF num
<1>3. index \in [U -> T \X (1 .. k)]
  BY <1>1, <1>2
<1>4. ASSUME NEW p \in U, NEW q \in U, index[p] = index[q] PROVE p = q
  <2>1. p[1] = q[1] /\ num(p[1])[p[2]] = num(q[1])[q[2]]
    BY <1>4
  <2>2. p[2] = q[2]
    BY <1>1, <1>2, <2>1
  <2> QED
    BY <1>2, <2>1, <2>2
<1> HIDE DEF index
<1>5. index \in Injection(U, T \X (1 .. k))
  BY <1>3, <1>4, Fun_IsInj
<1>6. IsFiniteSet(1 .. k) /\ Cardinality(1 .. k) = k
  BY FS_Interval
<1>7. /\ IsFiniteSet(T \X (1 .. k))
      /\ Cardinality(T \X (1 .. k)) = Cardinality(T) * k
  BY <1>6, FS_Product
<1> QED
  BY <1>5, <1>7, FS_Injection

\* The clients that may have a batch in flight.
Firers == {curr} \cup {held[f] : f \in {g \in Flushers : Busy(g)}}

\* A running Flush holds a client of its own, so there are finitely many.
LEMMA FirersBound ==
  ASSUME ClientInv
  PROVE  /\ IsFiniteSet({f \in Flushers : Busy(f)}) /\ IsFiniteSet(Firers)
         /\ Cardinality(Firers) <= 1 + Cardinality({f \in Flushers : Busy(f)})
<1> DEFINE B == {f \in Flushers : Busy(f)}
           H == {held[f] : f \in B}
           hold == [f \in B |-> held[f]]
<1>1. /\ \A f \in Flushers : held[f] \in Musters
      /\ \A f, g \in B : held[f] = held[g] => f = g
  BY DEF ClientInv, TypeInv, TypeOK, OwnerInv
<1>2. IsFiniteSet(Musters)
  BY MusterAssumption, FS_Interval DEF Musters
<1>3. hold \in [B -> Musters] /\ \A f, g \in B : hold[f] = hold[g] => f = g
  BY <1>1
<1>4. hold \in [B -> H] /\ \A m \in H : \E f \in B : hold[f] = m
  OBVIOUS
<1>5. Firers = H \cup {curr}
  BY DEF Firers
<1> HIDE DEF B, H, hold
<1>6. IsFiniteSet(B)
  BY <1>2, <1>3, Fun_IsInj, FS_Injection
<1>7. hold \in Surjection(B, H)
  BY <1>4, Fun_IsSurj
<1>8. IsFiniteSet(H) /\ Cardinality(H) <= Cardinality(B)
  BY <1>6, <1>7, FS_Surjection
<1>9. /\ IsFiniteSet(H \cup {curr})
      /\ Cardinality(H \cup {curr}) \in {Cardinality(H), Cardinality(H) + 1}
  BY <1>8, FS_AddElement
<1>10. Cardinality(H) \in Nat /\ Cardinality(B) \in Nat
  BY <1>6, <1>8, FS_CardinalityType
<1>11. IsFiniteSet(Firers) /\ Cardinality(Firers) <= 1 + Cardinality(B)
  BY <1>5, <1>8, <1>9, <1>10
<1> QED
  BY <1>6, <1>11 DEF B

LEMMA TimesGrows ==
  ASSUME NEW i \in Nat, NEW j \in Nat, NEW k \in Nat, i <= j PROVE i * k <= j * k
<1>1. PICK d \in Nat : j = i + d
  <2>1. j - i \in Nat /\ j = i + (j - i)
    OBVIOUS
  <2> QED
    BY <2>1
<1>2. j * k = i * k + d * k
  BY <1>1
<1>3. d * k \in Nat /\ i * k \in Nat
  OBVIOUS
<1> QED
  BY <1>2, <1>3

(***************************************************************************)
(* The batches in flight, counted over all clients, stay within the limit  *)
(* of one client and one more for each Flush that is running, however many *)
(* clients the Flushes have created (createMuster, Flush).                 *)
(***************************************************************************)
THEOREM BoundedInFlight ==
  ASSUME ~StopDuringFlush PROVE Spec => []InFlightBound
<1>1. ASSUME ClientInv, SlotInv PROVE InFlightBound
  <2> SUFFICES ASSUME conf.MaxConcurrentBatches # 0
               PROVE  Cardinality(InFlight) <=
                        (1 + Cardinality({f \in Flushers : flusher[f] # "idle"}))
                          * conf.MaxConcurrentBatches
    BY DEF InFlightBound
  <2> DEFINE k == conf.MaxConcurrentBatches
             B == {f \in Flushers : Busy(f)}
  <2>1. k \in Nat
    BY <1>1, MusterAssumption DEF ClientInv, TypeInv, TypeOK, MusterTypeOK
  <2>2. /\ IsFiniteSet(B) /\ IsFiniteSet(Firers)
        /\ Cardinality(Firers) <= 1 + Cardinality(B)
    BY <1>1, FirersBound
  <2>3. \A m \in Musters : firing[m] # {} => m \in Firers
    BY <1>1 DEF ClientInv, OwnedInv, Quiet, Firers
  <2>4. Firers \subseteq Musters
    BY <1>1 DEF Firers, ClientInv, TypeInv, TypeOK
  <2>5. \A m \in Firers : IsFiniteSet(firing[m]) /\ Cardinality(firing[m]) <= k
    BY <1>1, <2>4 DEF SlotInv
  <2>6. ASSUME NEW p
        PROVE  p \in InFlight <=> \E m \in Firers : \E b \in firing[m] : p = <<m, b>>
    <3>1. p \in InFlight <=> \E m \in Musters : \E b \in firing[m] : p = <<m, b>>
      BY DEF InFlight
    <3> QED
      BY <2>3, <2>4, <3>1
  <2> HIDE DEF k
  <2>7. Cardinality(InFlight) <= Cardinality(Firers) * k
    BY <2>1, <2>2, <2>5, <2>6, FamilyBound
  <2>8. Cardinality(InFlight) \in Nat /\ Cardinality(Firers) \in Nat /\ Cardinality(B) \in Nat
    BY <2>1, <2>2, <2>5, <2>6, FamilyBound, FS_CardinalityType
  <2>9. Cardinality(Firers) * k <= (1 + Cardinality(B)) * k
    BY <2>1, <2>2, <2>8, TimesGrows
  <2>10. Cardinality(Firers) * k \in Nat /\ (1 + Cardinality(B)) * k \in Nat
    BY <2>1, <2>8
  <2>11. Cardinality(InFlight) <= (1 + Cardinality(B)) * k
    BY <2>7, <2>8, <2>9, <2>10
  <2> QED
    BY <2>11 DEF k, Busy
<1>2. ClientInv /\ SlotInv /\ [Next]_vars => (ClientInv /\ SlotInv)'
  BY ClientNext, SlotNext DEF ClientInv, TypeInv
<1> QED
  BY ClientInit, SlotInit, <1>1, <1>2, PTL DEF Spec

=============================================================================
