---------------------------- MODULE EventBuilder ----------------------------
(***************************************************************************)
(* The events and builders of libhoney.go and client.go: goroutines that   *)
(* share them add fields, create events and builders from a builder, and   *)
(* send events.  The fields of each are in a map, a reference: Send gives  *)
(* the map itself to the transmission, which reads it at any later time.   *)
(***************************************************************************)
EXTENDS Integers, FiniteSets, RWMutex

CONSTANTS
  Goroutines,
  Builders, Root,  \* Root is the builder of the Client
  Events,
  Fields,
  Nil,             \* no map, no goroutine, no object
  Absent, Dynamic, \* a field that is not in a map, the value of a dynamic field
  MaxCalls         \* bound: calls that the goroutines make in all

Holders == Builders \cup Events  \* what has a fieldHolder

\* The maps that a holder is given, first by its maker.  Two names are enough: when
\* a map is replaced, nobody refers any more to the one that it had replaced.
MapsOf(h) == {<<h, 1>>, <<h, 2>>}
Maps == UNION {MapsOf(h) : h \in Holders}

ASSUME EventBuilderAssumption ==
  /\ Root \in Builders
  /\ Builders \cap Events = {}
  /\ Nil \notin Holders \cup Goroutines \cup Maps
  /\ Absent # Dynamic /\ Absent \notin Goroutines /\ Dynamic \notin Goroutines
  /\ MaxCalls \in Nat

VARIABLES
  data,      \* data[h]: the map of h
  heap,      \* heap[m][k]: who set the field k of the map m
  dyn,       \* dyn[b]: the names in dynFields
  sent,      \* the events whose sent is true
  queued,    \* the maps given to the transmission
  lock,      \* lock[h], of the fieldHolder
  dynLock,   \* dynFieldsLock[b]
  sendLock,  \* sendLock[e]: its holder
  pc, call,  \* where each goroutine is, in which call
  calls      \* calls made so far

vars == <<data, heap, dyn, sent, queued, lock, dynLock, sendLock, pc, call, calls>>
maps == <<data, heap, dyn>>
locks == <<lock, dynLock, sendLock>>
sending == <<sent, queued>>

Kinds == {"Add", "AddFunc", "Send", "AddDynamicField", "NewEvent", "Clone"}
Places == {"idle", "sample", "sendLock", "sendUnlock", "lock", "lockWait", "write", "unlock",
           "rlock", "check", "queue", "runlock", "log", "dynRLock", "copy", "dynamic",
           "copyDyn", "release", "dynLock", "dynWait", "append"}

\* A call on an object, the fields it is about and those still to be written;
\* for NewEvent and Clone the object created and what the builder had at the
\* call, dynamic fields in keys and the others in seen.
Calls == [kind : Kinds, on : Holders, keys : SUBSET Fields, left : SUBSET Fields,
          to : Holders \cup {Nil}, seen : SUBSET Fields]
NoCall == [kind |-> "Add", on |-> Root, keys |-> {}, left |-> {}, to |-> Nil, seen |-> {}]

EmptyMap == [k \in Fields |-> Absent]
FieldsOf(m) == {k \in Fields : heap[m][k] # Absent}

TypeOK ==
  /\ data \in [Holders -> Maps \cup {Nil}]
  /\ heap \in [Maps -> [Fields -> Goroutines \cup {Absent, Dynamic}]]
  /\ dyn \in [Builders -> SUBSET Fields]
  /\ sent \subseteq Events /\ queued \subseteq Maps
  /\ lock \in [Holders -> RWMutexes(Goroutines)]
  /\ dynLock \in [Builders -> RWMutexes(Goroutines)]
  /\ sendLock \in [Events -> Goroutines \cup {Nil}]
  /\ pc \in [Goroutines -> Places]
  /\ call \in [Goroutines -> Calls]
  /\ calls \in 0 .. MaxCalls

\* NewClient: the builder of the Client, without fields.
Init ==
  /\ data = [h \in Holders |-> IF h = Root THEN <<Root, 1>> ELSE Nil]
  /\ heap = [m \in Maps |-> EmptyMap]
  /\ dyn = [b \in Builders |-> {}]
  /\ sent = {} /\ queued = {}
  /\ lock = [h \in Holders |-> Released]
  /\ dynLock = [b \in Builders |-> Released]
  /\ sendLock = [e \in Events |-> Nil]
  /\ pc = [g \in Goroutines |-> "idle"]
  /\ call = [g \in Goroutines |-> NoCall]
  /\ calls = 0

-----------------------------------------------------------------------------
\* Fresh objects have not been made, known ones have been returned.
Fresh(h) == data[h] = Nil /\ \A g \in Goroutines : call[g].to # h
Known(h) == data[h] # Nil /\ \A g \in Goroutines : call[g].to # h

Begin(g, place, c) ==
  /\ pc[g] = "idle"
  /\ calls < MaxCalls
  /\ calls' = calls + 1
  /\ pc' = [pc EXCEPT ![g] = place]
  /\ call' = [call EXCEPT ![g] = c]
  /\ UNCHANGED <<maps, sending, locks>>

Goto(g, place) ==
  /\ pc' = [pc EXCEPT ![g] = place]
  /\ UNCHANGED <<call, calls>>

Return(g) ==
  /\ pc' = [pc EXCEPT ![g] = "idle"]
  /\ call' = [call EXCEPT ![g] = NoCall]
  /\ UNCHANGED calls

\* AddField, AddFields or Add, with a struct or a map, and AddFunc.
CallAdd(g, h) ==
  /\ Known(h)
  /\ \E kind \in {"Add", "AddFunc"}, keys \in SUBSET Fields \ {{}} :
       Begin(g, IF h \in Events THEN "sendLock" ELSE "lock",
             [NoCall EXCEPT !.kind = kind, !.on = h, !.keys = keys, !.left = keys])

\* Send, and SendPresampled, which is the part after the sampling.
CallSend(g, e) ==
  /\ Known(e)
  /\ \E place \in {"sample", "sendLock"} :
       Begin(g, place, [NoCall EXCEPT !.kind = "Send", !.on = e])

CallAddDynamicField(g, b, k) ==
  /\ Known(b)
  /\ Begin(g, "dynLock", [NoCall EXCEPT !.kind = "AddDynamicField", !.on = b, !.keys = {k}])

CallNewEvent(g, b, e) ==
  /\ Known(b) /\ Fresh(e)
  /\ Begin(g, "rlock", [NoCall EXCEPT !.kind = "NewEvent", !.on = b, !.to = e,
                                      !.keys = dyn[b], !.seen = FieldsOf(data[b])])

\* Builder.Clone, which is also what NewBuilder does.
CallClone(g, b, b2) ==
  /\ Known(b) /\ Fresh(b2)
  /\ Begin(g, "rlock", [NoCall EXCEPT !.kind = "Clone", !.on = b, !.to = b2,
                                      !.keys = dyn[b], !.seen = FieldsOf(data[b])])

-----------------------------------------------------------------------------
\* Adding fields, and the sendLock that events take for it.

\* shouldDrop: one that is dropped is answered, and stays as it is.
Keep(g) ==
  /\ pc[g] = "sample"
  /\ Goto(g, "sendLock")
  /\ UNCHANGED <<maps, sending, locks>>

SampleOut(g) ==
  /\ pc[g] = "sample"
  /\ Return(g)
  /\ UNCHANGED <<maps, sending, locks>>

\* A wrong MayEnter: Send takes the lock of the fields only.
MayEnterToSend(g) == call[g].kind = "Send" \/ sendLock[call[g].on] = Nil

MayEnter(g) == sendLock[call[g].on] = Nil

\* A wrong Entered: the sent flag is not looked at.
EnteredUnchecked(g) == IF call[g].kind = "Send" THEN "rlock" ELSE "lock"

\* An Add to an event that was sent returns, a second Send goes on.
Entered(g) ==
  CASE call[g].kind = "Send" -> "rlock"
    [] call[g].on \in sent -> "sendUnlock"
    [] OTHER -> "lock"

SendLock(g) ==
  /\ pc[g] = "sendLock"
  /\ MayEnter(g)
  /\ sendLock' = [sendLock EXCEPT ![call[g].on] = g]
  /\ Goto(g, Entered(g))
  /\ UNCHANGED <<maps, sending, lock, dynLock>>

\* The deferred unlock; Send still has a deferred call of the logger.
SendUnlock(g) ==
  /\ pc[g] = "sendUnlock"
  /\ sendLock' = [sendLock EXCEPT ![call[g].on] = Nil]
  /\ IF call[g].kind = "Send" THEN Goto(g, "log") ELSE Return(g)
  /\ UNCHANGED <<maps, sending, lock, dynLock>>

\* The write lock of a fieldHolder, in the two steps of its implementation.
LockAsk(g) ==
  LET h == call[g].on IN
  /\ pc[g] = "lock"
  /\ Open(lock[h])
  /\ lock' = [lock EXCEPT ![h] = AskedBy(@, g)]
  /\ Goto(g, "lockWait")
  /\ UNCHANGED <<maps, sending, dynLock, sendLock>>

Lock(g) ==
  LET h == call[g].on IN
  /\ pc[g] = "lockWait"
  /\ Ready(lock[h], g)
  /\ lock' = [lock EXCEPT ![h] = LockedBy(@, g)]
  /\ Goto(g, "write")
  /\ UNCHANGED <<maps, sending, dynLock, sendLock>>

\* One field; AddFunc releases the lock after each.
Write(g) ==
  /\ pc[g] = "write"
  /\ \E k \in call[g].left :
       /\ heap' = [heap EXCEPT ![data[call[g].on]][k] = g]
       /\ call' = [call EXCEPT ![g].left = @ \ {k}]
       /\ pc' = [pc EXCEPT ![g] = IF call[g].kind = "AddFunc" \/ call[g].left = {k}
                                  THEN "unlock" ELSE "write"]
  /\ UNCHANGED <<data, dyn, sending, locks, calls>>

\* AddFields with more fields than there are in the map: a new one with all of them
\* takes its place.
Replacement(m) == <<m[1], 3 - m[2]>>

Merge(g) ==
  LET h == call[g].on
      keys == call[g].keys
  IN  /\ pc[g] = "write"
      /\ call[g].kind = "Add" /\ call[g].left = keys
      /\ Cardinality(keys) > Cardinality(FieldsOf(data[h]))
      /\ data' = [data EXCEPT ![h] = Replacement(@)]
      /\ heap' = [heap EXCEPT ![Replacement(data[h])] =
                    [k \in Fields |-> IF k \in keys THEN g ELSE heap[data[h]][k]]]
      /\ call' = [call EXCEPT ![g].left = {}]
      /\ pc' = [pc EXCEPT ![g] = "unlock"]
      /\ UNCHANGED <<dyn, sending, locks, calls>>

\* addMap stops at a key of a type it does not accept: the rest is left out.
BadKey(g) ==
  /\ pc[g] = "write"
  /\ call[g].kind = "Add"
  /\ call' = [call EXCEPT ![g].keys = @ \ call[g].left, ![g].left = {}]
  /\ pc' = [pc EXCEPT ![g] = "unlock"]
  /\ UNCHANGED <<maps, sending, locks, calls>>

Unlock(g) ==
  LET h == call[g].on IN
  /\ pc[g] = "unlock"
  /\ lock' = [lock EXCEPT ![h] = Unlocked(@)]
  /\ IF call[g].left # {} THEN Goto(g, "lock")
     ELSE IF h \in Events THEN Goto(g, "sendUnlock")
     ELSE Return(g)
  /\ UNCHANGED <<maps, sending, dynLock, sendLock>>

-----------------------------------------------------------------------------
\* SendPresampled with the sendLock held; NewEvent and Clone begin alike.

\* A wrong MayRead: NewEvent and Clone read the fields without the lock.
MayReadUnlocked(g) == call[g].kind = "Send" => Open(lock[call[g].on])

MayRead(g) == Open(lock[call[g].on])

RLock(g) ==
  /\ pc[g] = "rlock"
  /\ MayRead(g)
  /\ lock' = [lock EXCEPT ![call[g].on] = RLocked(@, g)]
  /\ Goto(g, CASE call[g].kind = "Send" -> "check"
               [] call[g].kind = "NewEvent" -> "dynRLock"
               [] OTHER -> "copy")
  /\ UNCHANGED <<maps, sending, dynLock, sendLock>>

\* A wrong CheckFails: the early return leaves the lock of the fields taken.
CheckFailsLocked(g) ==
  /\ pc[g] = "check"
  /\ Goto(g, "sendUnlock")
  /\ UNCHANGED <<maps, sending, locks>>

\* An event without fields, or without a key, host or dataset, is an error.
CheckFails(g) ==
  /\ pc[g] = "check"
  /\ Goto(g, "runlock")
  /\ UNCHANGED <<maps, sending, locks>>

\* e.sent = true.
MarkSent(g) ==
  LET e == call[g].on IN
  /\ pc[g] = "check"
  /\ FieldsOf(data[e]) # {}
  /\ sent' = sent \cup {e}
  /\ Goto(g, "queue")
  /\ UNCHANGED <<maps, queued, locks>>

\* transmission.Add, which may block, with the locks held.
Queue(g) ==
  /\ pc[g] = "queue"
  /\ queued' = queued \cup {data[call[g].on]}
  /\ Goto(g, "runlock")
  /\ UNCHANGED <<maps, sent, locks>>

RUnlock(g) ==
  /\ pc[g] = "runlock"
  /\ lock' = [lock EXCEPT ![call[g].on] = RUnlocked(@, g)]
  /\ Goto(g, "sendUnlock")
  /\ UNCHANGED <<maps, sending, dynLock, sendLock>>

\* The logger's call of String, which reads the fields without a lock.
Log(g) ==
  /\ pc[g] = "log"
  /\ Return(g)
  /\ UNCHANGED <<maps, sending, locks>>

-----------------------------------------------------------------------------
\* NewEvent and Clone, which take dynFieldsLock after and before the copy.
DynRLock(g) ==
  LET b == call[g].on IN
  /\ pc[g] = "dynRLock"
  /\ Open(dynLock[b])
  /\ dynLock' = [dynLock EXCEPT ![b] = RLocked(@, g)]
  /\ Goto(g, IF call[g].kind = "NewEvent" THEN "copy" ELSE "copyDyn")
  /\ UNCHANGED <<maps, sending, lock, sendLock>>

\* A wrong Copy: the new object gets the map of the builder.
CopyReference(g) ==
  LET c == call[g] IN
  /\ pc[g] = "copy"
  /\ data' = [data EXCEPT ![c.to] = data[c.on]]
  /\ Goto(g, IF c.kind = "NewEvent" THEN "dynamic" ELSE "dynRLock")
  /\ UNCHANGED <<heap, dyn, sending, locks>>

Copy(g) ==
  LET c == call[g] IN
  /\ pc[g] = "copy"
  /\ data' = [data EXCEPT ![c.to] = <<c.to, 1>>]
  /\ heap' = [heap EXCEPT ![<<c.to, 1>>] = heap[data[c.on]]]
  /\ Goto(g, IF c.kind = "NewEvent" THEN "dynamic" ELSE "dynRLock")
  /\ UNCHANGED <<dyn, sending, locks>>

\* A wrong DynamicValue: a static field of the same name is kept.
DynamicValueIfAbsent(b, k, v) == IF k \in dyn[b] /\ v = Absent THEN Dynamic ELSE v

\* A wrong DynamicValue: the name instead of what the function returns.
DynamicValueName(b, k, v) == IF k \in dyn[b] THEN k ELSE v

\* The functions are called with the locks held; they do not use the builder.
DynamicValue(b, k, v) == IF k \in dyn[b] THEN Dynamic ELSE v

ApplyDynamic(g) ==
  LET c == call[g] IN
  /\ pc[g] = "dynamic"
  /\ heap' = [heap EXCEPT ![data[c.to]] = [k \in Fields |-> DynamicValue(c.on, k, @[k])]]
  /\ Goto(g, "release")
  /\ UNCHANGED <<data, dyn, sending, locks>>

CopyDyn(g) ==
  LET c == call[g] IN
  /\ pc[g] = "copyDyn"
  /\ dyn' = [dyn EXCEPT ![c.to] = dyn[c.on]]
  /\ Goto(g, "release")
  /\ UNCHANGED <<data, heap, sending, locks>>

Release(g) ==
  LET b == call[g].on IN
  /\ pc[g] = "release"
  /\ lock' = [lock EXCEPT ![b] = RUnlocked(@, g)]
  /\ dynLock' = [dynLock EXCEPT ![b] = RUnlocked(@, g)]
  /\ Return(g)
  /\ UNCHANGED <<maps, sending, sendLock>>

\* AddDynamicField.
DynLockAsk(g) ==
  LET b == call[g].on IN
  /\ pc[g] = "dynLock"
  /\ Open(dynLock[b])
  /\ dynLock' = [dynLock EXCEPT ![b] = AskedBy(@, g)]
  /\ Goto(g, "dynWait")
  /\ UNCHANGED <<maps, sending, lock, sendLock>>

DynLock(g) ==
  LET b == call[g].on IN
  /\ pc[g] = "dynWait"
  /\ Ready(dynLock[b], g)
  /\ dynLock' = [dynLock EXCEPT ![b] = LockedBy(@, g)]
  /\ Goto(g, "append")
  /\ UNCHANGED <<maps, sending, lock, sendLock>>

AppendDyn(g) ==
  LET b == call[g].on IN
  /\ pc[g] = "append"
  /\ dyn' = [dyn EXCEPT ![b] = @ \cup call[g].keys]
  /\ dynLock' = [dynLock EXCEPT ![b] = Unlocked(@)]
  /\ Return(g)
  /\ UNCHANGED <<data, heap, sending, lock, sendLock>>

-----------------------------------------------------------------------------
Step(g) ==
  \/ Keep(g) \/ SampleOut(g) \/ SendLock(g) \/ SendUnlock(g)
  \/ LockAsk(g) \/ Lock(g) \/ Write(g) \/ Merge(g) \/ BadKey(g) \/ Unlock(g)
  \/ RLock(g) \/ CheckFails(g) \/ MarkSent(g) \/ Queue(g) \/ RUnlock(g) \/ Log(g)
  \/ DynRLock(g) \/ Copy(g) \/ ApplyDynamic(g) \/ CopyDyn(g) \/ Release(g)
  \/ DynLockAsk(g) \/ DynLock(g) \/ AppendDyn(g)

Call(g) ==
  \/ \E h \in Holders : CallAdd(g, h)
  \/ \E e \in Events : CallSend(g, e)
  \/ \E b \in Builders, k \in Fields : CallAddDynamicField(g, b, k)
  \/ \E b \in Builders, e \in Events : CallNewEvent(g, b, e)
  \/ \E b, b2 \in Builders : CallClone(g, b, b2)

Next == \E g \in Goroutines : Call(g) \/ Step(g)

Spec == Init /\ [][Next]_vars

(***************************************************************************)
(* Each goroutine in a call goes on when it can.  That is enough for the   *)
(* locks because the calls are finitely many; in the code the locks of Go  *)
(* do not let a goroutine be overtaken for ever.                           *)
(***************************************************************************)
Fairness == \A g \in Goroutines : WF_vars(Step(g))

FairSpec == Spec /\ Fairness

-----------------------------------------------------------------------------
(***************************************************************************)
(* No map is written while another goroutine reads or writes it, and none  *)
(* that the transmission has, which reads it whenever it encodes it; the   *)
(* same for dynFields.  The read by the logger in Log does not count: after *)
(* a failed Send it can meet a writer, with a logger that prints.          *)
(***************************************************************************)
NoDataRace ==
  \A g, h \in Goroutines :
    /\ pc[g] = "write" =>
         /\ data[call[g].on] \notin queued
         /\ g # h /\ pc[h] \in {"write", "check", "copy"} => data[call[h].on] # data[call[g].on]
    /\ pc[g] = "append" /\ g # h /\ pc[h] \in {"append", "dynamic", "copyDyn"} =>
         call[h].on # call[g].on

(***************************************************************************)
(* Once the transmission has an event, its fields do not change, whoever   *)
(* holds the event or its builder and whenever they add to it: the sent    *)
(* flag of the Add methods and SendPresampled, the copies of NewEvent.     *)
(***************************************************************************)
SentUnchanged == [][\A m \in queued : heap'[m] = heap[m]]_vars

(***************************************************************************)
(* An event is sent with all the fields of a concurrent call or with none: *)
(* AddFunc, which releases the lock of the fields after each, holds the    *)
(* sendLock throughout, as every Add does.                                 *)
(***************************************************************************)
NoTornEvent ==
  \A g \in Goroutines :
    call[g].left # {} /\ call[g].on \in sent => call[g].left = call[g].keys

(***************************************************************************)
(* What NewEvent and Clone return has every field that its builder had at  *)
(* the call, and an event the value of each dynamic field, even if there   *)
(* is a static field of that name, whatever is added in the meantime.      *)
(***************************************************************************)
InheritsAll ==
  \A g \in Goroutines :
    LET c == call[g] IN
    pc[g] = "release" =>
      /\ c.seen \subseteq FieldsOf(data[c.to])
      /\ IF c.kind = "NewEvent"
         THEN \A k \in c.keys : heap[data[c.to]][k] = Dynamic
         ELSE c.keys \subseteq dyn[c.to]

(***************************************************************************)
(* The fields of an event or builder that the program has change only by a *)
(* call on itself, not through its template or what was made from it.      *)
(***************************************************************************)
OnlyOwnCalls ==
  [][\A h \in Holders :
       Known(h) /\ heap'[data'[h]] # heap[data[h]] =>
         \E g \in Goroutines : pc[g] = "write" /\ call[g].on = h]_vars

(***************************************************************************)
(* Every call returns, so that in the end, as the calls are finitely many, *)
(* no goroutine is left in one: the four locks are taken in one order,     *)
(* sendLock before lock, lock before dynFieldsLock, and released on each   *)
(* path.                                                                   *)
(***************************************************************************)
CallsReturn ==
  (\E g \in Goroutines : pc[g] # "idle") ~> (\A g \in Goroutines : pc[g] = "idle")
=============================================================================
