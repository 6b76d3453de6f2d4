------------------------- MODULE EventBuilderProofs -------------------------
(***************************************************************************)
(* What holds of EventBuilder for any number of goroutines, events,        *)
(* builders, fields and calls: types, no data race, nothing about an event *)
(* changes once it was sent, no event is sent half written, and objects    *)
(* change only by calls on them.                                           *)
(***************************************************************************)
EXTENDS EventBuilder, TLAPS

\* Where a goroutine is inside which lock.
Adding == {"lock", "lockWait", "write", "unlock"}
Making == {"dynRLock", "copy", "dynamic", "copyDyn", "release"}
InLock == {"write", "unlock"}
InRLock == {"check", "queue", "runlock"} \cup Making
InDynRLock == {"dynamic", "copyDyn", "release"}

\* The places in which an object in the making has its map.
Mapped(g) ==
  \/ pc[g] \in {"dynamic", "copyDyn", "release"}
  \/ pc[g] = "dynRLock" /\ call[g].kind = "Clone"

\* Each object has a map of its own, and the objects of calls exist.
MapInv ==
  /\ \A h \in Holders : data[h] \in MapsOf(h) \cup {Nil}
  /\ data[Root] # Nil
  /\ \A e \in sent : data[e] # Nil
  /\ \A g \in Goroutines :
       /\ data[call[g].on] # Nil
       /\ Mapped(g) => data[call[g].to] # Nil

\* Where a call of each kind can be and what it is on.
CallOK(g) ==
  /\ pc[g] = "idle" => call[g] = NoCall
  /\ pc[g] \in Adding => call[g].kind \in {"Add", "AddFunc"}
  /\ pc[g] \in {"sample", "check", "queue", "runlock", "log"} => call[g].kind = "Send"
  /\ pc[g] \in {"sendLock", "sendUnlock"} => /\ call[g].kind \in {"Add", "AddFunc", "Send"}
                                            /\ call[g].on \in Events
  /\ pc[g] = "rlock" => call[g].kind \in {"Send", "NewEvent", "Clone"}
  /\ pc[g] \in Making => call[g].kind \in {"NewEvent", "Clone"}
  /\ pc[g] = "dynamic" => call[g].kind = "NewEvent"
  /\ pc[g] = "copyDyn" => call[g].kind = "Clone"
  /\ pc[g] \in {"dynLock", "dynWait", "append"} => call[g].kind = "AddDynamicField"
  /\ call[g].kind = "Send" => call[g].on \in Events
  /\ call[g].kind \in {"NewEvent", "Clone", "AddDynamicField"} => call[g].on \in Builders
  /\ call[g].kind = "NewEvent" => call[g].to \in Events
  /\ call[g].kind = "Clone" => call[g].to \in Builders
  /\ call[g].to # Nil => call[g].kind \in {"NewEvent", "Clone"}
CallInv == \A g \in Goroutines : CallOK(g)

\* An object in the making belongs to one call.
FreshInv ==
  \A g \in Goroutines :
    call[g].to # Nil =>
      /\ call[g].to \notin sent /\ call[g].to # Root
      /\ \A h \in Goroutines : /\ call[h].on # call[g].to
                               /\ h # g => call[h].to # call[g].to

\* The sendLock is held from where it is taken to where it is released, and
\* nobody who writes an event does so after it was sent.
SendOK(g) ==
  LET e == call[g].on IN
  e \in Events =>
    /\ pc[g] \in {"rlock", "check", "queue", "runlock", "sendUnlock"} \cup Adding => sendLock[e] = g
    /\ pc[g] \in Adding => e \notin sent
    /\ pc[g] = "queue" => e \in sent
SendInv ==
  /\ queued \subseteq {data[e] : e \in sent}
  /\ \A g \in Goroutines : SendOK(g)

Apart(m) == m.writer # {} => m.readers = {} /\ m.next = {}

\* The lock of each fieldHolder keeps its writer apart from everyone else.
LockOK(g) ==
  /\ pc[g] \in InLock => lock[call[g].on].writer = {g}
  /\ pc[g] \in InRLock => g \in lock[call[g].on].readers
LockInv ==
  /\ \A h \in Holders : Apart(lock[h])
  /\ \A g \in Goroutines : LockOK(g)

DynOK(g) ==
  /\ pc[g] = "append" => dynLock[call[g].on].writer = {g}
  /\ pc[g] \in InDynRLock \/ (pc[g] = "copy" /\ call[g].kind = "NewEvent")
       => g \in dynLock[call[g].on].readers
DynInv ==
  /\ \A b \in Builders : Apart(dynLock[b])
  /\ \A g \in Goroutines : DynOK(g)

\* A call that has written some of its fields is still in the sendLock.
TornOK(g) == call[g].left \in {{}, call[g].keys} \/ pc[g] \in Adding
TornInv == \A g \in Goroutines : TornOK(g)

\* What a new object inherits is in its builder and, after the copies, in it.
InheritOK(g) ==
  LET c == call[g] IN
  c.to # Nil =>
    /\ \A k \in c.seen : heap[data[c.on]][k] # Absent
    /\ c.keys \subseteq dyn[c.on]
    /\ Mapped(g) => \A k \in c.seen : heap[data[c.to]][k] # Absent
    /\ pc[g] = "release" /\ c.kind = "NewEvent" =>
         \A k \in c.keys : heap[data[c.to]][k] = Dynamic
    /\ pc[g] = "release" /\ c.kind = "Clone" => c.keys \subseteq dyn[c.to]
InheritInv == \A g \in Goroutines : InheritOK(g)

Inv == TypeOK /\ MapInv /\ CallInv /\ FreshInv /\ SendInv /\ LockInv /\ DynInv /\ TornInv


-----------------------------------------------------------------------------
USE EventBuilderAssumption

LEMMA RootHolder == Root \in Holders /\ Builders \subseteq Holders /\ Events \subseteq Holders
  BY DEF Holders

\* The maps of an object are no other's, and none of them is Nil.
LEMMA MapNames ==
  /\ \A h \in Holders : MapsOf(h) \subseteq Maps
  /\ Nil \notin Maps
  /\ \A h \in Holders : \A m \in MapsOf(h) :
       /\ m[1] = h /\ m \in Maps /\ m # Nil
       /\ Replacement(m) \in MapsOf(h) /\ Replacement(m) # m
  /\ \A h \in Holders : <<h, 1>> \in MapsOf(h)
  BY DEF Maps, MapsOf, Replacement

LEMMA OwnMap ==
  ASSUME NEW x \in Holders, NEW y \in Holders, NEW m, m \in MapsOf(x), m \in MapsOf(y)
  PROVE  x = y
  BY DEF MapsOf

LEMMA NoCallType == NoCall \in Calls
  BY RootHolder DEF NoCall, Calls, Kinds

LEMMA TypeInit == Init => TypeOK
<1> SUFFICES ASSUME Init PROVE TypeOK
  OBVIOUS
<1> USE DEF Init
<1>1. data \in [Holders -> Maps \cup {Nil}]
  BY RootHolder, MapNames
<1>2. heap \in [Maps -> [Fields -> Goroutines \cup {Absent, Dynamic}]]
  BY DEF EmptyMap
<1>3. lock \in [Holders -> RWMutexes(Goroutines)] /\ dynLock \in [Builders -> RWMutexes(Goroutines)]
  BY DEF Released, RWMutexes
<1>4. pc \in [Goroutines -> Places] /\ call \in [Goroutines -> Calls]
  BY NoCallType DEF Places
<1> QED
  BY <1>1, <1>2, <1>3, <1>4 DEF TypeOK

LEMMA CallType ==
  ASSUME TypeOK, NEW g \in Goroutines, Call(g)
  PROVE  TypeOK'
<1>1. ASSUME NEW place \in Places, NEW c \in Calls, Begin(g, place, c)
      PROVE  TypeOK'
  BY <1>1 DEF Begin, TypeOK, maps, sending, locks
<1>2. CASE \E h \in Holders : CallAdd(g, h)
  <2>1. PICK h \in Holders, kind \in {"Add", "AddFunc"}, keys \in SUBSET Fields \ {{}} :
          Begin(g, IF h \in Events THEN "sendLock" ELSE "lock",
                [NoCall EXCEPT !.kind = kind, !.on = h, !.keys = keys, !.left = keys])
    BY <1>2 DEF CallAdd
  <2>2. [NoCall EXCEPT !.kind = kind, !.on = h, !.keys = keys, !.left = keys] \in Calls
    BY DEF NoCall, Calls, Kinds
  <2> QED
    BY <1>1, <2>1, <2>2 DEF Places
<1>3. CASE \E e \in Events : CallSend(g, e)
  <2>1. PICK e \in Events, place \in {"sample", "sendLock"} :
          Begin(g, place, [NoCall EXCEPT !.kind = "Send", !.on = e])
    BY <1>3 DEF CallSend
  <2>2. [NoCall EXCEPT !.kind = "Send", !.on = e] \in Calls
    BY RootHolder DEF NoCall, Calls, Kinds
  <2> QED
    BY <1>1, <2>1, <2>2 DEF Places
<1>4. CASE \E b \in Builders, k \in Fields : CallAddDynamicField(g, b, k)
  <2>1. PICK b \in Builders, k \in Fields :
          Begin(g, "dynLock", [NoCall EXCEPT !.kind = "AddDynamicField", !.on = b, !.keys = {k}])
    BY <1>4 DEF CallAddDynamicField
  <2>2. [NoCall EXCEPT !.kind = "AddDynamicField", !.on = b, !.keys = {k}] \in Calls
    BY RootHolder DEF NoCall, Calls, Kinds
  <2> QED
    BY <1>1, <2>1, <2>2 DEF Places
<1>5. ASSUME NEW b \in Builders, NEW h \in Holders, NEW kind \in {"NewEvent", "Clone"},
             Begin(g, "rlock", [NoCall EXCEPT !.kind = kind, !.on = b, !.to = h,
                                !.keys = dyn[b], !.seen = FieldsOf(data[b])])
      PROVE  TypeOK'
  <2>1. dyn[b] \subseteq Fields /\ FieldsOf(data[b]) \subseteq Fields
    BY DEF TypeOK, FieldsOf
  <2>2. [NoCall EXCEPT !.kind = kind, !.on = b, !.to = h,
                       !.keys = dyn[b], !.seen = FieldsOf(data[b])] \in Calls
    BY <2>1, RootHolder DEF NoCall, Calls, Kinds
  <2> QED
    BY <1>1, <1>5, <2>2 DEF Places
<1> QED
  BY <1>2, <1>3, <1>4, <1>5, RootHolder DEF Call, CallNewEvent, CallClone

\* A lock stays a lock.
LEMMA MutexType ==
  ASSUME NEW m \in RWMutexes(Goroutines), NEW g \in Goroutines
  PROVE  /\ RLocked(m, g) \in RWMutexes(Goroutines) /\ RUnlocked(m, g) \in RWMutexes(Goroutines)
         /\ AskedBy(m, g) \in RWMutexes(Goroutines) /\ LockedBy(m, g) \in RWMutexes(Goroutines)
         /\ Unlocked(m) \in RWMutexes(Goroutines)
  BY DEF RWMutexes, RLocked, RUnlocked, AskedBy, LockedBy, Unlocked

ProcOK ==
  /\ pc \in [Goroutines -> Places]
  /\ call \in [Goroutines -> Calls]
  /\ calls \in 0 .. MaxCalls

LEMMA StepType ==
  ASSUME TypeOK, MapInv, CallInv, NEW g \in Goroutines, Step(g)
  PROVE  TypeOK'
<1> USE DEF maps, sending, locks
<1>a. /\ call[g].on \in Holders /\ call[g].to \in Holders \cup {Nil}
      /\ call[g].keys \subseteq Fields /\ call[g].left \subseteq Fields
  BY DEF TypeOK, Calls
<1>b. ASSUME NEW place \in Places, Goto(g, place) PROVE ProcOK'
  BY <1>b DEF TypeOK, Goto, ProcOK
<1>c. ASSUME Return(g) PROVE ProcOK'
  BY <1>c, NoCallType DEF TypeOK, Return, ProcOK, Places
<1>d. ASSUME NEW m \in RWMutexes(Goroutines), lock' = [lock EXCEPT ![call[g].on] = m]
      PROVE  lock' \in [Holders -> RWMutexes(Goroutines)]
  BY <1>d DEF TypeOK
<1>e. ASSUME NEW m \in RWMutexes(Goroutines), dynLock' = [dynLock EXCEPT ![call[g].on] = m]
      PROVE  dynLock' \in [Builders -> RWMutexes(Goroutines)]
  BY <1>e DEF TypeOK
<1>f. lock[call[g].on] \in RWMutexes(Goroutines)
  BY <1>a DEF TypeOK
<1>h. data[call[g].on] \in MapsOf(call[g].on) /\ data[call[g].on] \in Maps
  BY <1>a, MapNames DEF MapInv
<1>1. CASE Keep(g) \/ CheckFails(g)
  <2>1. ProcOK'
    BY <1>1, <1>b DEF Keep, CheckFails, Places
  <2> QED
    BY <1>1, <2>1 DEF TypeOK, ProcOK, Keep, CheckFails
<1>2. CASE SampleOut(g) \/ Log(g)
  BY <1>2, <1>c DEF TypeOK, ProcOK, SampleOut, Log
<1>3. CASE SendLock(g)
  <2>1. Entered(g) \in Places
    BY DEF Entered, Places
  <2>2. ProcOK'
    BY <1>3, <1>b, <2>1 DEF SendLock
  <2> QED
    BY <1>3, <2>2 DEF TypeOK, ProcOK, SendLock
<1>4. CASE SendUnlock(g)
  <2>1. ProcOK'
    BY <1>4, <1>b, <1>c DEF SendUnlock, Places
  <2> QED
    BY <1>4, <2>1 DEF TypeOK, ProcOK, SendUnlock
<1>5. CASE LockAsk(g)
  <2>1. ProcOK'
    BY <1>5, <1>b DEF LockAsk, Places
  <2>2. lock' \in [Holders -> RWMutexes(Goroutines)]
    BY <1>5, <1>d, <1>f, <1>a, MutexType DEF LockAsk
  <2> QED
    BY <1>5, <2>1, <2>2 DEF TypeOK, ProcOK, LockAsk
<1>6. CASE Lock(g)
  <2>1. ProcOK'
    BY <1>6, <1>b DEF Lock, Places
  <2>2. lock' \in [Holders -> RWMutexes(Goroutines)]
    BY <1>6, <1>d, <1>f, <1>a, MutexType DEF Lock
  <2> QED
    BY <1>6, <2>1, <2>2 DEF TypeOK, ProcOK, Lock
<1>7. CASE Write(g)
  <2>1. PICK k \in call[g].left :
          /\ heap' = [heap EXCEPT ![data[call[g].on]][k] = g]
          /\ call' = [call EXCEPT ![g].left = @ \ {k}]
          /\ pc' = [pc EXCEPT ![g] = IF call[g].kind = "AddFunc" \/ call[g].left = {k}
                                     THEN "unlock" ELSE "write"]
    BY <1>7 DEF Write
  <2>2. pc' \in [Goroutines -> Places]
    BY <2>1 DEF TypeOK, Places
  <2>a. [call[g] EXCEPT !.left = call[g].left \ {k}] \in Calls
    BY DEF TypeOK, Calls
  <2>3. call' \in [Goroutines -> Calls]
    BY <2>1, <2>a DEF TypeOK
  <2>4. heap' \in [Maps -> [Fields -> Goroutines \cup {Absent, Dynamic}]]
    BY <2>1, <1>a, <1>h DEF TypeOK
  <2> QED
    BY <1>7, <2>2, <2>3, <2>4 DEF TypeOK, Write
<1>22. CASE Merge(g)
  <2>1. pc' \in [Goroutines -> Places]
    BY <1>22 DEF Merge, TypeOK, Places
  <2>a. [call[g] EXCEPT !.left = {}] \in Calls
    BY DEF TypeOK, Calls
  <2>2. call' \in [Goroutines -> Calls]
    BY <1>22, <2>a DEF Merge, TypeOK
  <2>3. Replacement(data[call[g].on]) \in Maps
    BY <1>a, <1>h, MapNames
  <2>4. data' \in [Holders -> Maps \cup {Nil}]
    BY <1>22, <1>a, <2>3 DEF Merge, TypeOK
  <2>b. [k \in Fields |-> IF k \in call[g].keys THEN g ELSE heap[data[call[g].on]][k]]
          \in [Fields -> Goroutines \cup {Absent, Dynamic}]
    BY <1>h DEF TypeOK
  <2>5. heap' \in [Maps -> [Fields -> Goroutines \cup {Absent, Dynamic}]]
    BY <1>22, <2>3, <2>b DEF Merge, TypeOK
  <2> QED
    BY <1>22, <2>1, <2>2, <2>4, <2>5 DEF TypeOK, Merge
<1>8. CASE BadKey(g)
  <2>1. pc' \in [Goroutines -> Places]
    BY <1>8 DEF BadKey, TypeOK, Places
  <2>a. [call[g] EXCEPT !.keys = call[g].keys \ call[g].left, !.left = {}] \in Calls
    BY DEF TypeOK, Calls
  <2>2. call' \in [Goroutines -> Calls]
    BY <1>8, <2>a DEF BadKey, TypeOK
  <2> QED
    BY <1>8, <2>1, <2>2 DEF TypeOK, BadKey
<1>9. CASE Unlock(g)
  <2>1. ProcOK'
    BY <1>9, <1>b, <1>c DEF Unlock, Places
  <2>2. lock' \in [Holders -> RWMutexes(Goroutines)]
    BY <1>9, <1>d, <1>f, <1>a, MutexType DEF Unlock
  <2> QED
    BY <1>9, <2>1, <2>2 DEF TypeOK, ProcOK, Unlock
<1>10. CASE RLock(g)
  <2>1. ProcOK'
    BY <1>10, <1>b DEF RLock, Places
  <2>2. lock' \in [Holders -> RWMutexes(Goroutines)]
    BY <1>10, <1>d, <1>f, <1>a, MutexType DEF RLock
  <2> QED
    BY <1>10, <2>1, <2>2 DEF TypeOK, ProcOK, RLock
<1>11. CASE MarkSent(g)
  <2>1. ProcOK'
    BY <1>11, <1>b DEF MarkSent, Places
  <2>2. call[g].on \in Events
    BY <1>11 DEF MarkSent, CallInv, CallOK
  <2> QED
    BY <1>11, <2>1, <2>2 DEF TypeOK, ProcOK, MarkSent
<1>12. CASE Queue(g)
  <2>1. ProcOK'
    BY <1>12, <1>b DEF Queue, Places
  <2> QED
    BY <1>12, <1>h, <2>1 DEF TypeOK, ProcOK, Queue
<1>13. CASE RUnlock(g)
  <2>1. ProcOK'
    BY <1>13, <1>b DEF RUnlock, Places
  <2>2. lock' \in [Holders -> RWMutexes(Goroutines)]
    BY <1>13, <1>d, <1>f, <1>a, MutexType DEF RUnlock
  <2> QED
    BY <1>13, <2>1, <2>2 DEF TypeOK, ProcOK, RUnlock
<1>g. ASSUME pc[g] \in Making \cup {"dynLock", "dynWait", "append"}
      PROVE  call[g].on \in Builders /\ dynLock[call[g].on] \in RWMutexes(Goroutines)
  BY <1>g DEF TypeOK, CallInv, CallOK, Making
<1>14. CASE DynRLock(g)
  <2>1. ProcOK'
    BY <1>14, <1>b DEF DynRLock, Places
  <2>2. dynLock' \in [Builders -> RWMutexes(Goroutines)]
    BY <1>14, <1>e, <1>g, MutexType DEF DynRLock, Making
  <2> QED
    BY <1>14, <2>1, <2>2 DEF TypeOK, ProcOK, DynRLock
<1>15. CASE Copy(g)
  <2>1. ProcOK'
    BY <1>15, <1>b DEF Copy, Places
  <2>2. call[g].to \in Holders /\ <<call[g].to, 1>> \in Maps
    BY <1>15, RootHolder, MapNames DEF Copy, CallInv, CallOK, Making
  <2>3. data' \in [Holders -> Maps \cup {Nil}]
    BY <1>15, <2>2 DEF TypeOK, Copy
  <2>4. heap' \in [Maps -> [Fields -> Goroutines \cup {Absent, Dynamic}]]
    BY <1>15, <1>h, <2>2 DEF TypeOK, Copy
  <2> QED
    BY <1>15, <2>1, <2>3, <2>4 DEF TypeOK, ProcOK, Copy
<1>16. CASE ApplyDynamic(g)
  <2>1. ProcOK'
    BY <1>16, <1>b DEF ApplyDynamic, Places
  <2>a. call[g].to \in Holders /\ data[call[g].to] \in Maps
    BY <1>16, RootHolder, MapNames DEF ApplyDynamic, CallInv, CallOK, MapInv, Mapped
  <2>b. [k \in Fields |-> DynamicValue(call[g].on, k, heap[data[call[g].to]][k])]
          \in [Fields -> Goroutines \cup {Absent, Dynamic}]
    BY <2>a DEF TypeOK, DynamicValue
  <2>2. heap' \in [Maps -> [Fields -> Goroutines \cup {Absent, Dynamic}]]
    BY <1>16, <2>a, <2>b DEF TypeOK, ApplyDynamic
  <2> QED
    BY <1>16, <2>1, <2>2 DEF TypeOK, ProcOK, ApplyDynamic
<1>17. CASE CopyDyn(g)
  <2>1. ProcOK'
    BY <1>17, <1>b DEF CopyDyn, Places
  <2>2. dyn' \in [Builders -> SUBSET Fields]
    BY <1>17, <1>g DEF TypeOK, CopyDyn, Making
  <2> QED
    BY <1>17, <2>1, <2>2 DEF TypeOK, ProcOK, CopyDyn
<1>18. CASE Release(g)
  <2>1. ProcOK'
    BY <1>18, <1>c DEF Release
  <2>2. lock' \in [Holders -> RWMutexes(Goroutines)]
    BY <1>18, <1>d, <1>f, <1>a, MutexType DEF Release
  <2>3. dynLock' \in [Builders -> RWMutexes(Goroutines)]
    BY <1>18, <1>e, <1>g, MutexType DEF Release, Making
  <2> QED
    BY <1>18, <2>1, <2>2, <2>3 DEF TypeOK, ProcOK, Release
<1>19. CASE DynLockAsk(g)
  <2>1. ProcOK'
    BY <1>19, <1>b DEF DynLockAsk, Places
  <2>2. dynLock' \in [Builders -> RWMutexes(Goroutines)]
    BY <1>19, <1>e, <1>g, MutexType DEF DynLockAsk
  <2> QED
    BY <1>19, <2>1, <2>2 DEF TypeOK, ProcOK, DynLockAsk
<1>20. CASE DynLock(g)
  <2>1. ProcOK'
    BY <1>20, <1>b DEF DynLock, Places
  <2>2. dynLock' \in [Builders -> RWMutexes(Goroutines)]
    BY <1>20, <1>e, <1>g, MutexType DEF DynLock
  <2> QED
    BY <1>20, <2>1, <2>2 DEF TypeOK, ProcOK, DynLock
<1>21. CASE AppendDyn(g)
  <2>1. ProcOK'
    BY <1>21, <1>c DEF AppendDyn
  <2>2. dynLock' \in [Builders -> RWMutexes(Goroutines)]
    BY <1>21, <1>e, <1>g, MutexType DEF AppendDyn
  <2>3. dyn' \in [Builders -> SUBSET Fields]
    BY <1>21, <1>a DEF TypeOK, AppendDyn
  <2> QED
    BY <1>21, <2>1, <2>2, <2>3 DEF TypeOK, ProcOK, AppendDyn
<1> QED
  BY <1>1, <1>2, <1>3, <1>4, <1>5, <1>6, <1>7, <1>8, <1>9, <1>10, <1>11, <1>12, <1>13, <1>14,
     <1>15, <1>16, <1>17, <1>18, <1>19, <1>20, <1>21, <1>22 DEF Step

-----------------------------------------------------------------------------
\* A step of g moves no other goroutine, and leaves its own call or ends it.
LEMMA Others ==
  ASSUME TypeOK, NEW g \in Goroutines, Call(g) \/ Step(g), NEW h \in Goroutines, h # g
  PROVE  pc'[h] = pc[h] /\ call'[h] = call[h]
<1>1. CASE Call(g)
  BY <1>1 DEF TypeOK, Call, CallAdd, CallSend, CallAddDynamicField, CallNewEvent, CallClone, Begin
<1>2. CASE Step(g)
  <2>1. CASE Keep(g) \/ SampleOut(g) \/ SendLock(g) \/ SendUnlock(g)
    BY <2>1 DEF TypeOK, Keep, SampleOut, SendLock, SendUnlock, Goto, Return
  <2>2. CASE LockAsk(g) \/ Lock(g) \/ Write(g) \/ Merge(g) \/ BadKey(g) \/ Unlock(g)
    BY <2>2 DEF TypeOK, LockAsk, Lock, Write, Merge, BadKey, Unlock, Goto, Return
  <2>3. CASE RLock(g) \/ CheckFails(g) \/ MarkSent(g) \/ Queue(g) \/ RUnlock(g) \/ Log(g)
    BY <2>3 DEF TypeOK, RLock, CheckFails, MarkSent, Queue, RUnlock, Log, Goto, Return
  <2>4. CASE DynRLock(g) \/ Copy(g) \/ ApplyDynamic(g) \/ CopyDyn(g) \/ Release(g)
    BY <2>4 DEF TypeOK, DynRLock, Copy, ApplyDynamic, CopyDyn, Release, Goto, Return
  <2>5. CASE DynLockAsk(g) \/ DynLock(g) \/ AppendDyn(g)
    BY <2>5 DEF TypeOK, DynLockAsk, DynLock, AppendDyn, Goto, Return
  <2> QED
    BY <1>2, <2>1, <2>2, <2>3, <2>4, <2>5 DEF Step
<1> QED
  BY <1>1, <1>2

LEMMA Own ==
  ASSUME TypeOK, NEW g \in Goroutines, Step(g)
  PROVE  \/ pc'[g] = "idle" /\ call'[g] = NoCall
         \/ /\ pc'[g] # "idle"
            /\ call'[g].kind = call[g].kind
            /\ call'[g].on = call[g].on
            /\ call'[g].to = call[g].to
<1> USE DEF TypeOK
<1>1. CASE Keep(g) \/ SampleOut(g)
  BY <1>1 DEF Keep, SampleOut, Goto, Return
<1>2. CASE SendLock(g) \/ SendUnlock(g)
  BY <1>2 DEF SendLock, SendUnlock, Entered, Goto, Return
<1>3. CASE LockAsk(g) \/ Lock(g)
  BY <1>3 DEF LockAsk, Lock, Goto
<1>4. CASE Write(g)
  <2>1. PICK k \in call[g].left : call' = [call EXCEPT ![g].left = @ \ {k}]
    BY <1>4 DEF Write
  <2>2. call'[g] = [call[g] EXCEPT !.left = call[g].left \ {k}] /\ call[g] \in Calls
    BY <2>1
  <2>3. pc'[g] # "idle"
    BY <1>4 DEF Write
  <2> QED
    BY <2>2, <2>3 DEF Calls
<1>5. CASE BadKey(g)
  <2>1. /\ call'[g] = [call[g] EXCEPT !.keys = call[g].keys \ call[g].left, !.left = {}]
        /\ call[g] \in Calls
    BY <1>5 DEF BadKey
  <2>2. pc'[g] # "idle"
    BY <1>5 DEF BadKey
  <2> QED
    BY <2>1, <2>2 DEF Calls
<1>12. CASE Merge(g)
  <2>1. call'[g] = [call[g] EXCEPT !.left = {}] /\ call[g] \in Calls
    BY <1>12 DEF Merge
  <2>2. pc'[g] # "idle"
    BY <1>12 DEF Merge
  <2> QED
    BY <2>1, <2>2 DEF Calls
<1>6. CASE Unlock(g)
  BY <1>6 DEF Unlock, Goto, Return
<1>7. CASE RLock(g) \/ CheckFails(g) \/ MarkSent(g)
  BY <1>7 DEF RLock, CheckFails, MarkSent, Goto
<1>8. CASE Queue(g) \/ RUnlock(g) \/ Log(g)
  BY <1>8 DEF Queue, RUnlock, Log, Goto, Return
<1>9. CASE DynRLock(g) \/ Copy(g) \/ ApplyDynamic(g)
  BY <1>9 DEF DynRLock, Copy, ApplyDynamic, Goto
<1>10. CASE CopyDyn(g) \/ Release(g)
  BY <1>10 DEF CopyDyn, Release, Goto, Return
<1>11. CASE DynLockAsk(g) \/ DynLock(g) \/ AppendDyn(g)
  BY <1>11 DEF DynLockAsk, DynLock, AppendDyn, Goto, Return
<1> QED
  BY <1>1, <1>2, <1>3, <1>4, <1>5, <1>6, <1>7, <1>8, <1>9, <1>10, <1>11, <1>12 DEF Step

-----------------------------------------------------------------------------
LEMMA CallInvInit == Init => CallInv
  BY DEF Init, CallInv, CallOK, NoCall, Adding, Making

LEMMA CallInvCall ==
  ASSUME TypeOK, CallInv, NEW g \in Goroutines, Call(g)
  PROVE  CallInv'
<1>1. CallOK(g)'
  <2> USE DEF TypeOK, Begin, NoCall, CallOK, Adding, Making
  <2>1. CASE \E h \in Holders : CallAdd(g, h)
    BY <2>1 DEF CallAdd
  <2>2. CASE \E e \in Events : CallSend(g, e)
    BY <2>2 DEF CallSend
  <2>3. CASE \E b \in Builders, k \in Fields : CallAddDynamicField(g, b, k)
    BY <2>3 DEF CallAddDynamicField
  <2>4. CASE \E b \in Builders, e \in Events : CallNewEvent(g, b, e)
    BY <2>4 DEF CallNewEvent
  <2>5. CASE \E b, b2 \in Builders : CallClone(g, b, b2)
    BY <2>5 DEF CallClone
  <2> QED
    BY <2>1, <2>2, <2>3, <2>4, <2>5 DEF Call
<1>2. ASSUME NEW h \in Goroutines, h # g PROVE CallOK(h)'
  BY <1>2, Others DEF CallInv, CallOK
<1> QED
  BY <1>1, <1>2 DEF CallInv

LEMMA CallInvStep ==
  ASSUME TypeOK, CallInv, NEW g \in Goroutines, Step(g)
  PROVE  CallInv'
<1>1. CallOK(g)'
  <2>1. CASE pc'[g] = "idle" /\ call'[g] = NoCall
    BY <2>1 DEF CallOK, NoCall, Adding, Making
  <2>2. CASE /\ pc'[g] # "idle"
             /\ call'[g].kind = call[g].kind
             /\ call'[g].on = call[g].on
             /\ call'[g].to = call[g].to
    <3> USE <2>2 DEF TypeOK, CallInv, CallOK, Adding, Making
    <3>1. CASE Keep(g) \/ SampleOut(g)
      BY <3>1 DEF Keep, SampleOut, Goto, Return
    <3>2. CASE SendLock(g)
      BY <3>2 DEF SendLock, Entered, Goto
    <3>3. CASE SendUnlock(g)
      BY <3>3 DEF SendUnlock, Goto, Return
    <3>4. CASE LockAsk(g) \/ Lock(g)
      BY <3>4 DEF LockAsk, Lock, Goto
    <3>5. CASE Write(g) \/ Merge(g) \/ BadKey(g)
      BY <3>5 DEF Write, Merge, BadKey
    <3>6. CASE Unlock(g)
      BY <3>6 DEF Unlock, Goto, Return
    <3>7. CASE RLock(g)
      BY <3>7 DEF RLock, Goto
    <3>8. CASE CheckFails(g) \/ MarkSent(g) \/ Queue(g) \/ RUnlock(g) \/ Log(g)
      BY <3>8 DEF CheckFails, MarkSent, Queue, RUnlock, Log, Goto, Return
    <3>9. CASE DynRLock(g) \/ Copy(g) \/ ApplyDynamic(g)
      BY <3>9 DEF DynRLock, Copy, ApplyDynamic, Goto
    <3>10. CASE CopyDyn(g) \/ Release(g)
      BY <3>10 DEF CopyDyn, Release, Goto, Return
    <3>11. CASE DynLockAsk(g) \/ DynLock(g) \/ AppendDyn(g)
      BY <3>11 DEF DynLockAsk, DynLock, AppendDyn, Goto, Return
    <3> QED
      BY <3>1, <3>2, <3>3, <3>4, <3>5, <3>6, <3>7, <3>8, <3>9, <3>10, <3>11 DEF Step
  <2> QED
    BY <2>1, <2>2, Own
<1>2. ASSUME NEW h \in Goroutines, h # g PROVE CallOK(h)'
  BY <1>2, Others DEF CallInv, CallOK
<1> QED
  BY <1>1, <1>2 DEF CallInv

-----------------------------------------------------------------------------
LEMMA MapInvInit == Init => MapInv
<1> SUFFICES ASSUME Init PROVE MapInv
  OBVIOUS
<1>1. <<Root, 1>> \in MapsOf(Root) /\ <<Root, 1>> # Nil
  BY RootHolder, MapNames
<1>2. /\ \A h \in Holders : data[h] = IF h = Root THEN <<Root, 1>> ELSE Nil
      /\ sent = {}
      /\ \A g \in Goroutines : call[g].on = Root /\ pc[g] = "idle"
  BY DEF Init, NoCall
<1> QED
  BY <1>1, <1>2, RootHolder DEF MapInv, Mapped

LEMMA MapInvCall ==
  ASSUME TypeOK, MapInv, NEW g \in Goroutines, Call(g)
  PROVE  MapInv'
<1>1. data' = data /\ sent' = sent
  BY DEF Call, CallAdd, CallSend, CallAddDynamicField, CallNewEvent, CallClone, Begin, maps, sending
<1>2. data[call'[g].on] # Nil
  <2> USE DEF TypeOK, MapInv, Begin, NoCall, Known
  <2>1. CASE \E h \in Holders : CallAdd(g, h)
    BY <2>1 DEF CallAdd
  <2>2. CASE \E e \in Events : CallSend(g, e)
    BY <2>2, RootHolder DEF CallSend
  <2>3. CASE \E b \in Builders, k \in Fields : CallAddDynamicField(g, b, k)
    BY <2>3, RootHolder DEF CallAddDynamicField
  <2>4. CASE \E b \in Builders, e \in Events : CallNewEvent(g, b, e)
    BY <2>4, RootHolder DEF CallNewEvent
  <2>5. CASE \E b, b2 \in Builders : CallClone(g, b, b2)
    BY <2>5, RootHolder DEF CallClone
  <2> QED
    BY <2>1, <2>2, <2>3, <2>4, <2>5 DEF Call
<1>3. pc'[g] \notin {"dynamic", "copyDyn", "release", "dynRLock"}
  BY DEF TypeOK, Call, CallAdd, CallSend, CallAddDynamicField, CallNewEvent, CallClone, Begin
<1>4. ASSUME NEW h \in Goroutines, h # g PROVE pc'[h] = pc[h] /\ call'[h] = call[h]
  BY <1>4, Others
<1> QED
  BY <1>1, <1>2, <1>3, <1>4 DEF MapInv, Mapped

\* The only changes of data make the map of a new object and replace a map.
LEMMA DataStep ==
  ASSUME TypeOK, NEW g \in Goroutines, Step(g)
  PROVE  \/ data' = data
         \/ data' = [data EXCEPT ![call[g].to] = <<call[g].to, 1>>] /\ Copy(g)
         \/ data' = [data EXCEPT ![call[g].on] = Replacement(@)] /\ Merge(g)
<1> USE DEF maps
<1>1. CASE Keep(g) \/ SampleOut(g) \/ SendLock(g) \/ SendUnlock(g) \/ LockAsk(g) \/ Lock(g)
  BY <1>1 DEF Keep, SampleOut, SendLock, SendUnlock, LockAsk, Lock
<1>2. CASE Write(g) \/ BadKey(g) \/ Unlock(g) \/ RLock(g) \/ CheckFails(g) \/ MarkSent(g)
  BY <1>2 DEF Write, BadKey, Unlock, RLock, CheckFails, MarkSent
<1>3. CASE Queue(g) \/ RUnlock(g) \/ Log(g) \/ DynRLock(g) \/ ApplyDynamic(g)
  BY <1>3 DEF Queue, RUnlock, Log, DynRLock, ApplyDynamic
<1>4. CASE Copy(g) \/ Merge(g)
  BY <1>4 DEF Copy, Merge
<1>5. CASE CopyDyn(g) \/ Release(g) \/ DynLockAsk(g) \/ DynLock(g) \/ AppendDyn(g)
  BY <1>5 DEF CopyDyn, Release, DynLockAsk, DynLock, AppendDyn
<1> QED
  BY <1>1, <1>2, <1>3, <1>4, <1>5 DEF Step

LEMMA SentStep ==
  ASSUME TypeOK, CallInv, NEW g \in Goroutines, Step(g)
  PROVE  \/ sent' = sent
         \/ MarkSent(g) /\ call[g].on \in Events /\ sent' = sent \cup {call[g].on}
<1> USE DEF sending
<1>1. CASE Keep(g) \/ SampleOut(g) \/ SendLock(g) \/ SendUnlock(g) \/ LockAsk(g) \/ Lock(g)
  BY <1>1 DEF Keep, SampleOut, SendLock, SendUnlock, LockAsk, Lock
<1>2. CASE Write(g) \/ Merge(g) \/ BadKey(g) \/ Unlock(g) \/ RLock(g) \/ CheckFails(g)
  BY <1>2 DEF Write, Merge, BadKey, Unlock, RLock, CheckFails
<1>3. CASE MarkSent(g)
  BY <1>3 DEF MarkSent, CallInv, CallOK
<1>4. CASE Queue(g) \/ RUnlock(g) \/ Log(g) \/ DynRLock(g) \/ Copy(g) \/ ApplyDynamic(g)
  BY <1>4 DEF Queue, RUnlock, Log, DynRLock, Copy, ApplyDynamic
<1>5. CASE CopyDyn(g) \/ Release(g) \/ DynLockAsk(g) \/ DynLock(g) \/ AppendDyn(g)
  BY <1>5 DEF CopyDyn, Release, DynLockAsk, DynLock, AppendDyn
<1> QED
  BY <1>1, <1>2, <1>3, <1>4, <1>5 DEF Step

LEMMA MappedStep ==
  ASSUME TypeOK, CallInv, NEW g \in Goroutines, Step(g), Mapped(g)'
  PROVE  Copy(g) \/ Mapped(g)
<1> USE DEF TypeOK, Mapped, CallInv, CallOK, Making, NoCall
<1>1. CASE Keep(g) \/ SampleOut(g) \/ SendLock(g) \/ SendUnlock(g) \/ LockAsk(g) \/ Lock(g)
  BY <1>1 DEF Keep, SampleOut, SendLock, SendUnlock, LockAsk, Lock, Goto, Return, Entered
<1>2. CASE Write(g) \/ Merge(g) \/ BadKey(g)
  BY <1>2 DEF Write, Merge, BadKey
<1>3. CASE Unlock(g)
  BY <1>3 DEF Unlock, Goto, Return
<1>4. CASE RLock(g) \/ CheckFails(g) \/ MarkSent(g)
  BY <1>4 DEF RLock, CheckFails, MarkSent, Goto
<1>5. CASE Queue(g) \/ RUnlock(g) \/ Log(g)
  BY <1>5 DEF Queue, RUnlock, Log, Goto, Return
<1>6. CASE DynRLock(g) \/ Copy(g) \/ ApplyDynamic(g)
  BY <1>6 DEF DynRLock, Copy, ApplyDynamic, Goto
<1>7. CASE CopyDyn(g) \/ Release(g)
  BY <1>7 DEF CopyDyn, Release, Goto, Return
<1>8. CASE DynLockAsk(g) \/ DynLock(g) \/ AppendDyn(g)
  BY <1>8 DEF DynLockAsk, DynLock, AppendDyn, Goto, Return
<1> QED
  BY <1>1, <1>2, <1>3, <1>4, <1>5, <1>6, <1>7, <1>8 DEF Step

LEMMA MapInvStep ==
  ASSUME TypeOK, MapInv, CallInv, NEW g \in Goroutines, Step(g)
  PROVE  MapInv'
<1>1. \A h \in Goroutines : call[h].on \in Holders /\ call[h].to \in Holders \cup {Nil}
  BY DEF TypeOK, Calls
<1>2. ASSUME NEW x \in Holders PROVE data'[x] = data[x] \/ data'[x] \in MapsOf(x)
  <2>1. x = call[g].on => Replacement(data[x]) \in MapsOf(x)
    BY MapNames DEF MapInv
  <2>2. <<x, 1>> \in MapsOf(x)
    BY MapNames
  <2>3. CASE data' = data
    BY <2>3
  <2>4. CASE data' = [data EXCEPT ![call[g].to] = <<call[g].to, 1>>]
    BY <2>2, <2>4 DEF TypeOK
  <2>5. CASE data' = [data EXCEPT ![call[g].on] = Replacement(@)]
    BY <2>1, <2>5 DEF TypeOK
  <2> QED
    BY <2>3, <2>4, <2>5, DataStep
<1>3. /\ \A x \in Holders : data'[x] \in MapsOf(x) \cup {Nil}
      /\ \A x \in Holders : data[x] # Nil => data'[x] # Nil
  BY <1>2, MapNames DEF MapInv
<1>4. \A e \in sent' : data'[e] # Nil
  BY <1>1, <1>3, SentStep, RootHolder DEF MapInv, TypeOK
<1>5. data'[Root] # Nil /\ data'[call'[g].on] # Nil
  BY <1>1, <1>3, Own, RootHolder DEF MapInv, NoCall
<1>6. Mapped(g)' => data'[call'[g].to] # Nil
  <2>1. CASE Copy(g)
    <3>1. call[g].to \in Holders /\ call'[g].to = call[g].to
      BY <2>1, RootHolder DEF Copy, CallInv, CallOK, Making, Goto
    <3>2. data'[call[g].to] = <<call[g].to, 1>>
      BY <3>1, <2>1 DEF Copy, TypeOK
    <3> QED
      BY <3>1, <3>2, MapNames
  <2>2. CASE Mapped(g) /\ Mapped(g)'
    <3>1. call'[g].to = call[g].to
      BY <2>2, Own DEF Mapped
    <3>2. call[g].to \in Holders /\ data[call[g].to] # Nil
      BY <2>2, RootHolder DEF Mapped, MapInv, CallInv, CallOK, Making
    <3> QED
      BY <3>1, <3>2, <1>3
  <2> QED
    BY <2>1, <2>2, MappedStep
<1>7. ASSUME NEW h \in Goroutines, h # g
      PROVE  /\ data'[call'[h].on] # Nil
             /\ Mapped(h)' => data'[call'[h].to] # Nil
  <2>1. pc'[h] = pc[h] /\ call'[h] = call[h]
    BY <1>7, Others
  <2>2. Mapped(h) => call[h].to \in Holders
    BY RootHolder DEF Mapped, CallInv, CallOK, Making
  <2>3. Mapped(h) => data[call[h].to] # Nil
    BY DEF Mapped, MapInv
  <2> QED
    BY <2>1, <2>2, <2>3, <1>1, <1>3 DEF MapInv, Mapped
<1> QED
  BY <1>3, <1>4, <1>5, <1>6, <1>7 DEF MapInv, Mapped

-----------------------------------------------------------------------------
LEMMA FreshInvInit == Init => FreshInv
  BY DEF Init, FreshInv, NoCall

LEMMA FreshInvCall ==
  ASSUME TypeOK, MapInv, FreshInv, NEW g \in Goroutines, Call(g)
  PROVE  FreshInv'
<1>1. sent' = sent
  BY DEF Call, CallAdd, CallSend, CallAddDynamicField, CallNewEvent, CallClone, Begin, sending
<1>2. ASSUME NEW h \in Goroutines, h # g PROVE call'[h] = call[h]
  BY <1>2, Others
<1>3. \A h \in Goroutines : call[h].on \in Holders /\ data[call[h].on] # Nil
  BY DEF TypeOK, Calls, MapInv
<1>4. ASSUME NEW x \in Holders, Known(x), call'[g].on = x, call'[g].to = Nil
      PROVE  FreshInv'
  BY <1>1, <1>2, <1>4 DEF FreshInv, Known
<1>5. ASSUME NEW x \in Holders, Known(x), NEW y \in Holders, Fresh(y),
             call'[g].on = x, call'[g].to = y
      PROVE  FreshInv'
  <2>1. y \notin sent /\ y # Root /\ y # x
    BY <1>5 DEF Fresh, Known, MapInv, TypeOK
  <2>2. \A h \in Goroutines : call[h].on # y /\ call[h].to # y /\ call[h].to # x
    BY <1>3, <1>5 DEF Fresh, Known
  <2> QED
    BY <1>1, <1>2, <1>5, <2>1, <2>2 DEF FreshInv
<1>6. CASE \E h \in Holders : CallAdd(g, h)
  BY <1>4, <1>6 DEF CallAdd, Begin, NoCall, TypeOK
<1>7. CASE \E e \in Events : CallSend(g, e)
  BY <1>4, <1>7, RootHolder DEF CallSend, Begin, NoCall, TypeOK
<1>8. CASE \E b \in Builders, k \in Fields : CallAddDynamicField(g, b, k)
  BY <1>4, <1>8, RootHolder DEF CallAddDynamicField, Begin, NoCall, TypeOK
<1>9. CASE \E b \in Builders, e \in Events : CallNewEvent(g, b, e)
  BY <1>5, <1>9, RootHolder DEF CallNewEvent, Begin, NoCall, TypeOK
<1>10. CASE \E b, b2 \in Builders : CallClone(g, b, b2)
  BY <1>5, <1>10, RootHolder DEF CallClone, Begin, NoCall, TypeOK
<1> QED
  BY <1>6, <1>7, <1>8, <1>9, <1>10 DEF Call

LEMMA FreshInvStep ==
  ASSUME TypeOK, CallInv, FreshInv, NEW g \in Goroutines, Step(g)
  PROVE  FreshInv'
<1>1. \A h \in Goroutines : \/ call'[h].on = call[h].on /\ call'[h].to = call[h].to
                            \/ call'[h].on = Root /\ call'[h].to = Nil
  BY Own, Others DEF NoCall
<1>2. \A h \in Goroutines : call[h].to # Nil => call[h].to \notin sent'
  BY SentStep DEF FreshInv
<1> QED
  BY <1>1, <1>2 DEF FreshInv

-----------------------------------------------------------------------------
LEMMA SendInvInit == Init => SendInv
  BY DEF Init, SendInv, SendOK, Adding

LEMMA SendInvCall ==
  ASSUME TypeOK, SendInv, NEW g \in Goroutines, Call(g)
  PROVE  SendInv'
<1>1. sent' = sent /\ queued' = queued /\ data' = data /\ sendLock' = sendLock
  BY DEF Call, CallAdd, CallSend, CallAddDynamicField, CallNewEvent, CallClone, Begin, maps, sending,
         locks
<1>2. SendOK(g)'
  <2> USE DEF TypeOK, Begin, NoCall, SendOK, Adding
  <2>1. CASE \E h \in Holders : CallAdd(g, h)
    BY <2>1 DEF CallAdd
  <2>2. CASE \E e \in Events : CallSend(g, e)
    BY <2>2 DEF CallSend
  <2>3. CASE \E b \in Builders, k \in Fields : CallAddDynamicField(g, b, k)
    BY <2>3 DEF CallAddDynamicField
  <2>4. CASE \E b \in Builders, e \in Events : CallNewEvent(g, b, e)
    BY <2>4 DEF CallNewEvent
  <2>5. CASE \E b, b2 \in Builders : CallClone(g, b, b2)
    BY <2>5 DEF CallClone
  <2> QED
    BY <2>1, <2>2, <2>3, <2>4, <2>5 DEF Call
<1>3. ASSUME NEW h \in Goroutines, h # g PROVE SendOK(h)'
  BY <1>1, <1>3, Others DEF SendInv, SendOK
<1> QED
  BY <1>1, <1>2, <1>3 DEF SendInv

LEMMA SendLockStep ==
  ASSUME TypeOK, NEW g \in Goroutines, Step(g)
  PROVE  SendLock(g) \/ SendUnlock(g) \/ sendLock' = sendLock
<1> USE DEF locks
<1>1. CASE Keep(g) \/ SampleOut(g) \/ LockAsk(g) \/ Lock(g)
  BY <1>1 DEF Keep, SampleOut, LockAsk, Lock
<1>2. CASE \/ Write(g) \/ Merge(g) \/ BadKey(g) \/ Unlock(g)
          \/ RLock(g) \/ CheckFails(g) \/ MarkSent(g)
  BY <1>2 DEF Write, Merge, BadKey, Unlock, RLock, CheckFails, MarkSent
<1>3. CASE Queue(g) \/ RUnlock(g) \/ Log(g) \/ DynRLock(g) \/ Copy(g) \/ ApplyDynamic(g)
  BY <1>3 DEF Queue, RUnlock, Log, DynRLock, Copy, ApplyDynamic
<1>4. CASE CopyDyn(g) \/ Release(g) \/ DynLockAsk(g) \/ DynLock(g) \/ AppendDyn(g)
  BY <1>4 DEF CopyDyn, Release, DynLockAsk, DynLock, AppendDyn
<1> QED
  BY <1>1, <1>2, <1>3, <1>4 DEF Step

LEMMA QueuedStep ==
  ASSUME TypeOK, NEW g \in Goroutines, Step(g)
  PROVE  \/ queued' = queued
         \/ Queue(g) /\ queued' = queued \cup {data[call[g].on]}
<1> USE DEF sending
<1>1. CASE Keep(g) \/ SampleOut(g) \/ SendLock(g) \/ SendUnlock(g) \/ LockAsk(g) \/ Lock(g)
  BY <1>1 DEF Keep, SampleOut, SendLock, SendUnlock, LockAsk, Lock
<1>2. CASE \/ Write(g) \/ Merge(g) \/ BadKey(g) \/ Unlock(g)
          \/ RLock(g) \/ CheckFails(g) \/ MarkSent(g)
  BY <1>2 DEF Write, Merge, BadKey, Unlock, RLock, CheckFails, MarkSent
<1>3. CASE Queue(g) \/ RUnlock(g) \/ Log(g) \/ DynRLock(g) \/ Copy(g) \/ ApplyDynamic(g)
  BY <1>3 DEF Queue, RUnlock, Log, DynRLock, Copy, ApplyDynamic
<1>4. CASE CopyDyn(g) \/ Release(g) \/ DynLockAsk(g) \/ DynLock(g) \/ AppendDyn(g)
  BY <1>4 DEF CopyDyn, Release, DynLockAsk, DynLock, AppendDyn
<1> QED
  BY <1>1, <1>2, <1>3, <1>4 DEF Step

\* The goroutine itself: where it goes under the sendLock.
LEMMA SendOwnStep ==
  ASSUME TypeOK, CallInv, SendInv, NEW g \in Goroutines, Step(g)
  PROVE  SendOK(g)'
<1>a. SendOK(g) /\ CallOK(g)
  BY DEF SendInv, CallInv
<1> USE <1>a DEF TypeOK, SendOK, CallOK, Adding, Making, sending, locks
<1>1. CASE Keep(g)
  BY <1>1 DEF Keep, Goto
<1>2. CASE SampleOut(g) \/ Log(g)
  BY <1>2 DEF SampleOut, Log, Return, NoCall
<1>3. CASE SendLock(g)
  BY <1>3 DEF SendLock, Entered, Goto
<1>4. CASE SendUnlock(g)
  BY <1>4 DEF SendUnlock, Goto, Return, NoCall
<1>5. CASE LockAsk(g) \/ Lock(g)
  BY <1>5 DEF LockAsk, Lock, Goto
<1>6. CASE Write(g) \/ Merge(g) \/ BadKey(g)
  <2>1. /\ call'[g].on = call[g].on /\ sent' = sent /\ sendLock' = sendLock
        /\ pc[g] = "write" /\ pc'[g] \in {"write", "unlock"}
    BY <1>6, Own DEF Write, Merge, BadKey
  <2> QED
    BY <2>1
<1>7. CASE Unlock(g)
  BY <1>7 DEF Unlock, Goto, Return, NoCall
<1>8. CASE RLock(g)
  BY <1>8 DEF RLock, Goto
<1>9. CASE CheckFails(g) \/ MarkSent(g)
  BY <1>9 DEF CheckFails, MarkSent, Goto
<1>10. CASE Queue(g) \/ RUnlock(g)
  BY <1>10 DEF Queue, RUnlock, Goto
<1>11. CASE DynRLock(g) \/ Copy(g) \/ ApplyDynamic(g) \/ CopyDyn(g)
  BY <1>11 DEF DynRLock, Copy, ApplyDynamic, CopyDyn, Goto
<1>12. CASE Release(g) \/ AppendDyn(g)
  BY <1>12 DEF Release, AppendDyn, Return, NoCall
<1>13. CASE DynLockAsk(g) \/ DynLock(g)
  BY <1>13 DEF DynLockAsk, DynLock, Goto
<1> QED
  BY <1>1, <1>2, <1>3, <1>4, <1>5, <1>6, <1>7, <1>8, <1>9, <1>10, <1>11, <1>12, <1>13 DEF Step

LEMMA SendInvStep ==
  ASSUME TypeOK, CallInv, FreshInv, SendInv, NEW g \in Goroutines, Step(g)
  PROVE  SendInv'
<1>1. queued' \subseteq {data'[e] : e \in sent'}
  <2>1. queued' \subseteq {data[e] : e \in sent'}
    <3>1. Queue(g) => call[g].on \in sent
      BY DEF Queue, CallInv, CallOK, SendInv, SendOK
    <3> QED
      BY <3>1, QueuedStep, SentStep DEF SendInv
  <2>2. ASSUME NEW e \in sent' PROVE data'[e] = data[e]
    <3>1. CASE Copy(g)
      <4>1. call[g].to # Nil /\ sent' = sent
        BY <3>1, RootHolder DEF Copy, CallInv, CallOK, Making, sending
      <4> QED
        BY <3>1, <4>1, <2>2 DEF Copy, FreshInv, TypeOK
    <3>2. CASE Merge(g)
      <4>1. call[g].on \notin sent /\ sent' = sent
        BY <3>2 DEF Merge, SendInv, SendOK, Adding, TypeOK, sending
      <4> QED
        BY <3>2, <4>1, <2>2 DEF Merge, TypeOK
    <3> QED
      BY <3>1, <3>2, DataStep
  <2> QED
    BY <2>1, <2>2
<1>2. ASSUME NEW h \in Goroutines, h # g PROVE SendOK(h)'
  <2>1. pc'[h] = pc[h] /\ call'[h] = call[h]
    BY <1>2, Others
  <2>2. SendOK(h) /\ SendOK(g) /\ CallOK(g)
    BY DEF SendInv, CallInv
  <2>3. \A e \in Events : sendLock[e] = h => sendLock'[e] = h
    BY <1>2, <2>2, SendLockStep DEF TypeOK, SendLock, MayEnter, SendUnlock, SendOK, CallOK, Holders
  <2>4. \A e \in Events : sendLock[e] = h /\ e \notin sent => e \notin sent'
    BY <1>2, <2>2, SentStep DEF MarkSent, SendOK, CallOK
  <2>5. sent \subseteq sent'
    BY SentStep
  <2> QED
    BY <2>1, <2>2, <2>3, <2>4, <2>5 DEF SendOK, Adding
<1> QED
  BY <1>1, <1>2, SendOwnStep DEF SendInv

-----------------------------------------------------------------------------
\* What a goroutine that holds a lock knows of it, and what others do to it.
Changed(m, n, g) ==
  \/ n = m
  \/ Open(m) /\ n = RLocked(m, g)
  \/ Open(m) /\ n = AskedBy(m, g)
  \/ Ready(m, g) /\ n = LockedBy(m, g)
  \/ m.writer = {g} /\ n = Unlocked(m)
  \/ g \in m.readers /\ n = RUnlocked(m, g)

LEMMA MutexStep ==
  ASSUME NEW m \in RWMutexes(Goroutines), NEW n, NEW g \in Goroutines, Apart(m), Changed(m, n, g)
  PROVE  Apart(n)
  BY DEF Apart, Changed, Open, Ready, RLocked, RUnlocked, AskedBy, LockedBy, Unlocked, RWMutexes

LEMMA MutexKept ==
  ASSUME NEW m \in RWMutexes(Goroutines), NEW n, NEW g \in Goroutines, Apart(m), Changed(m, n, g),
         NEW h \in Goroutines, h # g
  PROVE  /\ m.writer = {h} => n.writer = {h}
         /\ h \in m.readers => h \in n.readers
<1>1. CASE n = m \/ (Open(m) /\ (n = RLocked(m, g) \/ n = AskedBy(m, g)))
  BY <1>1 DEF Apart, Open, RLocked, AskedBy, RWMutexes
<1>2. CASE Ready(m, g) /\ n = LockedBy(m, g)
  BY <1>2 DEF Apart, Ready, LockedBy, RWMutexes
<1>3. CASE m.writer = {g} /\ n = Unlocked(m)
  BY <1>3 DEF Apart, Unlocked, RWMutexes
<1>4. CASE g \in m.readers /\ n = RUnlocked(m, g)
  BY <1>4 DEF Apart, RUnlocked, RWMutexes
<1> QED
  BY <1>1, <1>2, <1>3, <1>4 DEF Changed

LEMMA LockStep ==
  ASSUME TypeOK, CallInv, LockInv, NEW g \in Goroutines, Step(g)
  PROVE  \A x \in Holders : Changed(lock[x], lock'[x], g)
<1>a. LockOK(g) /\ CallOK(g) /\ call[g].on \in Holders
  BY DEF LockInv, CallInv, TypeOK, Calls
<1>b. ASSUME NEW n, lock' = [lock EXCEPT ![call[g].on] = n], Changed(lock[call[g].on], n, g)
      PROVE  \A x \in Holders : Changed(lock[x], lock'[x], g)
  BY <1>b DEF TypeOK, Changed
<1>c. ASSUME lock' = lock PROVE \A x \in Holders : Changed(lock[x], lock'[x], g)
  BY <1>c DEF Changed
<1> USE DEF locks
<1>1. CASE Keep(g) \/ SampleOut(g) \/ SendLock(g) \/ SendUnlock(g)
  BY <1>1, <1>c DEF Keep, SampleOut, SendLock, SendUnlock
<1>2. CASE LockAsk(g)
  BY <1>2, <1>b DEF LockAsk, Changed
<1>3. CASE Lock(g)
  BY <1>3, <1>b DEF Lock, Changed
<1>4. CASE Unlock(g)
  <2>1. lock[call[g].on].writer = {g}
    BY <1>4, <1>a DEF Unlock, LockOK, InLock
  <2> QED
    BY <1>4, <2>1, <1>b DEF Unlock, Changed
<1>5. CASE RLock(g)
  BY <1>5, <1>b DEF RLock, MayRead, Changed
<1>6. CASE RUnlock(g)
  <2>1. g \in lock[call[g].on].readers
    BY <1>6, <1>a DEF RUnlock, LockOK, InRLock
  <2> QED
    BY <1>6, <2>1, <1>b DEF RUnlock, Changed
<1>7. CASE Release(g)
  <2>1. g \in lock[call[g].on].readers
    BY <1>7, <1>a DEF Release, LockOK, InRLock, Making
  <2> QED
    BY <1>7, <2>1, <1>b DEF Release, Changed
<1>8. CASE \/ Write(g) \/ Merge(g) \/ BadKey(g) \/ CheckFails(g) \/ MarkSent(g)
          \/ Queue(g) \/ Log(g)
  BY <1>8, <1>c DEF Write, Merge, BadKey, CheckFails, MarkSent, Queue, Log
<1>9. CASE DynRLock(g) \/ Copy(g) \/ ApplyDynamic(g) \/ CopyDyn(g)
  BY <1>9, <1>c DEF DynRLock, Copy, ApplyDynamic, CopyDyn
<1>10. CASE DynLockAsk(g) \/ DynLock(g) \/ AppendDyn(g)
  BY <1>10, <1>c DEF DynLockAsk, DynLock, AppendDyn
<1> QED
  BY <1>1, <1>2, <1>3, <1>4, <1>5, <1>6, <1>7, <1>8, <1>9, <1>10 DEF Step

LEMMA LockOwnStep ==
  ASSUME TypeOK, CallInv, LockInv, NEW g \in Goroutines, Step(g)
  PROVE  LockOK(g)'
<1>a. /\ LockOK(g) /\ CallOK(g)
      /\ call[g].on \in Holders /\ lock[call[g].on] \in RWMutexes(Goroutines)
  BY DEF LockInv, CallInv, TypeOK, Calls
<1> USE <1>a DEF TypeOK, LockOK, InLock, InRLock, Making, locks
<1>1. CASE Keep(g) \/ SampleOut(g) \/ Log(g)
  BY <1>1 DEF Keep, SampleOut, Log, Goto, Return
<1>2. CASE SendLock(g) \/ SendUnlock(g)
  BY <1>2 DEF SendLock, Entered, SendUnlock, Goto, Return
<1>3. CASE LockAsk(g)
  BY <1>3 DEF LockAsk, Goto
<1>4. CASE Lock(g)
  BY <1>4 DEF Lock, Goto, LockedBy, RWMutexes
<1>5. CASE Write(g) \/ Merge(g) \/ BadKey(g)
  <2>1. call'[g].on = call[g].on
    BY <1>5, Own DEF Write, Merge, BadKey
  <2> QED
    BY <1>5, <2>1 DEF Write, Merge, BadKey
<1>6. CASE Unlock(g)
  BY <1>6 DEF Unlock, Goto, Return
<1>7. CASE RLock(g)
  BY <1>7 DEF RLock, Goto, RLocked, RWMutexes
<1>8. CASE CheckFails(g) \/ MarkSent(g) \/ Queue(g)
  BY <1>8 DEF CheckFails, MarkSent, Queue, Goto
<1>9. CASE RUnlock(g)
  BY <1>9 DEF RUnlock, Goto
<1>10. CASE DynRLock(g) \/ Copy(g) \/ ApplyDynamic(g) \/ CopyDyn(g)
  BY <1>10 DEF DynRLock, Copy, ApplyDynamic, CopyDyn, Goto
<1>11. CASE Release(g) \/ AppendDyn(g)
  BY <1>11 DEF Release, AppendDyn, Return
<1>12. CASE DynLockAsk(g) \/ DynLock(g)
  BY <1>12 DEF DynLockAsk, DynLock, Goto
<1> QED
  BY <1>1, <1>2, <1>3, <1>4, <1>5, <1>6, <1>7, <1>8, <1>9, <1>10, <1>11, <1>12 DEF Step

LEMMA LockInvInit == Init => LockInv
  BY DEF Init, LockInv, LockOK, Apart, Released, InLock, InRLock, Making

LEMMA LockInvCall ==
  ASSUME TypeOK, LockInv, NEW g \in Goroutines, Call(g)
  PROVE  LockInv'
<1>1. lock' = lock /\ pc'[g] \notin InLock \cup InRLock
  BY DEF Call, CallAdd, CallSend, CallAddDynamicField, CallNewEvent, CallClone, Begin, locks,
         TypeOK, InLock, InRLock, Making
<1>2. ASSUME NEW h \in Goroutines, h # g PROVE LockOK(h)'
  BY <1>1, <1>2, Others DEF LockInv, LockOK
<1> QED
  BY <1>1, <1>2 DEF LockInv, LockOK

LEMMA LockInvStep ==
  ASSUME TypeOK, MapInv, CallInv, LockInv, NEW g \in Goroutines, Step(g)
  PROVE  LockInv'
<1>1. \A x \in Holders : lock[x] \in RWMutexes(Goroutines) /\ lock'[x] \in RWMutexes(Goroutines)
  BY StepType DEF TypeOK
<1>2. \A x \in Holders : Apart(lock'[x])
  BY <1>1, LockStep, MutexStep DEF LockInv
<1>3. ASSUME NEW h \in Goroutines, h # g PROVE LockOK(h)'
  <2>1. pc'[h] = pc[h] /\ call'[h] = call[h] /\ call[h].on \in Holders
    BY <1>3, Others DEF TypeOK, Calls
  <2>2. /\ lock[call[h].on].writer = {h} => lock'[call[h].on].writer = {h}
        /\ h \in lock[call[h].on].readers => h \in lock'[call[h].on].readers
    <3>1. Apart(lock[call[h].on]) /\ Changed(lock[call[h].on], lock'[call[h].on], g)
      BY <2>1, LockStep DEF LockInv
    <3> QED
      BY <1>1, <1>3, <2>1, <3>1, MutexKept
  <2> QED
    BY <2>1, <2>2 DEF LockInv, LockOK
<1> QED
  BY <1>2, <1>3, LockOwnStep DEF LockInv

-----------------------------------------------------------------------------
\* The same for dynFieldsLock.
LEMMA DynStep ==
  ASSUME TypeOK, CallInv, DynInv, NEW g \in Goroutines, Step(g)
  PROVE  \A x \in Builders : Changed(dynLock[x], dynLock'[x], g)
<1>a. DynOK(g) /\ CallOK(g)
  BY DEF DynInv, CallInv
<1>b. ASSUME NEW n, dynLock' = [dynLock EXCEPT ![call[g].on] = n],
             Changed(dynLock[call[g].on], n, g)
      PROVE  \A x \in Builders : Changed(dynLock[x], dynLock'[x], g)
  BY <1>b DEF TypeOK, Changed
<1>c. ASSUME dynLock' = dynLock PROVE \A x \in Builders : Changed(dynLock[x], dynLock'[x], g)
  BY <1>c DEF Changed
<1> USE DEF locks
<1>1. CASE Keep(g) \/ SampleOut(g) \/ SendLock(g) \/ SendUnlock(g) \/ LockAsk(g) \/ Lock(g)
  BY <1>1, <1>c DEF Keep, SampleOut, SendLock, SendUnlock, LockAsk, Lock
<1>2. CASE \/ Write(g) \/ Merge(g) \/ BadKey(g) \/ Unlock(g)
          \/ RLock(g) \/ CheckFails(g) \/ MarkSent(g)
  BY <1>2, <1>c DEF Write, Merge, BadKey, Unlock, RLock, CheckFails, MarkSent
<1>3. CASE Queue(g) \/ RUnlock(g) \/ Log(g) \/ Copy(g) \/ ApplyDynamic(g) \/ CopyDyn(g)
  BY <1>3, <1>c DEF Queue, RUnlock, Log, Copy, ApplyDynamic, CopyDyn
<1>4. CASE DynRLock(g)
  BY <1>4, <1>b DEF DynRLock, Changed
<1>5. CASE Release(g)
  <2>1. g \in dynLock[call[g].on].readers
    BY <1>5, <1>a DEF Release, DynOK, InDynRLock
  <2> QED
    BY <1>5, <2>1, <1>b DEF Release, Changed
<1>6. CASE DynLockAsk(g)
  BY <1>6, <1>b DEF DynLockAsk, Changed
<1>7. CASE DynLock(g)
  BY <1>7, <1>b DEF DynLock, Changed
<1>8. CASE AppendDyn(g)
  <2>1. dynLock[call[g].on].writer = {g}
    BY <1>8, <1>a DEF AppendDyn, DynOK
  <2> QED
    BY <1>8, <2>1, <1>b DEF AppendDyn, Changed
<1> QED
  BY <1>1, <1>2, <1>3, <1>4, <1>5, <1>6, <1>7, <1>8 DEF Step

LEMMA DynOwnStep ==
  ASSUME TypeOK, CallInv, DynInv, NEW g \in Goroutines, Step(g)
  PROVE  DynOK(g)'
<1>a. DynOK(g) /\ CallOK(g)
  BY DEF DynInv, CallInv
<1>b. pc[g] \in Making \cup {"dynLock", "dynWait"} =>
        call[g].on \in Builders /\ dynLock[call[g].on] \in RWMutexes(Goroutines)
  BY <1>a DEF TypeOK, CallOK, Making
<1> USE <1>a DEF TypeOK, DynOK, CallOK, Making, InDynRLock, locks
<1>1. CASE Keep(g) \/ SampleOut(g) \/ Log(g)
  BY <1>1 DEF Keep, SampleOut, Log, Goto, Return
<1>2. CASE SendLock(g) \/ SendUnlock(g)
  BY <1>2 DEF SendLock, Entered, SendUnlock, Goto, Return
<1>3. CASE LockAsk(g) \/ Lock(g)
  BY <1>3 DEF LockAsk, Lock, Goto
<1>4. CASE Write(g) \/ Merge(g) \/ BadKey(g)
  BY <1>4 DEF Write, Merge, BadKey
<1>5. CASE Unlock(g)
  BY <1>5 DEF Unlock, Goto, Return
<1>6. CASE RLock(g)
  BY <1>6 DEF RLock, Goto
<1>7. CASE CheckFails(g) \/ MarkSent(g) \/ Queue(g) \/ RUnlock(g)
  BY <1>7 DEF CheckFails, MarkSent, Queue, RUnlock, Goto
<1>8. CASE DynRLock(g)
  BY <1>8, <1>b DEF DynRLock, Goto, RLocked, RWMutexes
<1>9. CASE Copy(g)
  BY <1>9 DEF Copy, Goto
<1>10. CASE ApplyDynamic(g) \/ CopyDyn(g)
  BY <1>10 DEF ApplyDynamic, CopyDyn, Goto
<1>11. CASE Release(g) \/ AppendDyn(g)
  BY <1>11 DEF Release, AppendDyn, Return
<1>12. CASE DynLockAsk(g)
  BY <1>12 DEF DynLockAsk, Goto
<1>13. CASE DynLock(g)
  BY <1>13, <1>b DEF DynLock, Goto, LockedBy, RWMutexes
<1> QED
  BY <1>1, <1>2, <1>3, <1>4, <1>5, <1>6, <1>7, <1>8, <1>9, <1>10, <1>11, <1>12, <1>13 DEF Step

LEMMA DynInvInit == Init => DynInv
  BY DEF Init, DynInv, DynOK, Apart, Released, InDynRLock

LEMMA DynInvCall ==
  ASSUME TypeOK, DynInv, NEW g \in Goroutines, Call(g)
  PROVE  DynInv'
<1>1. dynLock' = dynLock /\ pc'[g] \notin InDynRLock \cup {"append", "copy"}
  BY DEF Call, CallAdd, CallSend, CallAddDynamicField, CallNewEvent, CallClone, Begin, locks,
         TypeOK, InDynRLock
<1>2. ASSUME NEW h \in Goroutines, h # g PROVE DynOK(h)'
  BY <1>1, <1>2, Others DEF DynInv, DynOK
<1> QED
  BY <1>1, <1>2 DEF DynInv, DynOK

LEMMA DynInvStep ==
  ASSUME TypeOK, MapInv, CallInv, DynInv, NEW g \in Goroutines, Step(g)
  PROVE  DynInv'
<1>1. \A x \in Builders : /\ dynLock[x] \in RWMutexes(Goroutines)
                          /\ dynLock'[x] \in RWMutexes(Goroutines)
  BY StepType DEF TypeOK
<1>2. \A x \in Builders : Apart(dynLock'[x])
  BY <1>1, DynStep, MutexStep DEF DynInv
<1>3. ASSUME NEW h \in Goroutines, h # g PROVE DynOK(h)'
  <2>1. pc'[h] = pc[h] /\ call'[h] = call[h] /\ CallOK(h) /\ DynOK(h)
    BY <1>3, Others DEF CallInv, DynInv
  <2>2. ASSUME call[h].on \in Builders
        PROVE  /\ dynLock[call[h].on].writer = {h} => dynLock'[call[h].on].writer = {h}
               /\ h \in dynLock[call[h].on].readers => h \in dynLock'[call[h].on].readers
    <3>1. Apart(dynLock[call[h].on]) /\ Changed(dynLock[call[h].on], dynLock'[call[h].on], g)
      BY <2>2, DynStep DEF DynInv
    <3> QED
      BY <1>1, <1>3, <2>2, <3>1, MutexKept
  <2> QED
    BY <2>1, <2>2 DEF DynOK, CallOK, InDynRLock, Making
<1> QED
  BY <1>2, <1>3, DynOwnStep DEF DynInv

-----------------------------------------------------------------------------
LEMMA TornInvInit == Init => TornInv
  BY DEF Init, TornInv, TornOK, NoCall

LEMMA TornInvCall ==
  ASSUME TypeOK, TornInv, NEW g \in Goroutines, Call(g)
  PROVE  TornInv'
<1>1. TornOK(g)'
  <2> USE DEF TypeOK, Begin, NoCall, TornOK, Adding
  <2>1. CASE \E h \in Holders : CallAdd(g, h)
    BY <2>1 DEF CallAdd
  <2>2. CASE \E e \in Events : CallSend(g, e)
    BY <2>2 DEF CallSend
  <2>3. CASE \E b \in Builders, k \in Fields : CallAddDynamicField(g, b, k)
    BY <2>3 DEF CallAddDynamicField
  <2>4. CASE \E b \in Builders, e \in Events : CallNewEvent(g, b, e)
    BY <2>4 DEF CallNewEvent
  <2>5. CASE \E b, b2 \in Builders : CallClone(g, b, b2)
    BY <2>5 DEF CallClone
  <2> QED
    BY <2>1, <2>2, <2>3, <2>4, <2>5 DEF Call
<1>2. ASSUME NEW h \in Goroutines, h # g PROVE TornOK(h)'
  BY <1>2, Others DEF TornInv, TornOK
<1> QED
  BY <1>1, <1>2 DEF TornInv

LEMMA TornInvStep ==
  ASSUME TypeOK, CallInv, TornInv, NEW g \in Goroutines, Step(g)
  PROVE  TornInv'
<1>1. TornOK(g)'
  <2>a. TornOK(g) /\ CallOK(g)
    BY DEF TornInv, CallInv
  <2> USE <2>a DEF TypeOK, TornOK, Adding
  <2>1. CASE Keep(g) \/ SampleOut(g) \/ SendLock(g) \/ SendUnlock(g)
    BY <2>1 DEF Keep, SampleOut, SendLock, SendUnlock, Goto, Return, NoCall
  <2>2. CASE LockAsk(g) \/ Lock(g)
    BY <2>2 DEF LockAsk, Lock, Goto
  <2>3. CASE Write(g)
    BY <2>3 DEF Write
  <2>4. CASE Merge(g) \/ BadKey(g)
    BY <2>4 DEF Merge, BadKey
  <2>5. CASE Unlock(g)
    BY <2>5 DEF Unlock, Goto, Return, NoCall
  <2>6. CASE RLock(g) \/ CheckFails(g) \/ MarkSent(g) \/ Queue(g) \/ RUnlock(g) \/ Log(g)
    BY <2>6 DEF RLock, CheckFails, MarkSent, Queue, RUnlock, Log, Goto, Return, NoCall
  <2>7. CASE DynRLock(g) \/ Copy(g) \/ ApplyDynamic(g) \/ CopyDyn(g) \/ Release(g)
    BY <2>7 DEF DynRLock, Copy, ApplyDynamic, CopyDyn, Release, Goto, Return, NoCall
  <2>8. CASE DynLockAsk(g) \/ DynLock(g) \/ AppendDyn(g)
    BY <2>8 DEF DynLockAsk, DynLock, AppendDyn, Goto, Return, NoCall
  <2> QED
    BY <2>1, <2>2, <2>3, <2>4, <2>5, <2>6, <2>7, <2>8 DEF Step
<1>2. ASSUME NEW h \in Goroutines, h # g PROVE TornOK(h)'
  BY <1>2, Others DEF TornInv, TornOK
<1> QED
  BY <1>1, <1>2 DEF TornInv

-----------------------------------------------------------------------------
LEMMA InvInit == Init => Inv
  BY TypeInit, MapInvInit, CallInvInit, FreshInvInit, SendInvInit, LockInvInit, DynInvInit,
     TornInvInit DEF Inv

LEMMA InvStep == Inv /\ [Next]_vars => Inv'
<1> SUFFICES ASSUME Inv, [Next]_vars PROVE Inv'
  OBVIOUS
<1>1. ASSUME NEW g \in Goroutines, Call(g) PROVE Inv'
  BY <1>1, CallType, MapInvCall, CallInvCall, FreshInvCall, SendInvCall, LockInvCall,
     DynInvCall, TornInvCall DEF Inv
<1>2. ASSUME NEW g \in Goroutines, Step(g) PROVE Inv'
  BY <1>2, StepType, MapInvStep, CallInvStep, FreshInvStep, SendInvStep, LockInvStep,
     DynInvStep, TornInvStep DEF Inv
<1>3. CASE UNCHANGED vars
  <2> USE <1>3 DEF vars
  <2>1. TypeOK' /\ MapInv' /\ CallInv' /\ FreshInv'
    BY DEF Inv, TypeOK, MapInv, Mapped, CallInv, CallOK, FreshInv
  <2>2. SendInv' /\ LockInv' /\ DynInv' /\ TornInv'
    BY DEF Inv, SendInv, SendOK, LockInv, LockOK, DynInv, DynOK, TornInv, TornOK
  <2> QED
    BY <2>1, <2>2 DEF Inv
<1> QED
  BY <1>1, <1>2, <1>3 DEF Next

THEOREM Invariance == Spec => []Inv
  BY InvInit, InvStep, PTL DEF Spec

\* Types, for every call of every goroutine on every event and builder.
THEOREM TypeCorrect == Spec => []TypeOK
<1>1. Inv => TypeOK
  BY DEF Inv
<1> QED
  BY <1>1, Invariance, PTL

\* The locks of fieldHolder and dynFieldsLock, and the sent flag that the Add
\* methods test under the sendLock, keep every write apart from other uses.
THEOREM NoRace == Spec => []NoDataRace
<1>1. Inv => NoDataRace
  <2> SUFFICES ASSUME Inv, NEW g \in Goroutines, NEW h \in Goroutines
               PROVE  /\ pc[g] = "write" =>
                           /\ data[call[g].on] \notin queued
                           /\ g # h /\ pc[h] \in {"write", "check", "copy"} =>
                                data[call[h].on] # data[call[g].on]
                      /\ pc[g] = "append" /\ g # h /\ pc[h] \in {"append", "dynamic", "copyDyn"} =>
                           call[h].on # call[g].on
    BY DEF NoDataRace
  <2>1. /\ call[g].on \in Holders /\ data[call[g].on] \in MapsOf(call[g].on)
        /\ call[h].on \in Holders /\ data[call[h].on] \in MapsOf(call[h].on)
    BY DEF Inv, MapInv, TypeOK, Calls
  <2>2. ASSUME pc[g] = "write", data[call[g].on] \in queued PROVE FALSE
    <3>1. PICK e \in sent : data[e] = data[call[g].on]
      BY <2>2 DEF Inv, SendInv
    <3>2. e \in Events /\ e \in Holders /\ data[e] \in MapsOf(e)
      BY RootHolder DEF Inv, TypeOK, MapInv
    <3>3. e = call[g].on
      BY <2>1, <3>1, <3>2, OwnMap
    <3> QED
      BY <2>2, <3>2, <3>3 DEF Inv, SendInv, SendOK, Adding
  <2>3. ASSUME pc[g] = "write", g # h, pc[h] \in {"write", "check", "copy"}
        PROVE  call[h].on # call[g].on
    <3>1. lock[call[g].on].writer = {g} /\ Apart(lock[call[g].on])
      BY <2>3 DEF Inv, LockInv, LockOK, InLock, TypeOK, Calls
    <3>2. lock[call[h].on].writer = {h} \/ h \in lock[call[h].on].readers
      BY <2>3 DEF Inv, LockInv, LockOK, InLock, InRLock, Making
    <3> QED
      BY <2>3, <3>1, <3>2 DEF Apart
  <2>4. ASSUME pc[g] = "append", g # h, pc[h] \in {"append", "dynamic", "copyDyn"}
        PROVE  call[h].on # call[g].on
    BY <2>4 DEF Inv, DynInv, DynOK, Apart, InDynRLock, CallInv, CallOK
  <2>5. call[h].on # call[g].on => data[call[h].on] # data[call[g].on]
    BY <2>1, OwnMap
  <2> QED
    BY <2>2, <2>3, <2>4, <2>5
<1> QED
  BY <1>1, Invariance, PTL

\* AddFunc and the other Add methods hold the sendLock until the last of
\* their fields is there, so Send meets an event with all of them or none.
THEOREM NotTorn == Spec => []NoTornEvent
<1>1. Inv => NoTornEvent
  BY DEF Inv, TornInv, TornOK, SendInv, SendOK, TypeOK, NoTornEvent
<1> QED
  BY <1>1, Invariance, PTL

-----------------------------------------------------------------------------
\* Which maps a step changes: one that is being added to, or a new one.
LEMMA HeapStep ==
  ASSUME Inv, NEW g \in Goroutines, Call(g) \/ Step(g), NEW m \in Maps
  PROVE  \/ heap'[m] = heap[m]
         \/ pc[g] = "write" /\ m \in MapsOf(call[g].on)
         \/ call[g].to \in Holders /\ m \in MapsOf(call[g].to)
<1> USE DEF maps
<1>a. /\ TypeOK /\ MapInv /\ CallInv
      /\ call[g].on \in Holders /\ data[call[g].on] \in MapsOf(call[g].on)
  BY DEF Inv, MapInv, TypeOK, Calls
<1>1. CASE Call(g)
  BY <1>1 DEF Call, CallAdd, CallSend, CallAddDynamicField, CallNewEvent, CallClone, Begin
<1>2. CASE Keep(g) \/ SampleOut(g) \/ SendLock(g) \/ SendUnlock(g) \/ LockAsk(g) \/ Lock(g)
  BY <1>2 DEF Keep, SampleOut, SendLock, SendUnlock, LockAsk, Lock
<1>3. CASE Write(g)
  BY <1>3, <1>a DEF Write, TypeOK
<1>4. CASE BadKey(g) \/ Unlock(g) \/ RLock(g) \/ CheckFails(g) \/ MarkSent(g) \/ Queue(g)
  BY <1>4 DEF BadKey, Unlock, RLock, CheckFails, MarkSent, Queue
<1>5. CASE RUnlock(g) \/ Log(g) \/ DynRLock(g) \/ CopyDyn(g) \/ Release(g)
  BY <1>5 DEF RUnlock, Log, DynRLock, CopyDyn, Release
<1>6. CASE Copy(g)
  <2>1. call[g].to \in Holders /\ <<call[g].to, 1>> \in MapsOf(call[g].to)
    BY <1>6, <1>a, RootHolder, MapNames DEF Copy, CallInv, CallOK, Making
  <2> QED
    BY <1>6, <1>a, <2>1 DEF Copy, TypeOK
<1>7. CASE ApplyDynamic(g)
  <2>1. call[g].to \in Holders /\ data[call[g].to] \in MapsOf(call[g].to)
    BY <1>7, <1>a, RootHolder DEF ApplyDynamic, CallInv, CallOK, Making, MapInv, Mapped
  <2> QED
    BY <1>7, <1>a, <2>1 DEF ApplyDynamic, TypeOK
<1>9. CASE Merge(g)
  <2>1. Replacement(data[call[g].on]) \in MapsOf(call[g].on)
    BY <1>a, MapNames
  <2> QED
    BY <1>9, <1>a, <2>1 DEF Merge, TypeOK
<1>8. CASE DynLockAsk(g) \/ DynLock(g) \/ AppendDyn(g)
  BY <1>8 DEF DynLockAsk, DynLock, AppendDyn
<1> QED
  BY <1>1, <1>2, <1>3, <1>4, <1>5, <1>6, <1>7, <1>8, <1>9 DEF Step

\* The fields of an object change only under a call on it or when it is made.
LEMMA ContentStep ==
  ASSUME Inv, NEW g \in Goroutines, Call(g) \/ Step(g), NEW h \in Holders, data[h] # Nil,
         h # call[g].to, ~ (pc[g] = "write" /\ call[g].on = h)
  PROVE  data'[h] = data[h] /\ heap'[data[h]] = heap[data[h]]
<1>1. data[h] \in MapsOf(h) /\ data[h] \in Maps
  BY MapNames DEF Inv, MapInv
<1>2. call[g].on \in Holders
  BY DEF Inv, TypeOK, Calls
<1>3. heap'[data[h]] = heap[data[h]]
  BY <1>1, <1>2, HeapStep, OwnMap
<1>4. data'[h] = data[h]
  <2>1. CASE Call(g)
    BY <2>1 DEF Call, CallAdd, CallSend, CallAddDynamicField, CallNewEvent, CallClone, Begin, maps
  <2>2. CASE Step(g)
    <3>1. TypeOK /\ (Merge(g) => pc[g] = "write")
      BY DEF Inv, Merge
    <3>2. CASE data' = [data EXCEPT ![call[g].to] = <<call[g].to, 1>>]
      BY <3>1, <3>2 DEF TypeOK
    <3>3. CASE data' = [data EXCEPT ![call[g].on] = Replacement(@)] /\ Merge(g)
      BY <3>1, <3>3 DEF TypeOK
    <3> QED
      BY <2>2, <3>1, <3>2, <3>3, DataStep
  <2> QED
    BY <2>1, <2>2
<1> QED
  BY <1>3, <1>4

\* Nobody adds to an event after SendPresampled set sent, and no new event or
\* builder gets the map of another: what is sent is what was there at Send.
THEOREM SentStays == Spec => SentUnchanged
<1>1. Inv /\ [Next]_vars => [\A m \in queued : heap'[m] = heap[m]]_vars
  <2> SUFFICES ASSUME Inv, NEW g \in Goroutines, Call(g) \/ Step(g), NEW m \in queued
               PROVE  heap'[m] = heap[m]
    BY DEF Next
  <2>1. PICK e \in sent : m = data[e]
    BY DEF Inv, SendInv
  <2>2. e \in Events /\ e \in Holders /\ e # Nil /\ data[e] # Nil
    BY RootHolder DEF Inv, TypeOK, MapInv
  <2>3. ~ (pc[g] = "write" /\ call[g].on = e)
    BY <2>2 DEF Inv, SendInv, SendOK, Adding
  <2>4. e # call[g].to
    BY <2>2 DEF Inv, FreshInv
  <2> QED
    BY <2>1, <2>2, <2>3, <2>4, ContentStep
<1> QED
  BY <1>1, Invariance, PTL DEF Spec, SentUnchanged

\* NewEvent and Clone copy the map of the builder: adding to a builder, or to
\* one of its events, changes no other event or builder that there is.
THEOREM OnlyOwn == Spec => OnlyOwnCalls
<1> DEFINE A == \A h \in Holders :
                  Known(h) /\ heap'[data'[h]] # heap[data[h]] =>
                    \E g \in Goroutines : pc[g] = "write" /\ call[g].on = h
<1>1. Inv /\ [Next]_vars => [A]_vars
  <2> SUFFICES ASSUME Inv, NEW g \in Goroutines, Call(g) \/ Step(g), NEW h \in Holders, Known(h),
                      heap'[data'[h]] # heap[data[h]]
               PROVE  pc[g] = "write" /\ call[g].on = h
    BY DEF Next
  <2>1. data[h] # Nil /\ h # call[g].to
    BY DEF Known
  <2> QED
    BY <2>1, ContentStep
<1> QED
  BY <1>1, Invariance, PTL DEF Spec, OnlyOwnCalls

-----------------------------------------------------------------------------
\* Fields and dynamic fields are only added, except to a new object.
LEMMA FieldStep ==
  ASSUME Inv, NEW g \in Goroutines, Step(g), NEW h \in Holders, data[h] # Nil, h # call[g].to,
         NEW k \in Fields, heap[data[h]][k] # Absent
  PROVE  heap'[data'[h]][k] # Absent
<1>a. h = call[g].on => /\ data[call[g].on] \in MapsOf(h) /\ data[call[g].on] \in Maps
                        /\ Replacement(data[h]) \in Maps
  BY MapNames DEF Inv, MapInv
<1>1. CASE h = call[g].on /\ Write(g)
  <2>1. data' = data
    BY <1>1 DEF Write
  <2> QED
    BY <1>1, <1>a, <2>1 DEF Write, Inv, TypeOK
<1>2. CASE h = call[g].on /\ Merge(g)
  <2>1. data'[h] = Replacement(data[h])
    BY <1>2 DEF Merge, Inv, TypeOK
  <2>2. heap'[data'[h]][k] = IF k \in call[g].keys THEN g ELSE heap[data[h]][k]
    BY <1>2, <1>a, <2>1 DEF Merge, Inv, TypeOK
  <2> QED
    BY <2>2
<1>3. CASE ~ (h = call[g].on /\ (Write(g) \/ Merge(g)))
  <2>1. pc[g] = "write" /\ h = call[g].on => BadKey(g)
    BY <1>3 DEF Step, Keep, SampleOut, SendLock, SendUnlock, LockAsk, Lock, Unlock, RLock, CheckFails,
         MarkSent, Queue, RUnlock, Log, DynRLock, Copy, ApplyDynamic, CopyDyn, Release, DynLockAsk,
         DynLock, AppendDyn
  <2>2. BadKey(g) => heap' = heap /\ data' = data
    BY DEF BadKey, maps
  <2> QED
    BY <2>1, <2>2, ContentStep
<1> QED
  BY <1>1, <1>2, <1>3

LEMMA DynGrows ==
  ASSUME TypeOK, CallInv, NEW g \in Goroutines, Step(g), NEW b \in Builders, b # call[g].to
  PROVE  dyn[b] \subseteq dyn'[b]
<1> USE DEF maps
<1>1. CASE Keep(g) \/ SampleOut(g) \/ SendLock(g) \/ SendUnlock(g) \/ LockAsk(g) \/ Lock(g)
  BY <1>1 DEF Keep, SampleOut, SendLock, SendUnlock, LockAsk, Lock
<1>2. CASE \/ Write(g) \/ Merge(g) \/ BadKey(g) \/ Unlock(g)
          \/ RLock(g) \/ CheckFails(g) \/ MarkSent(g)
  BY <1>2 DEF Write, Merge, BadKey, Unlock, RLock, CheckFails, MarkSent
<1>3. CASE Queue(g) \/ RUnlock(g) \/ Log(g) \/ DynRLock(g) \/ Copy(g) \/ ApplyDynamic(g)
  BY <1>3 DEF Queue, RUnlock, Log, DynRLock, Copy, ApplyDynamic
<1>4. CASE CopyDyn(g)
  BY <1>4 DEF CopyDyn, TypeOK
<1>5. CASE Release(g) \/ DynLockAsk(g) \/ DynLock(g)
  BY <1>5 DEF Release, DynLockAsk, DynLock
<1>6. CASE AppendDyn(g)
  BY <1>6 DEF AppendDyn, TypeOK
<1> QED
  BY <1>1, <1>2, <1>3, <1>4, <1>5, <1>6 DEF Step

LEMMA InheritInit == Init => InheritInv
  BY DEF Init, InheritInv, InheritOK, NoCall

LEMMA InheritCall ==
  ASSUME Inv, InheritInv, NEW g \in Goroutines, Call(g)
  PROVE  InheritInv'
<1>1. data' = data /\ heap' = heap /\ dyn' = dyn /\ TypeOK
  BY DEF Inv, Call, CallAdd, CallSend, CallAddDynamicField, CallNewEvent, CallClone, Begin, maps
<1>2. ASSUME NEW h \in Goroutines, h # g PROVE InheritOK(h)'
  BY <1>1, <1>2, Others DEF InheritInv, InheritOK, Mapped
<1>3. InheritOK(g)'
  <2>1. CASE call'[g].to = Nil
    BY <2>1 DEF InheritOK
  <2>2. ASSUME NEW b \in Builders, Known(b), pc'[g] = "rlock", call'[g].on = b,
               call'[g].keys = dyn[b], call'[g].seen = FieldsOf(data[b])
        PROVE  InheritOK(g)'
    BY <1>1, <2>2 DEF InheritOK, Mapped, FieldsOf
  <2>3. CASE \E b \in Builders, e \in Events : CallNewEvent(g, b, e)
    BY <1>1, <2>2, <2>3 DEF CallNewEvent, Begin, NoCall, TypeOK
  <2>4. CASE \E b, b2 \in Builders : CallClone(g, b, b2)
    BY <1>1, <2>2, <2>4 DEF CallClone, Begin, NoCall, TypeOK
  <2>5. CASE \E h \in Holders : CallAdd(g, h)
    BY <1>1, <2>1, <2>5 DEF CallAdd, Begin, NoCall, TypeOK
  <2>6. CASE \E e \in Events : CallSend(g, e)
    BY <1>1, <2>1, <2>6 DEF CallSend, Begin, NoCall, TypeOK
  <2>7. CASE \E b \in Builders, k \in Fields : CallAddDynamicField(g, b, k)
    BY <1>1, <2>1, <2>7 DEF CallAddDynamicField, Begin, NoCall, TypeOK
  <2> QED
    BY <2>3, <2>4, <2>5, <2>6, <2>7 DEF Call
<1> QED
  BY <1>2, <1>3 DEF InheritInv

\* The call itself copies the fields, then adds what is dynamic.
LEMMA InheritOwn ==
  ASSUME Inv, InheritInv, NEW g \in Goroutines, Step(g)
  PROVE  InheritOK(g)'
<1>a. /\ TypeOK /\ MapInv /\ CallInv /\ FreshInv /\ CallOK(g) /\ InheritOK(g)
      /\ data[call[g].on] \in MapsOf(call[g].on) /\ data[call[g].on] \in Maps
      /\ call[g].on \in Holders /\ call[g].to \in Holders \cup {Nil}
      /\ call[g].seen \subseteq Fields /\ call[g].keys \subseteq Fields
  BY MapNames DEF Inv, InheritInv, CallInv, MapInv, TypeOK, Calls
<1>1. CASE call'[g].to = Nil
  BY <1>1 DEF InheritOK
<1>2. CASE call'[g].to # Nil
  <2>1. /\ call'[g].to = call[g].to /\ call'[g].on = call[g].on /\ call'[g].kind = call[g].kind
        /\ call[g].to # Nil /\ pc'[g] # "idle"
    BY <1>2, <1>a, Own DEF NoCall
  <2>2. call[g].on # call[g].to
    BY <2>1, <1>a DEF FreshInv
  <2> USE <1>a, <2>1, <2>2 DEF TypeOK, CallOK, InheritOK, Mapped, Making, Adding, maps
  <2>3. CASE RLock(g) \/ DynRLock(g)
    BY <2>3 DEF RLock, DynRLock, Goto
  <2>4. CASE Copy(g)
    <3>1. <<call[g].to, 1>> \in MapsOf(call[g].to) /\ <<call[g].to, 1>> \in Maps
      BY MapNames
    <3>2. <<call[g].to, 1>> # data[call[g].on]
      BY <3>1, OwnMap
    <3>3. /\ call' = call /\ dyn' = dyn /\ pc'[g] \in {"dynamic", "dynRLock"}
          /\ data'[call[g].on] = data[call[g].on] /\ data'[call[g].to] = <<call[g].to, 1>>
          /\ heap'[data[call[g].on]] = heap[data[call[g].on]]
          /\ heap'[<<call[g].to, 1>>] = heap[data[call[g].on]]
      BY <2>4, <3>1, <3>2 DEF Copy, Goto
    <3> QED
      BY <3>3
  <2>5. CASE ApplyDynamic(g)
    <3>1. data[call[g].to] \in MapsOf(call[g].to) /\ data[call[g].to] \in Maps
      BY <2>5, MapNames DEF ApplyDynamic, MapInv
    <3>a. data[call[g].to] # data[call[g].on]
      BY <3>1, OwnMap
    <3>2. /\ call' = call /\ dyn' = dyn /\ data' = data
          /\ pc'[g] = "release" /\ call[g].kind = "NewEvent"
          /\ heap'[data[call[g].on]] = heap[data[call[g].on]]
          /\ \A k \in Fields : heap'[data[call[g].to]][k] =
                               DynamicValue(call[g].on, k, heap[data[call[g].to]][k])
      BY <2>5, <3>1, <3>a DEF ApplyDynamic, Goto
    <3>3. \A k \in call[g].keys : heap'[data[call[g].to]][k] = Dynamic
      BY <3>2 DEF DynamicValue
    <3>4. \A k \in call[g].seen : heap'[data[call[g].to]][k] # Absent
      BY <2>5, <3>2 DEF DynamicValue, ApplyDynamic
    <3> QED
      BY <3>2, <3>3, <3>4
  <2>6. CASE CopyDyn(g)
    <3>1. call[g].on \in Builders /\ call[g].to \in Builders
      BY <2>6 DEF CopyDyn
    <3> QED
      BY <2>6, <3>1 DEF CopyDyn, Goto
  <2>7. ~ (Release(g) \/ AppendDyn(g) \/ SampleOut(g) \/ Log(g))
    BY DEF Release, AppendDyn, SampleOut, Log, Return
  <2>8. CASE call' = call /\ data' = data /\ heap' = heap /\ dyn' = dyn /\ ~ Mapped(g)'
    BY <2>8
  <2>9. CASE Keep(g) \/ SendLock(g) \/ SendUnlock(g)
    BY <2>8, <2>9 DEF Keep, SendLock, Entered, SendUnlock, Goto, Return
  <2>10. CASE LockAsk(g) \/ Lock(g) \/ Unlock(g)
    BY <2>8, <2>10 DEF LockAsk, Lock, Unlock, Goto, Return
  <2>11. CASE CheckFails(g) \/ MarkSent(g) \/ Queue(g) \/ RUnlock(g)
    BY <2>8, <2>11 DEF CheckFails, MarkSent, Queue, RUnlock, Goto
  <2>12. CASE DynLockAsk(g) \/ DynLock(g)
    BY <2>8, <2>12 DEF DynLockAsk, DynLock, Goto
  <2>13. CASE Write(g) \/ Merge(g) \/ BadKey(g)
    <3>1. call[g].kind \in {"Add", "AddFunc"}
      BY <2>13 DEF Write, Merge, BadKey
    <3> QED
      BY <3>1
  <2> QED
    BY <2>3, <2>4, <2>5, <2>6, <2>7, <2>9, <2>10, <2>11, <2>12, <2>13 DEF Step
<1> QED
  BY <1>1, <1>2

LEMMA InheritStep ==
  ASSUME Inv, InheritInv, NEW g \in Goroutines, Step(g)
  PROVE  InheritInv'
<1>1. ASSUME NEW h \in Goroutines, h # g, call[h].to # Nil PROVE InheritOK(h)'
  <2>1. pc'[h] = pc[h] /\ call'[h] = call[h] /\ InheritOK(h) /\ CallOK(h) /\ TypeOK /\ CallInv
    BY <1>1, Others DEF Inv, InheritInv, CallInv
  <2>2. /\ call[h].on \in Holders /\ call[h].to \in Holders
        /\ call[h].seen \subseteq Fields /\ call[h].keys \subseteq Fields
    BY <1>1 DEF Inv, TypeOK, Calls
  <2>3. call[h].on # call[g].to /\ call[h].to # call[g].to /\ call[g].on # call[h].to
    BY <1>1, <2>2 DEF Inv, FreshInv
  <2>4. Mapped(h) => /\ data'[call[h].to] = data[call[h].to]
                     /\ heap'[data[call[h].to]] = heap[data[call[h].to]]
    BY <2>2, <2>3, ContentStep DEF Inv, MapInv
  <2>5. \A k \in call[h].seen : heap[data[call[h].on]][k] # Absent =>
                                 heap'[data'[call[h].on]][k] # Absent
    BY <2>2, <2>3, FieldStep DEF Inv, MapInv
  <2>6. \A b \in Builders : b # call[g].to => dyn[b] \subseteq dyn'[b]
    BY <2>1, DynGrows
  <2>7. call[h].on \in Builders
    BY <1>1, <2>1 DEF CallOK
  <2>8. pc[h] = "release" /\ call[h].kind = "Clone" => call[h].to \in Builders
    BY <2>1 DEF CallOK
  <2> QED
    BY <2>1, <2>3, <2>4, <2>5, <2>6, <2>7, <2>8 DEF InheritOK, Mapped
<1>2. ASSUME NEW h \in Goroutines, h # g, call[h].to = Nil PROVE InheritOK(h)'
  BY <1>2, Others DEF InheritOK, Inv
<1> QED
  BY <1>1, <1>2, InheritOwn DEF InheritInv

LEMMA InheritInvariance == Spec => []InheritInv
<1>1. Inv /\ InheritInv /\ [Next]_vars => InheritInv'
  <2>1. ASSUME Inv, InheritInv, UNCHANGED vars PROVE InheritInv'
    BY <2>1 DEF InheritInv, InheritOK, Mapped, vars
  <2> QED
    BY <2>1, InheritCall, InheritStep DEF Next
<1> QED
  BY <1>1, InheritInit, Invariance, PTL DEF Spec

\* What NewEvent and Clone return: the copy under lock has all fields of the
\* builder at the call, the dynamic ones are computed after it.
THEOREM Inherits == Spec => []InheritsAll
<1>1. Inv /\ InheritInv => InheritsAll
  <2> SUFFICES ASSUME Inv, InheritInv, NEW g \in Goroutines, pc[g] = "release"
               PROVE  /\ call[g].seen \subseteq FieldsOf(data[call[g].to])
                      /\ IF call[g].kind = "NewEvent"
                         THEN \A k \in call[g].keys : heap[data[call[g].to]][k] = Dynamic
                         ELSE call[g].keys \subseteq dyn[call[g].to]
    BY DEF InheritsAll
  <2>1. Mapped(g) /\ CallOK(g) /\ call[g].kind \in {"NewEvent", "Clone"}
    BY DEF Inv, Mapped, CallInv, CallOK, Making
  <2>2. call[g].to # Nil /\ call[g].seen \subseteq Fields
    BY <2>1 DEF CallOK, Inv, TypeOK, Calls, Holders
  <2>3. InheritOK(g)
    BY DEF InheritInv
  <2> QED
    BY <2>1, <2>2, <2>3 DEF InheritOK, FieldsOf
<1> QED
  BY <1>1, Invariance, InheritInvariance, PTL

=============================================================================
