---------------------------- MODULE LocalSenders ----------------------------
(***************************************************************************)
(* The senders that do without a queue, in transmission/writer.go, mock.go *)
(* and discard.go: Add does its work in the goroutine that calls it.  Each *)
(* may also be the Output of a transitionOutput (libhoney.go), which has a *)
(* channel of responses of its own.                                        *)
(***************************************************************************)
EXTENDS Naturals, Sequences

CONSTANTS
  Goroutines,
  MaxClients,       \* bound: calls of Init; each Client has one transmission
  MaxCalls,         \* bound: calls of Add, SendResponse and Events
  Nil,              \* no goroutine, client or event
  QueueSize         \* ResponseQueueSize, and twice PendingWorkCapacity

ASSUME LocalSendersAssumption ==
  /\ MaxClients \in Nat /\ MaxCalls \in Nat
  /\ Nil \notin Goroutines \cup Nat
  /\ QueueSize \in Nat \ {0}

\* Clients are numbered as they come, from the one that is there before Init, and
\* events by the calls that give them.
Clients == 0 .. MaxClients
Events == 1 .. MaxCalls

VARIABLES
  conf,       \* conf[c]: what the transmission of c is, NotStarted before its Start
  mutex,      \* mutex[c]: the goroutine in the sync.Mutex of the sender
  kept,       \* kept[c]: the events that W or the slice of the MockSender has
  responses,  \* responses[c]: the channel of the sender
  outer,      \* outer[c]: the channel of the transitionOutput around it
  pc, call,   \* where each goroutine is, on which client with which event
  slice,      \* slice[g]: what g has read of kept
  calls,      \* calls so far
  added,      \* history: added[c], the events whose Add has returned
  posted      \* history: posted[c], what entered the channel TxResponses of c

senderVars == <<conf, mutex, kept, responses, outer, pc, call, slice, calls, added, posted>>
channels == <<responses, outer, posted>>

\* The kind of sender, its BlockOnResponses, whether it is the Output of a
\* transitionOutput, and the blockOnResponse of that one.
Configurations == [kind : {"writer", "mock", "discard"}, block : BOOLEAN,
                   wrapped : BOOLEAN, blockOuter : BOOLEAN]
NotStarted == [kind |-> "none", block |-> FALSE, wrapped |-> FALSE, blockOuter |-> FALSE]

Discarding == [NotStarted EXCEPT !.kind = "discard"]

Places == {"idle", "lock", "load", "store", "post", "copy", "unlock", "respond"}
NoCall == [client |-> Nil, event |-> Nil, before |-> {}]

SenderTypeOK ==
  /\ conf \in [Clients -> Configurations \cup {NotStarted}]
  /\ mutex \in [Clients -> Goroutines \cup {Nil}]
  /\ \A f \in {kept, responses, outer, posted} : f \in [Clients -> Seq(Events)]
  /\ pc \in [Goroutines -> Places]
  /\ call \in [Goroutines ->
                 [client : Clients \cup {Nil}, event : Events \cup {Nil}, before : SUBSET Events]]
  /\ slice \in [Goroutines -> Seq(Events)]
  /\ calls \in 0 .. MaxCalls
  /\ added \in [Clients -> SUBSET Events]

\* The package starts with a Client without transmission; what is called on it
\* makes a DiscardSender first (ensureTransmission).
SenderInit ==
  /\ conf = [c \in Clients |-> IF c = 0 THEN Discarding ELSE NotStarted]
  /\ mutex = [c \in Clients |-> Nil]
  /\ kept = [c \in Clients |-> <<>>]
  /\ responses = [c \in Clients |-> <<>>]
  /\ outer = [c \in Clients |-> <<>>]
  /\ pc = [g \in Goroutines |-> "idle"]
  /\ call = [g \in Goroutines |-> NoCall]
  /\ slice = [g \in Goroutines |-> <<>>]
  /\ calls = 0
  /\ added = [c \in Clients |-> {}]
  /\ posted = [c \in Clients |-> <<>>]

Elements(s) == {s[i] : i \in DOMAIN s}

-----------------------------------------------------------------------------
\* What TxResponses of the client returns, and the capacity of that channel.
TxResponses(c) == IF conf[c].wrapped THEN outer[c] ELSE responses[c]
InnerSize(c) == IF conf[c].kind = "mock" THEN 1 ELSE QueueSize
Capacity(c) == IF conf[c].wrapped THEN QueueSize ELSE InnerSize(c)

\* Start makes the channel.
Start(c, configuration) ==
  /\ \A d \in Clients : d < c <=> conf[d] # NotStarted
  /\ conf' = [conf EXCEPT ![c] = configuration]
  /\ UNCHANGED <<mutex, kept, channels, pc, call, slice, calls, added>>

\* SendResponse of the sender, and that of the transitionOutput around it, each
\* to a channel of its own, with a flag of its own.  A full one stops the goroutine
\* if it is to block, and loses the response otherwise.
PostInner(c, e) ==
  \/ /\ Len(responses[c]) < InnerSize(c)
     /\ responses' = [responses EXCEPT ![c] = Append(@, e)]
     /\ posted' = IF conf[c].wrapped THEN posted ELSE [posted EXCEPT ![c] = Append(@, e)]
     /\ UNCHANGED outer
  \/ /\ Len(responses[c]) = InnerSize(c) /\ ~ conf[c].block
     /\ UNCHANGED channels

PostOuter(c, e) ==
  \/ /\ Len(outer[c]) < QueueSize
     /\ outer' = [outer EXCEPT ![c] = Append(@, e)]
     /\ posted' = [posted EXCEPT ![c] = Append(@, e)]
     /\ UNCHANGED responses
  \/ /\ Len(outer[c]) = QueueSize /\ ~ conf[c].blockOuter
     /\ UNCHANGED channels

-----------------------------------------------------------------------------
Enter(g, place, c, e) ==
  /\ pc[g] = "idle"
  /\ conf[c] # NotStarted
  /\ calls < MaxCalls /\ calls' = calls + 1
  /\ pc' = [pc EXCEPT ![g] = place]
  /\ call' = [call EXCEPT ![g] = [client |-> c, event |-> e, before |-> added[c]]]
  /\ UNCHANGED <<conf, mutex, kept, channels, slice, added>>

Goto(g, place) ==
  /\ pc' = [pc EXCEPT ![g] = place]
  /\ UNCHANGED <<conf, call, calls>>

Return(g) ==
  /\ pc' = [pc EXCEPT ![g] = "idle"]
  /\ call' = [call EXCEPT ![g] = NoCall]
  /\ slice' = [slice EXCEPT ![g] = <<>>]
  /\ UNCHANGED <<conf, calls>>

\* Add of a WriterSender or a MockSender; the Output types and transitionOutput
\* copy the event and call it.
CallAdd(g, c) ==
  /\ conf[c].kind \in {"writer", "mock"}
  /\ Enter(g, "lock", c, calls + 1)

\* A DiscardSender has nothing to do and no response to give.
AddDiscarded(c) ==
  /\ conf[c].kind = "discard"
  /\ calls < MaxCalls /\ calls' = calls + 1
  /\ added' = [added EXCEPT ![c] = @ \cup {calls + 1}]
  /\ UNCHANGED <<conf, mutex, kept, channels, pc, call, slice>>

\* SendResponse, for an event that was sampled out.
CallRespond(g, c) ==
  /\ Enter(g, "respond", c, calls + 1)

\* Events of a MockSender.
CallEvents(g, c) ==
  /\ conf[c].kind = "mock"
  /\ Enter(g, "lock", c, Nil)

\* A wrong MayLock: no mutex.
MayLockAlways(c) == TRUE

MayLock(c) == mutex[c] = Nil

Lock(g) ==
  LET c == call[g].client IN
  /\ pc[g] = "lock"
  /\ MayLock(c)
  /\ mutex' = [mutex EXCEPT ![c] = g]
  /\ Goto(g, IF call[g].event = Nil THEN "copy" ELSE "load")
  /\ UNCHANGED <<kept, channels, slice, added>>

\* The append, or the Write at the end of what there is, reads and writes.
Load(g) ==
  /\ pc[g] = "load"
  /\ slice' = [slice EXCEPT ![g] = kept[call[g].client]]
  /\ Goto(g, "store")
  /\ UNCHANGED <<mutex, kept, channels, added>>

\* A wrong Store: the WriterSender unlocks before it posts the response.
StoreUnlocks(g) ==
  LET c == call[g].client IN
  /\ pc[g] = "store"
  /\ kept' = [kept EXCEPT ![c] = Append(slice[g], call[g].event)]
  /\ mutex' = [mutex EXCEPT ![c] = Nil]
  /\ Goto(g, IF conf[c].kind = "writer" THEN "post" ELSE "unlock")
  /\ UNCHANGED <<channels, slice, added>>

Store(g) ==
  LET c == call[g].client IN
  /\ pc[g] = "store"
  /\ kept' = [kept EXCEPT ![c] = Append(slice[g], call[g].event)]
  /\ Goto(g, IF conf[c].kind = "writer" THEN "post" ELSE "unlock")
  /\ UNCHANGED <<mutex, channels, slice, added>>

\* A wrong Post: Add returns early after a lost response, without an Unlock.
PostReturns(g) ==
  /\ pc[g] = "post"
  /\ PostInner(call[g].client, call[g].event)
  /\ IF responses' = responses THEN Return(g) ELSE Goto(g, "unlock") /\ UNCHANGED slice
  /\ UNCHANGED <<mutex, kept, added>>

\* WriterSender.Add calls SendResponse with the mutex held.
Post(g) ==
  /\ pc[g] = "post"
  /\ PostInner(call[g].client, call[g].event)
  /\ Goto(g, "unlock")
  /\ UNCHANGED <<mutex, kept, slice, added>>

Copy(g) ==
  /\ pc[g] = "copy"
  /\ slice' = [slice EXCEPT ![g] = kept[call[g].client]]
  /\ Goto(g, "unlock")
  /\ UNCHANGED <<mutex, kept, channels, added>>

Unlock(g) ==
  LET c == call[g].client IN
  /\ pc[g] = "unlock"
  /\ mutex' = [mutex EXCEPT ![c] = Nil]
  /\ added' = [added EXCEPT ![c] = @ \cup ({call[g].event} \ {Nil})]
  /\ Return(g)
  /\ UNCHANGED <<kept, channels>>

Respond(g) ==
  LET c == call[g].client IN
  /\ pc[g] = "respond"
  /\ IF conf[c].wrapped THEN PostOuter(c, call[g].event) ELSE PostInner(c, call[g].event)
  /\ Return(g)
  /\ UNCHANGED <<mutex, kept, added>>

SenderStep(g) ==
  Lock(g) \/ Load(g) \/ Store(g) \/ Post(g) \/ Copy(g) \/ Unlock(g) \/ Respond(g)
=============================================================================
