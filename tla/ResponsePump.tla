---------------------------- MODULE ResponsePump ----------------------------
(***************************************************************************)
(* The package-level functions of libhoney.go: Init makes the default      *)
(* Client, Responses starts, once, a goroutine that copies the channel     *)
(* TxResponses of the default Client into one of the older type Response.  *)
(***************************************************************************)
EXTENDS LocalSenders

CONSTANT Configs   \* what Init may get as Transmission or Output

ASSUME ResponsePumpAssumption == Configs \subseteq Configurations

VARIABLES
  dc,                   \* the default Client
  source,               \* the Client whose channel the pump copies, Nil before Responses
  hand,                 \* what the pump has received and not yet sent, one or none
  transitionResponses,
  read                  \* history: what the program received

pumpVars == <<source, hand, transitionResponses, read>>
vars == <<senderVars, dc, pumpVars>>

TypeOK ==
  /\ SenderTypeOK
  /\ dc \in Clients /\ source \in Clients \cup {Nil}
  /\ \A s \in {hand, transitionResponses, read} : s \in Seq(Events)
  /\ Len(hand) <= 1
  /\ source # Nil => Len(transitionResponses) <= Capacity(source)

Init ==
  /\ SenderInit
  /\ dc = 0 /\ source = Nil
  /\ hand = <<>> /\ transitionResponses = <<>> /\ read = <<>>

\* libhoney.Init: a new default Client; what was there before goes on.
InitClient(c, configuration) ==
  /\ Start(c, configuration)
  /\ dc' = c
  /\ UNCHANGED <<pumpVars>>

\* Responses: what follows happens once, for the Client of that time.
Responses ==
  /\ source = Nil
  /\ source' = dc
  /\ UNCHANGED <<senderVars, dc, hand, transitionResponses, read>>

\* A wrong PumpReceive: it does not wait for the one before to be sent.
PumpReceiveAhead ==
  /\ source # Nil
  /\ TxResponses(source) # <<>>
  /\ hand' = Append(hand, Head(TxResponses(source)))
  /\ IF conf[source].wrapped
     THEN outer' = [outer EXCEPT ![source] = Tail(@)] /\ UNCHANGED responses
     ELSE responses' = [responses EXCEPT ![source] = Tail(@)] /\ UNCHANGED outer
  /\ UNCHANGED <<conf, mutex, kept, pc, call, slice, calls, added, posted>>
  /\ UNCHANGED <<dc, source, transitionResponses, read>>

PumpReceive ==
  /\ source # Nil /\ hand = <<>>
  /\ TxResponses(source) # <<>>
  /\ hand' = <<Head(TxResponses(source))>>
  /\ IF conf[source].wrapped
     THEN outer' = [outer EXCEPT ![source] = Tail(@)] /\ UNCHANGED responses
     ELSE responses' = [responses EXCEPT ![source] = Tail(@)] /\ UNCHANGED outer
  /\ UNCHANGED <<conf, mutex, kept, pc, call, slice, calls, added, posted>>
  /\ UNCHANGED <<dc, source, transitionResponses, read>>

\* A wrong PumpSend: a full channel loses the response.
PumpSendOrDrop ==
  /\ hand # <<>>
  /\ hand' = <<>>
  /\ transitionResponses' = IF Len(transitionResponses) < Capacity(source)
                            THEN transitionResponses \o hand ELSE transitionResponses
  /\ UNCHANGED <<senderVars, dc, source, read>>

PumpSend ==
  /\ hand # <<>>
  /\ Len(transitionResponses) < Capacity(source)
  /\ hand' = <<>>
  /\ transitionResponses' = transitionResponses \o hand
  /\ UNCHANGED <<senderVars, dc, source, read>>

\* The program reads from the channel that Responses returned.
Read ==
  /\ transitionResponses # <<>>
  /\ transitionResponses' = Tail(transitionResponses)
  /\ read' = Append(read, Head(transitionResponses))
  /\ UNCHANGED <<senderVars, dc, source, hand>>

Send(g) ==
  /\ \E c \in Clients : CallAdd(g, c) \/ CallRespond(g, c) \/ CallEvents(g, c)
  /\ UNCHANGED <<dc, pumpVars>>

Discard ==
  /\ \E c \in Clients : AddDiscarded(c)
  /\ UNCHANGED <<dc, pumpVars>>

Step(g) ==
  /\ SenderStep(g)
  /\ UNCHANGED <<dc, pumpVars>>

Next ==
  \/ \E c \in Clients, configuration \in Configs : InitClient(c, configuration)
  \/ Responses \/ PumpReceive \/ PumpSend \/ Read \/ Discard
  \/ \E g \in Goroutines : Send(g) \/ Step(g)

Spec == Init /\ [][Next]_vars

(***************************************************************************)
(* Every goroutine goes on when it can, the pump among them, and the       *)
(* program reads what Responses gives.  The calls are finitely many, so   *)
(* that nobody is overtaken at the mutex for ever.                         *)
(***************************************************************************)
Fairness ==
  /\ \A g \in Goroutines : WF_vars(Step(g))
  /\ WF_vars(PumpReceive) /\ WF_vars(PumpSend) /\ WF_vars(Read)

FairSpec == Spec /\ Fairness

-----------------------------------------------------------------------------
(***************************************************************************)
(* "Implementations of Add() must be safe for concurrent calls"            *)
(* (sender.go:4): every event whose Add returned was written, or is in the *)
(* slice of the MockSender, and none is there twice.  What Events returns  *)
(* has those whose Add returned before it was called, in the same order.   *)
(***************************************************************************)
KeptOnce ==
  /\ \A c \in Clients :
        /\ conf[c].kind # "discard" => added[c] \subseteq Elements(kept[c])
        /\ \A i, j \in DOMAIN kept[c] : kept[c][i] = kept[c][j] => i = j
  /\ \A g \in Goroutines :
        pc[g] = "unlock" /\ call[g].event = Nil =>
          /\ call[g].before \subseteq Elements(slice[g])
          /\ slice[g] = SubSeq(kept[call[g].client], 1, Len(slice[g]))

\* What s has of t is there once, and in the order of t.
InOrder(s, t) ==
  \A i, j \in DOMAIN s : \A m, n \in DOMAIN t :
    i < j /\ s[i] = t[m] /\ s[j] = t[n] => m < n

(***************************************************************************)
(* The responses of a WriterSender come in the order of its lines, because *)
(* Add keeps the mutex until the response is in the channel, and none is   *)
(* missing when Add has returned, if the sender blocks.                    *)
(***************************************************************************)
AnsweredInOrder ==
  \A c \in Clients :
    conf[c].kind = "writer" /\ ~ conf[c].wrapped =>
      /\ InOrder(posted[c], kept[c])
      /\ conf[c].block => added[c] \subseteq Elements(posted[c])

(***************************************************************************)
(* Responses passes on what comes from the Client it was first called for: *)
(* every response is in one place, and they stay in order, whatever Client *)
(* Init made in the meantime.                                              *)
(***************************************************************************)
Forwarded ==
  source # Nil =>
    posted[source] = read \o transitionResponses \o hand \o TxResponses(source)

\* The senders whose Add does not depend on a channel that nobody reads: the
\* pump is bound to one Client, and it is the outer channel that it reads.
Drained(c) ==
  IF conf[c].wrapped
  THEN /\ conf[c].block => conf[c].kind # "writer"
       /\ conf[c].blockOuter => c = source
  ELSE conf[c].block => c = source

(***************************************************************************)
(* Add, SendResponse and Events return, although Add may wait for room in  *)
(* the channel with the mutex held (writer.go:52-66).                      *)
(***************************************************************************)
CallsReturn ==
  \A g \in Goroutines :
    pc[g] # "idle" /\ Drained(call[g].client) ~> pc[g] = "idle"

(***************************************************************************)
(* What entered the channel of that Client arrives at the reader: from     *)
(* every state on there comes one in which nothing is left on the way.     *)
(***************************************************************************)
ResponsesArrive == source # Nil ~> source # Nil /\ read = posted[source]
=============================================================================
