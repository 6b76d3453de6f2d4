------------------------- MODULE ResponsePumpProofs -------------------------
(***************************************************************************)
(* What is proved of ResponsePump and the senders of LocalSenders, for any *)
(* goroutines, clients, calls and queue sizes.                             *)
(***************************************************************************)
EXTENDS ResponsePump, SequenceTheorems, TLAPS

LEMMA Constants ==
  /\ Clients \subseteq Nat /\ Events \subseteq Nat /\ 0 \in Clients
  /\ Nil \notin Clients /\ Nil \notin Events /\ Nil \notin Goroutines
  /\ MaxCalls \in Nat /\ QueueSize \in Nat \ {0}
  /\ \A n \in Nat : n < MaxCalls => n + 1 \in Events
  /\ Configs \subseteq Configurations /\ NotStarted \notin Configurations
<1>1. Clients \subseteq Nat /\ Events \subseteq Nat /\ 0 \in Clients
  BY LocalSendersAssumption DEF Clients, Events
<1>2. \A n \in Nat : n < MaxCalls => n + 1 \in Events
  BY LocalSendersAssumption DEF Events
<1>3. NotStarted \notin Configurations
  <2>1. NotStarted.kind = "none" /\ \A k \in Configurations : k.kind # "none"
    BY DEF NotStarted, Configurations
  <2> QED
    BY <2>1
<1> QED
  BY <1>1, <1>2, <1>3, LocalSendersAssumption, ResponsePumpAssumption

(***************************************************************************)
(* Types, and what a goroutine that is in a call has in hand.              *)
(***************************************************************************)
CallOf(g) ==
  IF pc[g] = "idle"
  THEN call[g] = NoCall
  ELSE /\ call[g].client \in Clients
       /\ conf[call[g].client] # NotStarted
       /\ pc[g] # "respond" => conf[call[g].client].kind \in {"writer", "mock"}
       /\ pc[g] = "post" => conf[call[g].client].kind = "writer"
       /\ pc[g] \in {"load", "store", "post", "respond"} => call[g].event \in Events
       /\ pc[g] = "copy" => call[g].event = Nil

StartedInv ==
  /\ conf[dc] # NotStarted
  /\ source # Nil => conf[source] # NotStarted
  /\ source = Nil => hand = <<>> /\ transitionResponses = <<>> /\ read = <<>>

TypeInv == TypeOK /\ StartedInv /\ \A g \in Goroutines : CallOf(g)

LEMMA Types ==
  ASSUME TypeInv
  PROVE  /\ conf \in [Clients -> Configurations \cup {NotStarted}]
         /\ mutex \in [Clients -> Goroutines \cup {Nil}]
         /\ kept \in [Clients -> Seq(Events)] /\ responses \in [Clients -> Seq(Events)]
         /\ outer \in [Clients -> Seq(Events)] /\ posted \in [Clients -> Seq(Events)]
         /\ pc \in [Goroutines -> Places]
         /\ call \in [Goroutines ->
                        [client : Clients \cup {Nil}, event : Events \cup {Nil},
                         before : SUBSET Events]]
         /\ slice \in [Goroutines -> Seq(Events)]
         /\ calls \in 0 .. MaxCalls
         /\ added \in [Clients -> SUBSET Events]
         /\ dc \in Clients /\ source \in Clients \cup {Nil}
         /\ hand \in Seq(Events) /\ transitionResponses \in Seq(Events) /\ read \in Seq(Events)
         /\ Len(hand) <= 1
         /\ source # Nil => Len(transitionResponses) <= Capacity(source)
<1> QED
  BY DEF TypeInv, TypeOK, SenderTypeOK

LEMMA TypeInit == Init => TypeInv
<1> SUFFICES ASSUME Init PROVE TypeInv
  OBVIOUS
<1> USE Constants DEF Init, SenderInit
<1>1. SenderTypeOK
  <2>1. Discarding \in Configurations
    BY DEF Discarding, NotStarted, Configurations
  <2>2. NoCall \in [client : Clients \cup {Nil}, event : Events \cup {Nil}, before : SUBSET Events]
    BY DEF NoCall
  <2> QED
    BY <2>1, <2>2 DEF SenderTypeOK, Places
<1>2. TypeOK
  BY <1>1 DEF TypeOK
<1>3. conf[0] # NotStarted
  BY DEF Discarding, NotStarted
<1> QED
  BY <1>2, <1>3 DEF TypeInv, StartedInv, CallOf

(***************************************************************************)
(* Effects.  A call begins, goes on, posts a response and returns.         *)
(***************************************************************************)
\* The goroutine that moves, and only it.
Others(g) ==
  /\ \A h \in Goroutines : h # g => pc'[h] = pc[h] /\ call'[h] = call[h] /\ slice'[h] = slice[h]
  /\ DOMAIN pc' = Goroutines /\ DOMAIN call' = Goroutines /\ DOMAIN slice' = Goroutines

LEMMA EnterFields ==
  ASSUME TypeInv, NEW g \in Goroutines, NEW c \in Clients, NEW place \in Places, NEW e,
         Enter(g, place, c, e)
  PROVE  /\ pc[g] = "idle" /\ pc'[g] = place /\ conf[c] # NotStarted
         /\ pc' \in [Goroutines -> Places]
         /\ call'[g] = [client |-> c, event |-> e, before |-> added[c]]
         /\ call'[g].client = c /\ call'[g].event = e /\ call'[g].before = added[c]
         /\ slice'[g] = slice[g]
         /\ calls \in Nat /\ calls' = calls + 1 /\ calls + 1 \in Events
         /\ calls' \in 0 .. MaxCalls
         /\ UNCHANGED <<conf, mutex, kept, responses, outer, posted, slice, added>>
         /\ Others(g)
<1>1. calls \in Nat /\ calls < MaxCalls /\ calls' = calls + 1
  BY Types DEF Enter
<1>2. calls + 1 \in Events /\ calls' \in 0 .. MaxCalls
  BY <1>1, Constants
<1>3. /\ pc' = [pc EXCEPT ![g] = place]
      /\ call' = [call EXCEPT ![g] = [client |-> c, event |-> e, before |-> added[c]]]
      /\ UNCHANGED <<conf, mutex, kept, responses, outer, posted, slice, added>>
      /\ pc[g] = "idle" /\ conf[c] # NotStarted
  BY DEF Enter, channels
<1>4. /\ pc'[g] = place /\ pc' \in [Goroutines -> Places]
      /\ call'[g] = [client |-> c, event |-> e, before |-> added[c]]
      /\ Others(g)
  BY <1>3, Types DEF Others
<1> QED
  BY <1>1, <1>2, <1>3, <1>4

LEMMA GotoFields ==
  ASSUME TypeInv, NEW g \in Goroutines, NEW place \in Places, Goto(g, place)
  PROVE  /\ pc'[g] = place /\ pc' \in [Goroutines -> Places]
         /\ UNCHANGED <<conf, call, calls>>
         /\ \A h \in Goroutines : h # g => pc'[h] = pc[h]
<1> QED
  BY Types DEF Goto

LEMMA ReturnFields ==
  ASSUME TypeInv, NEW g \in Goroutines, Return(g)
  PROVE  /\ pc'[g] = "idle" /\ pc' \in [Goroutines -> Places]
         /\ call'[g] = NoCall /\ slice' \in [Goroutines -> Seq(Events)]
         /\ call' \in [Goroutines ->
                         [client : Clients \cup {Nil}, event : Events \cup {Nil},
                          before : SUBSET Events]]
         /\ UNCHANGED <<conf, calls>> /\ Others(g)
<1>1. /\ pc' = [pc EXCEPT ![g] = "idle"] /\ call' = [call EXCEPT ![g] = NoCall]
      /\ slice' = [slice EXCEPT ![g] = <<>>] /\ UNCHANGED <<conf, calls>>
  BY DEF Return
<1>2. "idle" \in Places /\ <<>> \in Seq(Events)
      /\ NoCall \in [client : Clients \cup {Nil}, event : Events \cup {Nil}, before : SUBSET Events]
  BY DEF Places, NoCall
<1> QED
  BY <1>1, <1>2, Types DEF Others

\* What a response does to the channels of one client, and to TxResponses.
Way(c, r, o) == IF conf[c].wrapped THEN o[c] ELSE r[c]

LEMMA PostFields ==
  ASSUME TypeInv, NEW c \in Clients, NEW e \in Events,
         PostInner(c, e) \/ (PostOuter(c, e) /\ conf[c].wrapped)
  PROVE  /\ responses' \in [Clients -> Seq(Events)] /\ outer' \in [Clients -> Seq(Events)]
         /\ posted' \in [Clients -> Seq(Events)]
         /\ \A d \in Clients : d # c => /\ posted'[d] = posted[d]
                                        /\ responses'[d] = responses[d] /\ outer'[d] = outer[d]
         /\ \/ /\ posted'[c] = posted[c]
               /\ Way(c, responses', outer') = Way(c, responses, outer)
            \/ /\ posted'[c] = Append(posted[c], e)
               /\ Way(c, responses', outer') = Append(Way(c, responses, outer), e)
<1>0. /\ responses \in [Clients -> Seq(Events)] /\ outer \in [Clients -> Seq(Events)]
      /\ posted \in [Clients -> Seq(Events)]
  BY Types
<1>1. CASE UNCHANGED channels
  BY <1>0, <1>1 DEF channels, Way
<1>2. CASE /\ responses' = [responses EXCEPT ![c] = Append(@, e)] /\ outer' = outer
           /\ posted' = IF conf[c].wrapped THEN posted ELSE [posted EXCEPT ![c] = Append(@, e)]
  <2>1. CASE conf[c].wrapped
    BY <1>0, <1>2, <2>1 DEF Way
  <2>2. CASE ~conf[c].wrapped
    BY <1>0, <1>2, <2>2 DEF Way
  <2> QED
    BY <2>1, <2>2
<1>3. CASE /\ outer' = [outer EXCEPT ![c] = Append(@, e)] /\ responses' = responses
           /\ posted' = [posted EXCEPT ![c] = Append(@, e)] /\ conf[c].wrapped
  BY <1>0, <1>3 DEF Way
<1> QED
  BY <1>1, <1>2, <1>3 DEF PostInner, PostOuter

\* What a call does with the sender that it is on.
LEMMA CallBegins ==
  ASSUME TypeInv, NEW g \in Goroutines, Send(g)
  PROVE  \E c \in Clients, place \in {"lock", "respond"}, e \in {calls + 1, Nil} :
            /\ Enter(g, place, c, e) /\ UNCHANGED <<dc, pumpVars>>
            /\ place = "lock" => conf[c].kind \in {"writer", "mock"}
            /\ e = Nil => place = "lock" /\ conf[c].kind = "mock"
<1>1. calls + 1 # Nil
  BY Types, LocalSendersAssumption
<1> QED
  BY <1>1 DEF Send, CallAdd, CallRespond, CallEvents

LEMMA TypeSend ==
  ASSUME TypeInv, NEW g \in Goroutines, Send(g)
  PROVE  TypeInv'
<1>1. PICK c \in Clients, place \in {"lock", "respond"}, e \in {calls + 1, Nil} :
         /\ Enter(g, place, c, e) /\ UNCHANGED <<dc, pumpVars>>
         /\ place = "lock" => conf[c].kind \in {"writer", "mock"}
         /\ e = Nil => place = "lock" /\ conf[c].kind = "mock"
  BY CallBegins
<1>2. place \in Places /\ place # "idle"
  BY DEF Places
<1>3. /\ pc'[g] = place /\ conf[c] # NotStarted /\ pc' \in [Goroutines -> Places]
      /\ call'[g] = [client |-> c, event |-> e, before |-> added[c]]
      /\ calls + 1 \in Events /\ calls' \in 0 .. MaxCalls
      /\ UNCHANGED <<conf, mutex, kept, responses, outer, posted, slice, added>>
      /\ Others(g)
  BY <1>1, <1>2, EnterFields
<1>4. call' \in [Goroutines -> [client : Clients \cup {Nil}, event : Events \cup {Nil},
                                before : SUBSET Events]]
  <2>1. call' = [call EXCEPT ![g] = [client |-> c, event |-> e, before |-> added[c]]]
    BY <1>1 DEF Enter
  <2>2. [client |-> c, event |-> e, before |-> added[c]]
           \in [client : Clients \cup {Nil}, event : Events \cup {Nil}, before : SUBSET Events]
    BY <1>1, <1>3, Types
  <2> QED
    BY <2>1, <2>2, Types
<1>5. TypeOK' /\ StartedInv'
  BY <1>1, <1>3, <1>4 DEF TypeInv, TypeOK, SenderTypeOK, StartedInv, pumpVars, Capacity,
                          InnerSize
<1>6. ASSUME NEW h \in Goroutines PROVE CallOf(h)'
  <2>1. CASE h = g
    BY <1>1, <1>2, <1>3, <2>1 DEF CallOf
  <2>2. CASE h # g
    BY <1>3, <2>2 DEF TypeInv, CallOf, Others
  <2> QED
    BY <2>1, <2>2
<1> QED
  BY <1>5, <1>6 DEF TypeInv

\* Steps of a call that goes on, with the sequences still of events.
LEMMA TypeGoto ==
  ASSUME TypeInv, NEW g \in Goroutines, NEW place \in Places \ {"idle"}, Goto(g, place),
         UNCHANGED <<added, dc, pumpVars>>, pc[g] # "idle",
         mutex' \in [Clients -> Goroutines \cup {Nil}],
         kept' \in [Clients -> Seq(Events)], responses' \in [Clients -> Seq(Events)],
         outer' \in [Clients -> Seq(Events)], posted' \in [Clients -> Seq(Events)],
         slice' \in [Goroutines -> Seq(Events)],
         place # "respond" => conf[call[g].client].kind \in {"writer", "mock"},
         place = "post" => conf[call[g].client].kind = "writer",
         place \in {"load", "store", "post", "respond"} => call[g].event \in Events,
         place = "copy" => call[g].event = Nil
  PROVE  TypeInv'
<1>1. /\ pc'[g] = place /\ pc' \in [Goroutines -> Places]
      /\ UNCHANGED <<conf, call, calls>>
      /\ \A h \in Goroutines : h # g => pc'[h] = pc[h]
  BY GotoFields
<1>2. TypeOK' /\ StartedInv'
  BY <1>1 DEF TypeInv, TypeOK, SenderTypeOK, StartedInv, pumpVars, Capacity, InnerSize
<1>3. ASSUME NEW h \in Goroutines PROVE CallOf(h)'
  <2>1. CASE h = g
    BY <1>1, <2>1 DEF TypeInv, CallOf
  <2>2. CASE h # g
    BY <1>1, <2>2 DEF TypeInv, CallOf
  <2> QED
    BY <2>1, <2>2
<1> QED
  BY <1>2, <1>3 DEF TypeInv

LEMMA TypeReturn ==
  ASSUME TypeInv, NEW g \in Goroutines, Return(g), UNCHANGED <<kept, dc, pumpVars>>,
         mutex' \in [Clients -> Goroutines \cup {Nil}],
         responses' \in [Clients -> Seq(Events)], outer' \in [Clients -> Seq(Events)],
         posted' \in [Clients -> Seq(Events)], added' \in [Clients -> SUBSET Events]
  PROVE  TypeInv'
<1>1. /\ pc'[g] = "idle" /\ pc' \in [Goroutines -> Places]
      /\ call'[g] = NoCall /\ slice' \in [Goroutines -> Seq(Events)]
      /\ call' \in [Goroutines ->
                      [client : Clients \cup {Nil}, event : Events \cup {Nil},
                       before : SUBSET Events]]
      /\ UNCHANGED <<conf, calls>> /\ Others(g)
  BY ReturnFields
<1>2. TypeOK' /\ StartedInv'
  BY <1>1 DEF TypeInv, TypeOK, SenderTypeOK, StartedInv, pumpVars, Capacity, InnerSize
<1>3. ASSUME NEW h \in Goroutines PROVE CallOf(h)'
  <2>1. CASE h = g
    BY <1>1, <2>1 DEF CallOf
  <2>2. CASE h # g
    BY <1>1, <2>2 DEF TypeInv, CallOf, Others
  <2> QED
    BY <2>1, <2>2
<1> QED
  BY <1>2, <1>3 DEF TypeInv

\* Where a step of a sender finds its goroutine.
LEMMA InCall ==
  ASSUME TypeInv, NEW g \in Goroutines, pc[g] # "idle"
  PROVE  /\ call[g].client \in Clients /\ conf[call[g].client] # NotStarted
         /\ pc[g] # "respond" => conf[call[g].client].kind \in {"writer", "mock"}
         /\ pc[g] = "post" => conf[call[g].client].kind = "writer"
         /\ pc[g] \in {"load", "store", "post", "respond"} => call[g].event \in Events
         /\ pc[g] = "copy" => call[g].event = Nil
         /\ call[g].event \in Events \cup {Nil} /\ call[g].before \subseteq Events
<1>1. CallOf(g)
  BY DEF TypeInv
<1>2. call[g].event \in Events \cup {Nil} /\ call[g].before \subseteq Events
  BY Types
<1> QED
  BY <1>1, <1>2 DEF CallOf

LEMMA TypeStep ==
  ASSUME TypeInv, NEW g \in Goroutines, Step(g)
  PROVE  TypeInv'
<1> DEFINE c == call[g].client
<1>0. UNCHANGED <<dc, pumpVars>>
  BY DEF Step
<1>1. CASE Lock(g)
  <2> DEFINE place == IF call[g].event = Nil THEN "copy" ELSE "load"
  <2>1. /\ pc[g] = "lock" /\ mutex' = [mutex EXCEPT ![c] = g] /\ Goto(g, place)
        /\ UNCHANGED <<kept, responses, outer, posted, slice, added>>
    BY <1>1 DEF Lock, channels
  <2>2. /\ c \in Clients /\ conf[c].kind \in {"writer", "mock"}
        /\ call[g].event \in Events \cup {Nil}
    BY <2>1, InCall
  <2>3. /\ place \in Places \ {"idle"} /\ place \in {"copy", "load"}
        /\ place = "copy" => call[g].event = Nil
        /\ place = "load" => call[g].event \in Events
    BY <2>2 DEF Places
  <2>4. mutex' \in [Clients -> Goroutines \cup {Nil}]
    BY <2>1, Types
  <2> HIDE DEF place
  <2> QED
    BY <1>0, <2>1, <2>2, <2>3, <2>4, Types, TypeGoto
<1>2. CASE Load(g)
  <2>1. /\ pc[g] = "load" /\ slice' = [slice EXCEPT ![g] = kept[c]] /\ Goto(g, "store")
        /\ UNCHANGED <<mutex, kept, responses, outer, posted, added>>
    BY <1>2 DEF Load, channels
  <2>2. c \in Clients /\ conf[c].kind \in {"writer", "mock"} /\ call[g].event \in Events
    BY <2>1, InCall
  <2>3. slice' \in [Goroutines -> Seq(Events)] /\ "store" \in Places \ {"idle"}
    BY <2>1, <2>2, Types DEF Places
  <2> QED
    BY <1>0, <2>1, <2>2, <2>3, Types, TypeGoto
<1>3. CASE Store(g)
  <2> DEFINE place == IF conf[c].kind = "writer" THEN "post" ELSE "unlock"
  <2>1. /\ pc[g] = "store" /\ kept' = [kept EXCEPT ![c] = Append(slice[g], call[g].event)]
        /\ Goto(g, place)
        /\ UNCHANGED <<mutex, responses, outer, posted, slice, added>>
    BY <1>3 DEF Store, channels
  <2>2. c \in Clients /\ conf[c].kind \in {"writer", "mock"} /\ call[g].event \in Events
    BY <2>1, InCall
  <2>3. /\ place \in Places \ {"idle"} /\ place \in {"post", "unlock"}
        /\ place = "post" => conf[c].kind = "writer"
    BY DEF Places
  <2>4. kept' \in [Clients -> Seq(Events)]
    BY <2>1, <2>2, Types
  <2> HIDE DEF place
  <2> QED
    BY <1>0, <2>1, <2>2, <2>3, <2>4, Types, TypeGoto
<1>4. CASE Post(g)
  <2>1. /\ pc[g] = "post" /\ PostInner(c, call[g].event) /\ Goto(g, "unlock")
        /\ UNCHANGED <<mutex, kept, slice, added>>
    BY <1>4 DEF Post
  <2>2. c \in Clients /\ conf[c].kind \in {"writer", "mock"} /\ call[g].event \in Events
    BY <2>1, InCall
  <2>3. /\ responses' \in [Clients -> Seq(Events)] /\ outer' \in [Clients -> Seq(Events)]
        /\ posted' \in [Clients -> Seq(Events)]
    BY <2>1, <2>2, PostFields
  <2>4. "unlock" \in Places \ {"idle"}
    BY DEF Places
  <2> QED
    BY <1>0, <2>1, <2>2, <2>3, <2>4, Types, TypeGoto
<1>5. CASE Copy(g)
  <2>1. /\ pc[g] = "copy" /\ slice' = [slice EXCEPT ![g] = kept[c]] /\ Goto(g, "unlock")
        /\ UNCHANGED <<mutex, kept, responses, outer, posted, added>>
    BY <1>5 DEF Copy, channels
  <2>2. c \in Clients /\ conf[c].kind \in {"writer", "mock"}
    BY <2>1, InCall
  <2>3. slice' \in [Goroutines -> Seq(Events)] /\ "unlock" \in Places \ {"idle"}
    BY <2>1, <2>2, Types DEF Places
  <2> QED
    BY <1>0, <2>1, <2>2, <2>3, Types, TypeGoto
<1>6. CASE Unlock(g)
  <2>1. /\ pc[g] = "unlock" /\ mutex' = [mutex EXCEPT ![c] = Nil]
        /\ added' = [added EXCEPT ![c] = @ \cup ({call[g].event} \ {Nil})]
        /\ Return(g) /\ UNCHANGED <<kept, responses, outer, posted>>
    BY <1>6 DEF Unlock, channels
  <2>2. c \in Clients /\ call[g].event \in Events \cup {Nil}
    BY <2>1, InCall
  <2>3. /\ mutex' \in [Clients -> Goroutines \cup {Nil}]
        /\ added' \in [Clients -> SUBSET Events]
    BY <2>1, <2>2, Types
  <2> QED
    BY <1>0, <2>1, <2>3, Types, TypeReturn
<1>7. CASE Respond(g)
  <2>1. /\ pc[g] = "respond"
        /\ PostInner(c, call[g].event) \/ (PostOuter(c, call[g].event) /\ conf[c].wrapped)
        /\ Return(g) /\ UNCHANGED <<mutex, kept, added>>
    BY <1>7 DEF Respond
  <2>2. c \in Clients /\ call[g].event \in Events
    BY <2>1, InCall
  <2>3. /\ responses' \in [Clients -> Seq(Events)] /\ outer' \in [Clients -> Seq(Events)]
        /\ posted' \in [Clients -> Seq(Events)]
    BY <2>1, <2>2, PostFields
  <2> QED
    BY <1>0, <2>1, <2>3, Types, TypeReturn
<1> QED
  BY <1>1, <1>2, <1>3, <1>4, <1>5, <1>6, <1>7 DEF Step, SenderStep

\* Start is for the next client that has not been started.
LEMMA StartFields ==
  ASSUME TypeInv, NEW c \in Clients, NEW configuration \in Configs,
         InitClient(c, configuration)
  PROVE  /\ conf[c] = NotStarted /\ conf'[c] = configuration /\ conf'[c] # NotStarted
         /\ conf' \in [Clients -> Configurations \cup {NotStarted}]
         /\ \A d \in Clients : d # c => conf'[d] = conf[d]
         /\ \A d \in Clients : conf[d] # NotStarted => conf'[d] = conf[d]
         /\ dc' = c
         /\ UNCHANGED <<mutex, kept, responses, outer, posted, pc, call, slice, calls, added,
                        pumpVars>>
<1>1. /\ \A d \in Clients : d < c <=> conf[d] # NotStarted
      /\ conf' = [conf EXCEPT ![c] = configuration] /\ dc' = c
      /\ UNCHANGED <<mutex, kept, responses, outer, posted, pc, call, slice, calls, added,
                     pumpVars>>
  BY DEF InitClient, Start, channels
<1>2. ~(c < c)
  BY Constants
<1>3. configuration \in Configurations /\ configuration # NotStarted
  BY Constants
<1> QED
  BY <1>1, <1>2, <1>3, Types

LEMMA TypeNext == TypeInv /\ [Next]_vars => TypeInv'
<1> SUFFICES ASSUME TypeInv, [Next]_vars PROVE TypeInv'
  OBVIOUS
<1>1. ASSUME NEW c \in Clients, NEW configuration \in Configs, InitClient(c, configuration)
      PROVE  TypeInv'
  <2>1. /\ conf[c] = NotStarted /\ conf'[c] # NotStarted
        /\ conf' \in [Clients -> Configurations \cup {NotStarted}]
        /\ \A d \in Clients : conf[d] # NotStarted => conf'[d] = conf[d]
        /\ dc' = c
        /\ UNCHANGED <<mutex, kept, responses, outer, posted, pc, call, slice, calls, added,
                       pumpVars>>
    BY <1>1, StartFields
  <2>2. source # Nil => conf'[source] = conf[source] /\ conf[source] # NotStarted
    BY <2>1, Types DEF TypeInv, StartedInv
  <2>3. TypeOK' /\ StartedInv'
    BY <2>1, <2>2 DEF TypeInv, TypeOK, SenderTypeOK, StartedInv, pumpVars, Capacity, InnerSize
  <2>4. ASSUME NEW h \in Goroutines PROVE CallOf(h)'
    BY <2>1 DEF TypeInv, CallOf
  <2> QED
    BY <2>3, <2>4 DEF TypeInv
<1>2. ASSUME UNCHANGED <<conf, mutex, kept, posted, pc, call, slice, calls, added, dc>>, TypeOK',
             StartedInv'
      PROVE  TypeInv'
  BY <1>2 DEF TypeInv, CallOf
<1>3. CASE Responses
  <2>1. source = Nil /\ source' = dc /\ UNCHANGED <<senderVars, dc, hand, transitionResponses, read>>
    BY <1>3 DEF Responses
  <2>2. transitionResponses = <<>> /\ Capacity(dc) \in Nat
    BY <2>1, Constants DEF TypeInv, StartedInv, Capacity, InnerSize
  <2>3. Len(transitionResponses) = 0
    BY <2>2
  <2>4. TypeOK' /\ StartedInv'
    BY <2>1, <2>2, <2>3, Constants
       DEF TypeInv, TypeOK, SenderTypeOK, StartedInv, senderVars, channels, Capacity, InnerSize
  <2> QED
    BY <1>2, <2>1, <2>4 DEF senderVars, channels
<1>4. CASE PumpReceive
  <2> DEFINE way == TxResponses(source)
  <2>1. /\ source # Nil /\ way # <<>> /\ hand' = <<Head(way)>>
        /\ IF conf[source].wrapped
           THEN outer' = [outer EXCEPT ![source] = Tail(@)] /\ UNCHANGED responses
           ELSE responses' = [responses EXCEPT ![source] = Tail(@)] /\ UNCHANGED outer
        /\ UNCHANGED <<conf, mutex, kept, pc, call, slice, calls, added, posted>>
        /\ UNCHANGED <<dc, source, transitionResponses, read>>
    BY <1>4 DEF PumpReceive
  <2>2. source \in Clients /\ way \in Seq(Events)
    BY <2>1, Types DEF TxResponses
  <2>3. <<Head(way)>> \in Seq(Events) /\ Len(<<Head(way)>>) = 1
    <3> HIDE DEF way
    <3>1. Head(way) \in Events
      BY <2>1, <2>2
    <3> QED
      BY <3>1
  <2>4. outer' \in [Clients -> Seq(Events)] /\ responses' \in [Clients -> Seq(Events)]
    <3>1. CASE conf[source].wrapped
      <4>1. Tail(outer[source]) \in Seq(Events)
        BY <2>1, <2>2, <3>1 DEF TxResponses
      <4> QED
        BY <2>1, <2>2, <3>1, <4>1, Types
    <3>2. CASE ~conf[source].wrapped
      <4>1. Tail(responses[source]) \in Seq(Events)
        BY <2>1, <2>2, <3>2 DEF TxResponses
      <4> QED
        BY <2>1, <2>2, <3>2, <4>1, Types
    <3> QED
      BY <3>1, <3>2
  <2> HIDE DEF way
  <2>5. TypeOK' /\ StartedInv'
    BY <2>1, <2>3, <2>4 DEF TypeInv, TypeOK, SenderTypeOK, StartedInv, Capacity, InnerSize
  <2> QED
    BY <1>2, <2>1, <2>5
<1>5. CASE PumpSend
  <2>1. /\ hand # <<>> /\ Len(transitionResponses) < Capacity(source) /\ hand' = <<>>
        /\ transitionResponses' = transitionResponses \o hand
        /\ UNCHANGED <<senderVars, dc, source, read>>
    BY <1>5 DEF PumpSend
  <2>2. source # Nil
    BY <2>1 DEF TypeInv, StartedInv
  <2>3. Capacity(source) \in Nat
    BY Constants DEF Capacity, InnerSize
  <2>4. transitionResponses' \in Seq(Events) /\ Len(transitionResponses') <= Capacity(source)
    <3>1. /\ transitionResponses \in Seq(Events) /\ hand \in Seq(Events) /\ Len(hand) <= 1
      BY Types
    <3>2. Len(transitionResponses \o hand) = Len(transitionResponses) + Len(hand)
      BY <3>1
    <3> QED
      BY <2>1, <2>3, <3>1, <3>2
  <2>5. hand' \in Seq(Events) /\ Len(hand') <= 1
    BY <2>1
  <2>6. TypeOK' /\ StartedInv'
    BY <2>1, <2>2, <2>4, <2>5
       DEF TypeInv, TypeOK, SenderTypeOK, StartedInv, senderVars, channels, Capacity, InnerSize
  <2> QED
    BY <1>2, <2>1, <2>6 DEF senderVars, channels
<1>6. CASE Read
  <2>1. /\ transitionResponses # <<>> /\ transitionResponses' = Tail(transitionResponses)
        /\ read' = Append(read, Head(transitionResponses))
        /\ UNCHANGED <<senderVars, dc, source, hand>>
    BY <1>6 DEF Read
  <2>2. source # Nil
    BY <2>1 DEF TypeInv, StartedInv
  <2>3. /\ transitionResponses \in Seq(Events) /\ read \in Seq(Events)
        /\ Capacity(source) \in Nat /\ Len(transitionResponses) <= Capacity(source)
    BY <2>2, Types, Constants DEF Capacity, InnerSize
  <2>4. /\ transitionResponses' \in Seq(Events) /\ read' \in Seq(Events)
        /\ Len(transitionResponses') <= Capacity(source)
    BY <2>1, <2>3
  <2>5. TypeOK' /\ StartedInv'
    BY <2>1, <2>2, <2>4
       DEF TypeInv, TypeOK, SenderTypeOK, StartedInv, senderVars, channels, Capacity, InnerSize
  <2> QED
    BY <1>2, <2>1, <2>5 DEF senderVars, channels
<1>7. CASE Discard
  <2>1. PICK c \in Clients :
           /\ calls < MaxCalls /\ calls' = calls + 1
           /\ added' = [added EXCEPT ![c] = @ \cup {calls + 1}]
           /\ UNCHANGED <<conf, mutex, kept, channels, pc, call, slice, dc, pumpVars>>
    BY <1>7 DEF Discard, AddDiscarded
  <2>2. calls' \in 0 .. MaxCalls /\ added' \in [Clients -> SUBSET Events]
    <3>1. calls \in Nat /\ calls + 1 \in Events
      BY <2>1, Types, Constants
    <3> QED
      BY <2>1, <3>1, Types, Constants
  <2>3. TypeOK' /\ StartedInv'
    BY <2>1, <2>2
       DEF TypeInv, TypeOK, SenderTypeOK, StartedInv, pumpVars, channels, Capacity, InnerSize
  <2> QED
    BY <2>1, <2>3 DEF TypeInv, CallOf
<1>8. CASE UNCHANGED vars
  <2>1. TypeOK' /\ StartedInv'
    BY <1>8 DEF TypeInv, TypeOK, SenderTypeOK, StartedInv, vars, senderVars, pumpVars, channels,
                Capacity, InnerSize
  <2> QED
    BY <1>2, <1>8, <2>1 DEF vars, senderVars, channels
<1> QED
  BY <1>1, <1>3, <1>4, <1>5, <1>6, <1>7, <1>8, TypeSend, TypeStep DEF Next

LEMMA TypeInvariant == Spec => []TypeInv
<1> QED
  BY TypeInit, TypeNext, PTL DEF Spec

\* Type correctness of the senders and of the pump.
THEOREM TypeCorrect == Spec => []TypeOK
<1>1. TypeInv => TypeOK
  BY DEF TypeInv
<1> QED
  BY <1>1, TypeInvariant, PTL

-----------------------------------------------------------------------------
(***************************************************************************)
(* The way of the responses: what one sequence loses at its head the one   *)
(* before it gains at its end.                                             *)
(***************************************************************************)
LEMMA PassHead ==
  ASSUME NEW S, NEW s \in Seq(S), NEW t \in Seq(S), t # <<>>
  PROVE  /\ Append(s, Head(t)) \o Tail(t) = s \o t
         /\ s \o <<>> = s /\ <<>> \o s = s
         /\ <<Head(t)>> \o Tail(t) = t
<1>1. Head(t) \in S /\ Tail(t) \in Seq(S)
  OBVIOUS
<1>2. <<Head(t)>> \o Tail(t) = t
  OBVIOUS
<1>3. Append(s, Head(t)) = s \o <<Head(t)>>
  BY <1>1, AppendIsConcat
<1>4. <<Head(t)>> \in Seq(S)
  BY <1>1
<1>5. (s \o <<Head(t)>>) \o Tail(t) = s \o (<<Head(t)>> \o Tail(t))
  BY <1>1, <1>4, ConcatAssociative
<1> QED
  BY <1>2, <1>3, <1>5, ConcatEmptySeq

LEMMA AppendLast ==
  ASSUME NEW S, NEW s \in Seq(S), NEW t \in Seq(S), NEW e \in S
  PROVE  s \o Append(t, e) = Append(s \o t, e)
<1>1. s \o t \in Seq(S) /\ <<e>> \in Seq(S)
  OBVIOUS
<1>2. Append(t, e) = t \o <<e>> /\ Append(s \o t, e) = (s \o t) \o <<e>>
  BY <1>1, AppendIsConcat
<1> QED
  BY <1>1, <1>2, ConcatAssociative

WayInv ==
  /\ \A c \in Clients :
        conf[c] = NotStarted => responses[c] = <<>> /\ outer[c] = <<>> /\ posted[c] = <<>>
  /\ \A c \in Clients : c # source => posted[c] = TxResponses(c)
  /\ Forwarded

LEMMA WayInit == Init => WayInv
<1> QED
  BY DEF Init, SenderInit, WayInv, TxResponses, Forwarded

\* A response that a sender posts.
LEMMA WayPost ==
  ASSUME TypeInv, WayInv, NEW c \in Clients, conf[c] # NotStarted, NEW e \in Events,
         PostInner(c, e) \/ (PostOuter(c, e) /\ conf[c].wrapped),
         UNCHANGED <<conf, pumpVars>>
  PROVE  WayInv'
<1> DEFINE w == TxResponses(c)
<1>1. /\ \A d \in Clients : d # c => /\ posted'[d] = posted[d]
                                     /\ responses'[d] = responses[d] /\ outer'[d] = outer[d]
      /\ \/ /\ posted'[c] = posted[c]
            /\ Way(c, responses', outer') = Way(c, responses, outer)
         \/ /\ posted'[c] = Append(posted[c], e)
            /\ Way(c, responses', outer') = Append(Way(c, responses, outer), e)
  BY PostFields
<1>2. Way(c, responses, outer) = TxResponses(c) /\ Way(c, responses', outer') = TxResponses(c)'
  BY DEF Way, TxResponses
<1>3. \A d \in Clients : d # c => TxResponses(d)' = TxResponses(d)
  BY <1>1 DEF TxResponses
<1>4. \/ posted'[c] = posted[c] /\ TxResponses(c)' = TxResponses(c)
      \/ posted'[c] = Append(posted[c], e) /\ TxResponses(c)' = Append(TxResponses(c), e)
  BY <1>1, <1>2
<1>5. UNCHANGED <<source, hand, transitionResponses, read>>
  BY DEF pumpVars
<1>6. Forwarded'
  <2> SUFFICES ASSUME source # Nil
               PROVE  posted'[source]
                        = read \o transitionResponses \o hand \o TxResponses(source)'
    BY <1>5 DEF Forwarded
  <2> DEFINE f == read \o transitionResponses \o hand
  <2>1. f \in Seq(Events) /\ TxResponses(source) \in Seq(Events)
    BY Types DEF TxResponses
  <2>2. source \in Clients /\ posted[source] = f \o TxResponses(source)
    BY Types DEF WayInv, Forwarded
  <2> HIDE DEF f
  <2>3. f \o Append(TxResponses(source), e) = Append(f \o TxResponses(source), e)
    BY <2>1, AppendLast
  <2>4. posted'[source] = f \o TxResponses(source)'
    <3>1. CASE c = source
      <4>1. TxResponses(source)' = TxResponses(c)'
        BY <1>5, <3>1 DEF TxResponses
      <4> QED
        BY <1>4, <2>2, <2>3, <3>1, <4>1
    <3>2. CASE c # source
      <4>1. posted'[source] = posted[source] /\ TxResponses(source)' = TxResponses(source)
        BY <1>1, <1>5, <2>2, <3>2 DEF TxResponses
      <4> QED
        BY <2>2, <4>1
    <3> QED
      BY <3>1, <3>2
  <2> QED
    BY <2>4 DEF f
<1>7. \A d \in Clients : d # source => posted'[d] = TxResponses(d)'
  BY <1>1, <1>3, <1>4 DEF WayInv
<1>8. \A d \in Clients :
         conf[d] = NotStarted => responses'[d] = <<>> /\ outer'[d] = <<>> /\ posted'[d] = <<>>
  BY <1>1 DEF WayInv
<1> QED
  BY <1>5, <1>6, <1>7, <1>8 DEF WayInv

LEMMA WayNext == TypeInv /\ WayInv /\ [Next]_vars => WayInv'
<1> SUFFICES ASSUME TypeInv, WayInv, [Next]_vars PROVE WayInv'
  OBVIOUS
<1>1. ASSUME UNCHANGED <<conf, responses, outer, posted, pumpVars>> PROVE WayInv'
  BY <1>1 DEF WayInv, Forwarded, TxResponses, pumpVars
<1>2. ASSUME NEW c \in Clients, NEW configuration \in Configs, InitClient(c, configuration)
      PROVE  WayInv'
  <2>1. /\ conf[c] = NotStarted /\ conf'[c] # NotStarted
        /\ \A d \in Clients : d # c => conf'[d] = conf[d]
        /\ UNCHANGED <<responses, outer, posted, pumpVars>>
    BY <1>2, StartFields
  <2>2. source # c
    BY <2>1, Constants DEF TypeInv, StartedInv
  <2>3. \A d \in Clients : d # c => TxResponses(d)' = TxResponses(d)
    BY <2>1 DEF TxResponses
  <2>4. posted'[c] = TxResponses(c)'
    BY <2>1 DEF WayInv, TxResponses
  <2>5. UNCHANGED <<source, hand, transitionResponses, read>>
    BY <2>1 DEF pumpVars
  <2>6. Forwarded'
    BY <2>1, <2>2, <2>3, <2>5, Types DEF WayInv, Forwarded
  <2> QED
    BY <2>1, <2>3, <2>4, <2>5, <2>6 DEF WayInv
<1>3. CASE Responses
  <2>1. source = Nil /\ source' = dc /\ UNCHANGED <<senderVars, dc, hand, transitionResponses, read>>
    BY <1>3 DEF Responses
  <2>2. /\ hand = <<>> /\ transitionResponses = <<>> /\ read = <<>> /\ dc \in Clients /\ dc # Nil
        /\ TxResponses(dc) \in Seq(Events)
    BY <2>1, Types, Constants DEF TypeInv, StartedInv, TxResponses
  <2>3. UNCHANGED <<conf, responses, outer, posted>>
    BY <2>1 DEF senderVars, channels
  <2>4. \A d \in Clients : TxResponses(d)' = TxResponses(d) /\ d # Nil
    BY <2>3, Constants DEF TxResponses
  <2>5. posted[dc] = TxResponses(dc)
    BY <2>1, <2>2 DEF WayInv
  <2>6. <<>> \o <<>> \o <<>> \o TxResponses(dc) = TxResponses(dc)
    <3>1. <<>> \o <<>> = <<>>
      OBVIOUS
    <3> QED
      BY <2>2, <3>1, ConcatEmptySeq
  <2>7. Forwarded'
    BY <2>1, <2>2, <2>3, <2>4, <2>5, <2>6 DEF Forwarded
  <2> QED
    BY <2>1, <2>3, <2>4, <2>7 DEF WayInv
<1>4. CASE PumpReceive
  <2> DEFINE w == TxResponses(source)
  <2>1. /\ source # Nil /\ w # <<>> /\ hand = <<>> /\ hand' = <<Head(w)>>
        /\ IF conf[source].wrapped
           THEN outer' = [outer EXCEPT ![source] = Tail(@)] /\ UNCHANGED responses
           ELSE responses' = [responses EXCEPT ![source] = Tail(@)] /\ UNCHANGED outer
        /\ UNCHANGED <<conf, posted, source, transitionResponses, read>>
    BY <1>4 DEF PumpReceive
  <2>2. source \in Clients /\ w \in Seq(Events)
    BY <2>1, Types DEF TxResponses
  <2>3. /\ TxResponses(source)' = Tail(w)
        /\ \A d \in Clients : d # source => /\ TxResponses(d)' = TxResponses(d)
                                            /\ responses'[d] = responses[d]
                                            /\ outer'[d] = outer[d]
    <3>1. CASE conf[source].wrapped
      BY <2>1, <2>2, <3>1, Types DEF TxResponses
    <3>2. CASE ~conf[source].wrapped
      BY <2>1, <2>2, <3>2, Types DEF TxResponses
    <3> QED
      BY <3>1, <3>2
  <2> HIDE DEF w
  <2>4. (read \o transitionResponses) \o hand \o w
           = (read \o transitionResponses) \o hand' \o Tail(w)
    <3> DEFINE f == read \o transitionResponses
    <3>1. f \in Seq(Events)
      BY Types
    <3> HIDE DEF f
    <3>2. f \o <<>> = f /\ Append(f, Head(w)) \o Tail(w) = f \o w /\ Head(w) \in Events
      BY <2>1, <2>2, <3>1, PassHead
    <3>3. f \o <<Head(w)>> = Append(f, Head(w))
      BY <3>1, <3>2, AppendIsConcat
    <3>4. f \o hand \o w = f \o hand' \o Tail(w)
      BY <2>1, <3>2, <3>3
    <3> QED
      BY <3>4 DEF f
  <2>5. Forwarded'
    BY <2>1, <2>3, <2>4 DEF WayInv, Forwarded, w
  <2>6. conf[source] # NotStarted
    BY <2>1 DEF TypeInv, StartedInv
  <2> QED
    BY <2>1, <2>3, <2>5, <2>6 DEF WayInv
<1>5. CASE PumpSend
  <2>1. /\ hand # <<>> /\ hand' = <<>>
        /\ transitionResponses' = transitionResponses \o hand
        /\ UNCHANGED <<senderVars, dc, source, read>>
    BY <1>5 DEF PumpSend
  <2>2. UNCHANGED <<conf, responses, outer, posted>>
    BY <2>1 DEF senderVars, channels
  <2>3. \A d \in Clients : TxResponses(d)' = TxResponses(d)
    BY <2>2 DEF TxResponses
  <2>4. read \o transitionResponses \o hand = read \o transitionResponses' \o hand'
    <3>1. read \in Seq(Events) /\ transitionResponses \in Seq(Events) /\ hand \in Seq(Events)
      BY Types
    <3>2. (read \o transitionResponses) \o hand = read \o (transitionResponses \o hand)
      BY <3>1, ConcatAssociative
    <3>3. read \o (transitionResponses \o hand) \in Seq(Events)
      BY <3>1
    <3> QED
      BY <2>1, <3>2, <3>3, ConcatEmptySeq
  <2>5. Forwarded'
    <3> SUFFICES ASSUME source # Nil
                 PROVE  posted[source]
                          = read \o transitionResponses' \o hand' \o TxResponses(source)
      BY <2>1, <2>2, <2>3, Types DEF Forwarded
    <3>1. posted[source] = read \o transitionResponses \o hand \o TxResponses(source)
      BY DEF WayInv, Forwarded
    <3> QED
      BY <2>4, <3>1
  <2> QED
    BY <2>1, <2>2, <2>3, <2>5 DEF WayInv
<1>6. CASE Read
  <2>1. /\ transitionResponses # <<>> /\ transitionResponses' = Tail(transitionResponses)
        /\ read' = Append(read, Head(transitionResponses))
        /\ UNCHANGED <<senderVars, dc, source, hand>>
    BY <1>6 DEF Read
  <2>2. UNCHANGED <<conf, responses, outer, posted>>
    BY <2>1 DEF senderVars, channels
  <2>3. \A d \in Clients : TxResponses(d)' = TxResponses(d)
    BY <2>2 DEF TxResponses
  <2>4. read' \o transitionResponses' = read \o transitionResponses
    <3>1. read \in Seq(Events) /\ transitionResponses \in Seq(Events)
      BY Types
    <3>2. Append(read, Head(transitionResponses)) \o Tail(transitionResponses)
             = read \o transitionResponses
      BY <2>1, <3>1, PassHead
    <3> QED
      BY <2>1, <3>2
  <2>5. Forwarded'
    <3> SUFFICES ASSUME source # Nil
                 PROVE  posted[source]
                          = read' \o transitionResponses' \o hand \o TxResponses(source)
      BY <2>1, <2>2, <2>3, Types DEF Forwarded
    <3>1. posted[source] = read \o transitionResponses \o hand \o TxResponses(source)
      BY DEF WayInv, Forwarded
    <3> QED
      BY <2>4, <3>1
  <2> QED
    BY <2>1, <2>2, <2>3, <2>5 DEF WayInv
<1>7. CASE Discard
  BY <1>1, <1>7 DEF Discard, AddDiscarded, channels
<1>8. ASSUME NEW g \in Goroutines, Send(g) PROVE WayInv'
  BY <1>1, <1>8 DEF Send, CallAdd, CallRespond, CallEvents, Enter, channels
<1>9. ASSUME NEW g \in Goroutines, Step(g) PROVE WayInv'
  <2>1. UNCHANGED pumpVars
    BY <1>9 DEF Step
  <2>2. CASE Lock(g) \/ Load(g) \/ Store(g) \/ Copy(g)
    BY <1>1, <2>1, <2>2 DEF Lock, Load, Store, Copy, Goto, channels
  <2>3. CASE Unlock(g)
    BY <1>1, <2>1, <2>3 DEF Unlock, Return, channels
  <2>4. CASE Post(g) \/ Respond(g)
    <3> DEFINE c == call[g].client
    <3>1. /\ pc[g] \in {"post", "respond"} /\ conf' = conf
          /\ PostInner(c, call[g].event) \/ (PostOuter(c, call[g].event) /\ conf[c].wrapped)
      BY <2>4 DEF Post, Respond, Goto, Return
    <3>2. c \in Clients /\ conf[c] # NotStarted /\ call[g].event \in Events
      BY <3>1, InCall
    <3> HIDE DEF c
    <3> QED
      BY <2>1, <3>1, <3>2, WayPost
  <2> QED
    BY <1>9, <2>2, <2>3, <2>4 DEF Step, SenderStep
<1>10. CASE UNCHANGED vars
  BY <1>1, <1>10 DEF vars, senderVars, channels
<1> QED
  BY <1>2, <1>3, <1>4, <1>5, <1>6, <1>7, <1>8, <1>9, <1>10 DEF Next

(***************************************************************************)
(* The pump passes on what comes from the Client that Responses was first  *)
(* called for, all of it and in order, whatever Client Init makes later.   *)
(***************************************************************************)
THEOREM PassesOn == Spec => []Forwarded
<1>1. Spec => []WayInv
  BY WayInit, WayNext, TypeInvariant, PTL DEF Spec
<1>2. WayInv => Forwarded
  BY DEF WayInv
<1> QED
  BY <1>1, <1>2, PTL

-----------------------------------------------------------------------------
(***************************************************************************)
(* The steps of a call, field by field, for goroutine g on client c with   *)
(* event e: what changes is g's, and c's.                                  *)
(***************************************************************************)
Moves(g, c) ==
  /\ UNCHANGED <<conf, calls>>
  /\ \A h \in Goroutines : h # g => pc'[h] = pc[h] /\ call'[h] = call[h] /\ slice'[h] = slice[h]
  /\ \A d \in Clients : d # c => /\ mutex'[d] = mutex[d] /\ kept'[d] = kept[d]
                                 /\ posted'[d] = posted[d] /\ added'[d] = added[d]

LockAt(g, c, e) ==
  /\ pc[g] = "lock" /\ pc'[g] \in {"copy", "load"} /\ (pc'[g] = "load" <=> e # Nil)
  /\ mutex[c] = Nil /\ mutex'[c] = g
  /\ call'[g] = call[g] /\ slice'[g] = slice[g]
  /\ kept'[c] = kept[c] /\ posted'[c] = posted[c] /\ added'[c] = added[c]

LoadAt(g, c, e) ==
  /\ pc[g] = "load" /\ pc'[g] = "store"
  /\ call'[g] = call[g] /\ slice'[g] = kept[c] /\ mutex'[c] = mutex[c]
  /\ kept'[c] = kept[c] /\ posted'[c] = posted[c] /\ added'[c] = added[c]

StoreAt(g, c, e) ==
  /\ pc[g] = "store" /\ pc'[g] \in {"post", "unlock"}
  /\ pc'[g] = "post" <=> conf[c].kind = "writer"
  /\ call'[g] = call[g] /\ slice'[g] = slice[g] /\ mutex'[c] = mutex[c]
  /\ kept'[c] = Append(slice[g], e) /\ posted'[c] = posted[c] /\ added'[c] = added[c]

PostAt(g, c, e) ==
  /\ pc[g] = "post" /\ pc'[g] = "unlock"
  /\ call'[g] = call[g] /\ slice'[g] = slice[g] /\ mutex'[c] = mutex[c]
  /\ kept'[c] = kept[c] /\ added'[c] = added[c]
  /\ \/ posted'[c] = Append(posted[c], e)
     \/ posted'[c] = posted[c] /\ ~(conf[c].block /\ ~conf[c].wrapped)

CopyAt(g, c, e) ==
  /\ pc[g] = "copy" /\ pc'[g] = "unlock"
  /\ call'[g] = call[g] /\ slice'[g] = kept[c] /\ mutex'[c] = mutex[c]
  /\ kept'[c] = kept[c] /\ posted'[c] = posted[c] /\ added'[c] = added[c]

UnlockAt(g, c, e) ==
  /\ pc[g] = "unlock" /\ pc'[g] = "idle"
  /\ call'[g] = NoCall /\ mutex'[c] = Nil
  /\ kept'[c] = kept[c] /\ posted'[c] = posted[c] /\ added'[c] = added[c] \cup ({e} \ {Nil})

RespondAt(g, c, e) ==
  /\ pc[g] = "respond" /\ pc'[g] = "idle"
  /\ call'[g] = NoCall /\ mutex'[c] = mutex[c]
  /\ kept'[c] = kept[c] /\ added'[c] = added[c]
  /\ \/ posted'[c] = Append(posted[c], e)
     \/ posted'[c] = posted[c]

LEMMA StepFields ==
  ASSUME TypeInv, NEW g \in Goroutines, Step(g),
         NEW c, c = call[g].client, NEW e, e = call[g].event
  PROVE  /\ c \in Clients /\ conf[c] # NotStarted /\ e \in Events \cup {Nil}
         /\ pc[g] \in {"load", "store", "post", "respond"} => e \in Events
         /\ pc[g] = "copy" => e = Nil
         /\ Moves(g, c)
         /\ \/ LockAt(g, c, e) \/ LoadAt(g, c, e) \/ StoreAt(g, c, e) \/ PostAt(g, c, e)
            \/ CopyAt(g, c, e) \/ UnlockAt(g, c, e) \/ RespondAt(g, c, e)
<1>1. pc[g] # "idle"
  BY DEF Step, SenderStep, Lock, Load, Store, Post, Copy, Unlock, Respond
<1>2. /\ c \in Clients /\ conf[c] # NotStarted /\ e \in Events \cup {Nil}
      /\ pc[g] \in {"load", "store", "post", "respond"} => e \in Events
      /\ pc[g] = "copy" => e = Nil
  BY <1>1, InCall
<1> DEFINE Effects == Moves(g, c) /\ ( \/ LockAt(g, c, e) \/ LoadAt(g, c, e) \/ StoreAt(g, c, e)
                                       \/ PostAt(g, c, e) \/ CopyAt(g, c, e)
                                       \/ UnlockAt(g, c, e) \/ RespondAt(g, c, e) )
<1>3. ASSUME Lock(g) PROVE Effects
  <2>1. /\ pc[g] = "lock" /\ mutex[c] = Nil /\ mutex' = [mutex EXCEPT ![c] = g]
        /\ Goto(g, IF e = Nil THEN "copy" ELSE "load")
        /\ UNCHANGED <<kept, posted, slice, added>>
    BY <1>3 DEF Lock, MayLock, channels
  <2>2. /\ pc' = [pc EXCEPT ![g] = IF e = Nil THEN "copy" ELSE "load"]
        /\ UNCHANGED <<conf, call, calls>>
    BY <2>1 DEF Goto
  <2>3. LockAt(g, c, e)
    BY <1>2, <2>1, <2>2, Types DEF LockAt
  <2>4. Moves(g, c)
    BY <1>2, <2>1, <2>2, Types DEF Moves
  <2> QED
    BY <2>3, <2>4
<1>4. ASSUME Load(g) PROVE Effects
  <2>1. /\ pc[g] = "load" /\ slice' = [slice EXCEPT ![g] = kept[c]]
        /\ pc' = [pc EXCEPT ![g] = "store"]
        /\ UNCHANGED <<conf, mutex, kept, posted, call, calls, added>>
    BY <1>4 DEF Load, Goto, channels
  <2>2. LoadAt(g, c, e)
    BY <2>1, Types DEF LoadAt
  <2>3. Moves(g, c)
    BY <2>1, Types DEF Moves
  <2> QED
    BY <2>2, <2>3
<1>5. ASSUME Store(g) PROVE Effects
  <2>1. /\ pc[g] = "store" /\ kept' = [kept EXCEPT ![c] = Append(slice[g], e)]
        /\ pc' = [pc EXCEPT ![g] = IF conf[c].kind = "writer" THEN "post" ELSE "unlock"]
        /\ UNCHANGED <<conf, mutex, posted, call, calls, slice, added>>
    BY <1>5 DEF Store, Goto, channels
  <2>2. StoreAt(g, c, e)
    BY <1>2, <2>1, Types DEF StoreAt
  <2>3. Moves(g, c)
    BY <1>2, <2>1, Types DEF Moves
  <2> QED
    BY <2>2, <2>3
<1>6. ASSUME Post(g) PROVE Effects
  <2>1. /\ pc[g] = "post" /\ PostInner(c, e)
        /\ pc' = [pc EXCEPT ![g] = "unlock"]
        /\ UNCHANGED <<conf, mutex, kept, call, calls, slice, added>>
    BY <1>6 DEF Post, Goto
  <2>2. /\ \A d \in Clients : d # c => posted'[d] = posted[d]
        /\ posted'[c] = Append(posted[c], e) \/ posted'[c] = posted[c]
    <3>1. e \in Events /\ c \in Clients
      BY <1>2, <2>1
    <3> QED
      BY <2>1, <3>1, PostFields
  <2>3. ASSUME conf[c].block, ~conf[c].wrapped PROVE posted'[c] = Append(posted[c], e)
    <3>1. posted' = [posted EXCEPT ![c] = Append(@, e)]
      BY <2>1, <2>3 DEF PostInner
    <3> QED
      BY <1>2, <3>1, Types
  <2>4. PostAt(g, c, e)
    <3>1. \/ posted'[c] = Append(posted[c], e)
          \/ posted'[c] = posted[c] /\ ~(conf[c].block /\ ~conf[c].wrapped)
      BY <2>2, <2>3
    <3>2. pc'[g] = "unlock"
      BY <2>1, Types
    <3> QED
      BY <2>1, <3>1, <3>2 DEF PostAt
  <2>5. Moves(g, c)
    BY <2>1, <2>2, Types DEF Moves
  <2> QED
    BY <2>4, <2>5
<1>7. ASSUME Copy(g) PROVE Effects
  <2>1. /\ pc[g] = "copy" /\ slice' = [slice EXCEPT ![g] = kept[c]]
        /\ pc' = [pc EXCEPT ![g] = "unlock"]
        /\ UNCHANGED <<conf, mutex, kept, posted, call, calls, added>>
    BY <1>7 DEF Copy, Goto, channels
  <2>2. CopyAt(g, c, e)
    BY <2>1, Types DEF CopyAt
  <2>3. Moves(g, c)
    BY <2>1, Types DEF Moves
  <2> QED
    BY <2>2, <2>3
<1>8. ASSUME Unlock(g) PROVE Effects
  <2>1. /\ pc[g] = "unlock" /\ mutex' = [mutex EXCEPT ![c] = Nil]
        /\ added' = [added EXCEPT ![c] = @ \cup ({e} \ {Nil})]
        /\ Return(g) /\ UNCHANGED <<kept, posted>>
    BY <1>8 DEF Unlock, channels
  <2>2. pc'[g] = "idle" /\ call'[g] = NoCall /\ UNCHANGED <<conf, calls>> /\ Others(g)
    BY <2>1, ReturnFields
  <2>3. UnlockAt(g, c, e)
    BY <1>2, <2>1, <2>2, Types DEF UnlockAt
  <2>4. Moves(g, c)
    BY <1>2, <2>1, <2>2, Types DEF Moves, Others
  <2> QED
    BY <2>3, <2>4
<1>9. ASSUME Respond(g) PROVE Effects
  <2>1. /\ pc[g] = "respond"
        /\ PostInner(c, e) \/ (PostOuter(c, e) /\ conf[c].wrapped)
        /\ Return(g) /\ UNCHANGED <<mutex, kept, added>>
    BY <1>9 DEF Respond
  <2>2. pc'[g] = "idle" /\ call'[g] = NoCall /\ UNCHANGED <<conf, calls>> /\ Others(g)
    BY <2>1, ReturnFields
  <2>3. /\ \A d \in Clients : d # c => posted'[d] = posted[d]
        /\ posted'[c] = Append(posted[c], e) \/ posted'[c] = posted[c]
    <3>1. e \in Events /\ c \in Clients
      BY <1>2, <2>1
    <3> QED
      BY <2>1, <3>1, PostFields
  <2>4. RespondAt(g, c, e)
    BY <2>1, <2>2, <2>3 DEF RespondAt
  <2>5. Moves(g, c)
    BY <2>1, <2>2, <2>3 DEF Moves, Others
  <2> QED
    BY <2>4, <2>5
<1>10. Effects
  BY <1>3, <1>4, <1>5, <1>6, <1>7, <1>8, <1>9 DEF Step, SenderStep
<1> QED
  BY <1>2, <1>10

\* Everything else that can happen: a call begins, or is over at once, or a
\* client is started; the rest does not concern the senders.
SenderCore == <<conf, mutex, kept, posted, pc, call, slice, calls, added>>

LEMMA OtherSteps ==
  ASSUME TypeInv, [Next]_vars
  PROVE  \/ \E g \in Goroutines : Send(g) \/ Step(g)
         \/ Discard
         \/ \E c \in Clients, configuration \in Configs : InitClient(c, configuration)
         \/ UNCHANGED SenderCore
<1>1. CASE Responses \/ PumpSend \/ Read
  BY <1>1 DEF Responses, PumpSend, Read, senderVars, channels, SenderCore
<1>2. CASE PumpReceive
  BY <1>2 DEF PumpReceive, SenderCore
<1>3. CASE UNCHANGED vars
  BY <1>3 DEF vars, senderVars, channels, SenderCore
<1> QED
  BY <1>1, <1>2, <1>3 DEF Next

LEMMA DiscardFields ==
  ASSUME TypeInv, Discard
  PROVE  \E c \in Clients :
           /\ conf[c].kind = "discard" /\ calls \in Nat /\ calls' = calls + 1
           /\ added'[c] = added[c] \cup {calls + 1}
           /\ \A d \in Clients : d # c => added'[d] = added[d]
           /\ UNCHANGED <<conf, mutex, kept, posted, pc, call, slice>>
<1>1. PICK c \in Clients : AddDiscarded(c)
  BY DEF Discard
<1>2. /\ conf[c].kind = "discard" /\ calls' = calls + 1
      /\ added' = [added EXCEPT ![c] = @ \cup {calls + 1}]
      /\ UNCHANGED <<conf, mutex, kept, posted, pc, call, slice>>
  BY <1>1 DEF AddDiscarded, channels
<1>3. /\ added'[c] = added[c] \cup {calls + 1} /\ calls \in Nat
      /\ \A d \in Clients : d # c => added'[d] = added[d]
  BY <1>2, Types
<1> QED
  BY <1>2, <1>3

-----------------------------------------------------------------------------
(***************************************************************************)
(* The mutex: a goroutine between Lock and Unlock has it, so that no other *)
(* touches what the sender keeps.                                          *)
(***************************************************************************)
Holding == {"load", "store", "post", "copy", "unlock"}

MutexInv == \A g \in Goroutines : pc[g] \in Holding => mutex[call[g].client] = g

LEMMA MutexNext == TypeInv /\ MutexInv /\ [Next]_vars => MutexInv'
<1> SUFFICES ASSUME TypeInv, MutexInv, [Next]_vars PROVE MutexInv'
  OBVIOUS
<1>1. ASSUME UNCHANGED <<mutex, pc, call>> PROVE MutexInv'
  BY <1>1 DEF MutexInv
<1>2. ASSUME NEW g \in Goroutines, Send(g) PROVE MutexInv'
  <2>1. PICK c \in Clients, place \in {"lock", "respond"}, e \in {calls + 1, Nil} :
           Enter(g, place, c, e)
    BY <1>2, CallBegins
  <2>2. place \in Places /\ place \notin Holding
    BY DEF Places, Holding
  <2>3. /\ pc'[g] = place /\ conf[c] # NotStarted /\ pc' \in [Goroutines -> Places]
        /\ call'[g] = [client |-> c, event |-> e, before |-> added[c]]
        /\ UNCHANGED <<conf, mutex, kept, responses, outer, posted, slice, added>>
        /\ Others(g)
    BY <2>1, <2>2, EnterFields
  <2> QED
    BY <2>2, <2>3 DEF MutexInv, Others
<1>3. ASSUME NEW g \in Goroutines, Step(g) PROVE MutexInv'
  <2> DEFINE c == call[g].client
             e == call[g].event
  <2>1. /\ c \in Clients /\ Moves(g, c)
        /\ \/ LockAt(g, c, e) \/ LoadAt(g, c, e) \/ StoreAt(g, c, e) \/ PostAt(g, c, e)
           \/ CopyAt(g, c, e) \/ UnlockAt(g, c, e) \/ RespondAt(g, c, e)
    BY <1>3, StepFields
  <2>2. ASSUME NEW h \in Goroutines, h # g, pc'[h] \in Holding PROVE mutex'[call'[h].client] = h
    <3>1. pc[h] \in Holding /\ call'[h] = call[h] /\ mutex[call[h].client] = h
      BY <2>1, <2>2 DEF Moves, MutexInv
    <3>2. call[h].client \in Clients /\ h # Nil
      BY <3>1, InCall, Constants DEF Holding
    <3>3. CASE call[h].client = c
      <4>1. mutex[c] = h /\ mutex'[c] = mutex[c]
        BY <2>1, <2>2, <3>1, <3>2, <3>3
           DEF LockAt, LoadAt, StoreAt, PostAt, CopyAt, UnlockAt, RespondAt, MutexInv, Holding
      <4> QED
        BY <3>1, <3>3, <4>1
    <3>4. CASE call[h].client # c
      BY <2>1, <3>1, <3>2, <3>4 DEF Moves
    <3> QED
      BY <3>3, <3>4
  <2>3. pc'[g] \in Holding => mutex'[call'[g].client] = g
    BY <2>1 DEF LockAt, LoadAt, StoreAt, PostAt, CopyAt, UnlockAt, RespondAt, MutexInv, Holding
  <2> QED
    BY <2>2, <2>3 DEF MutexInv
<1>4. CASE Discard
  BY <1>1, <1>4, DiscardFields
<1>5. ASSUME NEW c \in Clients, NEW configuration \in Configs, InitClient(c, configuration)
      PROVE  MutexInv'
  BY <1>1, <1>5, StartFields
<1> QED
  BY <1>1, <1>2, <1>3, <1>4, <1>5, OtherSteps DEF SenderCore

LEMMA MutexInvariant == Spec => []MutexInv
<1>1. Init => MutexInv
  BY DEF Init, SenderInit, MutexInv, Holding
<1> QED
  BY <1>1, MutexNext, TypeInvariant, PTL DEF Spec

-----------------------------------------------------------------------------
(***************************************************************************)
(* What a goroutine that has the mutex knows.                              *)
(***************************************************************************)
LEMMA AppendElements ==
  ASSUME NEW S, NEW s \in Seq(S), NEW e \in S
  PROVE  Elements(Append(s, e)) = Elements(s) \cup {e}
<1> DEFINE t == Append(s, e)
<1>1. /\ Len(s) \in Nat /\ DOMAIN s = 1 .. Len(s) /\ DOMAIN t = 1 .. Len(s) + 1
      /\ \A i \in 1 .. Len(s) : t[i] = s[i]
      /\ t[Len(s) + 1] = e
  OBVIOUS
<1> HIDE DEF t
<1>2. Elements(t) \subseteq Elements(s) \cup {e}
  <2> SUFFICES ASSUME NEW i \in DOMAIN t PROVE t[i] \in Elements(s) \cup {e}
    BY DEF Elements
  <2>1. CASE i \in 1 .. Len(s)
    BY <1>1, <2>1 DEF Elements
  <2>2. CASE i = Len(s) + 1
    BY <1>1, <2>2
  <2> QED
    BY <1>1, <2>1, <2>2
<1>3. Elements(s) \subseteq Elements(t)
  <2> SUFFICES ASSUME NEW i \in DOMAIN s PROVE s[i] \in Elements(t)
    BY DEF Elements
  <2>1. i \in DOMAIN t /\ t[i] = s[i]
    BY <1>1
  <2> QED
    BY <2>1 DEF Elements
<1>4. e \in Elements(t)
  <2>1. Len(s) + 1 \in DOMAIN t
    BY <1>1
  <2> QED
    BY <1>1, <2>1 DEF Elements
<1> QED
  BY <1>2, <1>3, <1>4 DEF t

\* The event that was kept last is that of the goroutine that kept it.
EndsWith(s, e) == Len(s) > 0 /\ s[Len(s)] = e

Held(g) ==
  LET c == call[g].client
      e == call[g].event
  IN
  /\ pc[g] = "store" => slice[g] = kept[c]
  /\ pc[g] = "unlock" /\ e = Nil => slice[g] = kept[c]
  /\ pc[g] \in {"post", "unlock"} /\ e # Nil => EndsWith(kept[c], e)
  /\ pc[g] = "unlock" /\ e # Nil =>
       (conf[c].kind = "writer" /\ conf[c].block /\ ~conf[c].wrapped =>
          e \in Elements(posted[c]))
  /\ pc[g] # "idle" => call[g].before \subseteq added[c]

HeldInv == \A g \in Goroutines : Held(g)

\* What a step of a call adds to the histories.
LEMMA Grows ==
  ASSUME TypeInv, NEW g \in Goroutines, Step(g), NEW d \in Clients
  PROVE  /\ Elements(posted[d]) \subseteq Elements(posted'[d])
         /\ Elements(posted'[d]) \subseteq Elements(posted[d]) \cup {call[g].event}
         /\ pc[g] \notin {"post", "respond"} => posted'[d] = posted[d]
         /\ added[d] \subseteq added'[d]
         /\ added'[d] \subseteq added[d] \cup ({call[g].event} \ {Nil})
         /\ pc[g] # "unlock" => added'[d] = added[d]
<1> DEFINE c == call[g].client
           e == call[g].event
<1>1. /\ c \in Clients /\ Moves(g, c)
      /\ pc[g] \in {"load", "store", "post", "respond"} => e \in Events
      /\ \/ LockAt(g, c, e) \/ LoadAt(g, c, e) \/ StoreAt(g, c, e) \/ PostAt(g, c, e)
         \/ CopyAt(g, c, e) \/ UnlockAt(g, c, e) \/ RespondAt(g, c, e)
  BY StepFields
<1> HIDE DEF c, e
<1>2. CASE d # c
  BY <1>1, <1>2 DEF Moves
<1>3. ASSUME d = c PROVE /\ pc[g] \notin {"post", "respond"} => posted'[d] = posted[d]
                         /\ added[d] \subseteq added'[d]
                         /\ added'[d] \subseteq added[d] \cup ({e} \ {Nil})
                         /\ pc[g] # "unlock" => added'[d] = added[d]
  BY <1>1, <1>3 DEF LockAt, LoadAt, StoreAt, PostAt, CopyAt, UnlockAt, RespondAt
<1>4. ASSUME d = c, pc[g] \in {"post", "respond"}
      PROVE  /\ Elements(posted[d]) \subseteq Elements(posted'[d])
             /\ Elements(posted'[d]) \subseteq Elements(posted[d]) \cup {e}
  <2>1. posted'[d] = Append(posted[d], e) \/ posted'[d] = posted[d]
    BY <1>1, <1>4 DEF LockAt, LoadAt, StoreAt, PostAt, CopyAt, UnlockAt, RespondAt
  <2>2. posted[d] \in Seq(Events) /\ e \in Events
    BY <1>1, <1>4, Types
  <2>3. Elements(Append(posted[d], e)) = Elements(posted[d]) \cup {e}
    BY <2>2, AppendElements
  <2> QED
    BY <2>1, <2>3
<1> QED
  BY <1>2, <1>3, <1>4 DEF e

\* Nobody touches what the sender of a goroutine with the mutex keeps.
LEMMA KeptByOthers ==
  ASSUME TypeInv, MutexInv, NEW g \in Goroutines, NEW h \in Goroutines, h # g, Step(g),
         pc[h] \in Holding
  PROVE  /\ pc'[h] = pc[h] /\ call'[h] = call[h] /\ slice'[h] = slice[h]
         /\ call[h].client \in Clients /\ kept'[call[h].client] = kept[call[h].client]
<1> DEFINE c == call[g].client
           e == call[g].event
<1>1. /\ c \in Clients /\ Moves(g, c)
      /\ \/ LockAt(g, c, e) \/ LoadAt(g, c, e) \/ StoreAt(g, c, e) \/ PostAt(g, c, e)
         \/ CopyAt(g, c, e) \/ UnlockAt(g, c, e) \/ RespondAt(g, c, e)
  BY StepFields
<1>2. call[h].client \in Clients /\ mutex[call[h].client] = h
  BY InCall DEF Holding, MutexInv
<1>3. CASE call[h].client = c
  <2>1. ~StoreAt(g, c, e)
    BY <1>2, <1>3 DEF StoreAt, MutexInv, Holding
  <2>2. kept'[c] = kept[c]
    BY <1>1, <2>1 DEF LockAt, LoadAt, PostAt, CopyAt, UnlockAt, RespondAt
  <2> QED
    BY <1>1, <1>2, <1>3, <2>2 DEF Moves
<1>4. CASE call[h].client # c
  BY <1>1, <1>2, <1>4 DEF Moves
<1> QED
  BY <1>3, <1>4

LEMMA HeldStep ==
  ASSUME TypeInv, MutexInv, HeldInv, NEW g \in Goroutines, Step(g)
  PROVE  HeldInv'
<1> DEFINE c == call[g].client
           e == call[g].event
<1>1. /\ c \in Clients /\ Moves(g, c) /\ e \in Events \cup {Nil}
      /\ pc[g] \in {"load", "store", "post", "respond"} => e \in Events
      /\ pc[g] = "copy" => e = Nil
      /\ pc[g] = "post" => conf[c].kind = "writer"
      /\ \/ LockAt(g, c, e) \/ LoadAt(g, c, e) \/ StoreAt(g, c, e) \/ PostAt(g, c, e)
         \/ CopyAt(g, c, e) \/ UnlockAt(g, c, e) \/ RespondAt(g, c, e)
  <2>1. pc[g] # "idle"
    BY DEF Step, SenderStep, Lock, Load, Store, Post, Copy, Unlock, Respond
  <2> QED
    BY <2>1, StepFields, InCall
<1>2. Held(g) /\ conf' = conf
  BY <1>1 DEF HeldInv, Moves
<1>3. Nil \notin Events /\ kept[c] \in Seq(Events) /\ posted[c] \in Seq(Events)
  BY <1>1, Types, Constants
<1>4. /\ pc[g] # "idle" => call[g].before \subseteq added[c]
      /\ added[c] \subseteq added'[c]
  BY <1>1, <1>2, Grows DEF Held
<1>5. Held(g)'
  <2>1. CASE LockAt(g, c, e)
    BY <1>1, <1>2, <1>4, <2>1 DEF LockAt, Held
  <2>2. CASE LoadAt(g, c, e)
    BY <1>1, <1>2, <1>4, <2>2 DEF LoadAt, Held
  <2>3. CASE StoreAt(g, c, e)
    <3>1. slice[g] = kept[c] /\ e \in Events
      BY <1>1, <1>2, <2>3 DEF StoreAt, Held
    <3>2. EndsWith(kept'[c], e)
      <4>1. kept'[c] = Append(kept[c], e)
        BY <2>3, <3>1 DEF StoreAt
      <4>2. Len(Append(kept[c], e)) > 0
            /\ Append(kept[c], e)[Len(Append(kept[c], e))] = e
        BY <1>3, <3>1
      <4> QED
        BY <4>1, <4>2 DEF EndsWith
    <3>3. /\ pc'[g] \in {"post", "unlock"} /\ pc'[g] = "unlock" => conf[c].kind # "writer"
          /\ call'[g] = call[g]
      BY <2>3 DEF StoreAt
    <3> QED
      BY <1>2, <1>3, <1>4, <2>3, <3>1, <3>2, <3>3 DEF StoreAt, Held
  <2>4. CASE PostAt(g, c, e)
    <3>1. e \in Events /\ EndsWith(kept[c], e)
      BY <1>1, <1>2, <1>3, <2>4 DEF PostAt, Held
    <3>2. conf[c].block /\ ~conf[c].wrapped => e \in Elements(posted'[c])
      <4>1. Elements(Append(posted[c], e)) = Elements(posted[c]) \cup {e}
        BY <1>3, <3>1, AppendElements
      <4> QED
        BY <2>4, <4>1 DEF PostAt
    <3> QED
      BY <1>2, <1>3, <1>4, <2>4, <3>1, <3>2 DEF PostAt, Held
  <2>5. CASE CopyAt(g, c, e)
    BY <1>1, <1>2, <1>4, <2>5 DEF CopyAt, Held
  <2>6. CASE UnlockAt(g, c, e) \/ RespondAt(g, c, e)
    BY <2>6 DEF UnlockAt, RespondAt, Held
  <2> QED
    BY <1>1, <2>1, <2>2, <2>3, <2>4, <2>5, <2>6
<1>6. ASSUME NEW h \in Goroutines, h # g PROVE Held(h)'
  <2>1. /\ pc'[h] = pc[h] /\ call'[h] = call[h] /\ slice'[h] = slice[h]
    BY <1>1, <1>6 DEF Moves
  <2>2. Held(h)
    BY DEF HeldInv
  <2>3. pc[h] # "idle" => /\ call[h].client \in Clients
                          /\ Elements(posted[call[h].client])
                               \subseteq Elements(posted'[call[h].client])
                          /\ added[call[h].client] \subseteq added'[call[h].client]
    BY InCall, Grows
  <2>4. pc[h] \in Holding => kept'[call[h].client] = kept[call[h].client]
    BY <1>6, KeptByOthers
  <2> QED
    BY <1>2, <2>1, <2>2, <2>3, <2>4 DEF Held, Holding
<1> QED
  BY <1>5, <1>6 DEF HeldInv

LEMMA HeldNext == TypeInv /\ MutexInv /\ HeldInv /\ [Next]_vars => HeldInv'
<1> SUFFICES ASSUME TypeInv, MutexInv, HeldInv, [Next]_vars PROVE HeldInv'
  OBVIOUS
<1>1. ASSUME NEW g \in Goroutines, Send(g) PROVE HeldInv'
  <2>1. PICK c \in Clients, place \in {"lock", "respond"}, e \in {calls + 1, Nil} :
           Enter(g, place, c, e)
    BY <1>1, CallBegins
  <2>2. place \in Places
    BY DEF Places
  <2>3. /\ pc'[g] = place /\ conf[c] # NotStarted /\ pc' \in [Goroutines -> Places]
        /\ call'[g] = [client |-> c, event |-> e, before |-> added[c]]
        /\ UNCHANGED <<conf, mutex, kept, responses, outer, posted, slice, added>>
        /\ Others(g)
    BY <2>1, <2>2, EnterFields
  <2>4. Held(g)'
    BY <2>3 DEF Held
  <2>5. ASSUME NEW h \in Goroutines, h # g PROVE Held(h)'
    BY <2>3, <2>5 DEF HeldInv, Held, Others
  <2> QED
    BY <2>4, <2>5 DEF HeldInv
<1>2. ASSUME UNCHANGED <<kept, posted, pc, call, slice>>,
             \A d \in Clients : added[d] \subseteq added'[d],
             \A d \in Clients : conf[d] # NotStarted => conf'[d] = conf[d]
      PROVE  HeldInv'
  <2> SUFFICES ASSUME NEW h \in Goroutines PROVE Held(h)'
    BY DEF HeldInv
  <2>1. CASE pc[h] = "idle"
    BY <1>2, <2>1 DEF Held
  <2>2. CASE pc[h] # "idle"
    <3>1. call[h].client \in Clients /\ conf[call[h].client] # NotStarted
      BY <2>2, InCall
    <3>2. /\ conf'[call[h].client] = conf[call[h].client]
          /\ added[call[h].client] \subseteq added'[call[h].client]
      BY <1>2, <3>1
    <3> QED
      BY <1>2, <3>2 DEF HeldInv, Held
  <2> QED
    BY <2>1, <2>2
<1>3. CASE Discard
  <2>1. /\ UNCHANGED <<conf, kept, posted, pc, call, slice>>
        /\ \A d \in Clients : added[d] \subseteq added'[d]
    BY <1>3, DiscardFields
  <2> QED
    BY <1>2, <2>1
<1>4. ASSUME NEW c \in Clients, NEW configuration \in Configs, InitClient(c, configuration)
      PROVE  HeldInv'
  <2>1. /\ conf[c] = NotStarted /\ \A d \in Clients : d # c => conf'[d] = conf[d]
        /\ UNCHANGED <<kept, posted, pc, call, slice, added>>
    BY <1>4, StartFields
  <2> QED
    BY <1>2, <2>1
<1>5. CASE UNCHANGED SenderCore
  BY <1>2, <1>5 DEF SenderCore
<1> QED
  BY <1>1, <1>3, <1>4, <1>5, HeldStep, OtherSteps

LEMMA HeldInvariant == Spec => []HeldInv
<1>1. Init => HeldInv
  <2>1. ASSUME Init, NEW g \in Goroutines PROVE pc[g] = "idle"
    BY <2>1 DEF Init, SenderInit
  <2> QED
    BY <2>1 DEF HeldInv, Held
<1> QED
  BY <1>1, HeldNext, TypeInvariant, MutexInvariant, PTL DEF Spec

-----------------------------------------------------------------------------
(***************************************************************************)
(* An event is of one call.  Where it can be follows from the place of the *)
(* goroutine in that call.                                                 *)
(***************************************************************************)
LEMMA KeptGrows ==
  ASSUME TypeInv, HeldInv, NEW g \in Goroutines, Step(g), NEW d \in Clients
  PROVE  /\ \/ kept'[d] = kept[d]
            \/ /\ pc[g] = "store" /\ d = call[g].client
               /\ kept'[d] = Append(kept[d], call[g].event)
         /\ Elements(kept[d]) \subseteq Elements(kept'[d])
         /\ Elements(kept'[d]) \subseteq Elements(kept[d]) \cup {call[g].event}
         /\ pc[g] # "store" => kept'[d] = kept[d]
<1> DEFINE c == call[g].client
           e == call[g].event
<1>1. /\ c \in Clients /\ Moves(g, c)
      /\ pc[g] \in {"load", "store", "post", "respond"} => e \in Events
      /\ \/ LockAt(g, c, e) \/ LoadAt(g, c, e) \/ StoreAt(g, c, e) \/ PostAt(g, c, e)
         \/ CopyAt(g, c, e) \/ UnlockAt(g, c, e) \/ RespondAt(g, c, e)
  BY StepFields
<1>2. pc[g] = "store" => slice[g] = kept[c]
  BY DEF HeldInv, Held
<1> HIDE DEF c, e
<1>3. \/ kept'[d] = kept[d]
      \/ /\ pc[g] = "store" /\ d = c
         /\ kept'[d] = Append(kept[d], e)
  <2>1. CASE d # c
    BY <1>1, <2>1 DEF Moves
  <2>2. CASE d = c /\ StoreAt(g, c, e)
    BY <1>2, <2>2 DEF StoreAt
  <2>3. CASE d = c /\ ~StoreAt(g, c, e)
    BY <1>1, <2>3 DEF LockAt, LoadAt, PostAt, CopyAt, UnlockAt, RespondAt
  <2> QED
    BY <2>1, <2>2, <2>3
<1>4. pc[g] = "store" => Elements(Append(kept[d], e)) = Elements(kept[d]) \cup {e}
  <2>1. kept[d] \in Seq(Events)
    BY Types
  <2> QED
    BY <1>1, <2>1, AppendElements
<1> QED
  BY <1>3, <1>4 DEF c, e

EventOf(g) ==
  LET e == call[g].event IN
  e # Nil =>
    /\ e <= calls
    /\ \A h \in Goroutines : h # g => call[h].event # e
    /\ \A c \in Clients :
         /\ e \notin added[c]
         /\ pc[g] \in {"lock", "load", "store", "post", "respond"} => e \notin Elements(posted[c])
         /\ pc[g] \in {"lock", "load", "store", "respond"} => e \notin Elements(kept[c])

PastInv ==
  \A c \in Clients : \A e \in Elements(kept[c]) \cup Elements(posted[c]) \cup added[c] :
    e <= calls

EventInv == PastInv /\ \A g \in Goroutines : EventOf(g)

\* An event that the next call gets is nowhere yet.
LEMMA NextIsNew ==
  ASSUME TypeInv, EventInv
  PROVE  /\ calls \in Nat /\ calls + 1 # Nil
         /\ \A g \in Goroutines : call[g].event # calls + 1
         /\ \A c \in Clients : /\ calls + 1 \notin Elements(kept[c])
                               /\ calls + 1 \notin Elements(posted[c])
                               /\ calls + 1 \notin added[c]
<1>1. calls \in Nat /\ ~(calls + 1 <= calls) /\ calls + 1 # Nil
  BY Types, LocalSendersAssumption
<1>2. ASSUME NEW g \in Goroutines PROVE call[g].event # calls + 1
  BY <1>1 DEF EventInv, EventOf
<1> QED
  BY <1>1, <1>2 DEF EventInv, PastInv

\* What can be said of the events that are there stays true as calls grows.
LEMMA CallsGrow ==
  ASSUME TypeInv, EventInv, calls' = calls + 1
  PROVE  /\ calls <= calls'
         /\ \A c \in Clients : \A e \in Elements(kept[c]) \cup Elements(posted[c]) \cup added[c] :
              e <= calls'
         /\ \A g \in Goroutines : call[g].event # Nil => call[g].event <= calls'
<1>1. calls \in Nat
  BY Types
<1>2. ASSUME NEW c \in Clients, NEW e \in Elements(kept[c]) \cup Elements(posted[c]) \cup added[c]
      PROVE  e <= calls'
  <2>1. kept[c] \in Seq(Events) /\ posted[c] \in Seq(Events) /\ added[c] \subseteq Events
    BY Types
  <2>2. Elements(kept[c]) \subseteq Events /\ Elements(posted[c]) \subseteq Events
    BY <2>1 DEF Elements
  <2>3. e \in Nat /\ e <= calls
    BY <1>2, <2>1, <2>2, Constants DEF EventInv, PastInv
  <2> QED
    BY <1>1, <2>3
<1>3. ASSUME NEW g \in Goroutines, call[g].event # Nil PROVE call[g].event <= calls'
  <2>1. call[g].event \in Nat /\ call[g].event <= calls
    BY <1>3, Types, Constants DEF EventInv, EventOf
  <2> QED
    BY <1>1, <2>1
<1> QED
  BY <1>1, <1>2, <1>3

LEMMA EventSend ==
  ASSUME TypeInv, EventInv, NEW g \in Goroutines, Send(g)
  PROVE  EventInv'
<1>1. PICK c \in Clients, place \in {"lock", "respond"}, e \in {calls + 1, Nil} :
         Enter(g, place, c, e)
  BY CallBegins
<1>2. place \in Places
  BY DEF Places
<1>3. /\ pc[g] = "idle" /\ pc'[g] = place /\ conf[c] # NotStarted
      /\ call'[g] = [client |-> c, event |-> e, before |-> added[c]]
      /\ call'[g].event = e
      /\ calls \in Nat /\ calls' = calls + 1
      /\ UNCHANGED <<conf, mutex, kept, responses, outer, posted, slice, added>>
      /\ Others(g)
  BY <1>1, <1>2, EnterFields
<1>4. PastInv'
  BY <1>3, CallsGrow DEF PastInv
<1>5. EventOf(g)'
  <2>1. e = Nil \/ e = calls + 1
    OBVIOUS
  <2>2. ASSUME e = calls + 1, NEW h \in Goroutines, h # g PROVE call'[h].event # e
    BY <1>3, <2>2, NextIsNew DEF Others
  <2>3. calls + 1 <= calls'
    BY <1>3
  <2> QED
    BY <1>3, <2>1, <2>2, <2>3, NextIsNew DEF EventOf
<1>6. ASSUME NEW h \in Goroutines, h # g PROVE EventOf(h)'
  <2>1. pc'[h] = pc[h] /\ call'[h] = call[h] /\ call[h].event # calls + 1 /\ EventOf(h)
    BY <1>3, <1>6, NextIsNew DEF Others, EventInv
  <2>2. call[h].event # Nil => call'[g].event # call[h].event
    BY <1>3, <2>1
  <2>3. \A k \in Goroutines : k # g => call'[k] = call[k]
    BY <1>3 DEF Others
  <2>4. call[h].event # Nil => \A k \in Goroutines : k # h => call'[k].event # call[h].event
    BY <1>6, <2>1, <2>2, <2>3 DEF EventOf
  <2>5. call[h].event # Nil => call[h].event <= calls'
    BY <1>3, CallsGrow
  <2> QED
    BY <1>3, <2>1, <2>4, <2>5 DEF EventOf
<1> QED
  BY <1>4, <1>5, <1>6 DEF EventInv

LEMMA EventStep ==
  ASSUME TypeInv, MutexInv, HeldInv, EventInv, NEW g \in Goroutines, Step(g)
  PROVE  EventInv'
<1> DEFINE c == call[g].client
           e == call[g].event
<1>1. /\ c \in Clients /\ Moves(g, c) /\ e \in Events \cup {Nil}
      /\ pc[g] \in {"load", "store", "post", "respond"} => e \in Events
      /\ \/ LockAt(g, c, e) \/ LoadAt(g, c, e) \/ StoreAt(g, c, e) \/ PostAt(g, c, e)
         \/ CopyAt(g, c, e) \/ UnlockAt(g, c, e) \/ RespondAt(g, c, e)
  BY StepFields
<1>2. /\ calls' = calls /\ EventOf(g) /\ (call'[g] = call[g] \/ call'[g].event = Nil)
      /\ \A h \in Goroutines : h # g => pc'[h] = pc[h] /\ call'[h] = call[h]
  BY <1>1 DEF Moves, EventInv, LockAt, LoadAt, StoreAt, PostAt, CopyAt, UnlockAt, RespondAt, NoCall
<1>3. ASSUME NEW d \in Clients
      PROVE  /\ Elements(kept'[d]) \subseteq Elements(kept[d]) \cup {e}
             /\ Elements(posted'[d]) \subseteq Elements(posted[d]) \cup {e}
             /\ added'[d] \subseteq added[d] \cup ({e} \ {Nil})
             /\ pc[g] # "store" => kept'[d] = kept[d]
             /\ pc[g] \notin {"post", "respond"} => posted'[d] = posted[d]
             /\ pc[g] # "unlock" => added'[d] = added[d]
  BY KeptGrows, Grows
<1>4. PastInv'
  <2> SUFFICES ASSUME NEW d \in Clients,
                      NEW x \in Elements(kept'[d]) \cup Elements(posted'[d]) \cup added'[d]
               PROVE  x <= calls
    BY <1>2 DEF PastInv
  <2>1. CASE x \in Elements(kept[d]) \cup Elements(posted[d]) \cup added[d]
    BY <2>1 DEF EventInv, PastInv
  <2>2. CASE x \notin Elements(kept[d]) \cup Elements(posted[d]) \cup added[d]
    <3>1. x = e /\ (pc[g] \in {"store", "post", "respond"} \/ e # Nil)
      BY <1>3, <2>2
    <3>2. e # Nil
      BY <1>1, <3>1, Constants
    <3> QED
      BY <1>2, <3>1, <3>2 DEF EventOf
  <2> QED
    BY <2>1, <2>2
<1>5. EventOf(g)'
  <2>1. CASE call'[g].event = Nil
    BY <2>1 DEF EventOf
  <2>2. CASE call'[g] = call[g] /\ e # Nil /\ call'[g].event # Nil
    <3>1. \A h \in Goroutines : h # g => call'[h].event # e
      BY <1>2, <2>2 DEF EventOf
    <3>2. pc[g] # "unlock" /\ pc[g] # "respond"
      BY <1>1, <2>2 DEF LockAt, LoadAt, StoreAt, PostAt, CopyAt, UnlockAt, RespondAt, NoCall
    <3>3. /\ pc'[g] \in {"lock", "load", "store", "post", "respond"} =>
               pc[g] \in {"lock", "load", "store"}
          /\ pc'[g] \in {"lock", "load", "store", "respond"} => pc[g] \in {"lock", "load"}
      BY <1>1, <3>2 DEF LockAt, LoadAt, StoreAt, PostAt, CopyAt, UnlockAt, RespondAt
    <3>4. ASSUME NEW d \in Clients
          PROVE  /\ e \notin added'[d]
                 /\ pc'[g] \in {"lock", "load", "store", "post", "respond"} =>
                      e \notin Elements(posted'[d])
                 /\ pc'[g] \in {"lock", "load", "store", "respond"} =>
                      e \notin Elements(kept'[d])
      BY <1>2, <1>3, <2>2, <3>2, <3>3 DEF EventOf
    <3> QED
      BY <1>2, <2>2, <3>1, <3>4 DEF EventOf
  <2> QED
    BY <1>2, <2>1, <2>2
<1>6. ASSUME NEW h \in Goroutines, h # g PROVE EventOf(h)'
  <2>1. pc'[h] = pc[h] /\ call'[h] = call[h] /\ EventOf(h)
    BY <1>2, <1>6 DEF EventInv
  <2>2. call[h].event # Nil => e # call[h].event
    BY <1>6, <2>1 DEF EventOf
  <2>3. call[h].event # Nil => \A k \in Goroutines : k # h => call'[k].event # call[h].event
    BY <1>2, <1>6, <2>1, <2>2 DEF EventOf
  <2>4. ASSUME call[h].event # Nil, NEW d \in Clients
        PROVE  /\ call[h].event \in Elements(kept'[d]) => call[h].event \in Elements(kept[d])
               /\ call[h].event \in Elements(posted'[d]) => call[h].event \in Elements(posted[d])
               /\ call[h].event \in added'[d] => call[h].event \in added[d]
    BY <1>3, <2>2, <2>4
  <2> QED
    BY <1>2, <2>1, <2>3, <2>4 DEF EventOf
<1> QED
  BY <1>4, <1>5, <1>6 DEF EventInv

LEMMA EventNext == TypeInv /\ MutexInv /\ HeldInv /\ EventInv /\ [Next]_vars => EventInv'
<1> SUFFICES ASSUME TypeInv, MutexInv, HeldInv, EventInv, [Next]_vars PROVE EventInv'
  OBVIOUS
<1>1. ASSUME UNCHANGED <<kept, posted, pc, call, calls, added>> PROVE EventInv'
  BY <1>1 DEF EventInv, PastInv, EventOf
<1>2. CASE Discard
  <2>1. PICK c \in Clients :
           /\ calls \in Nat /\ calls' = calls + 1
           /\ added'[c] = added[c] \cup {calls + 1}
           /\ \A d \in Clients : d # c => added'[d] = added[d]
           /\ UNCHANGED <<kept, posted, pc, call>>
    BY <1>2, DiscardFields
  <2>2. PastInv'
    <3>1. calls + 1 <= calls'
      BY <2>1
    <3> QED
      BY <2>1, <3>1, CallsGrow DEF PastInv
  <2>3. ASSUME NEW h \in Goroutines PROVE EventOf(h)'
    <3>1. EventOf(h) /\ call[h].event # calls + 1
      BY NextIsNew DEF EventInv
    <3>2. call[h].event # Nil => call[h].event <= calls'
      BY <2>1, CallsGrow
    <3>3. \A d \in Clients : call[h].event \in added'[d] => call[h].event \in added[d]
      BY <2>1, <3>1
    <3> QED
      BY <2>1, <3>1, <3>2, <3>3 DEF EventOf
  <2> QED
    BY <2>2, <2>3 DEF EventInv
<1>3. ASSUME NEW c \in Clients, NEW configuration \in Configs, InitClient(c, configuration)
      PROVE  EventInv'
  BY <1>1, <1>3, StartFields
<1> QED
  BY <1>1, <1>2, <1>3, EventSend, EventStep, OtherSteps DEF SenderCore

LEMMA EventInvariant == Spec => []EventInv
<1>1. Init => EventInv
  <2> SUFFICES ASSUME Init PROVE EventInv
    OBVIOUS
  <2>1. /\ \A g \in Goroutines : call[g] = NoCall
        /\ \A c \in Clients : kept[c] = <<>> /\ posted[c] = <<>> /\ added[c] = {}
    BY DEF Init, SenderInit
  <2>2. Elements(<<>>) = {}
    BY DEF Elements
  <2>3. NoCall.event = Nil
    BY DEF NoCall
  <2> QED
    BY <2>1, <2>2, <2>3 DEF EventInv, PastInv, EventOf
<1> QED
  BY <1>1, EventNext, HeldInvariant, TypeInvariant, MutexInvariant, PTL DEF Spec

-----------------------------------------------------------------------------
(***************************************************************************)
(* What a sender keeps and posts: nothing twice, nothing of a call that    *)
(* returned missing, and the responses in the order of the lines.          *)
(***************************************************************************)
NoneTwice(s) == \A i, j \in DOMAIN s : s[i] = s[j] => i = j

LEMMA AppendNew ==
  ASSUME NEW S, NEW s \in Seq(S), NEW e \in S, e \notin Elements(s), NoneTwice(s)
  PROVE  NoneTwice(Append(s, e))
<1> DEFINE t == Append(s, e)
<1>1. /\ Len(s) \in Nat /\ DOMAIN s = 1 .. Len(s) /\ DOMAIN t = 1 .. Len(s) + 1
      /\ \A i \in 1 .. Len(s) : t[i] = s[i]
      /\ t[Len(s) + 1] = e
  OBVIOUS
<1> HIDE DEF t
<1>2. \A i \in 1 .. Len(s) : s[i] # e
  BY <1>1 DEF Elements
<1>3. NoneTwice(t)
  BY <1>1, <1>2 DEF NoneTwice
<1> QED
  BY <1>3 DEF t

\* A new line keeps the order, for its response is not there yet.
LEMMA OrderLine ==
  ASSUME NEW S, NEW s \in Seq(S), NEW t \in Seq(S), NEW e \in S, e \notin Elements(s),
         InOrder(s, t)
  PROVE  InOrder(s, Append(t, e))
<1> DEFINE u == Append(t, e)
<1>1. /\ Len(t) \in Nat /\ DOMAIN t = 1 .. Len(t) /\ DOMAIN u = 1 .. Len(t) + 1
      /\ \A i \in 1 .. Len(t) : u[i] = t[i]
      /\ u[Len(t) + 1] = e
  OBVIOUS
<1> HIDE DEF u
<1>2. \A i \in DOMAIN s : s[i] # e
  BY DEF Elements
<1>3. InOrder(s, u)
  <2> SUFFICES ASSUME NEW i \in DOMAIN s, NEW j \in DOMAIN s, NEW m \in DOMAIN u, NEW n \in DOMAIN u,
                      i < j, s[i] = u[m], s[j] = u[n]
               PROVE  m < n
    BY DEF InOrder
  <2>1. m \in DOMAIN t /\ n \in DOMAIN t /\ u[m] = t[m] /\ u[n] = t[n]
    BY <1>1, <1>2
  <2> QED
    BY <2>1 DEF InOrder
<1> QED
  BY <1>3 DEF u

\* The response of the last line keeps the order, and that of no line.
LEMMA OrderResponse ==
  ASSUME NEW S, NEW s \in Seq(S), NEW t \in Seq(S), NEW e \in S, e \notin Elements(s),
         NoneTwice(t), EndsWith(t, e) \/ e \notin Elements(t), InOrder(s, t)
  PROVE  InOrder(Append(s, e), t)
<1> DEFINE u == Append(s, e)
<1>1. /\ Len(s) \in Nat /\ DOMAIN s = 1 .. Len(s) /\ DOMAIN u = 1 .. Len(s) + 1
      /\ \A i \in 1 .. Len(s) : u[i] = s[i]
      /\ u[Len(s) + 1] = e
      /\ Len(t) \in Nat /\ DOMAIN t = 1 .. Len(t)
  OBVIOUS
<1> HIDE DEF u
<1>2. InOrder(u, t)
  <2> SUFFICES ASSUME NEW i \in DOMAIN u, NEW j \in DOMAIN u, NEW m \in DOMAIN t, NEW n \in DOMAIN t,
                      i < j, u[i] = t[m], u[j] = t[n]
               PROVE  m < n
    BY DEF InOrder
  <2>1. i \in DOMAIN s /\ u[i] = s[i]
    BY <1>1
  <2>2. CASE j \in DOMAIN s
    BY <1>1, <2>1, <2>2 DEF InOrder
  <2>3. CASE j \notin DOMAIN s
    <3>1. t[n] = e
      BY <1>1, <2>3
    <3>2. EndsWith(t, e)
      BY <3>1 DEF Elements
    <3>3. n = Len(t)
      BY <1>1, <3>1, <3>2 DEF EndsWith, NoneTwice
    <3>4. t[m] # e
      BY <2>1 DEF Elements
    <3> QED
      BY <1>1, <3>1, <3>3, <3>4
  <2> QED
    BY <2>2, <2>3
<1> QED
  BY <1>2 DEF u

LineOf(c) ==
  /\ NoneTwice(kept[c])
  /\ conf[c].kind # "discard" => added[c] \subseteq Elements(kept[c])
  /\ conf[c].kind = "writer" /\ ~conf[c].wrapped => InOrder(posted[c], kept[c])
  /\ conf[c].kind = "writer" /\ ~conf[c].wrapped =>
       (conf[c].block => added[c] \subseteq Elements(posted[c]))
  /\ conf[c] = NotStarted => kept[c] = <<>> /\ posted[c] = <<>>

LineInv == \A c \in Clients : LineOf(c)

LEMMA LineStep ==
  ASSUME TypeInv, MutexInv, HeldInv, EventInv, LineInv, NEW g \in Goroutines, Step(g)
  PROVE  LineInv'
<1>0. PICK c, e : c = call[g].client /\ e = call[g].event
  OBVIOUS
<1>1. /\ c \in Clients /\ conf[c] # NotStarted /\ Moves(g, c) /\ e \in Events \cup {Nil}
      /\ pc[g] \in {"load", "store", "post", "respond"} => e \in Events
      /\ \/ LockAt(g, c, e) \/ LoadAt(g, c, e) \/ StoreAt(g, c, e) \/ PostAt(g, c, e)
         \/ CopyAt(g, c, e) \/ UnlockAt(g, c, e) \/ RespondAt(g, c, e)
  BY <1>0, StepFields
<1>2. conf' = conf /\ Held(g) /\ EventOf(g) /\ LineOf(c)
  BY <1>1 DEF Moves, HeldInv, EventInv, LineInv
<1>3. Nil \notin Events /\ kept[c] \in Seq(Events) /\ posted[c] \in Seq(Events)
  BY <1>1, Types, Constants
<1>4. ASSUME NEW d \in Clients, d # c PROVE LineOf(d)'
  BY <1>1, <1>4 DEF Moves, LineInv, LineOf
<1>5. LineOf(c)'
  <2>1. CASE LockAt(g, c, e) \/ LoadAt(g, c, e) \/ CopyAt(g, c, e)
    BY <1>2, <2>1 DEF LockAt, LoadAt, CopyAt, LineOf
  <2>2. CASE StoreAt(g, c, e)
    <3>1. /\ e \in Events /\ e # Nil /\ kept'[c] = Append(kept[c], e)
          /\ posted'[c] = posted[c] /\ added'[c] = added[c]
      BY <1>0, <1>1, <1>2, <1>3, <2>2 DEF StoreAt, Held
    <3>2. e \notin Elements(kept[c]) /\ e \notin Elements(posted[c])
      BY <1>0, <1>1, <1>2, <2>2, <3>1 DEF StoreAt, EventOf
    <3>3. NoneTwice(Append(kept[c], e))
      BY <1>2, <1>3, <3>1, <3>2, AppendNew DEF LineOf
    <3>4. Elements(Append(kept[c], e)) = Elements(kept[c]) \cup {e}
      BY <1>3, <3>1, AppendElements
    <3>5. InOrder(posted[c], kept[c]) => InOrder(posted[c], Append(kept[c], e))
      BY <1>3, <3>1, <3>2, OrderLine
    <3> QED
      BY <1>1, <1>2, <3>1, <3>3, <3>4, <3>5 DEF LineOf
  <2>3. CASE (PostAt(g, c, e) \/ RespondAt(g, c, e)) /\ posted'[c] = posted[c]
    BY <1>2, <2>3 DEF PostAt, RespondAt, LineOf
  <2>4. CASE (PostAt(g, c, e) \/ RespondAt(g, c, e)) /\ posted'[c] = Append(posted[c], e)
    <3>1. /\ e \in Events /\ e # Nil /\ kept'[c] = kept[c] /\ added'[c] = added[c]
      BY <1>1, <1>3, <2>4 DEF PostAt, RespondAt
    <3>2. e \notin Elements(posted[c])
      BY <1>0, <1>1, <1>2, <2>4, <3>1 DEF PostAt, RespondAt, EventOf
    <3>3. EndsWith(kept[c], e) \/ e \notin Elements(kept[c])
      BY <1>0, <1>1, <1>2, <2>4, <3>1 DEF PostAt, RespondAt, EventOf, Held
    <3>4. InOrder(posted[c], kept[c]) => InOrder(Append(posted[c], e), kept[c])
      BY <1>2, <1>3, <3>1, <3>2, <3>3, OrderResponse DEF LineOf
    <3>5. Elements(Append(posted[c], e)) = Elements(posted[c]) \cup {e}
      BY <1>3, <3>1, AppendElements
    <3> QED
      BY <1>1, <1>2, <2>4, <3>1, <3>4, <3>5 DEF LineOf
  <2>5. CASE UnlockAt(g, c, e)
    <3>1. e # Nil => e \in Elements(kept[c])
      <4> SUFFICES ASSUME e # Nil PROVE e \in Elements(kept[c])
        OBVIOUS
      <4>1. Len(kept[c]) > 0 /\ kept[c][Len(kept[c])] = e
        BY <1>0, <1>2, <2>5 DEF UnlockAt, Held, EndsWith
      <4>2. Len(kept[c]) \in DOMAIN kept[c]
        BY <1>3, <4>1
      <4> QED
        BY <4>1, <4>2 DEF Elements
    <3>2. e # Nil /\ conf[c].kind = "writer" /\ ~conf[c].wrapped /\ conf[c].block =>
            e \in Elements(posted[c])
      BY <1>0, <1>2, <2>5 DEF UnlockAt, Held
    <3> QED
      BY <1>2, <2>5, <3>1, <3>2 DEF UnlockAt, LineOf
  <2> QED
    BY <1>1, <2>1, <2>2, <2>3, <2>4, <2>5 DEF PostAt, RespondAt
<1> QED
  BY <1>4, <1>5 DEF LineInv

LEMMA LineNext ==
  TypeInv /\ MutexInv /\ HeldInv /\ EventInv /\ LineInv /\ [Next]_vars => LineInv'
<1> SUFFICES ASSUME TypeInv, MutexInv, HeldInv, EventInv, LineInv, [Next]_vars PROVE LineInv'
  OBVIOUS
<1>1. ASSUME UNCHANGED <<conf, kept, posted, added>> PROVE LineInv'
  BY <1>1 DEF LineInv, LineOf
<1>2. ASSUME NEW g \in Goroutines, Send(g) PROVE LineInv'
  BY <1>1, <1>2 DEF Send, CallAdd, CallRespond, CallEvents, Enter, channels
<1>3. CASE Discard
  <2>1. PICK c \in Clients :
           /\ conf[c].kind = "discard"
           /\ \A d \in Clients : d # c => added'[d] = added[d]
           /\ UNCHANGED <<conf, kept, posted>>
    BY <1>3, DiscardFields
  <2> QED
    BY <2>1 DEF LineInv, LineOf
<1>4. ASSUME NEW c \in Clients, NEW configuration \in Configs, InitClient(c, configuration)
      PROVE  LineInv'
  <2>1. /\ conf[c] = NotStarted /\ conf'[c] # NotStarted
        /\ \A d \in Clients : d # c => conf'[d] = conf[d]
        /\ UNCHANGED <<kept, posted, added>>
    BY <1>4, StartFields
  <2>2. kept[c] = <<>> /\ posted[c] = <<>> /\ added[c] \subseteq Elements(kept[c])
    BY <2>1 DEF LineInv, LineOf, NotStarted
  <2>3. InOrder(posted[c], kept[c])
    BY <2>2 DEF InOrder
  <2>4. LineOf(c)'
    BY <2>1, <2>2, <2>3 DEF LineInv, LineOf
  <2>5. ASSUME NEW d \in Clients, d # c PROVE LineOf(d)'
    BY <2>1, <2>5 DEF LineInv, LineOf
  <2> QED
    BY <2>4, <2>5 DEF LineInv
<1> QED
  BY <1>1, <1>2, <1>3, <1>4, LineStep, OtherSteps DEF SenderCore

LEMMA LineInvariant == Spec => []LineInv
<1>1. Init => LineInv
  <2> SUFFICES ASSUME Init, NEW c \in Clients PROVE LineOf(c)
    BY DEF LineInv
  <2>1. kept[c] = <<>> /\ posted[c] = <<>> /\ added[c] = {}
    BY DEF Init, SenderInit
  <2>2. NoneTwice(<<>>) /\ InOrder(<<>>, <<>>)
    BY DEF NoneTwice, InOrder
  <2> QED
    BY <2>1, <2>2 DEF LineOf
<1> QED
  BY <1>1, LineNext, HeldInvariant, EventInvariant, TypeInvariant, MutexInvariant, PTL DEF Spec

(***************************************************************************)
(* Add of a WriterSender or a MockSender loses no event of a call that     *)
(* returned and keeps none twice, however the calls interleave; and Events *)
(* returns what was added before it was called.                            *)
(***************************************************************************)
THEOREM KeepsOnce == Spec => []KeptOnce
<1>1. TypeInv /\ HeldInv /\ LineInv => KeptOnce
  <2> SUFFICES ASSUME TypeInv, HeldInv, LineInv PROVE KeptOnce
    OBVIOUS
  <2>1. ASSUME NEW c \in Clients
        PROVE  /\ conf[c].kind # "discard" => added[c] \subseteq Elements(kept[c])
               /\ \A i, j \in DOMAIN kept[c] : kept[c][i] = kept[c][j] => i = j
    BY DEF LineInv, LineOf, NoneTwice
  <2>2. ASSUME NEW g \in Goroutines, pc[g] = "unlock", call[g].event = Nil
        PROVE  /\ call[g].before \subseteq Elements(slice[g])
               /\ slice[g] = SubSeq(kept[call[g].client], 1, Len(slice[g]))
    <3> DEFINE c == call[g].client
    <3>1. c \in Clients /\ conf[c].kind \in {"writer", "mock"}
      BY <2>2, InCall
    <3>2. slice[g] = kept[c] /\ call[g].before \subseteq added[c]
      BY <2>2 DEF HeldInv, Held
    <3>3. kept[c] \in Seq(Events)
      BY <3>1, Types
    <3>4. SubSeq(kept[c], 1, Len(kept[c])) = kept[c]
      BY <3>3, SubSeqFull
    <3> HIDE DEF c
    <3>5. added[c] \subseteq Elements(kept[c])
      BY <2>1, <3>1
    <3> QED
      BY <3>2, <3>4, <3>5 DEF c
  <2> QED
    BY <2>1, <2>2 DEF KeptOnce
<1> QED
  BY <1>1, TypeInvariant, HeldInvariant, LineInvariant, PTL

(***************************************************************************)
(* The responses of a WriterSender come in the order of its lines, and one *)
(* that blocks has answered every event whose Add returned.                *)
(***************************************************************************)
THEOREM AnswersInOrder == Spec => []AnsweredInOrder
<1>1. LineInv => AnsweredInOrder
  BY DEF LineInv, LineOf, AnsweredInOrder
<1> QED
  BY <1>1, LineInvariant, PTL

=============================================================================
