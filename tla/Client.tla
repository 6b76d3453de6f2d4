------------------------------- MODULE Client -------------------------------
(***************************************************************************)
(* The parts of a Client of client.go, its logger, transmission and builder*)
(* and the calls that reach them: those of the package, which go to the    *)
(* Client in the variable dc of libhoney.go, and those of events, which    *)
(* keep the Client they were made by.  The parts of a manually created     *)
(* Client{} are made by the first call that needs them, under a sync.Once  *)
(* each.  What a part then does is in the other modules.                   *)
(*                                                                         *)
(* The contract: no call is running when Init is called, and an event made *)
(* as a struct literal belongs to one goroutine.                           *)
(***************************************************************************)
EXTENDS Naturals, Sequences, FiniteSets

CONSTANTS
  Goroutines,
  Clients,    \* what a *Client can point to, and
  NoClient,   \* nil
  First,      \* the Client{} that dc has before Init
  Events,
  Literals,   \* the events that the program makes as &Event{}
  MaxCalls    \* bound: calls made in all

ASSUME ClientAssumption ==
  /\ First \in Clients /\ NoClient \notin Clients
  /\ Literals \subseteq Events
  /\ MaxCalls \in Nat

Parts == {"logger", "tx", "builder"}

VARIABLES
  dc,       \* the default Client of the package
  made,     \* the Clients that exist
  part,     \* part[c][p]: how often that part of c was set, 0 for nil
  started,  \* the Clients whose transmission has been started
  once,     \* once[c][p]: oneLogger, oneTx and oneBuilder
  fields,   \* fields[c]: who has put a field into the builder of c
  owner,    \* owner[e]: e.client
  filled,   \* the events that have data
  pc, call, \* where each goroutine is, in which call
  calls,    \* calls made so far
  program   \* "panicked" after a call of a nil pointer or on a nil map

VARIABLES   \* history, only read by the properties
  added,    \* added[c]: who has returned from an AddField of c
  reached   \* reached[c]: the transmissions of c that calls have gone to

history == <<added, reached>>
clients == <<dc, made, part, started, once, fields>>
events == <<owner, filled>>
vars == <<clients, events, pc, call, calls, program, history>>

\* The calls, by the parts they ensure before anything else: AddField is also
\* Add and AddDynamicField, NewEvent also NewBuilder, Close also Flush; Send is
\* SendPresampled, which ensures the transmission later (Dispatch).
Ensured ==
  [AddField    |-> <<"tx", "builder">>,
   NewEvent    |-> <<"tx", "builder">>,
   TxResponses |-> <<"tx">>,
   Close       |-> <<"logger">>,
   SampledOut  |-> <<"logger", "tx">>,
   Send        |-> <<"logger">>,
   Dispatch    |-> <<"tx">>]
Kinds == DOMAIN Ensured
Used(kind) == IF kind \in {"AddField", "NewEvent"} THEN "builder" ELSE "tx"

NoCall == [kind |-> "Close", client |-> NoClient, event |-> NoClient, left |-> <<>>]

TypeOK ==
  /\ dc \in Clients \cup {NoClient}
  /\ made \subseteq Clients /\ started \subseteq made
  /\ part \in [Clients -> [Parts -> Nat]]
  /\ once \in [Clients -> [Parts -> {"new", "running", "done"}]]
  /\ fields \in [Clients -> SUBSET Goroutines]
  /\ owner \in [Events -> Clients \cup {NoClient}]
  /\ filled \subseteq Events
  /\ pc \in [Goroutines -> {"idle", "ensure", "make", "start", "peek", "use", "panic"}]
  /\ \A g \in Goroutines :
        /\ call[g].kind \in Kinds
        /\ call[g].client \in made \cup {NoClient}
        /\ call[g].event \in Events \cup {NoClient}
        /\ call[g].left \in Seq(Parts)
        /\ pc[g] \in {"ensure", "make", "start"} =>
             call[g].client # NoClient /\ call[g].left # <<>>
  /\ calls \in 0 .. MaxCalls
  /\ program \in {"running", "panicked"}
  /\ added \in [Clients -> SUBSET Goroutines]
  /\ reached \in [Clients -> SUBSET Nat]

\* init() of the package: dc = &Client{}
Init ==
  /\ dc = First /\ made = {First} /\ started = {}
  /\ part = [c \in Clients |-> [p \in Parts |-> 0]]
  /\ once = [c \in Clients |-> [p \in Parts |-> "new"]]
  /\ fields = [c \in Clients |-> {}]
  /\ owner = [e \in Events |-> NoClient]
  /\ filled = {}
  /\ pc = [g \in Goroutines |-> "idle"]
  /\ call = [g \in Goroutines |-> NoCall]
  /\ calls = 0
  /\ program = "running"
  /\ added = [c \in Clients |-> {}]
  /\ reached = [c \in Clients |-> {}]

-----------------------------------------------------------------------------
Return(g) ==
  /\ pc' = [pc EXCEPT ![g] = "idle"]
  /\ call' = [call EXCEPT ![g] = NoCall]

\* A nil pointer or nil map, in a call on Client c or event e.
Panic(g, c, e) ==
  /\ program' = "panicked"
  /\ pc' = [pc EXCEPT ![g] = "panic"]
  /\ call' = [call EXCEPT ![g] = [NoCall EXCEPT !.client = c, !.event = e]]

\* libhoney.Init: NewClient makes every part, and nil when the transmission
\* does not start; dc is assigned in either case.
InitPackage ==
  /\ calls < MaxCalls /\ calls' = calls + 1
  /\ \A g \in Goroutines : pc[g] = "idle"
  /\ \/ \E c \in Clients \ made :
          /\ dc' = c /\ made' = made \cup {c} /\ started' = started \cup {c}
          /\ part' = [part EXCEPT ![c] = [p \in Parts |-> 1]]
          /\ once' = [once EXCEPT ![c].logger = "done"]
     \/ dc' = NoClient /\ UNCHANGED <<made, started, part, once>>
  /\ UNCHANGED <<fields, events, pc, call, program, history>>

Begin(g, kind, c, e) ==
  /\ call' = [call EXCEPT ![g] = [kind |-> kind, client |-> c, event |-> e,
                                  left |-> Ensured[kind]]]
  /\ pc' = [pc EXCEPT ![g] = "ensure"]

\* A call of the package, of a method of dc; on nil, its first line panics.
CallClient(g) ==
  /\ calls < MaxCalls /\ calls' = calls + 1
  /\ pc[g] = "idle"
  /\ \/ /\ dc = NoClient
        /\ Panic(g, dc, NoClient)
     \/ /\ dc # NoClient
        /\ \/ \E kind \in {"AddField", "TxResponses", "Close"} : Begin(g, kind, dc, NoClient)
           \/ \E e \in Events \ Literals :
                 /\ owner[e] = NoClient /\ \A o \in Goroutines : call[o].event # e
                 /\ Begin(g, "NewEvent", dc, e)
        /\ UNCHANGED program
  /\ UNCHANGED <<clients, events, history>>

\* A wrong CallSend: an event without a Client is left without.
CallSendNoClient(g, e) ==
  /\ calls < MaxCalls /\ calls' = calls + 1
  /\ pc[g] = "idle"
  /\ owner[e] # NoClient \/ e \in Literals
  /\ e \in Literals => \A o \in Goroutines : call[o].event # e
  /\ \E kind \in {"Send", "SampledOut"} : Begin(g, kind, owner[e], e)
  /\ UNCHANGED <<clients, events, program, history>>

\* Send or SendPresampled of an event; one without a Client gets a Client{}.
CallSend(g, e) ==
  /\ calls < MaxCalls /\ calls' = calls + 1
  /\ pc[g] = "idle"
  /\ e \in Literals => \A o \in Goroutines : call[o].event # e
  /\ \E kind \in {"Send", "SampledOut"} :
        \/ /\ owner[e] # NoClient
           /\ Begin(g, kind, owner[e], e)
           /\ UNCHANGED <<made, owner>>
        \/ /\ owner[e] = NoClient /\ e \in Literals
           /\ \E c \in Clients \ made :
                 /\ made' = made \cup {c}
                 /\ owner' = [owner EXCEPT ![e] = c]
                 /\ Begin(g, kind, c, e)
  /\ UNCHANGED <<dc, part, started, once, fields, filled, program, history>>

\* A field is added to an event.  A literal has no map: AddFields makes one,
\* AddField and Add panic.
AddToEvent(g, e) ==
  /\ calls < MaxCalls /\ calls' = calls + 1
  /\ pc[g] = "idle"
  /\ IF e \in Literals THEN \A o \in Goroutines : call[o].event # e ELSE owner[e] # NoClient
  /\ \/ filled' = filled \cup {e} /\ UNCHANGED <<pc, call, program>>
     \/ e \in Literals \ filled /\ Panic(g, NoClient, e) /\ UNCHANGED filled
  /\ UNCHANGED <<clients, owner, history>>

-----------------------------------------------------------------------------
Target(g) == call[g].client
Wanted(g) == Head(call[g].left)

\* The next part is ensured, or all are.
Proceed(g) ==
  LET left == Tail(call[g].left) IN
  /\ call' = [call EXCEPT ![g].left = left]
  /\ pc' = [pc EXCEPT ![g] = IF left # <<>> THEN "ensure"
                             ELSE IF call[g].kind \in {"Close", "Send"} THEN "peek"
                             ELSE "use"]

\* A wrong EnsureDone: a part that is there is taken to be ready.
EnsureDoneUnlessNil(g) ==
  /\ pc[g] = "ensure"
  /\ part[Target(g)][Wanted(g)] # 0
  /\ Proceed(g)
  /\ UNCHANGED <<clients, events, calls, program, history>>

\* ensureLogger, ensureTransmission or ensureBuilder: Once.Do returns at once
\* when its function has returned, and waits while it runs ...
EnsureDone(g) ==
  /\ pc[g] = "ensure"
  /\ once[Target(g)][Wanted(g)] = "done"
  /\ Proceed(g)
  /\ UNCHANGED <<clients, events, calls, program, history>>

\* ... the first time it runs the function.
EnsureFirst(g) ==
  /\ pc[g] = "ensure"
  /\ once[Target(g)][Wanted(g)] = "new"
  /\ once' = [once EXCEPT ![Target(g)][Wanted(g)] = "running"]
  /\ pc' = [pc EXCEPT ![g] = "make"]
  /\ UNCHANGED <<dc, made, part, started, fields, events, call, calls, program, history>>

Set(g) ==
  /\ part' = [part EXCEPT ![Target(g)][Wanted(g)] = @ + 1]
  /\ fields' = [fields EXCEPT ![Target(g)] = IF Wanted(g) = "builder" THEN {} ELSE @]

\* A wrong Make: a part that NewClient made is made again.
MakeAlways(g) ==
  /\ pc[g] = "make"
  /\ Set(g)
  /\ IF Wanted(g) = "tx"
     THEN pc' = [pc EXCEPT ![g] = "start"] /\ UNCHANGED <<once, call>>
     ELSE once' = [once EXCEPT ![Target(g)][Wanted(g)] = "done"] /\ Proceed(g)
  /\ UNCHANGED <<dc, made, started, events, calls, program, history>>

\* The function: if the part is nil, it is set; a transmission that it has set,
\* a DiscardSender, is then started.
Make(g) ==
  /\ pc[g] = "make"
  /\ IF part[Target(g)][Wanted(g)] = 0 THEN Set(g) ELSE UNCHANGED <<part, fields>>
  /\ IF part[Target(g)][Wanted(g)] = 0 /\ Wanted(g) = "tx"
     THEN pc' = [pc EXCEPT ![g] = "start"] /\ UNCHANGED <<once, call>>
     ELSE once' = [once EXCEPT ![Target(g)][Wanted(g)] = "done"] /\ Proceed(g)
  /\ UNCHANGED <<dc, made, started, events, calls, program, history>>

Start(g) ==
  /\ pc[g] = "start"
  /\ started' = started \cup {Target(g)}
  /\ once' = [once EXCEPT ![Target(g)].tx = "done"]
  /\ Proceed(g)
  /\ UNCHANGED <<dc, made, part, fields, events, calls, program, history>>

-----------------------------------------------------------------------------
\* Close and Flush do nothing without a transmission, which they read as it is.
PeekClose(g) ==
  /\ pc[g] = "peek" /\ call[g].kind = "Close"
  /\ IF part[Target(g)].tx = 0 THEN Return(g)
                               ELSE pc' = [pc EXCEPT ![g] = "use"] /\ UNCHANGED call
  /\ UNCHANGED <<clients, events, calls, program, history>>

\* SendPresampled refuses an empty event, looks at the type of the transmission,
\* may refuse the event for what it lacks, and else ensures the transmission.
PeekSend(g) ==
  /\ pc[g] = "peek" /\ call[g].kind = "Send"
  /\ \/ call[g].event \notin filled /\ Return(g) /\ UNCHANGED program
     \/ /\ call[g].event \in filled /\ part[Target(g)].tx = 0
        /\ Panic(g, Target(g), call[g].event)
     \/ /\ call[g].event \in filled /\ part[Target(g)].tx # 0
        /\ (Return(g) \/ Begin(g, "Dispatch", Target(g), call[g].event))
        /\ UNCHANGED program
  /\ UNCHANGED <<clients, events, calls, history>>

\* The call goes to its part.
Use(g) ==
  LET c == Target(g) kind == call[g].kind IN
  /\ pc[g] = "use"
  /\ IF part[c][Used(kind)] = 0 THEN Panic(g, c, call[g].event)
                           ELSE Return(g) /\ UNCHANGED program
  /\ fields' = [fields EXCEPT ![c] = IF kind = "AddField" THEN @ \cup {g} ELSE @]
  /\ added' = [added EXCEPT ![c] = IF kind = "AddField" THEN @ \cup {g} ELSE @]
  /\ reached' = [reached EXCEPT ![c] = IF Used(kind) = "tx" THEN @ \cup {part[c].tx} ELSE @]
  /\ IF kind = "NewEvent"
     THEN /\ owner' = [owner EXCEPT ![call[g].event] = c]
          /\ filled' = filled \cup (IF fields[c] = {} THEN {} ELSE {call[g].event})
     ELSE UNCHANGED events
  /\ UNCHANGED <<dc, made, part, started, once, calls>>

\* The program has ended, or made all its calls.
Terminated ==
  /\ \/ program = "panicked"
     \/ calls = MaxCalls /\ \A g \in Goroutines : pc[g] = "idle"
  /\ UNCHANGED vars

Running == program = "running"

Next ==
  \/ Running /\ InitPackage
  \/ \E g \in Goroutines : Running /\ CallClient(g)
  \/ \E g \in Goroutines, e \in Events : Running /\ CallSend(g, e)
  \/ \E g \in Goroutines, e \in Events : Running /\ AddToEvent(g, e)
  \/ \E g \in Goroutines : Running /\ EnsureDone(g)
  \/ \E g \in Goroutines : Running /\ EnsureFirst(g)
  \/ \E g \in Goroutines : Running /\ Make(g)
  \/ \E g \in Goroutines : Running /\ Start(g)
  \/ \E g \in Goroutines : Running /\ PeekClose(g)
  \/ \E g \in Goroutines : Running /\ PeekSend(g)
  \/ \E g \in Goroutines : Running /\ Use(g)
  \/ Terminated

Spec == Init /\ [][Next]_vars

-----------------------------------------------------------------------------
(***************************************************************************)
(* Goroutines whose first calls race still share one builder, so that no   *)
(* field is lost whose AddField has returned, and one transmission, so that*)
(* the channel that TxResponses returned is the one the responses go to.   *)
(***************************************************************************)
SharedParts ==
  \A c \in Clients : added[c] \subseteq fields[c] /\ Cardinality(reached[c]) <= 1

(***************************************************************************)
(* A call finds the part it uses set and, if it is the transmission,       *)
(* started; only Close and Flush of a Client{} may stop or flush one that  *)
(* another goroutine is still starting.  So nothing panics but calls after *)
(* an Init that failed, and on events made as literals.                    *)
(***************************************************************************)
ReadyToUse ==
  \A g \in Goroutines :
        /\ pc[g] = "use" =>
             /\ part[Target(g)][Used(call[g].kind)] # 0
             /\ Used(call[g].kind) = "tx" /\ call[g].kind # "Close" => Target(g) \in started
        /\ pc[g] = "panic" =>
             call[g].event \in Literals \/ (call[g].client = NoClient /\ dc = NoClient)

=============================================================================
