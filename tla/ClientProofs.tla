---------------------------- MODULE ClientProofs ----------------------------
(***************************************************************************)
(* What is proved of Client, for any number of goroutines, Clients and     *)
(* events: the parts that first calls race to make are made once, and are  *)
(* ready when a call uses them.                                            *)
(***************************************************************************)
EXTENDS Client, FiniteSetTheorems, SequenceTheorems, TLAPS

-----------------------------------------------------------------------------
(***************************************************************************)
(* Types.  A call holds a Client until it returns, and a part to ensure as *)
(* long as it ensures any.                                                 *)
(***************************************************************************)
CallStates == [kind : Kinds, client : Clients \cup {NoClient},
               event : Events \cup {NoClient}, left : Seq(Parts)]
PcStates == {"idle", "ensure", "make", "start", "peek", "use", "panic"}
Ensuring == {"ensure", "make", "start"}
Calling == Ensuring \cup {"peek", "use"}

CallTypeInv ==
  /\ pc \in [Goroutines -> PcStates]
  /\ call \in [Goroutines -> CallStates]
  /\ \A g \in Goroutines :
        /\ call[g].client \in made \cup {NoClient}
        /\ pc[g] \in Ensuring => call[g].left # <<>>
        /\ pc[g] \in Calling => call[g].client # NoClient
        /\ pc[g] \in Calling /\ call[g].kind = "NewEvent" => call[g].event \in Events

OnceStates == {"new", "running", "done"}

VarTypeInv ==
  /\ dc \in made \cup {NoClient}
  /\ made \subseteq Clients /\ started \subseteq made
  /\ part \in [Clients -> [Parts -> Nat]]
  /\ once \in [Clients -> [Parts -> OnceStates]]
  /\ fields \in [Clients -> SUBSET Goroutines]
  /\ owner \in [Events -> made \cup {NoClient}]
  /\ filled \subseteq Events
  /\ calls \in 0 .. MaxCalls
  /\ program \in {"running", "panicked"}
  /\ added \in [Clients -> SUBSET Goroutines]
  /\ reached \in [Clients -> SUBSET Nat]

TypeInv == CallTypeInv /\ VarTypeInv

LEMMA TypeInvType == TypeInv => TypeOK
<1> SUFFICES ASSUME TypeInv PROVE TypeOK
  OBVIOUS
<1>1. /\ \A g \in Goroutines : call[g] \in CallStates
      /\ made \subseteq Clients
  BY DEF TypeInv, CallTypeInv, VarTypeInv
<1>2. \A g \in Goroutines :
         /\ call[g].kind \in Kinds /\ call[g].event \in Events \cup {NoClient}
         /\ call[g].left \in Seq(Parts)
  BY <1>1 DEF CallStates
<1>3. owner \in [Events -> Clients \cup {NoClient}] /\ dc \in Clients \cup {NoClient}
  BY <1>1 DEF TypeInv, VarTypeInv
<1> QED
  BY <1>2, <1>3
     DEF TypeInv, CallTypeInv, VarTypeInv, TypeOK, PcStates, OnceStates, Ensuring, Calling

\* What the calls ensure: a part at least, and last of all the part they use,
\* or the logger.
LEMMA EnsuredParts ==
  /\ Kinds = {"AddField", "NewEvent", "TxResponses", "Close", "SampledOut", "Send", "Dispatch"}
  /\ \A k \in Kinds :
        /\ Ensured[k] \in Seq(Parts) /\ Ensured[k] # <<>>
        /\ k \notin {"Close", "Send"} => Ensured[k][Len(Ensured[k])] = Used(k)
        /\ Used(k) = "builder" => Head(Ensured[k]) = "tx"
<1>1. Kinds = {"AddField", "NewEvent", "TxResponses", "Close", "SampledOut", "Send", "Dispatch"}
  BY DEF Kinds, Ensured
<1>2. \A p, q \in Parts : /\ <<p>> \in Seq(Parts) /\ <<p>> # <<>> /\ Len(<<p>>) = 1
                          /\ <<p, q>> \in Seq(Parts) /\ <<p, q>> # <<>> /\ Len(<<p, q>>) = 2
                          /\ Head(<<p, q>>) = p /\ <<p>>[1] = p /\ <<p, q>>[2] = q
  OBVIOUS
<1>3. "tx" \in Parts /\ "builder" \in Parts /\ "logger" \in Parts
  BY DEF Parts
<1> QED
  BY <1>1, <1>2, <1>3 DEF Ensured, Used

LEMMA NoCallType ==
  ASSUME NEW c \in Clients \cup {NoClient}, NEW e \in Events \cup {NoClient}
  PROVE  /\ NoCall \in CallStates /\ NoCall.client = NoClient
         /\ [NoCall EXCEPT !.client = c, !.event = e] \in CallStates
         /\ [NoCall EXCEPT !.client = c, !.event = e].client = c
         /\ [NoCall EXCEPT !.client = c, !.event = e].event = e
<1>1. <<>> \in Seq(Parts) /\ "Close" \in Kinds
  BY EnsuredParts
<1> QED
  BY <1>1 DEF NoCall, CallStates

-----------------------------------------------------------------------------
\* What the steps of a call do to it, field by field.
LEMMA BeginFields ==
  ASSUME CallTypeInv, NEW g \in Goroutines, NEW kind \in Kinds, NEW c \in Clients,
         NEW e \in Events \cup {NoClient}, Begin(g, kind, c, e)
  PROVE  /\ pc'[g] = "ensure" /\ call'[g] \in CallStates
         /\ call'[g].kind = kind /\ call'[g].client = c /\ call'[g].event = e
         /\ call'[g].left = Ensured[kind] /\ Ensured[kind] # <<>>
         /\ \A h \in Goroutines : h # g => pc'[h] = pc[h] /\ call'[h] = call[h]
         /\ pc' \in [Goroutines -> PcStates] /\ call' \in [Goroutines -> CallStates]
<1> DEFINE r == [kind |-> kind, client |-> c, event |-> e, left |-> Ensured[kind]]
<1>1. Ensured[kind] \in Seq(Parts) /\ Ensured[kind] # <<>>
  BY EnsuredParts
<1>2. /\ r \in CallStates /\ r.kind = kind /\ r.client = c /\ r.event = e
      /\ r.left = Ensured[kind]
  BY <1>1 DEF CallStates
<1>3. call' = [call EXCEPT ![g] = r] /\ pc' = [pc EXCEPT ![g] = "ensure"]
  BY DEF Begin
<1> HIDE DEF r
<1> QED
  BY <1>1, <1>2, <1>3 DEF CallTypeInv, PcStates

LEMMA ReturnFields ==
  ASSUME CallTypeInv, NEW g \in Goroutines, Return(g)
  PROVE  /\ pc'[g] = "idle" /\ call'[g] = NoCall
         /\ \A h \in Goroutines : h # g => pc'[h] = pc[h] /\ call'[h] = call[h]
         /\ pc' \in [Goroutines -> PcStates] /\ call' \in [Goroutines -> CallStates]
<1>1. NoCall \in CallStates
  BY NoCallType
<1> QED
  BY <1>1 DEF CallTypeInv, PcStates, Return

LEMMA PanicFields ==
  ASSUME CallTypeInv, NEW g \in Goroutines, NEW c \in Clients \cup {NoClient},
         NEW e \in Events \cup {NoClient}, Panic(g, c, e)
  PROVE  /\ program' = "panicked" /\ pc'[g] = "panic"
         /\ call'[g].client = c /\ call'[g].event = e
         /\ \A h \in Goroutines : h # g => pc'[h] = pc[h] /\ call'[h] = call[h]
         /\ pc' \in [Goroutines -> PcStates] /\ call' \in [Goroutines -> CallStates]
<1> DEFINE r == [NoCall EXCEPT !.client = c, !.event = e]
<1>1. r \in CallStates /\ r.client = c /\ r.event = e
  BY NoCallType
<1>2. call' = [call EXCEPT ![g] = r] /\ pc' = [pc EXCEPT ![g] = "panic"]
      /\ program' = "panicked"
  BY DEF Panic
<1> HIDE DEF r
<1> QED
  BY <1>1, <1>2 DEF CallTypeInv, PcStates

\* The place of a call changes, but not the call.
LEMMA PlaceFields ==
  ASSUME CallTypeInv, NEW g \in Goroutines, NEW p \in PcStates,
         pc' = [pc EXCEPT ![g] = p], UNCHANGED call
  PROVE  /\ pc'[g] = p /\ call' = call
         /\ \A h \in Goroutines : h # g => pc'[h] = pc[h]
         /\ pc' \in [Goroutines -> PcStates]
<1> QED
  BY DEF CallTypeInv

LEMMA ProceedFields ==
  ASSUME CallTypeInv, NEW g \in Goroutines, pc[g] \in Ensuring, Proceed(g)
  PROVE  LET left == call[g].left IN
         /\ Wanted(g) \in Parts /\ Target(g) \in Clients /\ Target(g) \in made
         /\ call'[g].kind = call[g].kind /\ call'[g].client = Target(g)
         /\ call'[g].event = call[g].event
         /\ \/ /\ Len(left) = 1 /\ left[Len(left)] = Wanted(g)
               /\ call'[g].left = <<>>
               /\ \/ pc'[g] = "peek" /\ call[g].kind \in {"Close", "Send"}
                  \/ pc'[g] = "use" /\ call[g].kind \notin {"Close", "Send"}
            \/ /\ pc'[g] = "ensure" /\ call'[g].left # <<>>
               /\ call'[g].left[Len(call'[g].left)] = left[Len(left)]
         /\ \A h \in Goroutines : h # g => pc'[h] = pc[h] /\ call'[h] = call[h]
         /\ pc' \in [Goroutines -> PcStates] /\ call' \in [Goroutines -> CallStates]
<1> DEFINE left == call[g].left
           r == [call[g] EXCEPT !.left = Tail(left)]
<1>1. /\ call[g] \in CallStates /\ left # <<>> /\ Target(g) \in made
      /\ call[g].client # NoClient
  BY DEF CallTypeInv, Ensuring, Calling, Target
<1>2. left \in Seq(Parts) /\ Target(g) \in Clients
  BY <1>1 DEF CallStates, Target
<1>3. /\ Tail(left) \in Seq(Parts) /\ Wanted(g) \in Parts /\ Wanted(g) = left[1]
      /\ Len(left) \in Nat /\ Len(left) >= 1
      /\ Len(Tail(left)) = Len(left) - 1
      /\ \A i \in 1 .. Len(left) - 1 : Tail(left)[i] = left[i + 1]
  BY <1>1, <1>2 DEF Wanted
<1>4. Tail(left) = <<>> <=> Len(left) = 1
  <2>1. \A s \in Seq(Parts) : s = <<>> <=> Len(s) = 0
    BY EmptySeq
  <2>2. Tail(left) = <<>> <=> Len(Tail(left)) = 0
    BY <1>3, <2>1
  <2> QED
    BY <1>3, <2>2
<1>5. Tail(left) # <<>> => Tail(left)[Len(Tail(left))] = left[Len(left)]
  BY <1>3, <1>4
<1> DEFINE t == Tail(left)
           p == IF t # <<>> THEN "ensure"
                ELSE IF call[g].kind \in {"Close", "Send"} THEN "peek"
                ELSE "use"
<1>6. call' = [call EXCEPT ![g] = r] /\ pc' = [pc EXCEPT ![g] = p]
  BY DEF Proceed
<1>7. p \in PcStates /\ (t # <<>> => p = "ensure")
      /\ (t = <<>> => \/ p = "peek" /\ call[g].kind \in {"Close", "Send"}
                      \/ p = "use" /\ call[g].kind \notin {"Close", "Send"})
  BY DEF PcStates
<1> HIDE DEF t, p
<1>8. /\ r \in CallStates /\ r.kind = call[g].kind /\ r.client = call[g].client
      /\ r.event = call[g].event /\ r.left = Tail(left)
  BY <1>1, <1>3 DEF CallStates
<1> HIDE DEF r, left
<1>9. /\ call'[g] = r /\ pc'[g] = p
      /\ \A h \in Goroutines : h # g => pc'[h] = pc[h] /\ call'[h] = call[h]
      /\ pc' \in [Goroutines -> PcStates] /\ call' \in [Goroutines -> CallStates]
  BY <1>6, <1>7, <1>8 DEF CallTypeInv
<1> QED
  BY <1>1, <1>2, <1>3, <1>4, <1>5, <1>7, <1>8, <1>9 DEF t, left, Target

\* The function of a sync.Once makes the part that is nil, and nothing else.
LEMMA MakeFields ==
  ASSUME TypeInv, NEW g \in Goroutines, Make(g), NEW c, c = Target(g), NEW p, p = Wanted(g)
  PROVE  /\ UNCHANGED <<dc, made, started, owner, filled, calls, program, added, reached>>
         /\ pc[g] = "make" /\ c \in made /\ c \in Clients /\ p \in Parts
         /\ \A d \in Clients, q \in Parts :
               d # c \/ q # p => part'[d][q] = part[d][q] /\ once'[d][q] = once[d][q]
         /\ part'[c][p] = (IF part[c][p] = 0 THEN 1 ELSE part[c][p])
         /\ \A d \in Clients :
               fields'[d] = IF d = c /\ p = "builder" /\ part[c][p] = 0 THEN {} ELSE fields[d]
         /\ \/ /\ p = "tx" /\ pc'[g] = "start" /\ call' = call /\ once' = once
               /\ pc' \in [Goroutines -> PcStates]
               /\ \A h \in Goroutines : h # g => pc'[h] = pc[h]
            \/ /\ once'[c][p] = "done" /\ Proceed(g)
               /\ p = "tx" => part[c][p] # 0
         /\ part' \in [Clients -> [Parts -> Nat]]
         /\ once' \in [Clients -> [Parts -> OnceStates]]
         /\ fields' \in [Clients -> SUBSET Goroutines]
<1>0. /\ CallTypeInv /\ made \subseteq Clients
      /\ part \in [Clients -> [Parts -> Nat]] /\ once \in [Clients -> [Parts -> OnceStates]]
      /\ fields \in [Clients -> SUBSET Goroutines]
  BY DEF TypeInv, VarTypeInv
<1>1. /\ UNCHANGED <<dc, made, started, owner, filled, calls, program, added, reached>>
      /\ pc[g] = "make"
  BY DEF Make, events, history
<1>2. c \in made /\ c \in Clients /\ p \in Parts
  <2>1. call[g] \in CallStates /\ call[g].left # <<>> /\ c \in made
    BY <1>0, <1>1 DEF CallTypeInv, Ensuring, Calling, Target
  <2>2. call[g].left \in Seq(Parts)
    BY <2>1 DEF CallStates
  <2> QED
    BY <1>0, <2>1, <2>2 DEF Wanted
<1>3. /\ \A d \in Clients, q \in Parts : d # c \/ q # p => part'[d][q] = part[d][q]
      /\ part'[c][p] = (IF part[c][p] = 0 THEN 1 ELSE part[c][p])
      /\ part' \in [Clients -> [Parts -> Nat]]
  <2>1. CASE part[c][p] = 0
    <3>1. part' = [part EXCEPT ![c][p] = @ + 1]
      BY <2>1 DEF Make, Set
    <3> QED
      BY <1>0, <1>2, <2>1, <3>1
  <2>2. CASE part[c][p] # 0
    <3>1. part' = part
      BY <2>2 DEF Make
    <3> QED
      BY <1>0, <2>2, <3>1
  <2> QED
    BY <2>1, <2>2
<1>4. /\ \A d \in Clients :
            fields'[d] = IF d = c /\ p = "builder" /\ part[c][p] = 0 THEN {} ELSE fields[d]
      /\ fields' \in [Clients -> SUBSET Goroutines]
  <2>1. CASE part[c][p] = 0
    <3>1. fields' = [fields EXCEPT ![c] = IF p = "builder" THEN {} ELSE @]
      BY <2>1 DEF Make, Set
    <3> QED
      BY <1>0, <1>2, <2>1, <3>1
  <2>2. CASE part[c][p] # 0
    <3>1. fields' = fields
      BY <2>2 DEF Make
    <3> QED
      BY <1>0, <2>2, <3>1
  <2> QED
    BY <2>1, <2>2
<1>5. CASE part[c][p] = 0 /\ p = "tx"
  <2>1. pc' = [pc EXCEPT ![g] = "start"] /\ UNCHANGED <<once, call>>
    BY <1>5 DEF Make
  <2>2. "start" \in PcStates
    BY DEF PcStates
  <2>3. /\ pc'[g] = "start" /\ pc' \in [Goroutines -> PcStates]
        /\ \A h \in Goroutines : h # g => pc'[h] = pc[h]
    BY <1>0, <2>1, <2>2, PlaceFields
  <2> QED
    BY <1>0, <1>1, <1>2, <1>3, <1>4, <1>5, <2>1, <2>3
<1>6. CASE ~(part[c][p] = 0 /\ p = "tx")
  <2>1. once' = [once EXCEPT ![c][p] = "done"] /\ Proceed(g)
    BY <1>6 DEF Make
  <2>2. /\ \A d \in Clients, q \in Parts : d # c \/ q # p => once'[d][q] = once[d][q]
        /\ once'[c][p] = "done" /\ once' \in [Clients -> [Parts -> OnceStates]]
    BY <1>0, <1>2, <2>1 DEF OnceStates
  <2> QED
    BY <1>1, <1>2, <1>3, <1>4, <1>6, <2>1, <2>2
<1> QED
  BY <1>5, <1>6

LEMMA StartFields ==
  ASSUME TypeInv, NEW g \in Goroutines, Start(g), NEW c, c = Target(g)
  PROVE  /\ UNCHANGED <<dc, made, part, fields, owner, filled, calls, program, added, reached>>
         /\ pc[g] = "start" /\ c \in made /\ c \in Clients /\ Proceed(g)
         /\ started' = started \cup {c}
         /\ \A d \in Clients, q \in Parts : d # c \/ q # "tx" => once'[d][q] = once[d][q]
         /\ once'[c].tx = "done" /\ once' \in [Clients -> [Parts -> OnceStates]]
<1>0. /\ CallTypeInv /\ made \subseteq Clients
      /\ once \in [Clients -> [Parts -> OnceStates]]
  BY DEF TypeInv, VarTypeInv
<1>1. /\ UNCHANGED <<dc, made, part, fields, owner, filled, calls, program, added, reached>>
      /\ pc[g] = "start" /\ Proceed(g) /\ started' = started \cup {c}
      /\ once' = [once EXCEPT ![c].tx = "done"]
  BY DEF Start, events, history
<1>2. c \in made /\ c \in Clients
  BY <1>0, <1>1 DEF CallTypeInv, Ensuring, Calling, Target
<1>3. /\ \A d \in Clients, q \in Parts : d # c \/ q # "tx" => once'[d][q] = once[d][q]
      /\ once'[c].tx = "done" /\ once' \in [Clients -> [Parts -> OnceStates]]
  BY <1>0, <1>1, <1>2 DEF OnceStates, Parts
<1> QED
  BY <1>1, <1>2, <1>3

LEMMA EnsureFields ==
  ASSUME TypeInv, NEW g \in Goroutines, EnsureFirst(g), NEW c, c = Target(g),
         NEW p, p = Wanted(g)
  PROVE  /\ UNCHANGED <<dc, made, part, started, fields, owner, filled, call, calls,
                        program, added, reached>>
         /\ pc[g] = "ensure" /\ c \in made /\ c \in Clients /\ p \in Parts
         /\ once[c][p] = "new" /\ once'[c][p] = "running"
         /\ \A d \in Clients, q \in Parts : d # c \/ q # p => once'[d][q] = once[d][q]
         /\ once' \in [Clients -> [Parts -> OnceStates]]
         /\ pc'[g] = "make" /\ pc' \in [Goroutines -> PcStates]
         /\ \A h \in Goroutines : h # g => pc'[h] = pc[h]
<1>0. /\ CallTypeInv /\ made \subseteq Clients
      /\ once \in [Clients -> [Parts -> OnceStates]]
  BY DEF TypeInv, VarTypeInv
<1>1. /\ UNCHANGED <<dc, made, part, started, fields, owner, filled, call, calls,
                     program, added, reached>>
      /\ pc[g] = "ensure" /\ once[c][p] = "new"
      /\ once' = [once EXCEPT ![c][p] = "running"] /\ pc' = [pc EXCEPT ![g] = "make"]
  BY DEF EnsureFirst, events, history
<1>2. c \in made /\ c \in Clients /\ p \in Parts
  <2>1. call[g] \in CallStates /\ call[g].left # <<>> /\ c \in made
    BY <1>0, <1>1 DEF CallTypeInv, Ensuring, Calling, Target
  <2>2. call[g].left \in Seq(Parts)
    BY <2>1 DEF CallStates
  <2> QED
    BY <1>0, <2>1, <2>2 DEF Wanted
<1>3. /\ \A d \in Clients, q \in Parts : d # c \/ q # p => once'[d][q] = once[d][q]
      /\ once'[c][p] = "running" /\ once' \in [Clients -> [Parts -> OnceStates]]
  BY <1>0, <1>1, <1>2 DEF OnceStates
<1>4. /\ pc'[g] = "make" /\ pc' \in [Goroutines -> PcStates]
      /\ \A h \in Goroutines : h # g => pc'[h] = pc[h]
  BY <1>0, <1>1 DEF CallTypeInv, PcStates
<1> QED
  BY <1>1, <1>2, <1>3, <1>4

\* libhoney.Init gives dc a new Client, with every part, or nil.
LEMMA InitFields ==
  ASSUME TypeInv, InitPackage
  PROVE  /\ UNCHANGED <<fields, owner, filled, pc, call, program, added, reached>>
         /\ \A g \in Goroutines : pc[g] = "idle"
         /\ calls' \in 0 .. MaxCalls
         /\ \/ dc' = NoClient /\ UNCHANGED <<made, started, part, once>>
            \/ \E c \in Clients \ made :
                 /\ dc' = c /\ made' = made \cup {c} /\ started' = started \cup {c}
                 /\ \A d \in Clients, q \in Parts :
                       d # c => part'[d][q] = part[d][q] /\ once'[d][q] = once[d][q]
                 /\ \A q \in Parts :
                       part'[c][q] = 1 /\ (once'[c][q] = "done" \/ once'[c][q] = once[c][q])
         /\ part' \in [Clients -> [Parts -> Nat]]
         /\ once' \in [Clients -> [Parts -> OnceStates]]
<1>0. /\ part \in [Clients -> [Parts -> Nat]] /\ once \in [Clients -> [Parts -> OnceStates]]
      /\ calls \in 0 .. MaxCalls /\ MaxCalls \in Nat
  BY ClientAssumption DEF TypeInv, VarTypeInv
<1>1. /\ UNCHANGED <<fields, owner, filled, pc, call, program, added, reached>>
      /\ \A g \in Goroutines : pc[g] = "idle"
      /\ calls' \in 0 .. MaxCalls
  BY <1>0 DEF InitPackage, events, history
<1>2. CASE dc' = NoClient /\ UNCHANGED <<made, started, part, once>>
  BY <1>0, <1>1, <1>2
<1>3. ASSUME NEW c \in Clients \ made, dc' = c, made' = made \cup {c},
             started' = started \cup {c},
             part' = [part EXCEPT ![c] = [p \in Parts |-> 1]],
             once' = [once EXCEPT ![c].logger = "done"]
      PROVE  /\ \A d \in Clients, q \in Parts :
                   d # c => part'[d][q] = part[d][q] /\ once'[d][q] = once[d][q]
             /\ \A q \in Parts :
                   part'[c][q] = 1 /\ (once'[c][q] = "done" \/ once'[c][q] = once[c][q])
             /\ part' \in [Clients -> [Parts -> Nat]]
             /\ once' \in [Clients -> [Parts -> OnceStates]]
  <2>1. /\ \A d \in Clients : d # c => part'[d] = part[d] /\ once'[d] = once[d]
        /\ part'[c] = [p \in Parts |-> 1] /\ part' \in [Clients -> [Parts -> Nat]]
    BY <1>0, <1>3
  <2>2. /\ \A q \in Parts : once'[c][q] = "done" \/ once'[c][q] = once[c][q]
        /\ once' \in [Clients -> [Parts -> OnceStates]]
    BY <1>0, <1>3 DEF OnceStates, Parts
  <2> QED
    BY <2>1, <2>2
<1> QED
  BY <1>1, <1>2, <1>3 DEF InitPackage

-----------------------------------------------------------------------------
LEMMA TypeInit == Init => TypeInv
<1> SUFFICES ASSUME Init PROVE TypeInv
  OBVIOUS
<1>1. CallTypeInv
  BY NoCallType DEF Init, CallTypeInv, PcStates, Ensuring, Calling
<1>2. VarTypeInv
  BY ClientAssumption DEF Init, VarTypeInv, Parts, OnceStates
<1> QED
  BY <1>1, <1>2 DEF TypeInv

\* One goroutine moves.
LEMMA OneCall ==
  ASSUME CallTypeInv, NEW g \in Goroutines, made \subseteq made',
         pc' \in [Goroutines -> PcStates], call' \in [Goroutines -> CallStates],
         \A h \in Goroutines : h # g => pc'[h] = pc[h] /\ call'[h] = call[h],
         call'[g].client \in made' \cup {NoClient},
         pc'[g] \in Ensuring => call'[g].left # <<>>,
         pc'[g] \in Calling => call'[g].client # NoClient,
         pc'[g] \in Calling /\ call'[g].kind = "NewEvent" => call'[g].event \in Events
  PROVE  CallTypeInv'
<1> QED
  BY DEF CallTypeInv

LEMMA OneBegun ==
  ASSUME CallTypeInv, NEW g \in Goroutines, NEW kind \in Kinds, NEW c \in Clients,
         NEW e \in Events \cup {NoClient}, Begin(g, kind, c, e), made \subseteq made', c \in made',
         kind = "NewEvent" => e \in Events
  PROVE  CallTypeInv'
<1>1. c # NoClient
  BY ClientAssumption
<1> QED
  BY <1>1, BeginFields, OneCall

LEMMA OneReturned ==
  ASSUME CallTypeInv, NEW g \in Goroutines, Return(g), UNCHANGED made
  PROVE  CallTypeInv'
<1>1. NoCall.client = NoClient /\ "idle" \notin Calling /\ "idle" \notin Ensuring
  BY DEF NoCall, Calling, Ensuring
<1> QED
  BY <1>1, ReturnFields, OneCall

LEMMA OnePanicked ==
  ASSUME CallTypeInv, NEW g \in Goroutines, NEW c \in Clients \cup {NoClient},
         c \in made \cup {NoClient},
         NEW e \in Events \cup {NoClient}, Panic(g, c, e), UNCHANGED made
  PROVE  CallTypeInv'
<1>1. "panic" \notin Calling /\ "panic" \notin Ensuring
  BY DEF Calling, Ensuring
<1> QED
  BY <1>1, PanicFields, OneCall

LEMMA OneProceeds ==
  ASSUME CallTypeInv, NEW g \in Goroutines, pc[g] \in Ensuring, Proceed(g), UNCHANGED made
  PROVE  CallTypeInv'
<1>1. /\ call'[g].client \in made /\ call'[g].client # NoClient
      /\ \A h \in Goroutines : h # g => pc'[h] = pc[h] /\ call'[h] = call[h]
      /\ pc' \in [Goroutines -> PcStates] /\ call' \in [Goroutines -> CallStates]
  BY ProceedFields DEF CallTypeInv, Ensuring, Calling, Target
<1>2. pc'[g] \in Ensuring => call'[g].left # <<>>
  BY ProceedFields DEF Ensuring
<1>3. /\ call'[g].kind = call[g].kind /\ call'[g].event = call[g].event
      /\ call[g].kind = "NewEvent" => call[g].event \in Events
  BY ProceedFields DEF CallTypeInv, Calling
<1> QED
  BY <1>1, <1>2, <1>3, OneCall

LEMMA CallTypeNext == TypeInv /\ [Next]_vars => CallTypeInv'
<1> SUFFICES ASSUME TypeInv, [Next]_vars PROVE CallTypeInv'
  OBVIOUS
<1>0. /\ CallTypeInv /\ VarTypeInv /\ made \subseteq Clients
      /\ dc \in made \cup {NoClient} /\ owner \in [Events -> made \cup {NoClient}]
      /\ \A g \in Goroutines : call[g].event \in Events \cup {NoClient}
      /\ \A g \in Goroutines : call[g].client \in made \cup {NoClient}
      /\ NoClient \notin Clients
  BY ClientAssumption DEF TypeInv, VarTypeInv, CallTypeInv, CallStates
<1>1. CASE InitPackage
  <2>1. UNCHANGED <<pc, call>> /\ made \subseteq made'
    BY <1>1, InitFields
  <2> QED
    BY <1>0, <2>1 DEF CallTypeInv
<1>2. ASSUME NEW g \in Goroutines, CallClient(g) PROVE CallTypeInv'
  <2>1. UNCHANGED made
    BY <1>2 DEF CallClient, clients
  <2>2. CASE dc = NoClient
    BY <1>0, <1>2, <2>1, <2>2, OnePanicked DEF CallClient
  <2>3. CASE dc # NoClient
    <3>1. dc \in made /\ dc \in Clients
      BY <1>0, <2>3
    <3>2. PICK kind \in Kinds, e \in Events \cup {NoClient} :
             Begin(g, kind, dc, e) /\ (kind = "NewEvent" => e \in Events)
      BY <1>2, <2>3, EnsuredParts DEF CallClient
    <3> QED
      BY <1>0, <2>1, <3>1, <3>2, OneBegun
  <2> QED
    BY <2>2, <2>3
<1>3. ASSUME NEW g \in Goroutines, NEW e \in Events, CallSend(g, e) PROVE CallTypeInv'
  <2>1. PICK kind \in {"Send", "SampledOut"} :
           \/ owner[e] # NoClient /\ Begin(g, kind, owner[e], e) /\ UNCHANGED made
           \/ \E c \in Clients \ made : made' = made \cup {c} /\ Begin(g, kind, c, e)
    BY <1>3 DEF CallSend
  <2>2. kind \in Kinds
    BY EnsuredParts
  <2>3. CASE owner[e] # NoClient /\ Begin(g, kind, owner[e], e) /\ UNCHANGED made
    <3>1. owner[e] \in made /\ owner[e] \in Clients
      BY <1>0, <2>3
    <3> QED
      BY <1>0, <2>2, <2>3, <3>1, OneBegun
  <2>4. ASSUME NEW c \in Clients \ made, made' = made \cup {c}, Begin(g, kind, c, e)
        PROVE  CallTypeInv'
    BY <1>0, <2>2, <2>4, OneBegun
  <2> QED
    BY <2>1, <2>3, <2>4
<1>4. ASSUME NEW g \in Goroutines, NEW e \in Events, AddToEvent(g, e) PROVE CallTypeInv'
  <2>1. UNCHANGED made
    BY <1>4 DEF AddToEvent, clients
  <2>2. CASE UNCHANGED <<pc, call, program>>
    BY <1>0, <2>1, <2>2 DEF CallTypeInv
  <2>3. CASE Panic(g, NoClient, e)
    BY <1>0, <2>1, <2>3, OnePanicked
  <2> QED
    BY <1>4, <2>2, <2>3 DEF AddToEvent
<1>5. ASSUME NEW g \in Goroutines, EnsureDone(g) PROVE CallTypeInv'
  <2>1. UNCHANGED made /\ pc[g] \in Ensuring /\ Proceed(g)
    BY <1>5 DEF EnsureDone, clients, Ensuring
  <2> QED
    BY <1>0, <2>1, OneProceeds
<1>6. ASSUME NEW g \in Goroutines, EnsureFirst(g) PROVE CallTypeInv'
  <2>1. /\ UNCHANGED <<made, call>> /\ pc[g] = "ensure" /\ pc'[g] = "make"
        /\ pc' \in [Goroutines -> PcStates]
        /\ \A h \in Goroutines : h # g => pc'[h] = pc[h]
    BY <1>6, EnsureFields
  <2> QED
    BY <1>0, <2>1 DEF CallTypeInv, Ensuring, Calling
<1>7. ASSUME NEW g \in Goroutines, Make(g) PROVE CallTypeInv'
  <2>1. UNCHANGED made /\ pc[g] \in Ensuring
    BY <1>7, MakeFields DEF Ensuring
  <2>2. CASE Proceed(g)
    BY <1>0, <2>1, <2>2, OneProceeds
  <2>3. CASE ~Proceed(g)
    <3>1. /\ pc[g] = "make" /\ pc'[g] = "start" /\ call' = call
          /\ pc' \in [Goroutines -> PcStates]
          /\ \A h \in Goroutines : h # g => pc'[h] = pc[h]
      BY <1>7, <2>3, MakeFields
    <3> QED
      BY <1>0, <2>1, <3>1 DEF CallTypeInv, Ensuring, Calling
  <2> QED
    BY <2>2, <2>3
<1>8. ASSUME NEW g \in Goroutines, Start(g) PROVE CallTypeInv'
  <2>1. UNCHANGED made /\ pc[g] \in Ensuring /\ Proceed(g)
    BY <1>8, StartFields DEF Ensuring
  <2> QED
    BY <1>0, <2>1, OneProceeds
<1>9. ASSUME NEW g \in Goroutines, PeekClose(g) PROVE CallTypeInv'
  <2>1. UNCHANGED made /\ pc[g] = "peek"
    BY <1>9 DEF PeekClose, clients
  <2>2. CASE Return(g)
    BY <1>0, <2>1, <2>2, OneReturned
  <2>3. CASE pc' = [pc EXCEPT ![g] = "use"] /\ UNCHANGED call
    <3>1. /\ pc'[g] = "use" /\ pc' \in [Goroutines -> PcStates]
          /\ \A h \in Goroutines : h # g => pc'[h] = pc[h]
      BY <1>0, <2>3 DEF CallTypeInv, PcStates
    <3> QED
      BY <1>0, <2>1, <2>3, <3>1 DEF CallTypeInv, Ensuring, Calling
  <2> QED
    BY <1>9, <2>2, <2>3 DEF PeekClose
<1>10. ASSUME NEW g \in Goroutines, PeekSend(g) PROVE CallTypeInv'
  <2>1. UNCHANGED made /\ pc[g] = "peek"
    BY <1>10 DEF PeekSend, clients
  <2>2. Target(g) \in made /\ Target(g) \in Clients /\ "Dispatch" \in Kinds
    BY <1>0, <2>1, EnsuredParts DEF CallTypeInv, Calling, Target
  <2>3. CASE Return(g)
    BY <1>0, <2>1, <2>3, OneReturned
  <2>4. CASE Panic(g, Target(g), call[g].event)
    BY <1>0, <2>1, <2>2, <2>4, OnePanicked
  <2>5. CASE Begin(g, "Dispatch", Target(g), call[g].event)
    BY <1>0, <2>1, <2>2, <2>5, OneBegun
  <2> QED
    BY <1>10, <2>3, <2>4, <2>5 DEF PeekSend
<1>11. ASSUME NEW g \in Goroutines, Use(g) PROVE CallTypeInv'
  <2>1. UNCHANGED made /\ Target(g) \in made /\ Target(g) \in Clients
    BY <1>0, <1>11 DEF Use, CallTypeInv, Calling, Target
  <2>2. CASE Return(g)
    BY <1>0, <2>1, <2>2, OneReturned
  <2>3. CASE Panic(g, Target(g), call[g].event)
    BY <1>0, <2>1, <2>3, OnePanicked
  <2> QED
    BY <1>11, <2>2, <2>3 DEF Use
<1>12. CASE UNCHANGED vars
  BY <1>0, <1>12 DEF vars, clients, CallTypeInv
<1> QED
  BY <1>1, <1>2, <1>3, <1>4, <1>5, <1>6, <1>7, <1>8, <1>9, <1>10, <1>11, <1>12
     DEF Next, Terminated

LEMMA VarTypeNext == TypeInv /\ [Next]_vars => VarTypeInv'
<1> SUFFICES ASSUME TypeInv, [Next]_vars PROVE VarTypeInv'
  OBVIOUS
<1>0. VarTypeInv /\ NoClient \notin Clients /\ MaxCalls \in Nat
  BY ClientAssumption DEF TypeInv
<1>c. calls < MaxCalls /\ calls' = calls + 1 => calls' \in 0 .. MaxCalls
  BY <1>0 DEF VarTypeInv
<1>1. CASE InitPackage
  <2>1. /\ UNCHANGED <<fields, owner, filled, program, added, reached>>
        /\ calls' \in 0 .. MaxCalls
        /\ part' \in [Clients -> [Parts -> Nat]] /\ once' \in [Clients -> [Parts -> OnceStates]]
    BY <1>1, InitFields
  <2>2. /\ dc' \in made' \cup {NoClient} /\ made' \subseteq Clients /\ started' \subseteq made'
        /\ made \subseteq made'
    BY <1>0, <1>1, InitFields DEF VarTypeInv
  <2> QED
    BY <1>0, <2>1, <2>2 DEF VarTypeInv
<1>2. ASSUME NEW g \in Goroutines, CallClient(g) PROVE VarTypeInv'
  <2>1. UNCHANGED <<clients, events, history>> /\ program' \in {"running", "panicked"}
    BY <1>0, <1>2 DEF CallClient, Panic, VarTypeInv
  <2> QED
    BY <1>0, <1>2, <1>c, <2>1 DEF CallClient, clients, events, history, VarTypeInv
<1>3. ASSUME NEW g \in Goroutines, NEW e \in Events, CallSend(g, e) PROVE VarTypeInv'
  <2>1. UNCHANGED <<dc, part, started, once, fields, filled, program, history>>
    BY <1>3 DEF CallSend
  <2>2. /\ made' \subseteq Clients /\ made \subseteq made'
        /\ owner' \in [Events -> made' \cup {NoClient}]
    BY <1>0, <1>3 DEF CallSend, VarTypeInv
  <2>3. calls' \in 0 .. MaxCalls
    BY <1>3, <1>c DEF CallSend
  <2> QED
    BY <1>0, <2>1, <2>2, <2>3 DEF history, VarTypeInv
<1>4. ASSUME NEW g \in Goroutines, NEW e \in Events, AddToEvent(g, e) PROVE VarTypeInv'
  <2>1. /\ UNCHANGED <<clients, owner, history>> /\ program' \in {"running", "panicked"}
        /\ filled' \subseteq Events
    BY <1>0, <1>4 DEF AddToEvent, Panic, VarTypeInv
  <2>2. calls' \in 0 .. MaxCalls
    BY <1>4, <1>c DEF AddToEvent
  <2> QED
    BY <1>0, <2>1, <2>2 DEF clients, history, VarTypeInv
<1>5. ASSUME NEW g \in Goroutines, EnsureDone(g) PROVE VarTypeInv'
  BY <1>0, <1>5 DEF EnsureDone, clients, events, history, VarTypeInv
<1>6. ASSUME NEW g \in Goroutines, EnsureFirst(g) PROVE VarTypeInv'
  BY <1>0, <1>6, EnsureFields DEF VarTypeInv
<1>7. ASSUME NEW g \in Goroutines, Make(g) PROVE VarTypeInv'
  BY <1>0, <1>7, MakeFields DEF VarTypeInv
<1>8. ASSUME NEW g \in Goroutines, Start(g) PROVE VarTypeInv'
  BY <1>0, <1>8, StartFields DEF VarTypeInv
<1>9. ASSUME NEW g \in Goroutines, PeekClose(g) PROVE VarTypeInv'
  BY <1>0, <1>9 DEF PeekClose, clients, events, history, VarTypeInv
<1>10. ASSUME NEW g \in Goroutines, PeekSend(g) PROVE VarTypeInv'
  <2>1. UNCHANGED <<clients, events, calls, history>> /\ program' \in {"running", "panicked"}
    BY <1>0, <1>10 DEF PeekSend, Panic, VarTypeInv
  <2> QED
    BY <1>0, <2>1 DEF clients, events, history, VarTypeInv
<1>11. ASSUME NEW g \in Goroutines, Use(g) PROVE VarTypeInv'
  <2>1. /\ UNCHANGED <<dc, made, part, started, once, calls>>
        /\ program' \in {"running", "panicked"}
    BY <1>0, <1>11 DEF Use, Panic, VarTypeInv
  <2>2. Target(g) \in made /\ Target(g) \in Clients
    BY <1>0, <1>11 DEF TypeInv, VarTypeInv, Use, CallTypeInv, Calling, Target
  <2>3. fields' \in [Clients -> SUBSET Goroutines] /\ added' \in [Clients -> SUBSET Goroutines]
    BY <1>0, <1>11, <2>2 DEF Use, VarTypeInv
  <2>4. reached' \in [Clients -> SUBSET Nat]
    <3>1. part[Target(g)].tx \in Nat
      BY <1>0, <2>2 DEF VarTypeInv, Parts
    <3> QED
      BY <1>0, <1>11, <2>2, <3>1 DEF Use, VarTypeInv
  <2>5. owner' \in [Events -> made' \cup {NoClient}] /\ filled' \subseteq Events
    <3>1. CASE call[g].kind # "NewEvent"
      BY <1>0, <1>11, <2>1, <3>1 DEF Use, events, VarTypeInv
    <3>2. CASE call[g].kind = "NewEvent"
      <4>1. /\ owner' = [owner EXCEPT ![call[g].event] = Target(g)]
            /\ filled' \subseteq filled \cup {call[g].event}
        BY <1>11, <3>2 DEF Use
      <4>2. call[g].event \in Events
        BY <1>11, <3>2 DEF TypeInv, CallTypeInv, Use, Calling
      <4> QED
        BY <1>0, <2>1, <2>2, <4>1, <4>2 DEF VarTypeInv
    <3> QED
      BY <3>1, <3>2
  <2> QED
    BY <1>0, <2>1, <2>3, <2>4, <2>5 DEF VarTypeInv
<1>12. CASE UNCHANGED vars
  BY <1>0, <1>12 DEF vars, clients, events, history, VarTypeInv
<1> QED
  BY <1>1, <1>2, <1>3, <1>4, <1>5, <1>6, <1>7, <1>8, <1>9, <1>10, <1>11, <1>12
     DEF Next, Terminated

LEMMA TypeNext == TypeInv /\ [Next]_vars => TypeInv'
<1> QED
  BY CallTypeNext, VarTypeNext DEF TypeInv

\* Type correctness of the Clients, events and calls.
THEOREM TypeCorrect == Spec => []TypeOK
<1> QED
  BY TypeInit, TypeNext, TypeInvType, PTL DEF Spec

-----------------------------------------------------------------------------
(***************************************************************************)
(* The parts.  OnceInv: a part is set once, and one whose Once is done is  *)
(* set and, if it is the transmission, started.  MakingInv: of the calls   *)
(* that ensure the same part of the same Client, one runs the function of  *)
(* the Once.                                                               *)
(***************************************************************************)
OnceInv ==
  \A c \in Clients, p \in Parts :
     /\ part[c][p] \in {0, 1}
     /\ once[c][p] = "done" => part[c][p] = 1
     /\ p = "tx" /\ part[c][p] = 1 /\ once[c][p] # "running" => c \in started

Making(g) == pc[g] \in {"make", "start"}

MakingInv ==
  /\ \A g \in Goroutines :
        /\ Making(g) => once[Target(g)][Wanted(g)] = "running"
        /\ pc[g] = "start" => Wanted(g) = "tx" /\ part[Target(g)].tx = 1
        /\ pc[g] = "make" /\ Wanted(g) = "tx" /\ part[Target(g)].tx = 1 =>
             Target(g) \in started
  /\ \A g, h \in Goroutines :
        g # h /\ Making(g) /\ Making(h) /\ Target(g) = Target(h) => Wanted(g) # Wanted(h)

LEMMA MakingParts ==
  ASSUME TypeInv, NEW g \in Goroutines, pc[g] \in Ensuring
  PROVE  Target(g) \in made /\ Target(g) \in Clients /\ Wanted(g) \in Parts
<1>1. call[g] \in CallStates /\ call[g].left # <<>> /\ Target(g) \in made
  BY DEF TypeInv, CallTypeInv, Calling, Target
<1>2. call[g].left \in Seq(Parts) /\ made \subseteq Clients
  BY <1>1 DEF CallStates, TypeInv, VarTypeInv
<1> QED
  BY <1>1, <1>2 DEF Wanted

\* The steps that make no part.
Quiet(g) ==
  \/ CallClient(g) \/ EnsureDone(g) \/ PeekClose(g) \/ PeekSend(g) \/ Use(g)
  \/ \E e \in Events : CallSend(g, e) \/ AddToEvent(g, e)

LEMMA Steps ==
  ASSUME [Next]_vars
  PROVE  \/ UNCHANGED vars
         \/ Running /\ InitPackage
         \/ \E g \in Goroutines : Running /\ EnsureFirst(g)
         \/ \E g \in Goroutines : Running /\ Make(g)
         \/ \E g \in Goroutines : Running /\ Start(g)
         \/ \E g \in Goroutines : Running /\ Quiet(g)
<1> QED
  BY DEF Next, Terminated, Quiet

LEMMA QuietParts ==
  ASSUME NEW g \in Goroutines, Quiet(g)
  PROVE  UNCHANGED <<part, started, once>>
<1> QED
  BY DEF Quiet, CallClient, EnsureDone, PeekClose, PeekSend, Use, CallSend, AddToEvent,
         clients

\* The goroutine of a step that makes no part is then in no function of a Once.
LEMMA QuietCall ==
  ASSUME TypeInv, NEW g \in Goroutines, Quiet(g)
  PROVE  /\ ~Making(g)'
         /\ \A h \in Goroutines : h # g => pc'[h] = pc[h] /\ call'[h] = call[h]
<1>0. pc \in [Goroutines -> PcStates] /\ call \in [Goroutines -> CallStates] /\ CallTypeInv
  BY DEF TypeInv, CallTypeInv
<1>1. ASSUME NEW p \in {"idle", "ensure", "use", "panic"}, NEW r,
             pc' = [pc EXCEPT ![g] = p], call' = [call EXCEPT ![g] = r]
      PROVE  /\ ~Making(g)'
             /\ \A h \in Goroutines : h # g => pc'[h] = pc[h] /\ call'[h] = call[h]
  BY <1>0, <1>1 DEF Making
<1>2. CASE EnsureDone(g)
  <2>1. pc[g] \in Ensuring /\ Proceed(g)
    BY <1>2 DEF EnsureDone, Ensuring
  <2>2. /\ pc'[g] \in {"ensure", "peek", "use"}
        /\ \A h \in Goroutines : h # g => pc'[h] = pc[h] /\ call'[h] = call[h]
    BY <1>0, <2>1, ProceedFields
  <2> QED
    BY <2>2 DEF Making
<1>3. CASE PeekClose(g)
  <2>1. CASE Return(g)
    BY <1>1, <2>1 DEF Return
  <2>2. CASE pc' = [pc EXCEPT ![g] = "use"] /\ call' = call
    <3>1. call' = [call EXCEPT ![g] = call[g]]
      BY <1>0, <2>2
    <3> QED
      BY <1>1, <2>2, <3>1
  <2> QED
    BY <1>3, <2>1, <2>2 DEF PeekClose
<1>4. ASSUME NEW e \in Events, AddToEvent(g, e), UNCHANGED <<pc, call, program>>
      PROVE  ~Making(g)'
  BY <1>4 DEF AddToEvent, Making
<1>5. \A c, e, k : /\ Begin(g, k, c, e) => \E r : /\ pc' = [pc EXCEPT ![g] = "ensure"]
                                                  /\ call' = [call EXCEPT ![g] = r]
                   /\ Panic(g, c, e) => \E r : /\ pc' = [pc EXCEPT ![g] = "panic"]
                                               /\ call' = [call EXCEPT ![g] = r]
  BY DEF Begin, Panic
<1>6. Return(g) => /\ pc' = [pc EXCEPT ![g] = "idle"]
                   /\ call' = [call EXCEPT ![g] = NoCall]
  BY DEF Return
<1>7. CASE CallClient(g) \/ PeekSend(g) \/ Use(g) \/ \E e \in Events : CallSend(g, e)
  <2>1. \/ Return(g)
        \/ \E c, e : Panic(g, c, e)
        \/ \E c, e, k : Begin(g, k, c, e)
    BY <1>7 DEF CallClient, PeekSend, Use, CallSend
  <2> QED
    BY <1>1, <1>5, <1>6, <2>1
<1>8. ASSUME NEW e \in Events, AddToEvent(g, e)
      PROVE  /\ ~Making(g)'
             /\ \A h \in Goroutines : h # g => pc'[h] = pc[h] /\ call'[h] = call[h]
  <2>1. UNCHANGED <<pc, call, program>> \/ Panic(g, NoClient, e)
    BY <1>8 DEF AddToEvent
  <2>2. CASE Panic(g, NoClient, e)
    BY <1>1, <1>5, <2>2
  <2> QED
    BY <1>4, <1>8, <2>1, <2>2
<1> QED
  BY <1>2, <1>3, <1>7, <1>8 DEF Quiet

LEMMA PartsInit == Init => OnceInv /\ MakingInv
<1> QED
  BY DEF Init, OnceInv, MakingInv, Making, Parts

LEMMA OnceNext == TypeInv /\ OnceInv /\ MakingInv /\ [Next]_vars => OnceInv'
<1> SUFFICES ASSUME TypeInv, OnceInv, MakingInv, [Next]_vars,
                    NEW d \in Clients, NEW q \in Parts
             PROVE  /\ part'[d][q] \in {0, 1}
                    /\ once'[d][q] = "done" => part'[d][q] = 1
                    /\ q = "tx" /\ part'[d][q] = 1 /\ once'[d][q] # "running" => d \in started'
  BY DEF OnceInv
<1> DEFINE Kept == /\ part'[d][q] \in {0, 1}
                   /\ once'[d][q] = "done" => part'[d][q] = 1
                   /\ q = "tx" /\ part'[d][q] = 1 /\ once'[d][q] # "running" => d \in started'
<1>0. /\ part[d][q] \in {0, 1}
      /\ once[d][q] = "done" => part[d][q] = 1
      /\ q = "tx" /\ part[d][q] = 1 /\ once[d][q] # "running" => d \in started
  BY DEF OnceInv
<1>1. ASSUME UNCHANGED <<part, started, once>> PROVE Kept
  BY <1>0, <1>1
<1>2. ASSUME InitPackage PROVE Kept
  BY <1>0, <1>2, InitFields
<1>3. ASSUME NEW g \in Goroutines, EnsureFirst(g) PROVE Kept
  <2>1. /\ UNCHANGED <<part, started>>
        /\ \/ once'[d][q] = once[d][q]
           \/ once'[d][q] = "running"
    BY <1>3, EnsureFields
  <2> QED
    BY <1>0, <2>1
<1>4. ASSUME NEW g \in Goroutines, Make(g) PROVE Kept
  <2>1. CASE d = Target(g) /\ q = Wanted(g)
    <3>1. /\ part'[d][q] = (IF part[d][q] = 0 THEN 1 ELSE part[d][q]) /\ started' = started
          /\ \/ q = "tx" /\ once'[d][q] = once[d][q]
             \/ once'[d][q] = "done" /\ (q = "tx" => part[d][q] # 0)
      BY <1>4, <2>1, MakeFields
    <3>2. once[d][q] = "running" /\ (q = "tx" /\ part[d][q] = 1 => d \in started)
      BY <1>4, <2>1 DEF MakingInv, Making, Make
    <3> QED
      BY <1>0, <3>1, <3>2
  <2>2. CASE d # Target(g) \/ q # Wanted(g)
    <3>1. part'[d][q] = part[d][q] /\ once'[d][q] = once[d][q] /\ started' = started
      BY <1>4, <2>2, MakeFields
    <3> QED
      BY <1>0, <3>1
  <2> QED
    BY <2>1, <2>2
<1>5. ASSUME NEW g \in Goroutines, Start(g) PROVE Kept
  <2>1. CASE d = Target(g) /\ q = "tx"
    <3>1. part' = part /\ d \in started'
      BY <1>5, <2>1, StartFields
    <3>2. part[d][q] = 1
      BY <1>5, <2>1 DEF MakingInv, Start
    <3> QED
      BY <3>1, <3>2
  <2>2. CASE d # Target(g) \/ q # "tx"
    <3>1. part'[d][q] = part[d][q] /\ once'[d][q] = once[d][q] /\ started \subseteq started'
      BY <1>5, <2>2, StartFields
    <3> QED
      BY <1>0, <3>1
  <2> QED
    BY <2>1, <2>2
<1>6. ASSUME UNCHANGED vars PROVE Kept
  BY <1>1, <1>6 DEF vars, clients
<1> HIDE DEF Kept
<1>7. ASSUME NEW g \in Goroutines, Quiet(g) PROVE Kept
  BY <1>1, <1>7, QuietParts
<1>8. Kept
  BY <1>2, <1>3, <1>4, <1>5, <1>6, <1>7, Steps
<1> QED
  BY <1>8 DEF Kept

LEMMA MakingNext == TypeInv /\ OnceInv /\ MakingInv /\ [Next]_vars => MakingInv'
<1> SUFFICES ASSUME TypeInv, OnceInv, MakingInv, [Next]_vars PROVE MakingInv'
  OBVIOUS
<1>1. ASSUME NEW g \in Goroutines, ~Making(g)', started \subseteq started',
             \A h \in Goroutines : h # g => pc'[h] = pc[h] /\ call'[h] = call[h],
             \A h \in Goroutines : h # g /\ Making(h) =>
                /\ once'[Target(h)][Wanted(h)] = once[Target(h)][Wanted(h)]
                /\ Wanted(h) = "tx" => part'[Target(h)].tx = part[Target(h)].tx
      PROVE  MakingInv'
  BY <1>1 DEF MakingInv, Making, Target, Wanted
<1>2. CASE InitPackage
  <2>1. \A g \in Goroutines : pc'[g] = "idle"
    BY <1>2, InitFields
  <2> QED
    BY <2>1 DEF MakingInv, Making
<1>3. ASSUME NEW g \in Goroutines, EnsureFirst(g) PROVE MakingInv'
  <2> DEFINE c == Target(g)
             p == Wanted(g)
  <2>1. /\ UNCHANGED <<call, part, started>> /\ c \in Clients /\ p \in Parts
        /\ once[c][p] = "new" /\ once'[c][p] = "running" /\ pc'[g] = "make"
        /\ \A d \in Clients, q \in Parts : d # c \/ q # p => once'[d][q] = once[d][q]
        /\ \A h \in Goroutines : h # g => pc'[h] = pc[h]
    BY <1>3, EnsureFields
  <2>2. /\ \A h \in Goroutines : Making(h) =>
              Target(h) \in Clients /\ Wanted(h) \in Parts /\ (Target(h) # c \/ Wanted(h) # p)
    BY <2>1, MakingParts DEF MakingInv, Making, Ensuring
  <2>3. \A h \in Goroutines : Target(h)' = Target(h) /\ Wanted(h)' = Wanted(h)
    BY <2>1 DEF Target, Wanted
  <2>4. p = "tx" /\ part[c].tx = 1 => c \in started
    BY <2>1 DEF OnceInv
  <2>5. \A h \in Goroutines : h # g => (Making(h)' <=> Making(h))
    BY <2>1 DEF Making
  <2>6. \A h \in Goroutines :
           /\ Making(h)' => once'[Target(h)][Wanted(h)] = "running"
           /\ pc'[h] = "start" => Wanted(h) = "tx" /\ part'[Target(h)].tx = 1
           /\ pc'[h] = "make" /\ Wanted(h) = "tx" /\ part'[Target(h)].tx = 1 =>
                Target(h) \in started'
    BY <2>1, <2>2, <2>4, <2>5 DEF MakingInv
  <2>7. \A h, i \in Goroutines :
           h # i /\ Making(h)' /\ Making(i)' /\ Target(h) = Target(i) => Wanted(h) # Wanted(i)
    BY <2>2, <2>5 DEF MakingInv
  <2> QED
    BY <2>3, <2>6, <2>7 DEF MakingInv
<1>4. ASSUME NEW g \in Goroutines, Make(g) PROVE MakingInv'
  <2> DEFINE c == Target(g)
             p == Wanted(g)
  <2>1. /\ started' = started /\ c \in Clients /\ p \in Parts /\ pc[g] = "make"
        /\ \A d \in Clients, q \in Parts :
              d # c \/ q # p => part'[d][q] = part[d][q] /\ once'[d][q] = once[d][q]
        /\ part'[c][p] = (IF part[c][p] = 0 THEN 1 ELSE part[c][p])
    BY <1>4, MakeFields
  <2>2. \A h \in Goroutines : h # g /\ Making(h) =>
           Target(h) \in Clients /\ Wanted(h) \in Parts /\ (Target(h) # c \/ Wanted(h) # p)
    BY <2>1, MakingParts DEF MakingInv, Making, Ensuring
  <2>3. \A h \in Goroutines : h # g /\ Making(h) =>
           /\ once'[Target(h)][Wanted(h)] = once[Target(h)][Wanted(h)]
           /\ Wanted(h) = "tx" => part'[Target(h)].tx = part[Target(h)].tx
    BY <2>1, <2>2
  <2>4. CASE Proceed(g)
    <3>1. /\ pc'[g] \in {"ensure", "peek", "use"}
          /\ \A h \in Goroutines : h # g => pc'[h] = pc[h] /\ call'[h] = call[h]
      BY <2>1, <2>4, ProceedFields DEF TypeInv, Ensuring
    <3> QED
      BY <1>1, <2>1, <2>3, <3>1 DEF Making
  <2>5. CASE ~Proceed(g)
    <3>1. /\ p = "tx" /\ pc'[g] = "start" /\ call' = call /\ once' = once
          /\ \A h \in Goroutines : h # g => pc'[h] = pc[h]
      BY <1>4, <2>5, MakeFields
    <3>2. /\ \A h \in Goroutines : Target(h)' = Target(h) /\ Wanted(h)' = Wanted(h)
          /\ \A h \in Goroutines : Making(h)' <=> Making(h)
          /\ part'[c].tx = 1
      BY <2>1, <3>1 DEF Target, Wanted, Making, OnceInv
    <3>3. \A h \in Goroutines :
             /\ Making(h)' => once'[Target(h)][Wanted(h)] = "running"
             /\ pc'[h] = "start" => Wanted(h) = "tx" /\ part'[Target(h)].tx = 1
             /\ pc'[h] = "make" /\ Wanted(h) = "tx" /\ part'[Target(h)].tx = 1 =>
                  Target(h) \in started'
      BY <2>1, <2>3, <3>1, <3>2 DEF MakingInv, Making
    <3> QED
      BY <3>2, <3>3 DEF MakingInv
  <2> QED
    BY <2>4, <2>5
<1>5. ASSUME NEW g \in Goroutines, Start(g) PROVE MakingInv'
  <2> DEFINE c == Target(g)
  <2>1. /\ part' = part /\ started \subseteq started' /\ c \in Clients /\ pc[g] = "start"
        /\ \A d \in Clients, q \in Parts : d # c \/ q # "tx" => once'[d][q] = once[d][q]
        /\ Proceed(g)
    BY <1>5, StartFields
  <2>2. \A h \in Goroutines : h # g /\ Making(h) =>
           Target(h) \in Clients /\ Wanted(h) \in Parts /\ (Target(h) # c \/ Wanted(h) # "tx")
    BY <2>1, MakingParts DEF MakingInv, Making, Ensuring
  <2>3. /\ pc'[g] \in {"ensure", "peek", "use"}
        /\ \A h \in Goroutines : h # g => pc'[h] = pc[h] /\ call'[h] = call[h]
    BY <2>1, ProceedFields DEF TypeInv, Ensuring
  <2> QED
    BY <1>1, <2>1, <2>2, <2>3 DEF Making
<1>6. ASSUME NEW g \in Goroutines, Quiet(g) PROVE MakingInv'
  BY <1>1, <1>6, QuietParts, QuietCall
<1>7. CASE UNCHANGED vars
  BY <1>7 DEF vars, clients, MakingInv, Making, Target, Wanted
<1> QED
  BY <1>2, <1>3, <1>4, <1>5, <1>6, <1>7, Steps

\* What is set stays set, and a Once that is done stays done.
LEMMA PartsStay ==
  ASSUME TypeInv, OnceInv, [Next]_vars, NEW c \in Clients, NEW p \in Parts
  PROVE  /\ part[c][p] = 1 => part'[c][p] = 1
         /\ once[c][p] = "done" => once'[c][p] = "done"
<1> DEFINE Kept == /\ part[c][p] = 1 => part'[c][p] = 1
                   /\ once[c][p] = "done" => once'[c][p] = "done"
<1>1. CASE UNCHANGED vars
  BY <1>1 DEF vars, clients
<1>2. CASE InitPackage
  BY <1>2, InitFields
<1>3. ASSUME NEW g \in Goroutines, EnsureFirst(g) PROVE Kept
  <2>1. part' = part /\ (once[c][p] # "new" => once'[c][p] = once[c][p])
    BY <1>3, EnsureFields
  <2> QED
    BY <2>1
<1>4. ASSUME NEW g \in Goroutines, Make(g) PROVE Kept
  <2>1. /\ part[c][p] = 1 => part'[c][p] = 1
        /\ once'[c][p] = "done" \/ once'[c][p] = once[c][p]
    BY <1>4, MakeFields
  <2> QED
    BY <2>1
<1>5. ASSUME NEW g \in Goroutines, Start(g) PROVE Kept
  <2>1. part' = part /\ (once'[c][p] = "done" \/ once'[c][p] = once[c][p])
    BY <1>5, StartFields
  <2> QED
    BY <2>1
<1>6. ASSUME NEW g \in Goroutines, Quiet(g) PROVE Kept
  BY <1>6, QuietParts
<1> HIDE DEF Kept
<1>7. ASSUME UNCHANGED vars \/ InitPackage PROVE Kept
  BY <1>1, <1>2, <1>7 DEF Kept
<1>8. Kept
  BY <1>3, <1>4, <1>5, <1>6, <1>7, Steps
<1> QED
  BY <1>8 DEF Kept

-----------------------------------------------------------------------------
(***************************************************************************)
(* The calls.  ProgressInv: the last part that a call ensures is the one   *)
(* it uses, so that it is set when the call gets there (Close and Flush    *)
(* have looked instead), and whoever has an event that NewEvent made has a *)
(* Client with a transmission.  AddedInv: the builder of a Client that has *)
(* fields is never set again.                                              *)
(***************************************************************************)
Progress(g) ==
  LET c == Target(g) kind == call[g].kind left == call[g].left IN
  /\ pc[g] \in Ensuring /\ kind \notin {"Close", "Send"} => left[Len(left)] = Used(kind)
  /\ pc[g] \in Ensuring /\ Used(kind) = "builder" => Head(left) = "tx" \/ part[c].tx = 1
  /\ pc[g] = "peek" => kind \in {"Close", "Send"}
  /\ pc[g] = "use" => part[c][Used(kind)] = 1 /\ part[c].tx = 1
  /\ pc[g] = "use" /\ kind # "Close" => once[c][Used(kind)] = "done"
  /\ pc[g] \in Calling /\ kind \in {"Send", "SampledOut", "Dispatch"} =>
       call[g].event \in Literals \/ part[c].tx = 1
  /\ pc[g] = "panic" =>
       /\ program = "panicked"
       /\ call[g].event \in Literals \/ (c = NoClient /\ dc = NoClient)

ProgressInv == \A g \in Goroutines : Progress(g)

OwnerInv == \A e \in Events \ Literals : owner[e] # NoClient => part[owner[e]].tx = 1

AddedInv ==
  \A c \in Clients : /\ added[c] \subseteq fields[c]
                     /\ added[c] # {} => part[c].builder = 1
                     /\ reached[c] \subseteq {1}

LEMMA UsedPart == \A k : Used(k) \in {"tx", "builder"} /\ {"tx", "builder"} \subseteq Parts
<1> QED
  BY DEF Used, Parts

LEMMA ProgressInit == Init => ProgressInv
<1> QED
  BY DEF Init, ProgressInv, Progress, Ensuring, Calling

\* A goroutine that waits keeps what it knows while the parts are there to stay.
LEMMA ProgressSame ==
  ASSUME TypeInv, Running, NEW h \in Goroutines, Progress(h), pc'[h] = pc[h],
         call'[h] = call[h],
         \A c \in Clients, p \in Parts : /\ part[c][p] = 1 => part'[c][p] = 1
                                         /\ once[c][p] = "done" => once'[c][p] = "done"
  PROVE  Progress(h)'
<1>1. pc[h] # "panic"
  BY DEF Progress, Running
<1>2. pc[h] \in Calling => Target(h) \in Clients
  BY DEF TypeInv, CallTypeInv, VarTypeInv, Target
<1>3. Target(h)' = Target(h)
  BY DEF Target
<1>4. pc[h] \in Ensuring \/ pc[h] = "peek" \/ pc[h] = "use" => pc[h] \in Calling
  BY DEF Calling
<1> QED
  BY <1>1, <1>2, <1>3, <1>4, UsedPart DEF Progress

\* A call goes on when the part it wanted is there.
LEMMA ProgressProceeds ==
  ASSUME TypeInv, NEW g \in Goroutines, Progress(g), pc[g] \in Ensuring, Proceed(g),
         once'[Target(g)][Wanted(g)] = "done", part'[Target(g)][Wanted(g)] = 1,
         \A c \in Clients, p \in Parts : part[c][p] = 1 => part'[c][p] = 1
  PROVE  Progress(g)'
<1> DEFINE left == call[g].left
           kind == call[g].kind
           c == Target(g)
<1>0. CallTypeInv
  BY DEF TypeInv
<1>1. /\ c \in Clients /\ Wanted(g) = Head(left) /\ Wanted(g) \in Parts
      /\ Target(g)' = c /\ call'[g].kind = kind /\ call'[g].event = call[g].event
  BY <1>0, ProceedFields DEF Target, Wanted
<1>2. left \in Seq(Parts) /\ left # <<>>
  <2>1. call[g] \in CallStates /\ left # <<>>
    BY <1>0 DEF CallTypeInv
  <2> QED
    BY <2>1 DEF CallStates
<1>3. Head(left) = left[1]
  BY <1>2
<1>4. pc[g] \in Calling /\ Used(kind) \in {"tx", "builder"} /\ {"tx", "builder"} \subseteq Parts
  BY UsedPart DEF Calling
<1>5. kind \in {"Send", "SampledOut", "Dispatch"} =>
        call[g].event \in Literals \/ part'[c].tx = 1
  BY <1>1, <1>4 DEF Progress
<1>6. kind \notin {"Close", "Send"} => left[Len(left)] = Used(kind)
  BY DEF Progress
<1>7. Used(kind) = "builder" => Head(left) = "tx" \/ part'[c].tx = 1
  BY <1>1, <1>4 DEF Progress
<1>8. CASE pc'[g] = "peek"
  <2>1. kind \in {"Close", "Send"}
    BY <1>0, <1>8, ProceedFields
  <2> QED
    BY <1>1, <1>5, <1>8, <2>1 DEF Progress, Ensuring
<1>9. CASE pc'[g] = "use"
  <2>1. kind \notin {"Close", "Send"} /\ left[Len(left)] = Wanted(g)
    BY <1>0, <1>9, ProceedFields
  <2>2. Wanted(g) = Used(kind)
    BY <1>6, <2>1
  <2>3. part'[c].tx = 1
    BY <1>1, <1>4, <1>7, <2>2
  <2> QED
    BY <1>1, <1>5, <1>9, <2>1, <2>2, <2>3 DEF Progress, Ensuring
<1>10. CASE pc'[g] = "ensure"
  <2>1. call'[g].left[Len(call'[g].left)] = left[Len(left)]
    BY <1>0, <1>10, ProceedFields
  <2>2. Used(kind) = "builder" => part'[c].tx = 1
    BY <1>1, <1>7
  <2> QED
    BY <1>1, <1>5, <1>6, <1>10, <2>1, <2>2 DEF Progress, Ensuring
<1>11. pc'[g] \in {"ensure", "peek", "use"}
  BY <1>0, ProceedFields
<1> QED
  BY <1>8, <1>9, <1>10, <1>11

\* A call begins with everything to ensure.
LEMMA ProgressBegins ==
  ASSUME CallTypeInv, NEW g \in Goroutines, NEW kind \in Kinds, NEW c \in Clients,
         NEW e \in Events \cup {NoClient}, Begin(g, kind, c, e),
         kind \in {"Send", "SampledOut", "Dispatch"} => e \in Literals \/ part'[c].tx = 1
  PROVE  Progress(g)'
<1>1. /\ pc'[g] = "ensure" /\ call'[g].kind = kind /\ Target(g)' = c
      /\ call'[g].event = e /\ call'[g].left = Ensured[kind]
  BY BeginFields DEF Target
<1>2. /\ kind \notin {"Close", "Send"} => Ensured[kind][Len(Ensured[kind])] = Used(kind)
      /\ Used(kind) = "builder" => Head(Ensured[kind]) = "tx"
  BY EnsuredParts
<1> QED
  BY <1>1, <1>2 DEF Progress

LEMMA ProgressReturns ==
  ASSUME CallTypeInv, NEW g \in Goroutines, Return(g)
  PROVE  Progress(g)'
<1>1. pc'[g] = "idle"
  BY ReturnFields
<1> QED
  BY <1>1 DEF Progress, Ensuring, Calling

LEMMA ProgressPanics ==
  ASSUME CallTypeInv, NEW g \in Goroutines, NEW c \in Clients \cup {NoClient},
         NEW e \in Events \cup {NoClient}, Panic(g, c, e), UNCHANGED dc,
         e \in Literals \/ (c = NoClient /\ dc = NoClient)
  PROVE  Progress(g)'
<1>1. /\ pc'[g] = "panic" /\ program' = "panicked" /\ Target(g)' = c /\ call'[g].event = e
  BY PanicFields DEF Target
<1> QED
  BY <1>1 DEF Progress, Ensuring, Calling

LEMMA ProgressNext ==
  TypeInv /\ OnceInv /\ MakingInv /\ ProgressInv /\ OwnerInv /\ [Next]_vars => ProgressInv'
<1> SUFFICES ASSUME TypeInv, OnceInv, MakingInv, ProgressInv, OwnerInv, [Next]_vars
             PROVE  ProgressInv'
  OBVIOUS
<1>0. /\ CallTypeInv /\ OnceInv' /\ dc \in made \cup {NoClient} /\ made \subseteq Clients
      /\ owner \in [Events -> made \cup {NoClient}]
      /\ \A g \in Goroutines : call[g].event \in Events \cup {NoClient}
      /\ \A g \in Goroutines : pc[g] \in Calling => Target(g) \in made
      /\ \A g \in Goroutines : Progress(g)
  BY OnceNext DEF TypeInv, VarTypeInv, CallTypeInv, CallStates, ProgressInv, Target
<1>p. \A c \in Clients, p \in Parts : /\ part[c][p] = 1 => part'[c][p] = 1
                                      /\ once[c][p] = "done" => once'[c][p] = "done"
  BY PartsStay
<1>t. \A g \in Goroutines :
         pc[g] \in Calling /\ part[Target(g)].tx # 0 => part[Target(g)].tx = 1
  BY <1>0, UsedPart DEF OnceInv
<1>1. ASSUME NEW g \in Goroutines, Running, Progress(g)',
             \A h \in Goroutines : h # g => pc'[h] = pc[h] /\ call'[h] = call[h]
      PROVE  ProgressInv'
  BY <1>0, <1>1, <1>p, ProgressSame DEF ProgressInv
<1>2. CASE Running /\ InitPackage
  <2>1. UNCHANGED <<pc, call>>
    BY <1>2, InitFields
  <2> QED
    BY <1>0, <1>2, <1>p, <2>1, ProgressSame DEF ProgressInv
<1>3. ASSUME NEW g \in Goroutines, Running, EnsureFirst(g) PROVE ProgressInv'
  <2>1. /\ UNCHANGED <<call, part>> /\ pc[g] = "ensure" /\ pc'[g] = "make"
        /\ \A h \in Goroutines : h # g => pc'[h] = pc[h]
    BY <1>3, EnsureFields
  <2>2. Progress(g)'
    BY <1>0, <2>1 DEF Progress, Ensuring, Calling, Target
  <2> QED
    BY <1>1, <1>3, <2>1, <2>2
<1>4. ASSUME NEW g \in Goroutines, Running, Make(g) PROVE ProgressInv'
  <2>1. CASE Proceed(g)
    <3>1. /\ pc[g] \in Ensuring /\ Target(g) \in Clients /\ Wanted(g) \in Parts
          /\ \A h \in Goroutines : h # g => pc'[h] = pc[h] /\ call'[h] = call[h]
      BY <1>0, <1>4, <2>1, MakeFields, ProceedFields DEF Ensuring
    <3>2. pc'[g] # "start"
      BY <1>0, <2>1, <3>1, ProceedFields
    <3>3. once'[Target(g)][Wanted(g)] = "done"
      BY <1>4, <3>2, MakeFields
    <3>4. part'[Target(g)][Wanted(g)] = 1
      BY <1>0, <3>1, <3>3 DEF OnceInv
    <3> QED
      BY <1>0, <1>1, <1>4, <1>p, <2>1, <3>1, <3>3, <3>4, ProgressProceeds
  <2>2. CASE ~Proceed(g)
    <3>1. /\ pc[g] = "make" /\ pc'[g] = "start" /\ call' = call /\ Target(g) \in Clients
          /\ \A h \in Goroutines : h # g => pc'[h] = pc[h]
      BY <1>4, <2>2, MakeFields
    <3>2. Progress(g)'
      BY <1>0, <1>p, <3>1, UsedPart DEF Progress, Ensuring, Calling, Target
    <3> QED
      BY <1>1, <1>4, <3>1, <3>2
  <2> QED
    BY <2>1, <2>2
<1>5. ASSUME NEW g \in Goroutines, Running, Start(g) PROVE ProgressInv'
  <2>1. /\ pc[g] \in Ensuring /\ Proceed(g) /\ Target(g) \in Clients /\ Wanted(g) = "tx"
        /\ once'[Target(g)].tx = "done"
    BY <1>5, StartFields DEF Ensuring, MakingInv
  <2>2. part'[Target(g)][Wanted(g)] = 1
    BY <1>0, <2>1, UsedPart DEF OnceInv
  <2>3. \A h \in Goroutines : h # g => pc'[h] = pc[h] /\ call'[h] = call[h]
    BY <1>0, <2>1, ProceedFields
  <2> QED
    BY <1>0, <1>1, <1>5, <1>p, <2>1, <2>2, <2>3, ProgressProceeds
<1>6. ASSUME NEW g \in Goroutines, Running, Quiet(g) PROVE ProgressInv'
  <2>1. /\ UNCHANGED <<part, started, once>>
        /\ \A h \in Goroutines : h # g => pc'[h] = pc[h] /\ call'[h] = call[h]
    BY <1>6, QuietParts, QuietCall
  <2>2. CASE CallClient(g)
    <3>1. UNCHANGED dc
      BY <2>2 DEF CallClient, clients
    <3>2. CASE dc = NoClient
      BY <1>0, <2>2, <3>1, <3>2, ProgressPanics, <1>1, <1>6, <2>1 DEF CallClient
    <3>3. CASE dc # NoClient
      <4>1. dc \in Clients
        BY <1>0, <3>3
      <4>2. PICK kind \in {"AddField", "TxResponses", "Close", "NewEvent"},
                 e \in Events \cup {NoClient} : Begin(g, kind, dc, e)
        BY <2>2, <3>3 DEF CallClient
      <4>3. kind \in Kinds /\ kind \notin {"Send", "SampledOut", "Dispatch"}
        BY EnsuredParts
      <4>4. Progress(g)'
        BY <1>0, <4>1, <4>2, <4>3, ProgressBegins
      <4> QED
        BY <1>1, <1>6, <2>1, <4>4
    <3> QED
      BY <3>2, <3>3
  <2>3. CASE EnsureDone(g)
    <3>1. /\ pc[g] \in Ensuring /\ Proceed(g) /\ once[Target(g)][Wanted(g)] = "done"
      BY <2>3 DEF EnsureDone, Ensuring
    <3>2. Target(g) \in Clients /\ Wanted(g) \in Parts
      BY <1>0, <3>1, ProceedFields
    <3>3. part[Target(g)][Wanted(g)] = 1
      BY <3>1, <3>2 DEF OnceInv
    <3>4. Progress(g)'
      BY <1>0, <1>p, <2>1, <3>1, <3>3, ProgressProceeds
    <3> QED
      BY <1>1, <1>6, <2>1, <3>4
  <2>4. CASE PeekClose(g)
    <3>1. CASE Return(g)
      BY <1>0, <1>1, <1>6, <2>1, <3>1, ProgressReturns
    <3>2. CASE ~Return(g)
      <4>1. /\ part[Target(g)].tx # 0 /\ pc' = [pc EXCEPT ![g] = "use"] /\ call' = call
            /\ pc[g] = "peek" /\ call[g].kind = "Close"
        BY <2>4, <3>2 DEF PeekClose
      <4>2. pc'[g] = "use" /\ Target(g)' = Target(g)
        BY <1>0, <4>1 DEF CallTypeInv, Target
      <4>3. part[Target(g)].tx = 1
        BY <1>t, <4>1 DEF Calling
      <4>4. Used("Close") = "tx"
        BY DEF Used
      <4>5. Progress(g)'
        BY <2>1, <4>1, <4>2, <4>3, <4>4 DEF Progress, Ensuring
      <4> QED
        BY <1>1, <1>6, <2>1, <4>5
    <3> QED
      BY <3>1, <3>2
  <2>5. CASE PeekSend(g)
    <3>1. /\ pc[g] = "peek" /\ call[g].kind = "Send" /\ UNCHANGED dc /\ pc[g] \in Calling
      BY <2>5 DEF PeekSend, clients, Calling
    <3>2. /\ Target(g) \in Clients /\ "Dispatch" \in Kinds
          /\ call[g].event \in Literals \/ part[Target(g)].tx = 1
      BY <1>0, <3>1, EnsuredParts DEF Progress
    <3>3. CASE Return(g)
      BY <1>0, <1>1, <1>6, <2>1, <3>3, ProgressReturns
    <3>4. CASE Begin(g, "Dispatch", Target(g), call[g].event)
      BY <1>0, <1>1, <1>6, <2>1, <3>2, <3>4, ProgressBegins
    <3>5. CASE Panic(g, Target(g), call[g].event) /\ part[Target(g)].tx = 0
      BY <1>0, <1>1, <1>6, <2>1, <3>1, <3>2, <3>5, ProgressPanics
    <3> QED
      BY <2>5, <3>3, <3>4, <3>5 DEF PeekSend
  <2>6. CASE Use(g)
    <3>1. part[Target(g)][Used(call[g].kind)] = 1
      BY <1>0, <2>6 DEF Use, Progress
    <3>2. Return(g)
      BY <2>6, <3>1 DEF Use
    <3> QED
      BY <1>0, <1>1, <1>6, <2>1, <3>2, ProgressReturns
  <2>7. ASSUME NEW e \in Events, CallSend(g, e) PROVE ProgressInv'
    <3>1. \A k \in {"Send", "SampledOut"} : k \in Kinds
      BY EnsuredParts
    <3>2. CASE owner[e] = NoClient
      <4>1. PICK c \in Clients, k \in {"Send", "SampledOut"} :
               Begin(g, k, c, e) /\ e \in Literals
        BY <2>7, <3>2 DEF CallSend
      <4>2. Progress(g)'
        BY <1>0, <3>1, <4>1, ProgressBegins
      <4> QED
        BY <1>1, <1>6, <2>1, <4>2
    <3>3. CASE owner[e] # NoClient
      <4>1. PICK k \in {"Send", "SampledOut"} : Begin(g, k, owner[e], e)
        BY <2>7, <3>3 DEF CallSend
      <4>2. owner[e] \in Clients /\ (e \in Literals \/ part'[owner[e]].tx = 1)
        BY <1>0, <2>1, <3>3 DEF OwnerInv
      <4>3. Progress(g)'
        BY <1>0, <3>1, <4>1, <4>2, ProgressBegins
      <4> QED
        BY <1>1, <1>6, <2>1, <4>3
    <3> QED
      BY <3>2, <3>3
  <2>8. ASSUME NEW e \in Events, AddToEvent(g, e) PROVE ProgressInv'
    <3>1. CASE UNCHANGED <<pc, call, program>>
      BY <1>0, <1>6, <1>p, <3>1, ProgressSame DEF ProgressInv
    <3>2. CASE Panic(g, NoClient, e) /\ e \in Literals
      <4>1. UNCHANGED dc
        BY <2>8 DEF AddToEvent, clients
      <4> QED
        BY <1>0, <1>1, <1>6, <2>1, <3>2, <4>1, ProgressPanics
    <3> QED
      BY <2>8, <3>1, <3>2 DEF AddToEvent
  <2> QED
    BY <1>6, <2>2, <2>3, <2>4, <2>5, <2>6, <2>7, <2>8 DEF Quiet
<1>7. CASE UNCHANGED vars
  BY <1>0, <1>7 DEF vars, clients, ProgressInv, Progress, Target, Used
<1> QED
  BY <1>2, <1>3, <1>4, <1>5, <1>6, <1>7, Steps

LEMMA OwnerInit == Init => OwnerInv /\ AddedInv
<1> QED
  BY DEF Init, OwnerInv, AddedInv

LEMMA OwnerNext ==
  TypeInv /\ OnceInv /\ ProgressInv /\ OwnerInv /\ [Next]_vars => OwnerInv'
<1> SUFFICES ASSUME TypeInv, OnceInv, ProgressInv, OwnerInv, [Next]_vars PROVE OwnerInv'
  OBVIOUS
<1>0. /\ owner \in [Events -> made \cup {NoClient}] /\ made \subseteq Clients
      /\ \A c \in Clients : part[c].tx = 1 => part'[c].tx = 1
  BY PartsStay, UsedPart DEF TypeInv, VarTypeInv
<1>1. ASSUME UNCHANGED owner PROVE OwnerInv'
  BY <1>0, <1>1 DEF OwnerInv
<1>2. CASE UNCHANGED vars \/ InitPackage
  BY <1>1, <1>2, InitFields DEF vars, events
<1>3. ASSUME NEW g \in Goroutines, EnsureFirst(g) PROVE OwnerInv'
  BY <1>1, <1>3, EnsureFields
<1>4. ASSUME NEW g \in Goroutines, Make(g) PROVE OwnerInv'
  BY <1>1, <1>4, MakeFields
<1>5. ASSUME NEW g \in Goroutines, Start(g) PROVE OwnerInv'
  BY <1>1, <1>5, StartFields
<1>6. ASSUME NEW g \in Goroutines, Quiet(g) PROVE OwnerInv'
  <2>1. CASE CallClient(g) \/ EnsureDone(g) \/ PeekClose(g) \/ PeekSend(g)
    BY <1>1, <2>1 DEF CallClient, EnsureDone, PeekClose, PeekSend, events
  <2>2. ASSUME NEW e \in Events, AddToEvent(g, e) PROVE OwnerInv'
    BY <1>1, <2>2 DEF AddToEvent
  <2>3. ASSUME NEW e \in Events, CallSend(g, e) PROVE OwnerInv'
    <3>1. \A o \in Events \ Literals : owner'[o] = owner[o]
      BY <1>0, <2>3 DEF CallSend
    <3> QED
      BY <1>0, <3>1 DEF OwnerInv
  <2>4. CASE Use(g)
    <3>1. /\ part[Target(g)].tx = 1 /\ Target(g) \in Clients
      BY <2>4 DEF ProgressInv, Progress, Use, TypeInv, CallTypeInv, VarTypeInv, Calling, Target
    <3>2. \A o \in Events : owner'[o] = owner[o] \/ owner'[o] = Target(g)
      BY <1>0, <2>4 DEF Use, events
    <3> QED
      BY <1>0, <3>1, <3>2 DEF OwnerInv
  <2> QED
    BY <1>6, <2>1, <2>2, <2>3, <2>4 DEF Quiet
<1> QED
  BY <1>2, <1>3, <1>4, <1>5, <1>6, Steps

LEMMA AddedNext ==
  TypeInv /\ OnceInv /\ ProgressInv /\ AddedInv /\ [Next]_vars => AddedInv'
<1> SUFFICES ASSUME TypeInv, OnceInv, ProgressInv, AddedInv, [Next]_vars PROVE AddedInv'
  OBVIOUS
<1>0. /\ fields \in [Clients -> SUBSET Goroutines] /\ added \in [Clients -> SUBSET Goroutines]
      /\ reached \in [Clients -> SUBSET Nat]
      /\ \A c \in Clients : part[c].builder = 1 => part'[c].builder = 1
  BY PartsStay, UsedPart DEF TypeInv, VarTypeInv
<1>1. ASSUME UNCHANGED <<fields, added, reached>> PROVE AddedInv'
  BY <1>0, <1>1 DEF AddedInv
<1>2. CASE UNCHANGED vars
  BY <1>1, <1>2 DEF vars, clients, history
<1>3. CASE InitPackage
  BY <1>1, <1>3, InitFields
<1>4. ASSUME NEW g \in Goroutines, EnsureFirst(g) PROVE AddedInv'
  BY <1>1, <1>4, EnsureFields
<1>5. ASSUME NEW g \in Goroutines, Make(g) PROVE AddedInv'
  <2>1. /\ UNCHANGED <<added, reached>>
        /\ \A d \in Clients : \/ fields'[d] = fields[d]
                              \/ part[d].builder = 0
    BY <1>5, MakeFields
  <2>2. \A d \in Clients : part[d].builder = 0 => added[d] = {}
    BY DEF AddedInv
  <2> QED
    BY <1>0, <2>1, <2>2 DEF AddedInv
<1>6. ASSUME NEW g \in Goroutines, Start(g) PROVE AddedInv'
  BY <1>1, <1>6, StartFields
<1>7. ASSUME NEW g \in Goroutines, Quiet(g) PROVE AddedInv'
  <2>1. CASE CallClient(g) \/ EnsureDone(g) \/ PeekClose(g) \/ PeekSend(g)
    BY <1>1, <2>1 DEF CallClient, EnsureDone, PeekClose, PeekSend, clients, history
  <2>2. ASSUME NEW e \in Events, CallSend(g, e) \/ AddToEvent(g, e) PROVE AddedInv'
    BY <1>1, <2>2 DEF CallSend, AddToEvent, clients, history
  <2>3. CASE Use(g)
    <3> DEFINE c == Target(g)
               kind == call[g].kind
    <3>1. c \in Clients /\ part[c][Used(kind)] = 1
      BY <2>3 DEF ProgressInv, Progress, Use, TypeInv, CallTypeInv, VarTypeInv, Calling, Target
    <3>2. /\ \A d \in Clients : d # c => /\ fields'[d] = fields[d] /\ added'[d] = added[d]
                                         /\ reached'[d] = reached[d]
          /\ kind = "AddField" => fields'[c] = fields[c] \cup {g} /\ added'[c] = added[c] \cup {g}
          /\ kind # "AddField" => fields'[c] = fields[c] /\ added'[c] = added[c]
          /\ reached'[c] = IF Used(kind) = "tx" THEN reached[c] \cup {part[c].tx} ELSE reached[c]
      BY <1>0, <2>3, <3>1 DEF Use
    <3>3. reached'[c] \subseteq {1}
      BY <3>1, <3>2 DEF AddedInv
    <3>4. kind = "AddField" => part[c].builder = 1
      BY <3>1 DEF Used
    <3> QED
      BY <1>0, <3>1, <3>2, <3>3, <3>4 DEF AddedInv
  <2> QED
    BY <1>7, <2>1, <2>2, <2>3 DEF Quiet
<1> QED
  BY <1>2, <1>3, <1>4, <1>5, <1>6, <1>7, Steps

-----------------------------------------------------------------------------
PartsInv == TypeInv /\ OnceInv /\ MakingInv /\ ProgressInv /\ OwnerInv /\ AddedInv

LEMMA PartsInvariant == Spec => []PartsInv
<1>1. Init => PartsInv
  BY TypeInit, PartsInit, ProgressInit, OwnerInit DEF PartsInv
<1>2. PartsInv /\ [Next]_vars => PartsInv'
  BY TypeNext, OnceNext, MakingNext, ProgressNext, OwnerNext, AddedNext DEF PartsInv
<1> QED
  BY <1>1, <1>2, PTL DEF Spec

(***************************************************************************)
(* Goroutines whose first calls race (ensureBuilder, ensureTransmission)   *)
(* share one builder, so that no field is lost whose AddField has returned,*)
(* and one transmission, to which all their calls go.                      *)
(***************************************************************************)
THEOREM RacingCallsShare == Spec => []SharedParts
<1>1. ASSUME PartsInv, NEW c \in Clients
      PROVE  added[c] \subseteq fields[c] /\ Cardinality(reached[c]) <= 1
  <2>1. added[c] \subseteq fields[c] /\ (reached[c] = {} \/ reached[c] = {1})
    BY <1>1 DEF PartsInv, AddedInv
  <2>2. Cardinality({}) = 0 /\ Cardinality({1}) = 1
    BY FS_EmptySet, FS_Singleton
  <2> QED
    BY <2>1, <2>2
<1>2. PartsInv => SharedParts
  BY <1>1 DEF SharedParts
<1> QED
  BY <1>2, PartsInvariant, PTL

(***************************************************************************)
(* A call finds the part it uses set and its transmission started, unless  *)
(* it is Close or Flush, and nothing panics but the calls of a nil dc and  *)
(* the uses of an event made as a literal.                                 *)
(***************************************************************************)
THEOREM CallsFindParts == Spec => []ReadyToUse
<1>1. ASSUME PartsInv, NEW g \in Goroutines
      PROVE  /\ pc[g] = "use" =>
                  /\ part[Target(g)][Used(call[g].kind)] # 0
                  /\ Used(call[g].kind) = "tx" /\ call[g].kind # "Close" => Target(g) \in started
             /\ pc[g] = "panic" =>
                  call[g].event \in Literals \/ (call[g].client = NoClient /\ dc = NoClient)
  <2>1. Progress(g) /\ OnceInv
    BY <1>1 DEF PartsInv, ProgressInv
  <2>2. pc[g] = "use" => Target(g) \in Clients
    BY <1>1 DEF PartsInv, TypeInv, CallTypeInv, VarTypeInv, Calling, Target
  <2>3. ASSUME pc[g] = "use", Used(call[g].kind) = "tx", call[g].kind # "Close"
        PROVE  Target(g) \in started
    <3>1. part[Target(g)].tx = 1 /\ once[Target(g)].tx = "done"
      BY <2>1, <2>3 DEF Progress
    <3> QED
      BY <2>1, <2>2, <2>3, <3>1, UsedPart DEF OnceInv
  <2> QED
    BY <2>1, <2>3 DEF Progress, Target
<1>2. PartsInv => ReadyToUse
  BY <1>1 DEF ReadyToUse
<1> QED
  BY <1>2, PartsInvariant, PTL

=============================================================================
