------------------------------ MODULE BatchAgg ------------------------------
(***************************************************************************)
(* One batchAgg of transmission/transmission.go from its first Add to the  *)
(* return of its Fire: the events are collected per destination, encoded   *)
(* into bodies of limited size, posted with one retry, and answered by     *)
(* Responses.  Fire runs in one goroutine and shares nothing but the       *)
(* channel of the responses, which is in module HoneycombTx.               *)
(***************************************************************************)
EXTENDS Integers, Sequences, FiniteSets

CONSTANTS
  Events,
  Nil,                \* what encoding puts in place of an event it rejects
  Dests, Dest,        \* Dest[e]: APIHost, APIKey and Dataset of e
  Size,               \* Size[e]: length of the encoded event
  Bad,                \* the events that Marshal fails on
  BadURL,             \* the destinations that make no request URL
  Encoders,           \* the values that enableMsgpackEncoding may have
  MaxBatchBytes,      \* apiMaxBatchSize
  MaxEventBytes,      \* apiEventSizeMax
  MaxOverflowBatches, \* maxOverflowBatches
  Outcomes            \* what a request may come to, see Attempt

AllOutcomes ==
  {"timeout", "neterr", "retry", "status", "unreadable", "garbled", "ok", "miscounted"}

HeaderSpace == 5  \* room for the longest msgpack array header

ASSUME BatchAggAssumption ==
  /\ Nil \notin Events
  /\ Dest \in [Events -> Dests]
  /\ Size \in [Events -> Nat \ {0}]
  /\ Bad \subseteq Events /\ BadURL \subseteq Dests
  /\ Encoders \subseteq BOOLEAN
  /\ MaxBatchBytes \in Nat /\ MaxEventBytes \in Nat /\ MaxOverflowBatches \in Nat
  /\ MaxEventBytes + HeaderSpace <= MaxBatchBytes
  /\ Outcomes \subseteq AllOutcomes

\* The batch key of a destination, whose three parts are sequences of tokens:
\* fmt.Sprintf("%s_%s_%s", ...).  An underscore in a part is a token like any other.
Joined(d) == d.host \o <<"_">> \o d.key \o <<"_">> \o d.dataset
Keys == {Joined(d) : d \in Dests}

VARIABLES
  msgpack,   \* enableMsgpackEncoding, which does not change
  phase,     \* where Fire is
  batches,   \* b.batches, a key without events being absent
  overflow,  \* b.overflowBatches
  rounds,    \* overflowCount, 0 while the batches themselves are sent
  todo,      \* the keys still to be fired in this round
  evs,       \* the argument of fireBatch, with Nil for rejected events
  next,      \* index in evs of the event to be encoded next
  body,      \* the events encoded so far
  total,     \* bytesTotal of encodeBatchJSON or buf.Len() of encodeBatchMsgp
  try,       \* attempts made to post the body
  posted,    \* posted[e]: the kinds of the Responses enqueued for e
  omitted    \* history: the events that the server's answers left out

vars == <<msgpack, phase, batches, overflow, rounds, todo, evs, next, body, total, try, posted,
          omitted>>

Phases == {"collect", "next", "encode", "encoded", "post", "done"}
\* "failed" is any error that is the same for all events of the batch but "unread",
\* by which the code loses the status that it got.
Kinds == {"invalid", "toolarge", "failed", "unread", "answer", "stray"}

TypeOK ==
  /\ msgpack \in BOOLEAN
  /\ phase \in Phases
  /\ batches \in [Keys -> Seq(Events)] /\ overflow \in [Keys -> Seq(Events)]
  /\ rounds \in Nat
  /\ todo \subseteq Keys
  /\ evs \in Seq(Events \cup {Nil})
  /\ next \in Nat
  /\ body \in Seq(Events)
  /\ total \in Nat
  /\ try \in 0 .. 2
  /\ posted \in [Events -> Seq(Kinds)]
  /\ omitted \subseteq Events

EmptyTotal == IF msgpack THEN HeaderSpace ELSE 1

Init ==
  /\ msgpack \in Encoders
  /\ phase = "collect"
  /\ batches = [k \in Keys |-> <<>>] /\ overflow = [k \in Keys |-> <<>>]
  /\ rounds = 0 /\ todo = {}
  /\ evs = <<>> /\ next = 1 /\ body = <<>> /\ total = EmptyTotal /\ try = 0
  /\ posted = [e \in Events |-> <<>>] /\ omitted = {}

\* A wrong KeyOf: one bucket for everything.
KeyOfConstant(e) == CHOOSE k \in Keys : TRUE

KeyOf(e) == Joined(Dest[e])
Elements(s) == {s[i] : i \in DOMAIN s}
Filled(b) == {k \in Keys : b[k] # <<>>}
Collected == UNION {Elements(batches[k]) : k \in Keys}

\* The events of evs that were not rejected, the first of them, and how many
\* of them there are up to index i.
Live == Elements(evs) \ {Nil}
FirstLive == evs[CHOOSE i \in DOMAIN evs : evs[i] # Nil /\ \A j \in 1 .. i - 1 : evs[j] = Nil]
Rank(i) == Cardinality({j \in 1 .. i : evs[j] # Nil})

-----------------------------------------------------------------------------
\* batchAgg.Add, called by the muster worker.
Add(e) ==
  /\ phase = "collect"
  /\ e \notin Collected
  /\ batches' = [batches EXCEPT ![KeyOf(e)] = Append(@, e)]
  /\ UNCHANGED <<msgpack, phase, overflow, rounds, todo, evs, next, body, total, try, posted, omitted>>

\* Fire begins with the collected batches.
Fire ==
  /\ phase = "collect"
  /\ Collected # {}
  /\ phase' = "next"
  /\ todo' = Filled(batches)
  /\ UNCHANGED <<msgpack, batches, overflow, rounds, evs, next, body, total, try, posted, omitted>>

\* fireBatch(events) for the next key, an overflow batch being deleted first.
FireBatch(k) ==
  /\ phase = "next"
  /\ k \in todo
  /\ todo' = todo \ {k}
  /\ evs' = IF rounds = 0 THEN batches[k] ELSE overflow[k]
  /\ overflow' = IF rounds = 0 THEN overflow ELSE [overflow EXCEPT ![k] = <<>>]
  /\ next' = 1 /\ body' = <<>> /\ total' = EmptyTotal /\ try' = 0
  /\ phase' = "encode"
  /\ UNCHANGED <<msgpack, batches, rounds, posted, omitted>>

\* What has overflown is fired in turn, a limited number of times.
OverflowRound ==
  /\ phase = "next"
  /\ todo = {}
  /\ Filled(overflow) # {}
  /\ rounds <= MaxOverflowBatches
  /\ rounds' = rounds + 1
  /\ todo' = Filled(overflow)
  /\ UNCHANGED <<msgpack, phase, batches, overflow, evs, next, body, total, try, posted, omitted>>

Done ==
  /\ phase = "next"
  /\ todo = {}
  /\ Filled(overflow) = {} \/ rounds > MaxOverflowBatches
  /\ phase' = "done"
  /\ UNCHANGED <<msgpack, batches, overflow, rounds, todo, evs, next, body, total, try, posted, omitted>>

-----------------------------------------------------------------------------
(***************************************************************************)
(* encodeBatchJSON and encodeBatchMsgp.  They differ in what they count:   *)
(* the array's brackets and commas, or the room for its header.            *)
(***************************************************************************)
Encoding == phase = "encode" /\ next <= Len(evs)
Current == evs[next]

\* A wrong Rejected: no limit for a single event.
RejectedIfBad(e) == e \in Bad
Rejected(e) == e \in Bad \/ Size[e] > MaxEventBytes

\* A wrong Overflows: the event itself is not counted.
OverflowsLate(e) == total > MaxBatchBytes
Overflows(e) ==
  total + Size[e] + (IF msgpack THEN 0 ELSE 1) > MaxBatchBytes
Comma == IF msgpack \/ body = <<>> THEN 0 ELSE 1

\* An event that cannot be marshaled, or is too large, is answered and dropped.
Reject ==
  /\ Encoding
  /\ Rejected(Current)
  /\ posted' = [posted EXCEPT ![Current] =
                  Append(@, IF Current \in Bad THEN "invalid" ELSE "toolarge")]
  /\ evs' = [evs EXCEPT ![next] = Nil]
  /\ next' = next + 1
  /\ UNCHANGED <<msgpack, phase, batches, overflow, rounds, todo, body, total, try, omitted>>

Encode ==
  /\ Encoding
  /\ ~Rejected(Current)
  /\ ~Overflows(Current)
  /\ body' = Append(body, Current)
  /\ total' = total + Size[Current] + Comma
  /\ next' = next + 1
  /\ UNCHANGED <<msgpack, phase, batches, overflow, rounds, todo, evs, try, posted, omitted>>

\* A wrong Reenqueue: events[i+1:].
ReenqueueAfter ==
  /\ Encoding
  /\ ~Rejected(Current)
  /\ Overflows(Current)
  /\ overflow' = [overflow EXCEPT ![KeyOf(Current)] = @ \o SubSeq(evs, next + 1, Len(evs))]
  /\ phase' = "encoded"
  /\ UNCHANGED <<msgpack, batches, rounds, todo, evs, next, body, total, try, posted, omitted>>

\* Another: all that is left of events, the encoded ones included.
ReenqueueAll ==
  /\ Encoding
  /\ ~Rejected(Current)
  /\ Overflows(Current)
  /\ overflow' = [overflow EXCEPT ![KeyOf(Current)] = @ \o body \o SubSeq(evs, next, Len(evs))]
  /\ phase' = "encoded"
  /\ UNCHANGED <<msgpack, batches, rounds, todo, evs, next, body, total, try, posted, omitted>>

\* Another: every event is put in front of those before it.
ReenqueueReversed ==
  /\ Encoding
  /\ ~Rejected(Current)
  /\ Overflows(Current)
  /\ overflow' = [overflow EXCEPT ![KeyOf(Current)] =
                    [i \in 1 .. Len(evs) - next + 1 |-> evs[Len(evs) + 1 - i]] \o @]
  /\ phase' = "encoded"
  /\ UNCHANGED <<msgpack, batches, rounds, todo, evs, next, body, total, try, posted, omitted>>

\* reenqueueEvents(events[i:]), and the loop ends.  The events of one batch have
\* one key, so they all go to the same bucket.
Reenqueue ==
  /\ Encoding
  /\ ~Rejected(Current)
  /\ Overflows(Current)
  /\ overflow' = [overflow EXCEPT ![KeyOf(Current)] = @ \o SubSeq(evs, next, Len(evs))]
  /\ phase' = "encoded"
  /\ UNCHANGED <<msgpack, batches, rounds, todo, evs, next, body, total, try, posted, omitted>>

EncodeEnd ==
  /\ phase = "encode"
  /\ next > Len(evs)
  /\ phase' = "encoded"
  /\ UNCHANGED <<msgpack, batches, overflow, rounds, todo, evs, next, body, total, try, posted, omitted>>

\* The length of the request body made of what was encoded.
ArrayHeader(n) == IF n < 16 THEN 1 ELSE IF n < 65536 THEN 3 ELSE 5
BodyLength ==
  IF msgpack THEN total - HeaderSpace + ArrayHeader(Len(body)) ELSE total + 1

-----------------------------------------------------------------------------
\* One Response of this kind for each event not yet rejected.
AnswerAll(kind) ==
  posted' = [e \in Events |->
    IF e \in Live THEN Append(posted[e], kind) ELSE posted[e]]

SameBatch == UNCHANGED <<msgpack, batches, overflow, rounds, todo, evs, next, body, total>>

\* numEncoded = 0: nothing to send.
Skip ==
  /\ phase = "encoded"
  /\ body = <<>>
  /\ phase' = "next"
  /\ SameBatch /\ UNCHANGED <<try, posted, omitted>>

\* A wrong BuildURL: it answers the error and goes on.
BuildURLNoReturn ==
  /\ phase = "encoded"
  /\ body # <<>>
  /\ phase' = "post"
  /\ IF Dest[FirstLive] \in BadURL THEN AnswerAll("failed") ELSE UNCHANGED posted
  /\ SameBatch /\ UNCHANGED <<try, omitted>>

\* buildRequestURL, for the first event not rejected.
BuildURL ==
  /\ phase = "encoded"
  /\ body # <<>>
  /\ IF Dest[FirstLive] \in BadURL
     THEN phase' = "next" /\ AnswerAll("failed")
     ELSE phase' = "post" /\ UNCHANGED posted
  /\ SameBatch /\ UNCHANGED <<try, omitted>>

\* A wrong AnswerEach: it takes the events by index, rejected ones included.
AnswerEachIndex(n) ==
  posted' = [e \in Events |->
    IF \E i \in DOMAIN evs : evs[i] = e /\ i <= n
    THEN LET i == CHOOSE j \in DOMAIN evs : evs[j] = e
         IN  Append(posted[e], IF i <= Len(body) /\ body[i] = e THEN "answer" ELSE "stray")
    ELSE posted[e]]

(***************************************************************************)
(* The r-th response decoded from an OK body goes to the r-th event not    *)
(* rejected.  The server's r-th response is about the r-th event it got.   *)
(***************************************************************************)
AnswerEach(n) ==
  posted' = [e \in Events |->
    IF \E i \in DOMAIN evs : evs[i] = e /\ Rank(i) <= n
    THEN LET r == Rank(CHOOSE i \in DOMAIN evs : evs[i] = e)
         IN  Append(posted[e], IF r <= Len(body) /\ body[r] = e THEN "answer" ELSE "stray")
    ELSE posted[e]]

\* A wrong Attempt: a timeout is retried for ever.
AttemptForever(o) ==
  /\ phase = "post"
  /\ try' = try + 1
  /\ \/ /\ o = "timeout"
        /\ UNCHANGED <<phase, posted>>
     \/ /\ o # "timeout"
        /\ phase' = "next"
        /\ AnswerAll("answer")
  /\ SameBatch /\ UNCHANGED omitted

\* Another: the count of attempts starts over after a timeout of the second.
AttemptStartsOver(o) ==
  /\ phase = "post"
  /\ try < 2
  /\ \/ /\ o = "timeout"
        /\ try' = 1 - try
        /\ UNCHANGED <<phase, posted>>
     \/ /\ o # "timeout"
        /\ try' = try + 1
        /\ phase' = "next"
        /\ AnswerAll("answer")
  /\ SameBatch /\ UNCHANGED omitted

\* Another: an unreadable error body is only logged.
AttemptUnanswered(o) ==
  /\ phase = "post"
  /\ try' = try + 1
  /\ phase' = "next"
  /\ IF o = "unreadable" THEN UNCHANGED posted ELSE AnswerAll("answer")
  /\ SameBatch /\ UNCHANGED omitted

(***************************************************************************)
(* One httpClient.Do and what follows it.  "retry" is a 429 or 503 with a  *)
(* usable Retry-After: its body is closed before the retry, and after the  *)
(* last attempt the code still tries to read it, which fails unless the    *)
(* body is empty.                                                          *)
(***************************************************************************)
Attempt(o) ==
  /\ phase = "post"
  /\ try < 2
  /\ try' = try + 1
  /\ \/ /\ o \in {"timeout", "retry"} /\ try = 0
        /\ UNCHANGED <<phase, posted, omitted>>
     \/ /\ phase' = "next"
        /\ \/ /\ \/ o = "timeout" /\ try = 1 /\ AnswerAll("failed")
                 \/ o = "retry" /\ try = 1 /\ (AnswerAll("failed") \/ AnswerAll("unread"))
                 \/ o = "unreadable" /\ AnswerAll("unread")
                 \/ o \in {"neterr", "status", "garbled"} /\ AnswerAll("failed")
                 \/ o = "ok" /\ AnswerEach(Len(body))
              /\ UNCHANGED omitted
           \/ /\ o = "miscounted"
              /\ \E n \in 0 .. Len(body) + 1 :
                    /\ AnswerEach(n)
                    /\ omitted' = omitted \cup {body[i] : i \in {j \in DOMAIN body : j > n}}
  /\ SameBatch

Terminated == phase = "done" /\ UNCHANGED vars

Step ==
  \/ \E k \in Keys : FireBatch(k)
  \/ OverflowRound \/ Done
  \/ Reject \/ Encode \/ Reenqueue \/ EncodeEnd
  \/ Skip \/ BuildURL
  \/ \E o \in Outcomes : Attempt(o)

Next == (\E e \in Events : Add(e)) \/ Fire \/ Step \/ Terminated

Spec == Init /\ [][Next]_vars

\* A Fire goes on: each request ends, by the HTTP client's timeout at the latest.
FairSpec == Spec /\ WF_vars(Step)

-----------------------------------------------------------------------------
(***************************************************************************)
(* TxResponses "will contain a single Response for each Event added"       *)
(* (sender.go:22): never two of them ...                                   *)
(***************************************************************************)
SingleResponse == \A e \in Events : Len(posted[e]) <= 1

\* ... and one for each event collected, once Fire has returned: what the
\* server's answers left out excepted, whatever else went wrong.
EveryEventAnswered ==
  phase = "done" => \A e \in Collected : posted[e] # <<>> \/ e \in omitted

\* No request and no URL has failed so far, and no server has sent too much.
CleanKinds == {"invalid", "toolarge", "answer"}
Clean == \A e \in Events : Elements(posted[e]) \subseteq CleanKinds

\* The code breaks SingleResponse only behind an overflow (rounds > 0), by what
\* answers events that are not in the body with those that are.
SingleUnlessFailed == Clean \/ rounds = 0 => SingleResponse

\* Under the same condition, an event that was answered, in whatever way, is not
\* posted any more.
NotPostedAfterAnswer == phase = "post" => \A e \in Elements(body) : posted[e] = <<>>
FreshUnlessFailed == Clean \/ rounds = 0 => NotPostedAfterAnswer

(***************************************************************************)
(* The response that the server gave for an event goes to that event,      *)
(* although rejected events leave holes in the batch and overflow cuts it  *)
(* short.  One that is not its own reaches only an event of the part that  *)
(* overflow cut off, from a server that answers more events than it got.   *)
(***************************************************************************)
AnswersOwnEvent ==
  [][\A e \in Events : posted'[e] = Append(posted[e], "stray")
                        => e \in Elements(SubSeq(evs, next, Len(evs)))]_vars

\* All events of a body have one batch key, that of the first event, of which the
\* request takes host, key and dataset: overflow rounds never mix the buckets.
SharedKey ==
  phase = "post" => \A e \in Elements(body) : Joined(Dest[e]) = Joined(Dest[FirstLive])

\* A body is a part of what was collected for one key, in the order of the Adds,
\* and skips none but rejected events.
SentInOrder ==
  phase = "post" =>
    \E k \in Keys : \E i, j \in DOMAIN batches[k] :
      body = SelectSeq(SubSeq(batches[k], i, j), LAMBDA e : ~Rejected(e))

(***************************************************************************)
(* apiMaxBatchSize, the "size limit for a serialized request body"         *)
(* (transmission.go:33), limits the body, except that the comma before an  *)
(* event in a JSON array is counted only after the limit was checked.      *)
(***************************************************************************)
BodyBound ==
  phase = "post" => BodyLength <= MaxBatchBytes + (IF msgpack THEN 0 ELSE 1)

\* Overflow happens only behind an event that fits, so a round that overflows
\* has sent something and re-enqueues fewer events than it was given.
OverflowProgress ==
  phase = "encoded" /\ next <= Len(evs) => body # <<>>

\* Fire returns.
FireReturns == phase # "collect" ~> phase = "done"

-----------------------------------------------------------------------------
(***************************************************************************)
(* transmission.go:291: the events are collected "based on the trio of     *)
(* api/wk/ds / if all three of those match it's safe to send all the       *)
(* events in one batch", so an event of a batch has the trio of the first, *)
(* which is the request's.  Keys that are joined without quoting can be    *)
(* equal where the trios are not.                                          *)
(***************************************************************************)
OwnDestination ==
  phase = "post" => \A e \in Elements(body) : Dest[e] = Dest[FirstLive]

(***************************************************************************)
(* response.go:22: "StatusCode contains the HTTP Status Code returned by   *)
(* the Honeycomb API server", here where every error body arrives whole.   *)
(* The code loses the status of a second 429 or 503.                       *)
(***************************************************************************)
StatusReported == \A e \in Events : "unread" \notin Elements(posted[e])

=============================================================================
