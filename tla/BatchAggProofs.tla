--------------------------- MODULE BatchAggProofs ---------------------------
(***************************************************************************)
(* What is proved of BatchAgg, for any events, sizes, limits and servers.  *)
(***************************************************************************)
EXTENDS BatchAgg, FiniteSetTheorems, SequenceTheorems, WellFoundedInduction, TLAPS

(***************************************************************************)
(* Types.  The events that fireBatch has not looked at yet are all there:  *)
(* only then is what it re-enqueues a sequence of events.                  *)
(***************************************************************************)
Unseen == \A i \in DOMAIN evs : i >= next => evs[i] \in Events

TypeInv == TypeOK /\ next >= 1 /\ (phase = "encode" => Unseen)

LEMMA TypeInit == Init => TypeInv
<1> QED
  BY BatchAggAssumption
     DEF Init, TypeInv, TypeOK, Phases, EmptyTotal, HeaderSpace

\* The responses for all events of a batch are of one kind, and a server's
\* answers of two.
LEMMA AnswerTypes ==
  ASSUME TypeOK,
         (\E k \in Kinds : AnswerAll(k)) \/ (\E n \in Nat : AnswerEach(n))
  PROVE  posted' \in [Events -> Seq(Kinds)]
<1>1. ASSUME NEW k \in Kinds, AnswerAll(k) PROVE posted' \in [Events -> Seq(Kinds)]
  BY <1>1 DEF AnswerAll, TypeOK
<1>2. ASSUME NEW n \in Nat, AnswerEach(n) PROVE posted' \in [Events -> Seq(Kinds)]
  BY <1>2 DEF AnswerEach, TypeOK, Kinds
<1> QED
  BY <1>1, <1>2

\* The index that an encoding step looks at.
LEMMA CurrentEvent ==
  ASSUME TypeInv, Encoding
  PROVE  next \in DOMAIN evs /\ Current \in Events /\ Size[Current] \in Nat \ {0}
         /\ KeyOf(Current) \in Keys
<1>1. next \in DOMAIN evs
  BY DEF TypeInv, TypeOK, Encoding
<1>2. Current \in Events
  BY <1>1 DEF TypeInv, TypeOK, Encoding, Unseen, Current
<1> QED
  BY <1>1, <1>2, BatchAggAssumption DEF KeyOf, Keys

\* The separator that Encode counts is no more than the one it checked for.
LEMMA CommaCounted ==
  Comma \in {0, 1} /\ Comma <= (IF msgpack THEN 0 ELSE 1)
<1>1. CASE msgpack
  BY <1>1 DEF Comma
<1>2. CASE ~msgpack
  BY <1>2 DEF Comma
<1> QED
  BY <1>1, <1>2

LEMMA EncodedTotal ==
  ASSUME TypeInv, Encode
  PROVE  total' \in Nat /\ total' <= MaxBatchBytes
<1> DEFINE separator == IF msgpack THEN 0 ELSE 1
<1>1. total \in Nat /\ MaxBatchBytes \in Nat /\ Size[Current] \in Nat
  BY CurrentEvent, BatchAggAssumption DEF Encode, TypeInv, TypeOK
<1>2. separator \in Nat /\ Comma \in Nat /\ Comma <= separator
  BY CommaCounted
<1>3. total' = total + Size[Current] + Comma
  BY DEF Encode
<1>4. ~(total + Size[Current] + separator > MaxBatchBytes)
  BY DEF Encode, Overflows
<1> HIDE DEF separator
<1> QED
  BY <1>1, <1>2, <1>3, <1>4

LEMMA TypeNext == TypeInv /\ [Next]_vars => TypeInv'
<1> SUFFICES ASSUME TypeInv, [Next]_vars PROVE TypeInv'
  OBVIOUS
<1> USE BatchAggAssumption DEF TypeInv, TypeOK, Phases
<1>1. ASSUME NEW e \in Events, Add(e) PROVE TypeInv'
  <2>1. KeyOf(e) \in Keys
    BY DEF KeyOf, Keys
  <2>2. batches' \in [Keys -> Seq(Events)]
    BY <1>1, <2>1 DEF Add
  <2> QED
    BY <1>1, <2>2 DEF Add, Unseen
<1>2. CASE Fire
  BY <1>2 DEF Fire, Filled, Unseen
<1>3. ASSUME NEW k \in Keys, FireBatch(k) PROVE TypeInv'
  <2>1. evs' \in Seq(Events) /\ overflow' \in [Keys -> Seq(Events)]
    BY <1>3 DEF FireBatch
  <2>2. evs' \in Seq(Events \cup {Nil}) /\ \A i \in DOMAIN evs' : evs'[i] \in Events
    BY <2>1
  <2>3. total' \in Nat
    BY <1>3 DEF FireBatch, EmptyTotal, HeaderSpace
  <2> QED
    BY <1>3, <2>1, <2>2, <2>3 DEF FireBatch, Unseen
<1>4. CASE OverflowRound
  BY <1>4 DEF OverflowRound, Filled, Unseen
<1>5. CASE Done
  BY <1>5 DEF Done, Unseen
<1>6. CASE Reject
  <2>1. next \in DOMAIN evs /\ Current \in Events
    BY <1>6, CurrentEvent DEF Reject
  <2>2. posted' \in [Events -> Seq(Kinds)]
    BY <1>6, <2>1 DEF Reject, Kinds
  <2>3. evs' \in Seq(Events \cup {Nil})
        /\ \A i \in DOMAIN evs' : i >= next + 1 => evs'[i] \in Events
    BY <1>6, <2>1 DEF Reject, Encoding, Unseen
  <2> QED
    BY <1>6, <2>2, <2>3 DEF Reject, Unseen
<1>7. CASE Encode
  <2>1. next \in DOMAIN evs /\ Current \in Events /\ Size[Current] \in Nat
    BY <1>7, CurrentEvent DEF Encode
  <2>2. body' \in Seq(Events)
    BY <1>7, <2>1 DEF Encode
  <2>3. total' \in Nat
    BY <1>7, EncodedTotal
  <2> QED
    BY <1>7, <2>2, <2>3 DEF Encode, Encoding, Unseen
<1>8. CASE Reenqueue
  <2>1. next \in DOMAIN evs /\ KeyOf(Current) \in Keys
    BY <1>8, CurrentEvent DEF Reenqueue
  <2>2. SubSeq(evs, next, Len(evs)) \in Seq(Events)
    BY <1>8, <2>1 DEF Reenqueue, Encoding, Unseen
  <2>3. overflow' \in [Keys -> Seq(Events)]
    BY <1>8, <2>1, <2>2 DEF Reenqueue
  <2> QED
    BY <1>8, <2>3 DEF Reenqueue, Unseen
<1>9. CASE EncodeEnd
  BY <1>9 DEF EncodeEnd, Unseen
<1>10. CASE Skip
  BY <1>10 DEF Skip, SameBatch, Unseen
<1>11. CASE BuildURL
  <2>1. posted' \in [Events -> Seq(Kinds)]
    BY <1>11, AnswerTypes DEF BuildURL, Kinds
  <2> QED
    BY <1>11, <2>1 DEF BuildURL, SameBatch
<1>12. ASSUME NEW o \in Outcomes, Attempt(o) PROVE TypeInv'
  <2>1. posted' \in [Events -> Seq(Kinds)]
    BY <1>12, AnswerTypes DEF Attempt, Kinds
  <2>2. phase' \in {"post", "next"} /\ try' \in 0 .. 2
    BY <1>12 DEF Attempt
  <2> QED
    BY <1>12, <2>1, <2>2 DEF Attempt, SameBatch
<1>13. CASE UNCHANGED vars
  BY <1>13 DEF vars, Unseen
<1> QED
  BY <1>1, <1>2, <1>3, <1>4, <1>5, <1>6, <1>7, <1>8, <1>9, <1>10, <1>11, <1>12, <1>13
     DEF Next, Step, Terminated

LEMMA TypeInvariant == Spec => []TypeInv
<1> QED
  BY TypeInit, TypeNext, PTL DEF Spec

\* Type correctness of a Fire's state.
THEOREM TypeCorrect == Spec => []TypeOK
<1>1. TypeInv => TypeOK
  BY DEF TypeInv
<1> QED
  BY <1>1, TypeInvariant, PTL

-----------------------------------------------------------------------------
(***************************************************************************)
(* Sizes: what an encoder counts never exceeds apiMaxBatchSize, and is     *)
(* back at its initial value when nothing was encoded.                     *)
(***************************************************************************)
SizeInv ==
  /\ total <= MaxBatchBytes
  /\ body = <<>> => total = EmptyTotal
  /\ phase = "encoded" /\ next <= Len(evs) => body # <<>>

LEMMA AppendNotEmpty ==
  ASSUME NEW S, NEW s \in Seq(S), NEW e \in S
  PROVE  Append(s, e) # <<>>
<1>1. Append(s, e)[Len(s) + 1] = e /\ Len(Append(s, e)) = Len(s) + 1
  OBVIOUS
<1>2. Len(s) \in Nat /\ Len(s) + 1 # 0
  OBVIOUS
<1>3. Len(<<>>) = 0
  OBVIOUS
<1> QED
  BY <1>1, <1>2, <1>3

LEMMA SizeInit == Init => SizeInv
<1> QED
  BY BatchAggAssumption DEF Init, SizeInv, EmptyTotal, HeaderSpace

LEMMA SizeNext == TypeInv /\ SizeInv /\ [Next]_vars => SizeInv'
<1> SUFFICES ASSUME TypeInv, SizeInv, [Next]_vars PROVE SizeInv'
  OBVIOUS
<1> USE BatchAggAssumption DEF SizeInv, TypeInv, TypeOK
<1>1. ASSUME UNCHANGED <<msgpack, evs, next, body, total>>, phase' # "encoded"
      PROVE  SizeInv'
  BY <1>1 DEF EmptyTotal
<1>2. ASSUME NEW k \in Keys, FireBatch(k) PROVE SizeInv'
  BY <1>2 DEF FireBatch, EmptyTotal, HeaderSpace
<1>3. CASE Reject
  BY <1>3 DEF Reject, Encoding, EmptyTotal
<1>4. CASE Encode
  <2>1. Current \in Events
    BY <1>4, CurrentEvent DEF Encode
  <2>2. total' <= MaxBatchBytes
    BY <1>4, EncodedTotal
  <2>3. body' # <<>>
    <3>1. body \in Seq(Events)
      OBVIOUS
    <3>2. body' = Append(body, Current)
      BY <1>4 DEF Encode
    <3> QED
      BY <2>1, <3>1, <3>2, AppendNotEmpty
  <2>4. phase' = "encode"
    BY <1>4 DEF Encode, Encoding
  <2> QED
    BY <2>2, <2>3, <2>4
<1>5. CASE Reenqueue
  <2>1. Current \in Events /\ Size[Current] \in Nat /\ Size[Current] <= MaxEventBytes
    BY <1>5, CurrentEvent DEF Reenqueue, Rejected
  <2>2. total + Size[Current] + (IF msgpack THEN 0 ELSE 1) > MaxBatchBytes
    BY <1>5, <2>1 DEF Reenqueue, Overflows
  <2>3. body # <<>>
    BY <2>1, <2>2 DEF EmptyTotal, HeaderSpace
  <2> QED
    BY <1>5, <2>3 DEF Reenqueue, EmptyTotal
<1>6. CASE EncodeEnd
  BY <1>6 DEF EncodeEnd, EmptyTotal
<1>7. ASSUME NEW e \in Events, Add(e) PROVE SizeInv'
  BY <1>1, <1>7 DEF Add
<1>8. CASE Fire \/ OverflowRound \/ Done
  BY <1>1, <1>8 DEF Fire, OverflowRound, Done
<1>9. CASE Skip \/ BuildURL
  BY <1>1, <1>9 DEF Skip, BuildURL, SameBatch
<1>10. ASSUME NEW o \in Outcomes, Attempt(o) PROVE SizeInv'
  BY <1>1, <1>10 DEF Attempt, SameBatch
<1>11. CASE UNCHANGED vars
  BY <1>11 DEF vars, EmptyTotal
<1> QED
  BY <1>2, <1>3, <1>4, <1>5, <1>6, <1>7, <1>8, <1>9, <1>10, <1>11
     DEF Next, Step, Terminated

LEMMA SizeInvariant == Spec => []SizeInv
<1> QED
  BY SizeInit, SizeNext, TypeInvariant, PTL DEF Spec

(***************************************************************************)
(* A request body has at most apiMaxBatchSize bytes, or one more in JSON,  *)
(* whatever the sizes of the events.                                       *)
(***************************************************************************)
THEOREM BodyBounded == Spec => []BodyBound
<1>1. TypeInv /\ SizeInv => BodyBound
  <2> SUFFICES ASSUME TypeInv, SizeInv PROVE BodyBound
    OBVIOUS
  <2>1. total \in Nat /\ total <= MaxBatchBytes
    BY DEF TypeInv, TypeOK, SizeInv
  <2>2. ArrayHeader(Len(body)) <= HeaderSpace /\ ArrayHeader(Len(body)) \in Nat
    BY DEF ArrayHeader, HeaderSpace
  <2> QED
    BY <2>1, <2>2, BatchAggAssumption DEF BodyBound, BodyLength, HeaderSpace
<1> QED
  BY <1>1, TypeInvariant, SizeInvariant, PTL

(***************************************************************************)
(* As long as the largest event fits in a body on its own, the encoders    *)
(* never overflow on the first event: overflow rounds make progress.       *)
(***************************************************************************)
THEOREM OverflowProgresses == Spec => []OverflowProgress
<1>1. SizeInv => OverflowProgress
  BY DEF SizeInv, OverflowProgress
<1> QED
  BY <1>1, SizeInvariant, PTL

-----------------------------------------------------------------------------
(***************************************************************************)
(* Destinations: a bucket holds the events of its key, a Fire takes them   *)
(* from one bucket, and what it encoded is among what it took.             *)
(***************************************************************************)
Bucketed(b) == \A k \in Keys : \A i \in DOMAIN b[k] : KeyOf(b[k][i]) = k

OneKey == \A i, j \in DOMAIN evs :
            evs[i] \in Events /\ evs[j] \in Events => KeyOf(evs[i]) = KeyOf(evs[j])

Taken == \A n \in DOMAIN body : \E i \in DOMAIN evs : i < next /\ evs[i] = body[n]

DestInv == Bucketed(batches) /\ Bucketed(overflow) /\ OneKey /\ Taken

LEMMA DestInit == Init => DestInv
<1> QED
  BY DEF Init, DestInv, Bucketed, OneKey, Taken

\* Events of key k appended to its bucket leave the buckets in order.
LEMMA BucketAppend ==
  ASSUME NEW b \in [Keys -> Seq(Events)], Bucketed(b), NEW k \in Keys,
         NEW s \in Seq(Events), \A i \in DOMAIN s : KeyOf(s[i]) = k
  PROVE  Bucketed([b EXCEPT ![k] = @ \o s])
<1> SUFFICES ASSUME NEW q \in Keys, NEW i \in DOMAIN [b EXCEPT ![k] = @ \o s][q]
             PROVE  KeyOf([b EXCEPT ![k] = @ \o s][q][i]) = q
  BY DEF Bucketed
<1>1. CASE q # k
  BY <1>1 DEF Bucketed
<1>2. CASE q = k
  <2>1. [b EXCEPT ![k] = @ \o s][q] = b[k] \o s /\ b[k] \in Seq(Events)
    BY <1>2
  <2>2. CASE i <= Len(b[k])
    <3>1. i \in DOMAIN b[k] /\ (b[k] \o s)[i] = b[k][i]
      BY <2>1, <2>2
    <3> QED
      BY <1>2, <2>1, <3>1 DEF Bucketed
  <2>3. CASE ~(i <= Len(b[k]))
    <3>1. i - Len(b[k]) \in DOMAIN s /\ (b[k] \o s)[i] = s[i - Len(b[k])]
      BY <2>1, <2>3
    <3> QED
      BY <1>2, <2>1, <3>1
  <2> QED
    BY <2>2, <2>3
<1> QED
  BY <1>1, <1>2

LEMMA DestNext == TypeInv /\ DestInv /\ [Next]_vars => DestInv'
<1> SUFFICES ASSUME TypeInv, DestInv, [Next]_vars PROVE DestInv'
  OBVIOUS
<1>0. batches \in [Keys -> Seq(Events)] /\ overflow \in [Keys -> Seq(Events)]
      /\ evs \in Seq(Events \cup {Nil}) /\ next \in Nat \ {0} /\ body \in Seq(Events)
  BY DEF TypeInv, TypeOK
<1>1. ASSUME UNCHANGED <<batches, overflow, evs, next, body>> PROVE DestInv'
  BY <1>1 DEF DestInv, Bucketed, OneKey, Taken
<1>2. ASSUME NEW e \in Events, Add(e) PROVE DestInv'
  <2>1. KeyOf(e) \in Keys
    BY BatchAggAssumption DEF KeyOf, Keys
  <2>2. batches' = [batches EXCEPT ![KeyOf(e)] = @ \o <<e>>]
    <3>1. batches' = [batches EXCEPT ![KeyOf(e)] = Append(@, e)]
      BY <1>2 DEF Add
    <3>2. Append(batches[KeyOf(e)], e) = batches[KeyOf(e)] \o <<e>>
      BY <1>0, <2>1, AppendIsConcat
    <3> QED
      BY <3>1, <3>2
  <2>3. <<e>> \in Seq(Events) /\ \A i \in DOMAIN <<e>> : KeyOf(<<e>>[i]) = KeyOf(e)
    OBVIOUS
  <2>4. Bucketed(batches')
    BY <1>0, <2>1, <2>2, <2>3, BucketAppend DEF DestInv
  <2>5. UNCHANGED <<overflow, evs, next, body>>
    BY <1>2 DEF Add
  <2> QED
    BY <2>4, <2>5 DEF DestInv, Bucketed, OneKey, Taken
<1>3. ASSUME NEW k \in Keys, FireBatch(k) PROVE DestInv'
  <2>1. evs' = batches[k] \/ evs' = overflow[k]
    BY <1>3 DEF FireBatch
  <2>2. OneKey'
    BY <2>1 DEF DestInv, Bucketed, OneKey
  <2>3. Bucketed(overflow')
    BY <1>0, <1>3 DEF FireBatch, DestInv, Bucketed
  <2>4. batches' = batches /\ body' = <<>>
    BY <1>3 DEF FireBatch
  <2> QED
    BY <2>2, <2>3, <2>4 DEF DestInv, Bucketed, Taken
<1>4. CASE Reject
  <2>1. next \in DOMAIN evs
    BY <1>4, CurrentEvent DEF Reject
  <2>2. evs' = [evs EXCEPT ![next] = Nil] /\ next' = next + 1
        /\ UNCHANGED <<batches, overflow, body>>
    BY <1>4 DEF Reject
  <2>3. DOMAIN evs' = DOMAIN evs /\ evs'[next] = Nil
        /\ \A i \in DOMAIN evs : i # next => evs'[i] = evs[i]
    BY <1>0, <2>1, <2>2
  <2>4. OneKey'
    BY <2>3, BatchAggAssumption DEF DestInv, OneKey
  <2>5. Taken'
    <3> SUFFICES ASSUME NEW n \in DOMAIN body
                 PROVE  \E i \in DOMAIN evs' : i < next' /\ evs'[i] = body[n]
      BY <2>2 DEF Taken
    <3>1. PICK i \in DOMAIN evs : i < next /\ evs[i] = body[n]
      BY DEF DestInv, Taken
    <3>2. i \in Nat /\ i < next + 1 /\ i # next
      BY <1>0, <3>1
    <3> QED
      BY <2>2, <2>3, <3>1, <3>2
  <2> QED
    BY <2>2, <2>4, <2>5 DEF DestInv, Bucketed
<1>5. CASE Encode
  <2>1. next \in DOMAIN evs /\ evs[next] \in Events
    BY <1>5, CurrentEvent DEF Encode, Current
  <2>2. body' = Append(body, evs[next]) /\ next' = next + 1
        /\ UNCHANGED <<batches, overflow, evs>>
    BY <1>5 DEF Encode, Current
  <2>3. Taken'
    <3> SUFFICES ASSUME NEW n \in DOMAIN body'
                 PROVE  \E i \in DOMAIN evs : i < next + 1 /\ evs[i] = body'[n]
      BY <2>2 DEF Taken
    <3>1. CASE n \in DOMAIN body
      <4>1. PICK i \in DOMAIN evs : i < next /\ evs[i] = body[n]
        BY <3>1 DEF DestInv, Taken
      <4>2. body'[n] = body[n]
        BY <1>0, <2>1, <2>2, <3>1
      <4>3. i \in Nat /\ i < next + 1
        BY <1>0, <4>1
      <4> QED
        BY <4>1, <4>2, <4>3
    <3>2. CASE n \notin DOMAIN body
      <4>1. body'[n] = evs[next]
        BY <1>0, <2>1, <2>2, <3>2
      <4>2. next < next + 1
        BY <1>0
      <4> QED
        BY <2>1, <4>1, <4>2
    <3> QED
      BY <3>1, <3>2
  <2> QED
    BY <2>2, <2>3 DEF DestInv, Bucketed, OneKey
<1>6. CASE Reenqueue
  <2> DEFINE rest == SubSeq(evs, next, Len(evs))
  <2>1. next \in DOMAIN evs /\ evs[next] \in Events /\ KeyOf(evs[next]) \in Keys
    BY <1>6, CurrentEvent DEF Reenqueue, Current
  <2>2. \A i \in next .. Len(evs) : i \in DOMAIN evs /\ evs[i] \in Events
    BY <1>0, <1>6 DEF Reenqueue, Encoding, TypeInv, Unseen
  <2>3. rest \in Seq(Events) /\ Len(rest) = Len(evs) - next + 1
        /\ \A i \in 1 .. Len(evs) - next + 1 : rest[i] = evs[next + i - 1]
    BY <1>0, <2>1, <2>2, SubSeqProperties
  <2>4. \A i \in DOMAIN rest : KeyOf(rest[i]) = KeyOf(evs[next])
    <3> SUFFICES ASSUME NEW i \in DOMAIN rest PROVE KeyOf(rest[i]) = KeyOf(evs[next])
      OBVIOUS
    <3>1. rest[i] = evs[next + i - 1] /\ next + i - 1 \in next .. Len(evs)
      BY <1>0, <2>3
    <3> QED
      BY <2>1, <2>2, <3>1 DEF DestInv, OneKey
  <2>5. overflow' = [overflow EXCEPT ![KeyOf(evs[next])] = @ \o rest]
        /\ UNCHANGED <<batches, evs, next, body>>
    BY <1>6 DEF Reenqueue, Current
  <2> HIDE DEF rest
  <2>6. Bucketed(overflow')
    BY <1>0, <2>1, <2>3, <2>4, <2>5, BucketAppend DEF DestInv
  <2> QED
    BY <2>5, <2>6 DEF DestInv, Bucketed, OneKey, Taken
<1>7. CASE Fire \/ OverflowRound \/ Done \/ EncodeEnd
  BY <1>1, <1>7 DEF Fire, OverflowRound, Done, EncodeEnd
<1>8. CASE Skip \/ BuildURL
  BY <1>1, <1>8 DEF Skip, BuildURL, SameBatch
<1>9. ASSUME NEW o \in Outcomes, Attempt(o) PROVE DestInv'
  BY <1>1, <1>9 DEF Attempt, SameBatch
<1>10. CASE UNCHANGED vars
  BY <1>1, <1>10 DEF vars
<1> QED
  BY <1>2, <1>3, <1>4, <1>5, <1>6, <1>7, <1>8, <1>9, <1>10 DEF Next, Step, Terminated

LEMMA DestInvariant == Spec => []DestInv
<1> QED
  BY DestInit, DestNext, TypeInvariant, PTL DEF Spec

\* A batch with an event that was not rejected has a first one.
LEMMA FirstLiveExists ==
  ASSUME evs \in Seq(Events \cup {Nil}), NEW i \in DOMAIN evs, evs[i] # Nil
  PROVE  \E f \in DOMAIN evs : evs[f] # Nil /\ \A j \in 1 .. f - 1 : evs[j] = Nil
<1> DEFINE T == {j \in DOMAIN evs : evs[j] # Nil}
           R == {p \in Nat \X Nat : p[1] < p[2]}
<1>1. IsWellFoundedOn(R, Nat)
  BY NatLessThanWellFounded DEF OpToRel
<1>2. T \subseteq Nat /\ T # {}
  OBVIOUS
<1> HIDE DEF T, R
<1>3. PICK f \in T : \A j \in T : ~(<<j, f>> \in R)
  BY <1>1, <1>2, WFMin
<1>4. f \in DOMAIN evs /\ evs[f] # Nil /\ f \in Nat
  BY <1>2, <1>3 DEF T
<1>5. \A j \in 1 .. f - 1 : j \in DOMAIN evs /\ j \in Nat /\ j < f
  BY <1>4
<1> QED
  BY <1>3, <1>4, <1>5 DEF T, R

(***************************************************************************)
(* The events of a body share the batch key of the first of them, over all *)
(* overflow rounds: an event goes to another destination than its own only *)
(* if the keys of the two are equal.                                       *)
(***************************************************************************)
THEOREM KeysKept == Spec => []SharedKey
<1>1. TypeInv /\ DestInv => SharedKey
  <2> SUFFICES ASSUME TypeInv, DestInv, NEW e \in Elements(body)
               PROVE  Joined(Dest[e]) = Joined(Dest[FirstLive])
    BY DEF SharedKey
  <2>1. body \in Seq(Events) /\ evs \in Seq(Events \cup {Nil})
    BY DEF TypeInv, TypeOK
  <2>2. PICK i \in DOMAIN evs : evs[i] = e /\ e \in Events
    BY <2>1 DEF Elements, DestInv, Taken
  <2>3. \E f \in DOMAIN evs : evs[f] # Nil /\ \A j \in 1 .. f - 1 : evs[j] = Nil
    <3>1. evs[i] # Nil
      BY <2>2, BatchAggAssumption
    <3> QED
      BY <2>1, <3>1, FirstLiveExists
  <2>4. PICK f \in DOMAIN evs : FirstLive = evs[f] /\ evs[f] # Nil
    BY <2>3 DEF FirstLive
  <2>5. FirstLive \in Events
    BY <2>1, <2>4
  <2>6. KeyOf(e) = KeyOf(FirstLive)
    BY <2>2, <2>4, <2>5 DEF DestInv, OneKey
  <2> QED
    BY <2>6 DEF KeyOf
<1> QED
  BY <1>1, TypeInvariant, DestInvariant, PTL

-----------------------------------------------------------------------------
(***************************************************************************)
(* Order.  No list holds an event twice; the bucket of the batch that is   *)
(* being encoded is empty, in b.overflowBatches and in what is still to be *)
(* fired, until reenqueueEvents puts the rest of the batch into it.        *)
(***************************************************************************)
NoDup(s) == \A i, j \in DOMAIN s : s[i] = s[j] => i = j
LiveAt == {i \in DOMAIN evs : evs[i] # Nil}
Firing == phase \in {"encode", "encoded", "post"}

DistinctInv ==
  /\ \A k \in Keys : NoDup(batches[k]) /\ NoDup(overflow[k])
  /\ \A i, j \in LiveAt : evs[i] = evs[j] => i = j

EmptyInv ==
  /\ phase = "collect" => rounds = 0 /\ \A k \in Keys : overflow[k] = <<>>
  /\ rounds = 0 => \A k \in todo : overflow[k] = <<>>
  /\ Firing => \A i \in LiveAt : KeyOf(evs[i]) \notin todo
  /\ phase = "encode" => \A i \in LiveAt : overflow[KeyOf(evs[i])] = <<>>

CutInv ==
  phase \in {"encoded", "post"} =>
    /\ \A n \in DOMAIN body : body[n] \notin Elements(overflow[KeyOf(body[n])])
    /\ \A i \in DOMAIN evs :
          i >= next => evs[i] \in Events /\ overflow[KeyOf(evs[i])] # <<>>

OrderInv == DistinctInv /\ EmptyInv /\ CutInv

LEMMA OrderInit == Init => OrderInv
<1> QED
  BY DEF Init, OrderInv, DistinctInv, EmptyInv, CutInv, NoDup, LiveAt, Firing

LEMMA LiveEvents ==
  ASSUME TypeInv
  PROVE  /\ \A i \in LiveAt : i \in DOMAIN evs /\ i \in Nat /\ evs[i] \in Events
                              /\ KeyOf(evs[i]) \in Keys
         /\ \A e \in Events : e \in Live <=> \E i \in LiveAt : evs[i] = e
         /\ \A e \in Events : \A i \in DOMAIN evs : evs[i] = e => i \in LiveAt
         /\ Live \subseteq Events
<1>1. evs \in Seq(Events \cup {Nil}) /\ Nil \notin Events
  BY BatchAggAssumption DEF TypeInv, TypeOK
<1>2. \A i \in DOMAIN evs : evs[i] \in Events \cup {Nil} /\ i \in Nat
  BY <1>1
<1>3. \A e \in Events : KeyOf(e) \in Keys
  BY BatchAggAssumption DEF KeyOf, Keys
<1> QED
  BY <1>1, <1>2, <1>3 DEF Live, LiveAt, Elements

\* What reenqueueEvents makes of the bucket: the events from index next on.
LEMMA ReenqueueFields ==
  ASSUME TypeInv, DestInv, OrderInv, Reenqueue, NEW k, k = KeyOf(evs[next])
  PROVE  /\ next \in DOMAIN evs /\ evs[next] \in Events /\ k \in Keys
         /\ phase = "encode" /\ phase' = "encoded"
         /\ UNCHANGED <<msgpack, batches, rounds, todo, evs, next, body, total, try, posted,
                        omitted>>
         /\ \A q \in Keys : q # k => overflow'[q] = overflow[q]
         /\ overflow[k] = <<>>
         /\ Len(overflow'[k]) = Len(evs) - next + 1
         /\ DOMAIN overflow'[k] = 1 .. Len(evs) - next + 1
         /\ \A i \in DOMAIN overflow'[k] :
               overflow'[k][i] = evs[next + i - 1] /\ next + i - 1 \in DOMAIN evs
         /\ \A i \in DOMAIN evs : i >= next => /\ evs[i] \in Events /\ KeyOf(evs[i]) = k
                                               /\ evs[i] \in Elements(overflow'[k])
<1> DEFINE rest == SubSeq(evs, next, Len(evs))
<1>0. /\ evs \in Seq(Events \cup {Nil}) /\ next \in Nat \ {0} /\ Nil \notin Events
      /\ overflow \in [Keys -> Seq(Events)]
  BY BatchAggAssumption DEF TypeInv, TypeOK
<1>1. next \in DOMAIN evs /\ evs[next] \in Events /\ k \in Keys /\ phase = "encode"
  BY CurrentEvent DEF Reenqueue, Current, Encoding
<1>2. \A i \in DOMAIN evs : i >= next => evs[i] \in Events /\ KeyOf(evs[i]) = k
  BY <1>1 DEF TypeInv, Unseen, DestInv, OneKey
<1>3. overflow[k] = <<>>
  BY <1>0, <1>1 DEF OrderInv, EmptyInv, LiveAt
<1>4. \A i \in next .. Len(evs) : i \in DOMAIN evs /\ evs[i] \in Events
  BY <1>0, <1>1, <1>2
<1>5. /\ rest \in Seq(Events) /\ Len(rest) = Len(evs) - next + 1
      /\ \A i \in 1 .. Len(evs) - next + 1 : rest[i] = evs[next + i - 1]
  BY <1>0, <1>1, <1>4, SubSeqProperties
<1>6. /\ overflow' = [overflow EXCEPT ![k] = @ \o rest] /\ phase' = "encoded"
      /\ UNCHANGED <<msgpack, batches, rounds, todo, evs, next, body, total, try, posted,
                     omitted>>
  BY DEF Reenqueue, Current
<1> HIDE DEF rest
<1>7. <<>> \o rest = rest
  BY <1>5, ConcatEmptySeq
<1>8. overflow'[k] = rest /\ \A q \in Keys : q # k => overflow'[q] = overflow[q]
  BY <1>0, <1>1, <1>3, <1>6, <1>7
<1>9. DOMAIN rest = 1 .. Len(evs) - next + 1
  BY <1>5
<1>10. \A i \in DOMAIN rest : rest[i] = evs[next + i - 1] /\ next + i - 1 \in DOMAIN evs
  BY <1>0, <1>1, <1>5, <1>9
<1>11. ASSUME NEW i \in DOMAIN evs, i >= next PROVE evs[i] \in Elements(rest)
  <2>1. i - next + 1 \in DOMAIN rest /\ next + (i - next + 1) - 1 = i
    BY <1>0, <1>1, <1>9, <1>11
  <2>2. rest[i - next + 1] = evs[i]
    BY <1>10, <2>1
  <2> QED
    BY <2>1, <2>2 DEF Elements
<1> QED
  BY <1>1, <1>2, <1>3, <1>5, <1>6, <1>8, <1>9, <1>10, <1>11

LEMMA OrderNext == TypeInv /\ DestInv /\ OrderInv /\ [Next]_vars => OrderInv'
<1> SUFFICES ASSUME TypeInv, DestInv, OrderInv, [Next]_vars PROVE OrderInv'
  OBVIOUS
<1>0. /\ batches \in [Keys -> Seq(Events)] /\ overflow \in [Keys -> Seq(Events)]
      /\ evs \in Seq(Events \cup {Nil}) /\ next \in Nat \ {0} /\ body \in Seq(Events)
      /\ rounds \in Nat /\ Nil \notin Events
      /\ DistinctInv /\ EmptyInv /\ CutInv
  BY BatchAggAssumption DEF TypeInv, TypeOK, OrderInv
<1>1. ASSUME UNCHANGED <<batches, overflow, rounds, todo, evs, next, body>>,
             phase' = phase \/ (phase' = "post" /\ phase = "encoded")
                            \/ phase' \in {"next", "done"}
      PROVE  OrderInv'
  <2>1. DistinctInv'
    BY <1>0, <1>1 DEF DistinctInv, NoDup, LiveAt
  <2>2. EmptyInv'
    BY <1>0, <1>1 DEF EmptyInv, LiveAt, Firing, KeyOf
  <2>3. CutInv'
    BY <1>0, <1>1 DEF CutInv, Elements, KeyOf
  <2> QED
    BY <2>1, <2>2, <2>3 DEF OrderInv
<1>2. CASE Skip \/ BuildURL \/ Done \/ UNCHANGED vars
  BY <1>1, <1>2 DEF Skip, BuildURL, Done, SameBatch, vars
<1>3. ASSUME NEW o \in Outcomes, Attempt(o) PROVE OrderInv'
  BY <1>1, <1>3 DEF Attempt, SameBatch
<1>4. ASSUME NEW e \in Events, Add(e) PROVE OrderInv'
  <2>1. /\ phase = "collect" /\ phase' = "collect" /\ e \notin Collected
        /\ batches' = [batches EXCEPT ![KeyOf(e)] = Append(@, e)]
        /\ UNCHANGED <<overflow, rounds, todo, evs, next, body>>
    BY <1>4 DEF Add
  <2>2. KeyOf(e) \in Keys
    BY BatchAggAssumption DEF KeyOf, Keys
  <2>3. /\ batches'[KeyOf(e)] = Append(batches[KeyOf(e)], e)
        /\ \A k \in Keys : k # KeyOf(e) => batches'[k] = batches[k]
    BY <1>0, <2>1, <2>2
  <2>4. \A i \in DOMAIN batches[KeyOf(e)] : batches[KeyOf(e)][i] # e
    BY <2>1, <2>2 DEF Collected, Elements
  <2>5. NoDup(batches'[KeyOf(e)])
    <3> DEFINE s == batches[KeyOf(e)]
    <3>1. s \in Seq(Events) /\ NoDup(s) /\ \A i \in DOMAIN s : s[i] # e
      BY <1>0, <2>2, <2>4 DEF DistinctInv
    <3> HIDE DEF s
    <3>2. NoDup(Append(s, e))
      BY <3>1 DEF NoDup
    <3> QED
      BY <2>3, <3>2 DEF s
  <2>6. DistinctInv'
    BY <1>0, <2>1, <2>3, <2>5 DEF DistinctInv, NoDup, LiveAt
  <2>7. EmptyInv' /\ CutInv'
    BY <1>0, <2>1 DEF EmptyInv, CutInv, Firing
  <2> QED
    BY <2>6, <2>7 DEF OrderInv
<1>5. CASE Fire
  <2>1. /\ phase = "collect" /\ phase' = "next" /\ todo' \subseteq Keys
        /\ UNCHANGED <<batches, overflow, rounds, evs, next, body>>
    BY <1>5 DEF Fire, Filled
  <2>2. DistinctInv'
    BY <1>0, <2>1 DEF DistinctInv, NoDup, LiveAt
  <2>3. EmptyInv' /\ CutInv'
    BY <1>0, <2>1 DEF EmptyInv, CutInv, Firing
  <2> QED
    BY <2>2, <2>3 DEF OrderInv
<1>6. ASSUME NEW k \in Keys, FireBatch(k) PROVE OrderInv'
  <2>1. /\ k \in todo /\ todo' = todo \ {k} /\ phase = "next" /\ phase' = "encode"
        /\ UNCHANGED <<batches, rounds>> /\ body' = <<>>
        /\ \/ rounds = 0 /\ evs' = batches[k] /\ overflow' = overflow
           \/ rounds # 0 /\ evs' = overflow[k] /\ overflow' = [overflow EXCEPT ![k] = <<>>]
    BY <1>6 DEF FireBatch
  <2>2. /\ \A q \in Keys : overflow'[q] = <<>> \/ overflow'[q] = overflow[q]
        /\ overflow'[k] = <<>>
    BY <1>0, <2>1 DEF EmptyInv
  <2>3. NoDup(evs') /\ evs' \in Seq(Events) /\ \A i \in DOMAIN evs' : KeyOf(evs'[i]) = k
    BY <1>0, <2>1 DEF DistinctInv, DestInv, Bucketed
  <2>4. DistinctInv'
    <3>1. \A q \in Keys : NoDup(batches'[q]) /\ NoDup(overflow'[q])
      BY <1>0, <2>1, <2>2 DEF DistinctInv, NoDup
    <3> QED
      BY <2>3, <3>1 DEF DistinctInv, NoDup, LiveAt
  <2>5. EmptyInv'
    <3>1. rounds' = 0 => \A q \in todo' : overflow'[q] = <<>>
      BY <1>0, <2>1 DEF EmptyInv
    <3>2. \A i \in LiveAt' : KeyOf(evs'[i]) = k
      BY <2>3 DEF LiveAt
    <3> QED
      BY <2>1, <2>2, <3>1, <3>2 DEF EmptyInv, KeyOf
  <2>6. CutInv'
    BY <2>1 DEF CutInv
  <2> QED
    BY <2>4, <2>5, <2>6 DEF OrderInv
<1>7. CASE OverflowRound
  <2>1. /\ phase = "next" /\ phase' = "next" /\ rounds' = rounds + 1
        /\ UNCHANGED <<batches, overflow, evs, next, body>>
    BY <1>7 DEF OverflowRound
  <2>2. DistinctInv'
    BY <1>0, <2>1 DEF DistinctInv, NoDup, LiveAt
  <2>3. EmptyInv' /\ CutInv'
    BY <1>0, <2>1 DEF EmptyInv, CutInv, Firing
  <2> QED
    BY <2>2, <2>3 DEF OrderInv
<1>8. CASE Reject
  <2>1. /\ next \in DOMAIN evs /\ phase = "encode" /\ phase' = "encode"
        /\ evs' = [evs EXCEPT ![next] = Nil]
        /\ UNCHANGED <<batches, overflow, rounds, todo, body>>
    BY <1>8, CurrentEvent DEF Reject, Encoding
  <2>2. LiveAt' = LiveAt \ {next} /\ \A i \in LiveAt' : evs'[i] = evs[i]
    BY <1>0, <2>1 DEF LiveAt
  <2>3. DistinctInv'
    BY <1>0, <2>1, <2>2 DEF DistinctInv, NoDup
  <2>4. EmptyInv'
    BY <1>0, <2>1, <2>2 DEF EmptyInv, Firing, KeyOf
  <2> QED
    BY <2>1, <2>3, <2>4 DEF OrderInv, CutInv
<1>9. CASE Encode
  <2>1. /\ phase = "encode" /\ phase' = "encode"
        /\ UNCHANGED <<batches, overflow, rounds, todo, evs>>
    BY <1>9 DEF Encode, Encoding
  <2>2. DistinctInv' /\ EmptyInv'
    BY <1>0, <2>1 DEF DistinctInv, NoDup, EmptyInv, Firing, LiveAt, KeyOf
  <2> QED
    BY <2>1, <2>2 DEF OrderInv, CutInv
<1>10. CASE EncodeEnd
  <2>1. /\ phase = "encode" /\ phase' = "encoded" /\ next > Len(evs)
        /\ UNCHANGED <<batches, overflow, rounds, todo, evs, next, body>>
    BY <1>10 DEF EncodeEnd
  <2>2. DistinctInv' /\ EmptyInv'
    BY <1>0, <2>1 DEF DistinctInv, NoDup, EmptyInv, Firing, LiveAt, KeyOf
  <2>3. ASSUME NEW n \in DOMAIN body PROVE body[n] \notin Elements(overflow[KeyOf(body[n])])
    <3>1. PICK i \in DOMAIN evs : evs[i] = body[n]
      BY DEF DestInv, Taken
    <3>2. body[n] \in Events
      BY <1>0
    <3>3. overflow[KeyOf(body[n])] = <<>>
      BY <1>0, <2>1, <3>1, <3>2 DEF EmptyInv, LiveAt
    <3>4. DOMAIN <<>> = {}
      OBVIOUS
    <3> QED
      BY <3>3, <3>4 DEF Elements
  <2>4. \A i \in DOMAIN evs : ~(i >= next)
    BY <1>0, <2>1
  <2>5. CutInv'
    BY <2>1, <2>3, <2>4 DEF CutInv, Elements, KeyOf
  <2> QED
    BY <2>2, <2>5 DEF OrderInv
<1>11. CASE Reenqueue
  <2> DEFINE k == KeyOf(evs[next])
  <2>1. /\ next \in DOMAIN evs /\ evs[next] \in Events /\ k \in Keys
        /\ phase = "encode" /\ phase' = "encoded"
        /\ UNCHANGED <<batches, rounds, todo, evs, next, body>>
        /\ \A q \in Keys : q # k => overflow'[q] = overflow[q]
        /\ DOMAIN overflow'[k] = 1 .. Len(evs) - next + 1
        /\ \A i \in DOMAIN overflow'[k] :
              overflow'[k][i] = evs[next + i - 1] /\ next + i - 1 \in DOMAIN evs
        /\ \A i \in DOMAIN evs : i >= next => /\ evs[i] \in Events /\ KeyOf(evs[i]) = k
                                              /\ evs[i] \in Elements(overflow'[k])
    BY <1>0, <1>11, ReenqueueFields
  <2> HIDE DEF k
  <2>2. \A i \in DOMAIN overflow'[k] : next + i - 1 \in LiveAt /\ i \in Nat
    BY <1>0, <2>1 DEF LiveAt
  <2>3. NoDup(overflow'[k])
    <3> SUFFICES ASSUME NEW i \in DOMAIN overflow'[k], NEW j \in DOMAIN overflow'[k],
                        overflow'[k][i] = overflow'[k][j]
                 PROVE  i = j
      BY DEF NoDup
    <3>1. evs[next + i - 1] = evs[next + j - 1]
      BY <2>1
    <3>2. next + i - 1 \in LiveAt /\ next + j - 1 \in LiveAt /\ i \in Nat /\ j \in Nat
      BY <2>2
    <3>3. next + i - 1 = next + j - 1
      BY <1>0, <3>1, <3>2 DEF DistinctInv
    <3> QED
      BY <1>0, <3>2, <3>3
  <2>4. DistinctInv'
    BY <1>0, <2>1, <2>3 DEF DistinctInv, NoDup, LiveAt
  <2>5. EmptyInv'
    <3>1. k \notin todo /\ \A i \in LiveAt : KeyOf(evs[i]) \notin todo
      BY <1>0, <2>1 DEF EmptyInv, Firing, LiveAt, k
    <3>2. todo \subseteq Keys
      BY DEF TypeInv, TypeOK
    <3> QED
      BY <1>0, <2>1, <3>1, <3>2 DEF EmptyInv, LiveAt, KeyOf
  <2>6. ASSUME NEW n \in DOMAIN body PROVE body[n] \notin Elements(overflow'[KeyOf(body[n])])
    <3>1. PICK i \in DOMAIN evs : i < next /\ evs[i] = body[n]
      BY DEF DestInv, Taken
    <3>2. body[n] \in Events /\ i \in LiveAt /\ i \in Nat
      BY <1>0, <3>1 DEF LiveAt
    <3>3. KeyOf(body[n]) = k
      BY <2>1, <3>1, <3>2 DEF DestInv, OneKey, k
    <3>4. ASSUME NEW j \in DOMAIN overflow'[k], overflow'[k][j] = body[n] PROVE FALSE
      <4>1. i = next + j - 1 /\ j \in 1 .. Len(evs) - next + 1
        BY <1>0, <2>1, <2>2, <3>1, <3>2, <3>4 DEF DistinctInv
      <4> QED
        BY <1>0, <3>1, <3>2, <4>1
    <3> QED
      BY <3>3, <3>4 DEF Elements
  <2>7. \A i \in DOMAIN evs :
           i >= next => evs[i] \in Events /\ overflow'[KeyOf(evs[i])] # <<>>
    <3>1. DOMAIN <<>> = {}
      OBVIOUS
    <3> QED
      BY <2>1, <3>1 DEF Elements
  <2>8. CutInv'
    BY <2>1, <2>6, <2>7 DEF CutInv, Elements, KeyOf
  <2> QED
    BY <2>4, <2>5, <2>8 DEF OrderInv
<1> QED
  BY <1>2, <1>3, <1>4, <1>5, <1>6, <1>7, <1>8, <1>9, <1>10, <1>11 DEF Next, Step, Terminated

LEMMA OrderInvariant == Spec => []OrderInv
<1> QED
  BY OrderInit, OrderNext, TypeInvariant, DestInvariant, PTL DEF Spec

-----------------------------------------------------------------------------
(***************************************************************************)
(* Ranks: the n-th event of a body is the n-th of its batch that was not   *)
(* rejected.  Rank(i) counts evs up to i; RankOf does so for any sequence. *)
(***************************************************************************)
Held(s, i) == {j \in 1 .. i : s[j] # Nil}
RankOf(s, i) == Cardinality(Held(s, i))

LEMMA RankType ==
  ASSUME NEW s, NEW i \in Nat
  PROVE  IsFiniteSet(Held(s, i)) /\ RankOf(s, i) \in Nat
<1>1. IsFiniteSet(1 .. i) /\ Held(s, i) \subseteq 1 .. i
  BY FS_Interval DEF Held
<1>2. IsFiniteSet(Held(s, i))
  BY <1>1, FS_Subset
<1> QED
  BY <1>2, FS_CardinalityType DEF RankOf

LEMMA RankZero ==
  ASSUME NEW s
  PROVE  RankOf(s, 0) = 0
<1>1. Held(s, 0) = {}
  BY DEF Held
<1> QED
  BY <1>1, FS_EmptySet DEF RankOf

LEMMA RankHeld ==
  ASSUME NEW s, NEW i \in Nat \ {0}, s[i] # Nil
  PROVE  RankOf(s, i) = RankOf(s, i - 1) + 1
<1>1. Held(s, i) = Held(s, i - 1) \cup {i} /\ i \notin Held(s, i - 1)
  BY DEF Held
<1>2. IsFiniteSet(Held(s, i - 1))
  BY RankType
<1> QED
  BY <1>1, <1>2, FS_AddElement DEF RankOf

LEMMA RankHole ==
  ASSUME NEW s, NEW i \in Nat \ {0}, s[i] = Nil
  PROVE  RankOf(s, i) = RankOf(s, i - 1)
<1>1. Held(s, i) = Held(s, i - 1)
  BY DEF Held
<1> QED
  BY <1>1 DEF RankOf

LEMMA RankMonotone ==
  ASSUME NEW s, NEW i \in Nat, NEW j \in Nat, i <= j
  PROVE  RankOf(s, i) <= RankOf(s, j)
<1>1. IsFiniteSet(Held(s, j))
  BY RankType
<1>2. Held(s, i) \subseteq Held(s, j)
  BY DEF Held
<1> QED
  BY <1>1, <1>2, FS_Subset DEF RankOf

LEMMA RankLess ==
  ASSUME NEW s, NEW i \in Nat, NEW j \in Nat, i < j, s[j] # Nil
  PROVE  RankOf(s, i) < RankOf(s, j)
<1>1. RankOf(s, i) <= RankOf(s, j - 1)
  BY RankMonotone
<1>2. RankOf(s, j) = RankOf(s, j - 1) + 1
  BY RankHeld
<1>3. RankOf(s, i) \in Nat /\ RankOf(s, j - 1) \in Nat
  BY RankType
<1> QED
  BY <1>1, <1>2, <1>3

LEMMA RankPrefix ==
  ASSUME NEW s, NEW t, NEW i \in Nat, \A j \in 1 .. i : s[j] = t[j]
  PROVE  RankOf(s, i) = RankOf(t, i)
<1>1. Held(s, i) = Held(t, i)
  BY DEF Held
<1> QED
  BY <1>1 DEF RankOf

RankInv ==
  Firing =>
    /\ \A n \in DOMAIN body : \E i \in LiveAt : /\ i < next /\ evs[i] = body[n]
                                                /\ RankOf(evs, i) = n
    /\ \A i \in LiveAt :
          i < next => RankOf(evs, i) \in DOMAIN body /\ body[RankOf(evs, i)] = evs[i]
    /\ next <= Len(evs) + 1
    /\ Len(body) = RankOf(evs, next - 1)

LEMMA RankInit == Init => RankInv
<1> QED
  BY DEF Init, RankInv, Firing

LEMMA RankNext == TypeInv /\ RankInv /\ [Next]_vars => RankInv'
<1> SUFFICES ASSUME TypeInv, RankInv, [Next]_vars PROVE RankInv'
  OBVIOUS
<1>0. /\ batches \in [Keys -> Seq(Events)] /\ overflow \in [Keys -> Seq(Events)]
      /\ evs \in Seq(Events \cup {Nil}) /\ next \in Nat \ {0} /\ body \in Seq(Events)
      /\ Nil \notin Events
  BY BatchAggAssumption DEF TypeInv, TypeOK
<1>1. ASSUME UNCHANGED <<evs, next, body>>, Firing' => Firing PROVE RankInv'
  BY <1>1 DEF RankInv, LiveAt
<1>2. ASSUME ~Firing' PROVE RankInv'
  BY <1>2 DEF RankInv
<1>3. ASSUME NEW k \in Keys, FireBatch(k) PROVE RankInv'
  <2>1. /\ evs' \in Seq(Events) /\ next' = 1 /\ body' = <<>>
    BY <1>0, <1>3 DEF FireBatch
  <2>2. \A i \in DOMAIN evs' : ~(i < 1)
    BY <2>1
  <2>3. next' - 1 = 0 /\ 1 <= Len(evs') + 1 /\ Len(body') = 0 /\ DOMAIN body' = {}
    BY <2>1
  <2>4. RankOf(evs', next' - 1) = 0
    BY <2>3, RankZero
  <2> QED
    BY <2>1, <2>2, <2>3, <2>4 DEF RankInv, LiveAt
<1>4. CASE Reject
  <2>1. /\ next \in DOMAIN evs /\ Firing /\ next' = next + 1 /\ body' = body
        /\ evs' = [evs EXCEPT ![next] = Nil]
    BY <1>4, CurrentEvent DEF Reject, Encoding, Firing
  <2>2. /\ DOMAIN evs' = DOMAIN evs /\ evs'[next] = Nil /\ Len(evs') = Len(evs)
        /\ \A i \in DOMAIN evs : i # next => evs'[i] = evs[i]
    BY <1>0, <2>1
  <2>3. \A i \in LiveAt' : i < next + 1 => i \in LiveAt /\ i < next /\ evs'[i] = evs[i]
    BY <1>0, <2>1, <2>2 DEF LiveAt
  <2>4. \A i \in LiveAt : i < next => i \in LiveAt' /\ i < next + 1 /\ evs'[i] = evs[i]
    BY <1>0, <2>1, <2>2 DEF LiveAt
  <2>5. ASSUME NEW i \in Nat, i < next PROVE RankOf(evs', i) = RankOf(evs, i)
    <3>1. \A j \in 1 .. i : evs'[j] = evs[j]
      BY <1>0, <2>1, <2>2, <2>5
    <3> QED
      BY <3>1, RankPrefix
  <2>6. \A i \in LiveAt : i \in Nat
    BY <1>0 DEF LiveAt
  <2>7. Len(body') = RankOf(evs', next' - 1)
    <3>1. RankOf(evs', next) = RankOf(evs', next - 1)
      BY <1>0, <2>2, RankHole
    <3>2. RankOf(evs', next - 1) = RankOf(evs, next - 1)
      BY <1>0, <2>5
    <3> QED
      BY <1>0, <2>1, <3>1, <3>2 DEF RankInv
  <2>8. next' <= Len(evs') + 1
    BY <1>0, <2>1, <2>2
  <2>9. \A n \in DOMAIN body' : \E i \in LiveAt' : /\ i < next' /\ evs'[i] = body'[n]
                                                   /\ RankOf(evs', i) = n
    BY <2>1, <2>4, <2>5, <2>6 DEF RankInv
  <2>10. \A i \in LiveAt' : i < next' => /\ RankOf(evs', i) \in DOMAIN body'
                                         /\ body'[RankOf(evs', i)] = evs'[i]
    BY <2>1, <2>3, <2>5, <2>6 DEF RankInv
  <2> QED
    BY <2>7, <2>8, <2>9, <2>10 DEF RankInv
<1>5. CASE Encode
  <2>1. /\ next \in DOMAIN evs /\ evs[next] \in Events /\ Firing /\ next' = next + 1
        /\ evs' = evs /\ body' = Append(body, evs[next])
    BY <1>5, CurrentEvent DEF Encode, Encoding, Current, Firing
  <2>2. /\ \A n \in DOMAIN body : n \in DOMAIN body' /\ body'[n] = body[n]
        /\ DOMAIN body' = DOMAIN body \cup {Len(body) + 1}
        /\ Len(body') = Len(body) + 1 /\ body'[Len(body) + 1] = evs[next]
    BY <1>0, <2>1
  <2>3. next \in LiveAt /\ LiveAt' = LiveAt /\ \A i \in LiveAt : i \in Nat
    BY <1>0, <2>1 DEF LiveAt
  <2>4. RankOf(evs, next) = Len(body) + 1
    <3>1. RankOf(evs, next) = RankOf(evs, next - 1) + 1
      BY <1>0, <2>1, RankHeld
    <3> QED
      BY <2>1, <3>1 DEF RankInv
  <2>5. ASSUME NEW n \in DOMAIN body'
        PROVE  \E i \in LiveAt : i < next + 1 /\ evs[i] = body'[n] /\ RankOf(evs, i) = n
    <3>1. CASE n \in DOMAIN body
      <4>1. PICK i \in LiveAt : i < next /\ evs[i] = body[n] /\ RankOf(evs, i) = n
        BY <2>1, <3>1 DEF RankInv
      <4>2. i < next + 1
        BY <1>0, <2>3, <4>1
      <4> QED
        BY <2>2, <3>1, <4>1, <4>2
    <3>2. CASE n = Len(body) + 1
      BY <1>0, <2>2, <2>3, <2>4, <3>2
    <3> QED
      BY <2>2, <3>1, <3>2
  <2>6. ASSUME NEW i \in LiveAt, i < next + 1
        PROVE  RankOf(evs, i) \in DOMAIN body' /\ body'[RankOf(evs, i)] = evs[i]
    <3>1. CASE i < next
      BY <2>1, <2>2, <3>1 DEF RankInv
    <3>2. CASE i = next
      BY <2>2, <2>4, <3>2
    <3> QED
      BY <1>0, <2>3, <2>6, <3>1, <3>2
  <2>7. next' <= Len(evs') + 1 /\ next' - 1 = next
    BY <1>0, <2>1
  <2> QED
    BY <2>1, <2>2, <2>3, <2>4, <2>5, <2>6, <2>7 DEF RankInv
<1>6. ASSUME NEW e \in Events, Add(e) PROVE RankInv'
  BY <1>2, <1>6 DEF Add, Firing
<1>7. CASE Fire \/ OverflowRound \/ Done \/ Skip
  BY <1>2, <1>7 DEF Fire, OverflowRound, Done, Skip, Firing
<1>8. CASE Reenqueue \/ EncodeEnd
  BY <1>1, <1>8 DEF Reenqueue, EncodeEnd, Encoding, Firing
<1>9. CASE BuildURL
  BY <1>1, <1>9 DEF BuildURL, SameBatch, Firing
<1>10. ASSUME NEW o \in Outcomes, Attempt(o) PROVE RankInv'
  BY <1>1, <1>10 DEF Attempt, SameBatch, Firing
<1>11. CASE UNCHANGED vars
  BY <1>1, <1>11 DEF vars, Firing
<1> QED
  BY <1>3, <1>4, <1>5, <1>6, <1>7, <1>8, <1>9, <1>10, <1>11 DEF Next, Step, Terminated

LEMMA RankInvariant == Spec => []RankInv
<1> QED
  BY RankInit, RankNext, TypeInvariant, PTL DEF Spec

-----------------------------------------------------------------------------
(***************************************************************************)
(* How many events a body takes.  Each adds at most Unit to what is        *)
(* counted, so if B of the largest fit, overflow comes after B at least;   *)
(* each round that a bucket overflows in leaves it B events shorter.       *)
(***************************************************************************)
Unit == IF msgpack THEN MaxEventBytes ELSE MaxEventBytes + 1

Room(B) ==
  /\ HeaderSpace + B * MaxEventBytes <= MaxBatchBytes
  /\ 1 + B * (MaxEventBytes + 1) <= MaxBatchBytes

FillInv == total <= EmptyTotal + Len(body) * Unit

\* Stated for one encoder at a time, in plain integers.
LEMMA UnitCases ==
  ASSUME TypeInv
  PROVE  /\ Unit \in Nat /\ EmptyTotal \in Nat /\ total \in Nat /\ Len(body) \in Nat
         /\ msgpack => Unit = MaxEventBytes /\ EmptyTotal = HeaderSpace
         /\ ~msgpack => Unit = MaxEventBytes + 1 /\ EmptyTotal = 1
<1>1. total \in Nat /\ Len(body) \in Nat /\ MaxEventBytes \in Nat
  BY BatchAggAssumption DEF TypeInv, TypeOK
<1>2. msgpack => Unit = MaxEventBytes /\ EmptyTotal = HeaderSpace
  BY DEF Unit, EmptyTotal
<1>3. ~msgpack => Unit = MaxEventBytes + 1 /\ EmptyTotal = 1
  BY DEF Unit, EmptyTotal
<1> QED
  BY <1>1, <1>2, <1>3 DEF HeaderSpace

LEMMA FillInit == Init => FillInv
<1> SUFFICES ASSUME Init PROVE FillInv
  OBVIOUS
<1>1. TypeInv /\ total = EmptyTotal /\ Len(body) = 0
  BY TypeInit DEF Init
<1> QED
  BY <1>1, UnitCases DEF FillInv

LEMMA FillNext == TypeInv /\ FillInv /\ [Next]_vars => FillInv'
<1> SUFFICES ASSUME TypeInv, FillInv, [Next]_vars PROVE FillInv'
  OBVIOUS
<1>1. ASSUME UNCHANGED <<msgpack, body, total>> PROVE FillInv'
  BY <1>1 DEF FillInv, Unit, EmptyTotal
<1>2. ASSUME NEW k \in Keys, FireBatch(k) PROVE FillInv'
  <2>1. total' = EmptyTotal /\ msgpack' = msgpack /\ body' = <<>>
    BY <1>2 DEF FireBatch
  <2>2. Unit' = Unit /\ EmptyTotal' = EmptyTotal /\ Len(body') = 0
    BY <2>1 DEF Unit, EmptyTotal
  <2> QED
    BY <2>1, <2>2, UnitCases DEF FillInv
<1>3. CASE Encode
  <2>1. /\ Current \in Events /\ Size[Current] \in Nat /\ Size[Current] <= MaxEventBytes
        /\ body \in Seq(Events) /\ MaxEventBytes \in Nat
    BY <1>3, CurrentEvent, BatchAggAssumption DEF Encode, Rejected, TypeInv, TypeOK
  <2>2. /\ total' = total + Size[Current] + Comma /\ msgpack' = msgpack
        /\ body' = Append(body, Current)
    BY <1>3 DEF Encode
  <2>3. Unit' = Unit /\ EmptyTotal' = EmptyTotal /\ Len(body') = Len(body) + 1
    BY <2>1, <2>2 DEF Unit, EmptyTotal
  <2>4. Size[Current] + Comma <= Unit /\ Comma \in {0, 1}
    <3>1. CASE msgpack
      <4>1. Comma = 0 /\ Unit = MaxEventBytes
        BY <3>1 DEF Comma, Unit
      <4> QED
        BY <2>1, <4>1
    <3>2. CASE ~msgpack
      <4>1. Comma \in {0, 1} /\ Unit = MaxEventBytes + 1
        BY <3>2, CommaCounted DEF Unit
      <4> QED
        BY <2>1, <4>1
    <3> QED
      BY <3>1, <3>2
  <2> DEFINE most == Len(body) * Unit
  <2>5. (Len(body) + 1) * Unit = most + Unit
    BY UnitCases
  <2>6. total <= EmptyTotal + most
    BY DEF FillInv
  <2>7. most \in Nat /\ Unit \in Nat /\ EmptyTotal \in Nat /\ total \in Nat
    BY UnitCases
  <2> HIDE DEF most
  <2>8. total' <= EmptyTotal + (most + Unit)
    BY <2>1, <2>2, <2>4, <2>6, <2>7
  <2> QED
    BY <2>3, <2>5, <2>8 DEF FillInv
<1>4. ASSUME NEW e \in Events, Add(e) PROVE FillInv'
  BY <1>1, <1>4 DEF Add
<1>5. CASE Fire \/ OverflowRound \/ Done
  BY <1>1, <1>5 DEF Fire, OverflowRound, Done
<1>6. CASE Reject \/ Reenqueue \/ EncodeEnd
  BY <1>1, <1>6 DEF Reject, Reenqueue, EncodeEnd
<1>7. CASE Skip \/ BuildURL
  BY <1>1, <1>7 DEF Skip, BuildURL, SameBatch
<1>8. ASSUME NEW o \in Outcomes, Attempt(o) PROVE FillInv'
  BY <1>1, <1>8 DEF Attempt, SameBatch
<1>9. CASE UNCHANGED vars
  BY <1>1, <1>9 DEF vars
<1> QED
  BY <1>2, <1>3, <1>4, <1>5, <1>6, <1>7, <1>8, <1>9 DEF Next, Step, Terminated

LEMMA FillInvariant == Spec => []FillInv
<1> QED
  BY FillInit, FillNext, TypeInvariant, PTL DEF Spec

\* Overflow comes after B events at least.
LEMMA ReenqueueAfterRoom ==
  ASSUME TypeInv, FillInv, Reenqueue, NEW B \in Nat \ {0}, Room(B)
  PROVE  B <= Len(body)
<1> DEFINE separator == IF msgpack THEN 0 ELSE 1
           b == Len(body)
           most == EmptyTotal + B * Unit
<1>1. /\ Size[Current] \in Nat /\ Size[Current] <= MaxEventBytes
      /\ MaxEventBytes \in Nat /\ MaxBatchBytes \in Nat /\ b \in Nat /\ separator \in Nat
  BY CurrentEvent, BatchAggAssumption DEF Reenqueue, Rejected, TypeInv, TypeOK
<1>2. total + Size[Current] + separator > MaxBatchBytes
  BY DEF Reenqueue, Overflows
<1>3. MaxEventBytes + separator = Unit /\ most <= MaxBatchBytes
  <2>1. CASE msgpack
    <3>1. separator = 0 /\ Unit = MaxEventBytes /\ EmptyTotal = HeaderSpace
      BY <2>1 DEF Unit, EmptyTotal
    <3> QED
      BY <1>1, <3>1 DEF Room
  <2>2. CASE ~msgpack
    <3>1. separator = 1 /\ Unit = MaxEventBytes + 1 /\ EmptyTotal = 1
      BY <2>2 DEF Unit, EmptyTotal
    <3> QED
      BY <1>1, <3>1 DEF Room
  <2> QED
    BY <2>1, <2>2
<1>4. b * Unit \in Nat /\ B * Unit \in Nat /\ Unit \in Nat /\ EmptyTotal \in Nat /\ total \in Nat
  BY <1>1, UnitCases
<1>5. EmptyTotal + b * Unit + Unit > EmptyTotal + B * Unit
  <2>1. total <= EmptyTotal + b * Unit
    BY DEF FillInv
  <2> HIDE DEF b
  <2> QED
    BY <1>1, <1>2, <1>3, <1>4, <2>1
<1>6. ASSUME b + 1 <= B PROVE FALSE
  <2>1. (b + 1) * Unit <= B * Unit
    <3> HIDE DEF b
    <3>1. PICK d \in Nat : B = b + 1 + d
      <4>1. B - (b + 1) \in Nat /\ B = b + 1 + (B - (b + 1))
        BY <1>1, <1>6
      <4> QED
        BY <4>1
    <3>2. B * Unit = (b + 1) * Unit + d * Unit
      BY <1>1, <1>4, <3>1
    <3>3. d * Unit \in Nat /\ (b + 1) * Unit \in Nat
      BY <1>1, <1>4, <3>1
    <3> QED
      BY <3>2, <3>3
  <2>2. (b + 1) * Unit = b * Unit + Unit
    BY <1>1, <1>4
  <2> HIDE DEF b
  <2> QED
    BY <1>4, <1>5, <2>1, <2>2
<1> HIDE DEF b
<1>7. B <= b
  BY <1>1, <1>6
<1> QED
  BY <1>7 DEF b

\* What was encoded is no more than what was looked at.
LEMMA EncodedBefore ==
  ASSUME TypeInv, RankInv, Firing
  PROVE  Len(body) <= next - 1
<1>1. next \in Nat \ {0} /\ Len(body) = RankOf(evs, next - 1)
  BY DEF TypeInv, TypeOK, RankInv
<1> DEFINE i == next - 1
<1>2. i \in Nat
  BY <1>1
<1> HIDE DEF i
<1>3. IsFiniteSet(1 .. i) /\ Cardinality(1 .. i) = i
  BY <1>2, FS_Interval
<1>4. Held(evs, i) \subseteq 1 .. i
  BY DEF Held
<1>5. RankOf(evs, i) <= i
  BY <1>3, <1>4, FS_Subset DEF RankOf
<1> QED
  BY <1>1, <1>5 DEF i

LengthInv(B) ==
  phase # "collect" =>
    /\ \A k \in todo : rounds > 0 => Len(overflow[k]) + B * rounds <= Len(batches[k])
    /\ \A k \in Keys \ todo :
          overflow[k] # <<>> => Len(overflow[k]) + B * rounds + B <= Len(batches[k])
    /\ Firing => \A i \in LiveAt : Len(evs) + B * rounds <= Len(batches[KeyOf(evs[i])])

DoneInv ==
  phase = "done" => todo = {} /\ (Filled(overflow) = {} \/ rounds > MaxOverflowBatches)

LEMMA LengthInit == ASSUME NEW B PROVE Init => LengthInv(B)
<1> QED
  BY DEF Init, LengthInv

LEMMA LengthNext ==
  ASSUME NEW B \in Nat \ {0}, Room(B)
  PROVE  TypeInv /\ DestInv /\ OrderInv /\ RankInv /\ FillInv /\ LengthInv(B) /\ [Next]_vars
           => LengthInv(B)'
<1> SUFFICES ASSUME TypeInv, DestInv, OrderInv, RankInv, FillInv, LengthInv(B), [Next]_vars
             PROVE  LengthInv(B)'
  OBVIOUS
<1>0. /\ batches \in [Keys -> Seq(Events)] /\ overflow \in [Keys -> Seq(Events)]
      /\ evs \in Seq(Events \cup {Nil}) /\ next \in Nat \ {0} /\ body \in Seq(Events)
      /\ rounds \in Nat /\ todo \subseteq Keys /\ EmptyInv
  BY DEF TypeInv, TypeOK, OrderInv
<1>1. ASSUME UNCHANGED <<batches, overflow, rounds, todo, evs>>, phase # "collect",
             Firing' => Firing
      PROVE  LengthInv(B)'
  BY <1>1 DEF LengthInv, LiveAt, KeyOf
<1>2. CASE Skip \/ BuildURL \/ Done \/ EncodeEnd
  BY <1>1, <1>2 DEF Skip, BuildURL, Done, EncodeEnd, SameBatch, Firing
<1>3. ASSUME NEW o \in Outcomes, Attempt(o) PROVE LengthInv(B)'
  BY <1>1, <1>3 DEF Attempt, SameBatch, Firing
<1>4. CASE Encode
  BY <1>1, <1>4 DEF Encode, Encoding, Firing
<1>5. ASSUME NEW e \in Events, Add(e) PROVE LengthInv(B)'
  BY <1>5 DEF Add, LengthInv
<1>6. CASE Fire
  <2>1. phase = "collect" /\ phase' = "next" /\ UNCHANGED <<overflow, rounds>>
    BY <1>6 DEF Fire
  <2>2. rounds' = 0 /\ \A k \in Keys : overflow'[k] = <<>>
    BY <1>0, <2>1 DEF EmptyInv
  <2>3. ~Firing' /\ ~(rounds' > 0) /\ todo' \subseteq Keys
    BY <1>6, <2>1, <2>2 DEF Firing, Fire, Filled
  <2> QED
    BY <2>2, <2>3 DEF LengthInv
<1>7. ASSUME NEW k \in Keys, FireBatch(k) PROVE LengthInv(B)'
  <2>1. /\ k \in todo /\ todo' = todo \ {k} /\ phase = "next" /\ phase' = "encode"
        /\ UNCHANGED <<batches, rounds>>
        /\ \/ rounds = 0 /\ evs' = batches[k] /\ overflow' = overflow
           \/ rounds # 0 /\ evs' = overflow[k] /\ overflow' = [overflow EXCEPT ![k] = <<>>]
    BY <1>7 DEF FireBatch
  <2>2. /\ \A q \in Keys : q # k => overflow'[q] = overflow[q]
        /\ overflow'[k] = <<>>
    BY <1>0, <2>1 DEF EmptyInv
  <2>3. /\ \A i \in DOMAIN evs' : KeyOf(evs'[i]) = k
        /\ Len(evs') + B * rounds <= Len(batches[k])
    <3>1. CASE rounds = 0
      <4>1. B * rounds = 0 /\ Len(batches[k]) \in Nat
        BY <1>0, <3>1
      <4> QED
        BY <2>1, <3>1, <4>1 DEF DestInv, Bucketed
    <3>2. CASE rounds # 0
      <4>1. evs' = overflow[k] /\ rounds > 0 /\ phase # "collect"
        BY <1>0, <2>1, <3>2
      <4>2. \A i \in DOMAIN evs' : KeyOf(evs'[i]) = k
        BY <4>1 DEF DestInv, Bucketed
      <4>3. Len(overflow[k]) + B * rounds <= Len(batches[k])
        BY <2>1, <4>1 DEF LengthInv
      <4> QED
        BY <4>1, <4>2, <4>3
    <3> QED
      BY <3>1, <3>2
  <2>4. \A q \in todo' : rounds' > 0 => Len(overflow'[q]) + B * rounds' <= Len(batches'[q])
    BY <1>0, <2>1, <2>2 DEF LengthInv
  <2>5. \A q \in Keys \ todo' :
           overflow'[q] # <<>> => Len(overflow'[q]) + B * rounds' + B <= Len(batches'[q])
    BY <1>0, <2>1, <2>2 DEF LengthInv
  <2>6. \A i \in LiveAt' : Len(evs') + B * rounds' <= Len(batches'[KeyOf(evs'[i])])
    BY <2>1, <2>3 DEF LiveAt
  <2> QED
    BY <2>4, <2>5, <2>6 DEF LengthInv, KeyOf
<1>8. CASE OverflowRound
  <2>1. /\ phase = "next" /\ phase' = "next" /\ rounds' = rounds + 1
        /\ todo = {} /\ todo' = Filled(overflow) /\ UNCHANGED <<batches, overflow>>
    BY <1>8 DEF OverflowRound
  <2>2. B * rounds' = B * rounds + B /\ B * rounds \in Nat
    BY <1>0, <2>1
  <2>3. ASSUME NEW k \in todo' PROVE Len(overflow'[k]) + B * rounds' <= Len(batches'[k])
    <3>1. k \in Keys \ todo /\ overflow[k] # <<>> /\ Len(overflow[k]) \in Nat
      BY <1>0, <2>1 DEF Filled
    <3>2. Len(overflow[k]) + B * rounds + B <= Len(batches[k])
      BY <2>1, <3>1 DEF LengthInv
    <3>3. Len(overflow[k]) + (B * rounds + B) = Len(overflow[k]) + B * rounds + B
      BY <2>2, <3>1
    <3> QED
      BY <2>1, <2>2, <3>2, <3>3
  <2>4. \A k \in Keys \ todo' : overflow'[k] = <<>>
    BY <2>1 DEF Filled
  <2> QED
    BY <2>1, <2>3, <2>4 DEF LengthInv, Firing
<1>9. CASE Reject
  <2>1. /\ next \in DOMAIN evs /\ phase = "encode" /\ phase' = "encode"
        /\ evs' = [evs EXCEPT ![next] = Nil]
        /\ UNCHANGED <<batches, overflow, rounds, todo>>
    BY <1>9, CurrentEvent DEF Reject, Encoding
  <2>2. Len(evs') = Len(evs) /\ LiveAt' \subseteq LiveAt /\ \A i \in LiveAt' : evs'[i] = evs[i]
    BY <1>0, <2>1 DEF LiveAt
  <2> QED
    BY <2>1, <2>2 DEF LengthInv, Firing, KeyOf
<1>10. CASE Reenqueue
  <2> DEFINE k == KeyOf(evs[next])
             p == B * rounds
  <2>1. /\ next \in DOMAIN evs /\ evs[next] \in Events /\ k \in Keys
        /\ phase = "encode" /\ phase' = "encoded"
        /\ UNCHANGED <<batches, rounds, todo, evs>>
        /\ \A q \in Keys : q # k => overflow'[q] = overflow[q]
        /\ Len(overflow'[k]) = Len(evs) - next + 1
    BY <1>0, <1>10, ReenqueueFields
  <2> HIDE DEF k
  <2>2. next \in LiveAt /\ Firing
    BY <2>1, BatchAggAssumption DEF LiveAt, Firing
  <2>3. k \notin todo /\ Len(evs) + p <= Len(batches[k])
    BY <1>0, <2>1, <2>2 DEF EmptyInv, LengthInv, k
  <2>4. B <= next - 1
    <3>1. B <= Len(body)
      BY <1>10, ReenqueueAfterRoom
    <3>2. Len(body) <= next - 1
      BY <2>2, EncodedBefore
    <3> QED
      BY <1>0, <3>1, <3>2
  <2>5. p \in Nat /\ Len(evs) \in Nat /\ Len(batches[k]) \in Nat
    BY <1>0, <2>1
  <2> HIDE DEF p
  <2>6. Len(overflow'[k]) + p + B <= Len(batches[k])
    BY <1>0, <2>1, <2>3, <2>4, <2>5
  <2>7. p = B * rounds
    BY DEF p
  <2>8. \A q \in todo' : rounds' > 0 => Len(overflow'[q]) + B * rounds' <= Len(batches'[q])
    BY <1>0, <2>1, <2>3 DEF LengthInv
  <2>9. \A q \in Keys \ todo' :
           overflow'[q] # <<>> => Len(overflow'[q]) + B * rounds' + B <= Len(batches'[q])
    BY <1>0, <2>1, <2>6, <2>7 DEF LengthInv
  <2>10. \A i \in LiveAt' : Len(evs') + B * rounds' <= Len(batches'[KeyOf(evs'[i])])
    BY <2>1, <2>2 DEF LengthInv, LiveAt
  <2> QED
    BY <2>8, <2>9, <2>10 DEF LengthInv, KeyOf
<1>11. CASE UNCHANGED vars
  BY <1>11 DEF vars, LengthInv, Firing, LiveAt, KeyOf
<1> QED
  BY <1>2, <1>3, <1>4, <1>5, <1>6, <1>7, <1>8, <1>9, <1>10, <1>11 DEF Next, Step, Terminated

LEMMA DoneNext == TypeInv /\ DoneInv /\ [Next]_vars => DoneInv'
<1> SUFFICES ASSUME TypeInv, DoneInv, [Next]_vars, phase' = "done"
             PROVE  todo' = {} /\ (Filled(overflow)' = {} \/ rounds' > MaxOverflowBatches)
  BY DEF DoneInv
<1>1. CASE Done
  BY <1>1 DEF Done, Filled
<1>2. CASE UNCHANGED vars
  BY <1>2 DEF vars, DoneInv, Filled
<1>3. ASSUME (\E e \in Events : Add(e)) \/ Fire \/ (\E k \in Keys : FireBatch(k)) \/ OverflowRound
      PROVE  FALSE
  BY <1>3 DEF Add, Fire, FireBatch, OverflowRound
<1>4. ASSUME Reject \/ Encode \/ Reenqueue \/ EncodeEnd PROVE FALSE
  BY <1>4 DEF Reject, Encode, Reenqueue, EncodeEnd, Encoding
<1>5. ASSUME Skip \/ BuildURL \/ (\E o \in Outcomes : Attempt(o)) PROVE FALSE
  BY <1>5 DEF Skip, BuildURL, Attempt
<1> QED
  BY <1>1, <1>2, <1>3, <1>4, <1>5 DEF Next, Step, Terminated

LEMMA DoneInvariant == Spec => []DoneInv
<1>1. Init => DoneInv
  BY DEF Init, DoneInv
<1> QED
  BY <1>1, DoneNext, TypeInvariant, PTL DEF Spec

-----------------------------------------------------------------------------
(***************************************************************************)
(* Answers.  What AnswerAll and AnswerEach do to an event's responses.     *)
(***************************************************************************)
LEMMA AllAnswered ==
  ASSUME TypeInv, NEW kind, AnswerAll(kind), NEW e \in Events
  PROVE  /\ (\E i \in LiveAt : evs[i] = e) => posted'[e] = Append(posted[e], kind)
         /\ ~(\E i \in LiveAt : evs[i] = e) => posted'[e] = posted[e]
<1>1. posted'[e] = IF e \in Live THEN Append(posted[e], kind) ELSE posted[e]
  BY DEF AnswerAll
<1> QED
  BY <1>1, LiveEvents

\* An event behind the cut has a rank that the body has no event for.
LEMMA CutBehind ==
  ASSUME TypeInv, RankInv, Firing, NEW i \in LiveAt
  PROVE  /\ RankOf(evs, i) \in Nat /\ Len(body) \in Nat
         /\ ~(i < next) => RankOf(evs, i) > Len(body)
<1>1. /\ i \in Nat /\ evs[i] # Nil /\ next - 1 \in Nat /\ next \in Nat
      /\ Len(body) = RankOf(evs, next - 1)
  BY DEF TypeInv, TypeOK, LiveAt, RankInv
<1>2. RankOf(evs, i) \in Nat /\ Len(body) \in Nat
  BY <1>1, RankType
<1>3. ASSUME ~(i < next) PROVE RankOf(evs, i) > Len(body)
  <2>1. next - 1 < i
    BY <1>1, <1>3
  <2>2. RankOf(evs, next - 1) < RankOf(evs, i)
    BY <1>1, <2>1, RankLess
  <2> QED
    BY <1>1, <1>2, <2>2
<1> QED
  BY <1>2, <1>3

\* An event gets the response of its rank, which is its own if it was encoded.
LEMMA EachAnswered ==
  ASSUME TypeInv, OrderInv, RankInv, Firing, NEW n, AnswerEach(n), NEW e \in Events
  PROVE  /\ ~(\E i \in LiveAt : evs[i] = e) => posted'[e] = posted[e]
         /\ \A i \in LiveAt : evs[i] = e =>
               IF RankOf(evs, i) <= n
               THEN \/ posted'[e] = Append(posted[e], "answer") /\ i < next
                    \/ posted'[e] = Append(posted[e], "stray") /\ ~(i < next)
               ELSE posted'[e] = posted[e]
<1>1. \A i : Rank(i) = RankOf(evs, i)
  BY DEF Rank, RankOf, Held
<1> DEFINE r == RankOf(evs, CHOOSE i \in DOMAIN evs : evs[i] = e)
           kind == IF r <= Len(body) /\ body[r] = e THEN "answer" ELSE "stray"
<1>2. posted'[e] = IF \E i \in DOMAIN evs : evs[i] = e /\ RankOf(evs, i) <= n
                   THEN Append(posted[e], kind) ELSE posted[e]
  BY <1>1 DEF AnswerEach
<1>3. \A i \in DOMAIN evs : evs[i] = e => i \in LiveAt
  BY LiveEvents
<1>4. CASE ~(\E i \in LiveAt : evs[i] = e)
  BY <1>2, <1>3, <1>4
<1>5. ASSUME NEW i \in LiveAt, evs[i] = e
      PROVE  IF RankOf(evs, i) <= n
             THEN \/ posted'[e] = Append(posted[e], "answer") /\ i < next
                  \/ posted'[e] = Append(posted[e], "stray") /\ ~(i < next)
             ELSE posted'[e] = posted[e]
  <2>1. \A j \in DOMAIN evs : evs[j] = e => j = i
    BY <1>3, <1>5 DEF OrderInv, DistinctInv
  <2>2. i \in DOMAIN evs /\ (CHOOSE j \in DOMAIN evs : evs[j] = e) = i
    BY <1>5, <2>1 DEF LiveAt
  <2>3. r = RankOf(evs, i)
    BY <2>2
  <2>4. ~(i < next) => kind = "stray"
    <3> SUFFICES ASSUME ~(i < next) PROVE ~(r <= Len(body))
      OBVIOUS
    <3>1. RankOf(evs, i) > Len(body) /\ RankOf(evs, i) \in Nat /\ Len(body) \in Nat
      BY <1>5, CutBehind
    <3>2. r > Len(body) /\ r \in Nat /\ Len(body) \in Nat
      BY <2>3, <3>1
    <3> HIDE DEF r
    <3> QED
      BY <3>2
  <2>5. i < next => kind = "answer"
    <3> SUFFICES ASSUME i < next PROVE r <= Len(body) /\ body[r] = e
      OBVIOUS
    <3>1. RankOf(evs, i) \in DOMAIN body /\ body[RankOf(evs, i)] = e
      BY <1>5 DEF RankInv
    <3>2. body \in Seq(Events)
      BY DEF TypeInv, TypeOK
    <3>3. r \in DOMAIN body /\ body[r] = e
      BY <2>3, <3>1
    <3> HIDE DEF r
    <3> QED
      BY <3>2, <3>3
  <2> HIDE DEF kind, r
  <2>6. CASE RankOf(evs, i) <= n
    <3>1. posted'[e] = Append(posted[e], kind)
      BY <1>2, <1>5, <2>2, <2>6
    <3> QED
      BY <2>4, <2>5, <2>6, <3>1
  <2>7. CASE ~(RankOf(evs, i) <= n)
    <3>1. posted'[e] = posted[e]
      BY <1>2, <2>1, <2>7
    <3> QED
      BY <2>7, <3>1
  <2> QED
    BY <2>6, <2>7
<1> QED
  BY <1>4, <1>5

\* Every event of a body is answered, or left out by the server's answers.
LEMMA BodyAnswered ==
  ASSUME TypeInv, OrderInv, RankInv, Firing, NEW n \in Nat, AnswerEach(n),
         NEW m \in DOMAIN body
  PROVE  m <= n => posted'[body[m]] # <<>>
<1> SUFFICES ASSUME m <= n PROVE posted'[body[m]] # <<>>
  OBVIOUS
<1>1. body[m] \in Events /\ posted[body[m]] \in Seq(Kinds)
  BY DEF TypeInv, TypeOK
<1>2. PICK i \in LiveAt : i < next /\ evs[i] = body[m] /\ RankOf(evs, i) = m
  BY DEF RankInv
<1>3. posted'[body[m]] = Append(posted[body[m]], "answer")
  BY <1>1, <1>2, EachAnswered
<1> QED
  BY <1>1, <1>3, AppendNotEmpty DEF Kinds

LEMMA BodyLive ==
  ASSUME TypeInv, RankInv, Firing, NEW m \in DOMAIN body
  PROVE  body[m] \in Events /\ \E i \in LiveAt : i < next /\ evs[i] = body[m]
<1>1. body[m] \in Events
  BY DEF TypeInv, TypeOK
<1> QED
  BY <1>1 DEF RankInv

LEMMA AppendElements ==
  ASSUME NEW S, NEW s \in Seq(S), NEW e \in S
  PROVE  Elements(Append(s, e)) = Elements(s) \cup {e}
<1> DEFINE t == Append(s, e)
<1>1. /\ DOMAIN t = DOMAIN s \cup {Len(s) + 1} /\ t[Len(s) + 1] = e
      /\ \A i \in DOMAIN s : t[i] = s[i]
  OBVIOUS
<1> HIDE DEF t
<1>2. Elements(t) = Elements(s) \cup {e}
  BY <1>1 DEF Elements
<1> QED
  BY <1>2 DEF t

\* A step appends one response to those of an event, or none.
LEMMA PostedSteps ==
  ASSUME TypeInv, [Next]_vars, NEW e \in Events
  PROVE  /\ \/ posted'[e] = posted[e]
            \/ \E kind \in Kinds : posted'[e] = Append(posted[e], kind)
         /\ omitted \subseteq omitted'
<1> DEFINE Grows == posted'[e] = posted[e]
                    \/ \E kind \in Kinds : posted'[e] = Append(posted[e], kind)
<1>0. posted \in [Events -> Seq(Kinds)]
  BY DEF TypeInv, TypeOK
<1>1. ASSUME NEW kind \in Kinds, AnswerAll(kind) PROVE Grows
  BY <1>1 DEF AnswerAll
<1>2. ASSUME NEW n, AnswerEach(n) PROVE Grows
  <2>1. posted'[e] = posted[e] \/ posted'[e] = Append(posted[e], "answer")
        \/ posted'[e] = Append(posted[e], "stray")
    BY <1>2 DEF AnswerEach
  <2> QED
    BY <2>1 DEF Kinds
<1> HIDE DEF Grows
<1> SUFFICES Grows /\ omitted \subseteq omitted'
  BY DEF Grows
<1>3. ASSUME posted' = posted, omitted' = omitted PROVE Grows /\ omitted \subseteq omitted'
  BY <1>3 DEF Grows
<1>4. CASE Reject
  <2>1. /\ omitted' = omitted
        /\ posted' = [posted EXCEPT ![Current] =
                        Append(@, IF Current \in Bad THEN "invalid" ELSE "toolarge")]
    BY <1>4 DEF Reject
  <2>2. posted'[e] = posted[e] \/ posted'[e] = Append(posted[e], "invalid")
        \/ posted'[e] = Append(posted[e], "toolarge")
    BY <1>0, <2>1
  <2> QED
    BY <2>1, <2>2 DEF Grows, Kinds
<1>5. CASE BuildURL
  <2>1. omitted' = omitted /\ (AnswerAll("failed") \/ posted' = posted)
    BY <1>5 DEF BuildURL
  <2> QED
    BY <1>1, <1>3, <2>1 DEF Kinds
<1>6. ASSUME NEW o \in Outcomes, Attempt(o) PROVE Grows /\ omitted \subseteq omitted'
  <2>1. \/ posted' = posted
        \/ \E kind \in Kinds : AnswerAll(kind)
        \/ \E n \in 0 .. Len(body) + 1 : AnswerEach(n)
        \/ AnswerEach(Len(body))
    BY <1>6 DEF Attempt, Kinds
  <2>2. omitted \subseteq omitted'
    BY <1>6 DEF Attempt
  <2>3. CASE posted' = posted
    BY <2>2, <2>3 DEF Grows
  <2> QED
    BY <1>1, <1>2, <2>1, <2>2, <2>3
<1>7. ASSUME NEW d \in Events, Add(d) PROVE Grows /\ omitted \subseteq omitted'
  BY <1>3, <1>7 DEF Add
<1>8. ASSUME NEW k \in Keys, FireBatch(k) PROVE Grows /\ omitted \subseteq omitted'
  BY <1>3, <1>8 DEF FireBatch
<1>9. CASE Fire \/ OverflowRound \/ Done
  BY <1>3, <1>9 DEF Fire, OverflowRound, Done
<1>10. CASE Encode \/ Reenqueue \/ EncodeEnd \/ Skip
  BY <1>3, <1>10 DEF Encode, Reenqueue, EncodeEnd, Skip
<1>11. CASE UNCHANGED vars
  BY <1>3, <1>11 DEF vars
<1> QED
  BY <1>4, <1>5, <1>6, <1>7, <1>8, <1>9, <1>10, <1>11 DEF Next, Step, Terminated

LEMMA PostedStays ==
  ASSUME TypeInv, [Next]_vars, NEW e \in Events, posted[e] # <<>> \/ e \in omitted
  PROVE  posted'[e] # <<>> \/ e \in omitted'
<1>1. posted[e] \in Seq(Kinds)
  BY DEF TypeInv, TypeOK
<1>2. \A kind \in Kinds : Append(posted[e], kind) # <<>>
  BY <1>1, AppendNotEmpty
<1> QED
  BY <1>2, PostedSteps

(***************************************************************************)
(* An event that was collected and has no response yet is in its bucket,   *)
(* in the batch that is encoded, or in the body that is posted.            *)
(***************************************************************************)
Waiting(e) ==
  \/ phase = "collect"
  \/ rounds = 0 /\ KeyOf(e) \in todo
  \/ e \in Elements(overflow[KeyOf(e)])
  \/ phase = "encode" /\ \E i \in DOMAIN evs : i >= next /\ evs[i] = e
  \/ Firing /\ e \in Elements(body)

Answered(e) == posted[e] # <<>> \/ e \in omitted

AnsweredInv == \A e \in Collected : Waiting(e) \/ Answered(e)

\* What was collected is in the bucket of its key.
LEMMA CollectedEvent ==
  ASSUME TypeInv, DestInv, NEW e \in Collected
  PROVE  e \in Events /\ KeyOf(e) \in Keys /\ e \in Elements(batches[KeyOf(e)])
<1>1. PICK k \in Keys : e \in Elements(batches[k])
  BY DEF Collected
<1>2. PICK i \in DOMAIN batches[k] : batches[k][i] = e
  BY <1>1 DEF Elements
<1>3. batches[k] \in Seq(Events)
  BY DEF TypeInv, TypeOK
<1>4. e \in Events /\ KeyOf(e) = k
  BY <1>2, <1>3 DEF DestInv, Bucketed
<1> QED
  BY <1>1, <1>4

LEMMA AnsweredNext ==
  TypeInv /\ DestInv /\ OrderInv /\ RankInv /\ AnsweredInv /\ [Next]_vars => AnsweredInv'
<1> SUFFICES ASSUME TypeInv, DestInv, OrderInv, RankInv, AnsweredInv, [Next]_vars,
                    phase' # "collect", NEW e \in Collected'
             PROVE  Waiting(e)' \/ Answered(e)'
  BY DEF AnsweredInv, Waiting
<1>0. /\ batches \in [Keys -> Seq(Events)] /\ overflow \in [Keys -> Seq(Events)]
      /\ evs \in Seq(Events \cup {Nil}) /\ next \in Nat \ {0} /\ body \in Seq(Events)
      /\ rounds \in Nat /\ todo \subseteq Keys /\ Nil \notin Events
      /\ DistinctInv /\ EmptyInv /\ CutInv
  BY BatchAggAssumption DEF TypeInv, TypeOK, OrderInv
<1>1. batches' = batches
  <2>1. ~\E d \in Events : Add(d)
    BY DEF Add
  <2>2. CASE UNCHANGED vars
    BY <2>2 DEF vars
  <2>3. CASE Fire \/ OverflowRound \/ Done \/ Reject \/ Encode \/ Reenqueue \/ EncodeEnd
    BY <2>3 DEF Fire, OverflowRound, Done, Reject, Encode, Reenqueue, EncodeEnd
  <2>4. CASE Skip \/ BuildURL \/ (\E o \in Outcomes : Attempt(o)) \/ \E k \in Keys : FireBatch(k)
    BY <2>4 DEF Skip, BuildURL, Attempt, SameBatch, FireBatch
  <2> QED
    BY <2>1, <2>2, <2>3, <2>4 DEF Next, Step, Terminated
<1>2. e \in Collected /\ e \in Events /\ KeyOf(e) \in Keys /\ e \in Elements(batches[KeyOf(e)])
  <2>1. e \in Collected
    BY <1>1 DEF Collected
  <2> QED
    BY <2>1, CollectedEvent
<1> DEFINE k == KeyOf(e)
<1>3. k \in Keys /\ e \in Elements(batches[k])
  BY <1>2
<1>4. ASSUME Answered(e) PROVE Answered(e)'
  BY <1>2, <1>4, PostedStays DEF Answered
<1>5. Waiting(e)' <=>
        \/ phase' = "collect"
        \/ rounds' = 0 /\ k \in todo'
        \/ e \in Elements(overflow'[k])
        \/ phase' = "encode" /\ \E i \in DOMAIN evs' : i >= next' /\ evs'[i] = e
        \/ phase' \in {"encode", "encoded", "post"} /\ e \in Elements(body')
  BY DEF Waiting, Firing, Elements, KeyOf
<1>6. Waiting(e) <=>
        \/ phase = "collect"
        \/ rounds = 0 /\ k \in todo
        \/ e \in Elements(overflow[k])
        \/ phase = "encode" /\ \E i \in DOMAIN evs : i >= next /\ evs[i] = e
        \/ phase \in {"encode", "encoded", "post"} /\ e \in Elements(body)
  BY DEF Waiting, Firing
<1>7. Waiting(e) \/ Answered(e)
  BY <1>2 DEF AnsweredInv
<1>8. SUFFICES ASSUME Waiting(e) PROVE Waiting(e)' \/ Answered(e)'
  BY <1>4, <1>7
<1> HIDE DEF k
<1>9. \A s : e \in Elements(s) => s # <<>>
  BY DEF Elements
<1>10. CASE Fire
  <2>1. phase = "collect" /\ rounds' = rounds /\ todo' = Filled(batches)
    BY <1>10 DEF Fire
  <2>2. rounds' = 0 /\ k \in todo'
    BY <1>0, <1>3, <1>9, <2>1 DEF EmptyInv, Filled
  <2> QED
    BY <1>5, <2>2
<1>11. ASSUME NEW q \in Keys, FireBatch(q) PROVE Waiting(e)'
  <2>1. /\ todo' = todo \ {q} /\ phase = "next" /\ phase' = "encode" /\ rounds' = rounds
        /\ next' = 1
        /\ \/ rounds = 0 /\ evs' = batches[q] /\ overflow' = overflow
           \/ rounds # 0 /\ evs' = overflow[q] /\ overflow' = [overflow EXCEPT ![q] = <<>>]
    BY <1>11 DEF FireBatch
  <2>2. ASSUME e \in Elements(evs') PROVE Waiting(e)'
    <3>1. PICK i \in DOMAIN evs' : evs'[i] = e
      BY <2>2 DEF Elements
    <3>2. evs' \in Seq(Events)
      BY <1>0, <2>1
    <3>3. i >= next'
      BY <2>1, <3>2
    <3> QED
      BY <1>5, <2>1, <3>1, <3>3
  <2>3. CASE rounds = 0 /\ k \in todo
    BY <1>3, <1>5, <2>1, <2>2, <2>3
  <2>4. CASE e \in Elements(overflow[k])
    <3>1. CASE rounds = 0 \/ k # q
      BY <1>0, <1>3, <1>5, <2>1, <2>4, <3>1
    <3>2. CASE rounds # 0 /\ k = q
      BY <2>1, <2>2, <2>4, <3>2
    <3> QED
      BY <3>1, <3>2
  <2> QED
    BY <1>6, <1>8, <2>1, <2>3, <2>4
<1>12. CASE OverflowRound \/ Done
  <2>1. phase = "next" /\ todo = {} /\ overflow' = overflow
    BY <1>12 DEF OverflowRound, Done
  <2> QED
    BY <1>5, <1>6, <1>8, <2>1
<1>13. CASE Reject
  <2>1. /\ next \in DOMAIN evs /\ phase = "encode" /\ phase' = "encode" /\ next' = next + 1
        /\ evs' = [evs EXCEPT ![next] = Nil]
        /\ posted' = [posted EXCEPT ![evs[next]] =
                        Append(@, IF evs[next] \in Bad THEN "invalid" ELSE "toolarge")]
        /\ UNCHANGED <<overflow, rounds, todo, body>>
    BY <1>13, CurrentEvent DEF Reject, Encoding, Current
  <2>2. ASSUME NEW i \in DOMAIN evs, i >= next, evs[i] = e PROVE Waiting(e)' \/ Answered(e)'
    <3>1. CASE i = next
      <4>1. /\ posted[e] \in Seq(Kinds)
            /\ \/ posted'[e] = Append(posted[e], "invalid")
               \/ posted'[e] = Append(posted[e], "toolarge")
        BY <1>2, <2>1, <2>2, <3>1 DEF TypeInv, TypeOK
      <4>2. posted'[e] # <<>>
        BY <4>1, AppendNotEmpty DEF Kinds
      <4> QED
        BY <4>2 DEF Answered
    <3>2. CASE i # next
      <4>1. i \in DOMAIN evs' /\ i >= next' /\ evs'[i] = e
        BY <1>0, <2>1, <2>2, <3>2
      <4> QED
        BY <1>5, <2>1, <4>1
    <3> QED
      BY <3>1, <3>2
  <2> QED
    BY <1>5, <1>6, <1>8, <2>1, <2>2
<1>14. CASE Encode
  <2>1. /\ next \in DOMAIN evs /\ evs[next] \in Events /\ phase = "encode" /\ phase' = "encode"
        /\ next' = next + 1 /\ body' = Append(body, evs[next])
        /\ UNCHANGED <<overflow, rounds, todo, evs>>
    BY <1>14, CurrentEvent DEF Encode, Encoding, Current
  <2>2. Elements(body) \subseteq Elements(body') /\ evs[next] \in Elements(body')
    BY <1>0, <2>1, AppendElements
  <2>3. ASSUME NEW i \in DOMAIN evs, i >= next, evs[i] = e PROVE Waiting(e)'
    <3>1. CASE i = next
      BY <1>5, <2>1, <2>2, <2>3, <3>1
    <3>2. CASE i # next
      <4>1. i >= next'
        BY <1>0, <2>1, <2>3, <3>2
      <4> QED
        BY <1>5, <2>1, <2>3, <4>1
    <3> QED
      BY <3>1, <3>2
  <2> QED
    BY <1>5, <1>6, <1>8, <2>1, <2>2, <2>3
<1>15. CASE Reenqueue
  <2> DEFINE q == KeyOf(evs[next])
  <2>1. /\ phase = "encode" /\ phase' = "encoded" /\ UNCHANGED <<rounds, todo, body>>
        /\ \A p \in Keys : p # q => overflow'[p] = overflow[p]
        /\ overflow[q] = <<>>
        /\ \A i \in DOMAIN evs :
              i >= next => KeyOf(evs[i]) = q /\ evs[i] \in Elements(overflow'[q])
    BY <1>15, ReenqueueFields
  <2> HIDE DEF q
  <2>2. e \in Elements(overflow[k]) => e \in Elements(overflow'[k])
    BY <1>3, <1>9, <2>1
  <2>3. ASSUME NEW i \in DOMAIN evs, i >= next, evs[i] = e PROVE e \in Elements(overflow'[k])
    BY <2>1, <2>3 DEF k
  <2> QED
    BY <1>5, <1>6, <1>8, <2>1, <2>2, <2>3
<1>16. CASE EncodeEnd
  <2>1. /\ phase = "encode" /\ phase' = "encoded" /\ next > Len(evs)
        /\ UNCHANGED <<overflow, rounds, todo, evs, next, body>>
    BY <1>16 DEF EncodeEnd
  <2>2. \A i \in DOMAIN evs : ~(i >= next)
    BY <1>0, <2>1
  <2> QED
    BY <1>5, <1>6, <1>8, <2>1, <2>2
<1>17. CASE Skip
  <2>1. /\ phase = "encoded" /\ body = <<>> /\ UNCHANGED <<overflow, rounds, todo>>
    BY <1>17 DEF Skip, SameBatch
  <2> QED
    BY <1>5, <1>6, <1>8, <1>9, <2>1
<1>18. ASSUME phase \in {"encoded", "post"}, UNCHANGED <<overflow, rounds, todo, body>>,
              phase' = "post" \/ \A m \in DOMAIN body : Answered(body[m])'
       PROVE  Waiting(e)' \/ Answered(e)'
  <2>1. CASE e \in Elements(body)
    <3>1. PICK m \in DOMAIN body : body[m] = e
      BY <2>1 DEF Elements
    <3> QED
      BY <1>5, <1>18, <2>1, <3>1
  <2>2. CASE ~(e \in Elements(body))
    BY <1>5, <1>6, <1>8, <1>18, <2>2
  <2> QED
    BY <2>1, <2>2
<1>19. ASSUME Firing, body' = body, NEW kind \in Kinds, AnswerAll(kind), NEW m \in DOMAIN body
       PROVE  Answered(body[m])'
  <2>1. body[m] \in Events /\ \E i \in LiveAt : evs[i] = body[m]
    BY <1>19, BodyLive
  <2>2. posted'[body[m]] = Append(posted[body[m]], kind)
    BY <1>19, <2>1, AllAnswered
  <2>3. posted[body[m]] \in Seq(Kinds)
    BY <2>1 DEF TypeInv, TypeOK
  <2>4. posted'[body[m]] # <<>>
    BY <1>19, <2>2, <2>3, AppendNotEmpty
  <2> QED
    BY <1>19, <2>4 DEF Answered
<1>20. CASE BuildURL
  <2>1. /\ phase = "encoded" /\ UNCHANGED <<overflow, rounds, todo, body>>
        /\ phase' = "post" \/ AnswerAll("failed")
    BY <1>20 DEF BuildURL, SameBatch
  <2>2. Firing /\ "failed" \in Kinds
    BY <2>1 DEF Firing, Kinds
  <2> QED
    BY <1>18, <1>19, <2>1, <2>2
<1>21. ASSUME NEW o \in Outcomes, Attempt(o) PROVE Waiting(e)' \/ Answered(e)'
  <2>1. /\ phase = "post" /\ UNCHANGED <<overflow, rounds, todo, body>>
        /\ \/ phase' = "post"
           \/ \E kind \in Kinds : AnswerAll(kind)
           \/ AnswerEach(Len(body))
           \/ \E n \in 0 .. Len(body) + 1 :
                 /\ AnswerEach(n)
                 /\ omitted' = omitted \cup {body[i] : i \in {j \in DOMAIN body : j > n}}
    BY <1>21 DEF Attempt, SameBatch, Kinds
  <2>2. Firing
    BY <2>1 DEF Firing
  <2>3. \A m \in DOMAIN body : m \in Nat /\ m <= Len(body)
    BY <1>0
  <2>4. CASE AnswerEach(Len(body))
    <3>1. \A m \in DOMAIN body : posted'[body[m]] # <<>>
      BY <1>0, <2>2, <2>3, <2>4, BodyAnswered
    <3> QED
      BY <1>18, <2>1, <3>1 DEF Answered
  <2>5. ASSUME NEW n \in 0 .. Len(body) + 1, AnswerEach(n),
               omitted' = omitted \cup {body[i] : i \in {j \in DOMAIN body : j > n}}
        PROVE  Waiting(e)' \/ Answered(e)'
    <3>1. \A m \in DOMAIN body : m <= n => posted'[body[m]] # <<>>
      BY <1>0, <2>2, <2>5, BodyAnswered
    <3>2. \A m \in DOMAIN body : ~(m <= n) => body[m] \in omitted'
      BY <1>0, <2>3, <2>5
    <3> QED
      BY <1>18, <2>1, <3>1, <3>2 DEF Answered
  <2> QED
    BY <1>18, <1>19, <2>1, <2>2, <2>4, <2>5
<1>22. CASE UNCHANGED vars
  BY <1>5, <1>6, <1>8, <1>22 DEF vars
<1>23. ~\E d \in Events : Add(d)
  BY DEF Add
<1> QED
  BY <1>10, <1>11, <1>12, <1>13, <1>14, <1>15, <1>16, <1>17, <1>20, <1>21, <1>22, <1>23
     DEF Next, Step, Terminated

LEMMA AnsweredInvariant == Spec => []AnsweredInv
<1>1. Init => AnsweredInv
  BY DEF Init, AnsweredInv, Waiting
<1> QED
  BY <1>1, AnsweredNext, TypeInvariant, DestInvariant, OrderInvariant, RankInvariant, PTL
     DEF Spec

LEMMA LengthInvariant ==
  ASSUME NEW B \in Nat \ {0}, Room(B)
  PROVE  Spec => []LengthInv(B)
<1>1. Init => LengthInv(B)
  BY LengthInit
<1>2. TypeInv /\ DestInv /\ OrderInv /\ RankInv /\ FillInv /\ LengthInv(B) /\ [Next]_vars
        => LengthInv(B)'
  BY LengthNext
<1> QED
  BY <1>1, <1>2, TypeInvariant, DestInvariant, OrderInvariant, RankInvariant, FillInvariant, PTL
     DEF Spec

(***************************************************************************)
(* Each event has a response when Fire has returned, if B events of the    *)
(* largest size fit in a body and no bucket holds more than B events for   *)
(* the first body and for each of the maxOverflowBatches + 1 rounds of     *)
(* overflow.  The limits of the code let four in: 48 events to a bucket.   *)
(***************************************************************************)
ShortBuckets(B) == \A k \in Keys : Len(batches[k]) <= B * (MaxOverflowBatches + 2)

THEOREM ShortBucketsAnswered ==
  ASSUME NEW B \in Nat \ {0}, Room(B)
  PROVE  Spec => [](ShortBuckets(B) => EveryEventAnswered)
<1>1. ASSUME TypeInv, DestInv, DoneInv, AnsweredInv, LengthInv(B), ShortBuckets(B)
      PROVE  EveryEventAnswered
  <2> SUFFICES ASSUME phase = "done", NEW e \in Collected PROVE Answered(e)
    BY DEF EveryEventAnswered, Answered
  <2>1. e \in Events /\ KeyOf(e) \in Keys
    BY <1>1, CollectedEvent
  <2> DEFINE k == KeyOf(e)
  <2>2. todo = {} /\ (Filled(overflow) = {} \/ rounds > MaxOverflowBatches)
    BY <1>1 DEF DoneInv
  <2>3. /\ Len(overflow[k]) \in Nat /\ Len(batches[k]) \in Nat /\ rounds \in Nat
        /\ MaxOverflowBatches \in Nat /\ overflow[k] \in Seq(Events)
    BY <1>1, <2>1, BatchAggAssumption DEF TypeInv, TypeOK
  <2>4. ASSUME overflow[k] # <<>> PROVE FALSE
    <3>1. rounds >= MaxOverflowBatches + 1
      BY <2>1, <2>2, <2>3, <2>4 DEF Filled
    <3>2. Len(overflow[k]) + B * rounds + B <= Len(batches[k])
      BY <1>1, <2>1, <2>2, <2>4 DEF LengthInv
    <3>3. Len(batches[k]) <= B * (MaxOverflowBatches + 2)
      BY <1>1, <2>1 DEF ShortBuckets
    <3>4. Len(overflow[k]) # 0
      BY <2>3, <2>4
    <3>5. PICK d \in Nat : rounds = MaxOverflowBatches + 1 + d
      <4>1. rounds - (MaxOverflowBatches + 1) \in Nat
        BY <2>3, <3>1
      <4>2. rounds = MaxOverflowBatches + 1 + (rounds - (MaxOverflowBatches + 1))
        BY <2>3
      <4> QED
        BY <4>1, <4>2
    <3>6. B * rounds + B = B * (MaxOverflowBatches + 2) + B * d
      BY <2>3, <3>5
    <3> DEFINE sent == B * rounds
               rest == B * d
               most == B * (MaxOverflowBatches + 2)
    <3>7. sent \in Nat /\ rest \in Nat /\ most \in Nat
      BY <2>3, <3>5
    <3>8. /\ Len(overflow[k]) + sent + B <= Len(batches[k]) /\ Len(batches[k]) <= most
          /\ sent + B = most + rest
      BY <3>2, <3>3, <3>6
    <3> HIDE DEF sent, rest, most
    <3> QED
      BY <2>3, <3>4, <3>7, <3>8
  <2>5. ~Waiting(e)
    <3>1. e \notin Elements(overflow[k])
      BY <2>4 DEF Elements
    <3> QED
      BY <2>2, <3>1 DEF Waiting, Firing
  <2> QED
    BY <1>1, <2>5 DEF AnsweredInv
<1>2. Spec => []LengthInv(B)
  BY LengthInvariant
<1>3. TypeInv /\ DestInv /\ DoneInv /\ AnsweredInv /\ LengthInv(B)
        => (ShortBuckets(B) => EveryEventAnswered)
  BY <1>1
<1> QED
  BY <1>2, <1>3, TypeInvariant, DestInvariant, DoneInvariant, AnsweredInvariant, PTL

-----------------------------------------------------------------------------
(***************************************************************************)
(* Single responses.  While nothing failed that answers whole batches, or  *)
(* before any overflow, an event that is still to be sent has no response. *)
(***************************************************************************)
Fresh ==
  /\ \A e \in Events : Len(posted[e]) <= 1
  /\ phase = "collect" => \A e \in Events : posted[e] = <<>>
  /\ rounds = 0 => \A k \in todo : \A e \in Elements(batches[k]) : posted[e] = <<>>
  /\ Firing => \A i \in LiveAt : posted[evs[i]] = <<>>
  /\ Clean => \A k \in Keys : \A e \in Elements(overflow[k]) : posted[e] = <<>>

FreshInv == Clean \/ rounds = 0 => Fresh

LEMMA BucketEvents ==
  ASSUME TypeInv, DestInv, NEW k \in Keys
  PROVE  /\ \A e \in Elements(batches[k]) : e \in Events /\ KeyOf(e) = k
         /\ \A e \in Elements(overflow[k]) : e \in Events /\ KeyOf(e) = k
<1>1. batches[k] \in Seq(Events) /\ overflow[k] \in Seq(Events)
  BY DEF TypeInv, TypeOK
<1> QED
  BY <1>1 DEF DestInv, Bucketed, Elements

\* A response stays, and the count of rounds only grows.
LEMMA PremiseStays ==
  ASSUME TypeInv, [Next]_vars
  PROVE  (Clean' => Clean) /\ (rounds' = 0 => rounds = 0)
<1>1. ASSUME Clean', NEW e \in Events PROVE Elements(posted[e]) \subseteq CleanKinds
  <2>1. posted[e] \in Seq(Kinds)
    BY DEF TypeInv, TypeOK
  <2>2. \A kind \in Kinds : Elements(posted[e]) \subseteq Elements(Append(posted[e], kind))
    BY <2>1, AppendElements
  <2>3. Elements(posted[e]) \subseteq Elements(posted'[e])
    BY <2>2, PostedSteps
  <2>4. Elements(posted'[e]) \subseteq CleanKinds
    BY <1>1 DEF Clean, Elements
  <2> QED
    BY <2>3, <2>4
<1>2. rounds' = 0 => rounds = 0
  <2>1. CASE OverflowRound
    BY <2>1 DEF OverflowRound, TypeInv, TypeOK
  <2>2. CASE Fire \/ Done \/ Reject \/ Encode \/ Reenqueue \/ EncodeEnd
    BY <2>2 DEF Fire, Done, Reject, Encode, Reenqueue, EncodeEnd
  <2>3. CASE Skip \/ BuildURL \/ (\E o \in Outcomes : Attempt(o))
    BY <2>3 DEF Skip, BuildURL, Attempt, SameBatch
  <2>4. CASE (\E k \in Keys : FireBatch(k)) \/ (\E e \in Events : Add(e)) \/ UNCHANGED vars
    BY <2>4 DEF FireBatch, Add, vars
  <2> QED
    BY <2>1, <2>2, <2>3, <2>4 DEF Next, Step, Terminated
<1> QED
  BY <1>1, <1>2 DEF Clean

\* The responses that end an attempt: an event of the batch gets one, which is
\* a clean one only if the event was encoded.
Posts(e) ==
  \/ posted'[e] = posted[e]
  \/ /\ \E i \in LiveAt : evs[i] = e
     /\ \E kind \in Kinds : posted'[e] = Append(posted[e], kind)
                            /\ (kind \in CleanKinds => e \in Elements(body))

LEMMA AllPosts ==
  ASSUME TypeInv, NEW kind \in Kinds \ CleanKinds, AnswerAll(kind), NEW e \in Events
  PROVE  Posts(e)
<1> QED
  BY AllAnswered DEF Posts

LEMMA EachPosts ==
  ASSUME TypeInv, OrderInv, RankInv, Firing, NEW n, AnswerEach(n), NEW e \in Events
  PROVE  Posts(e)
<1>1. CASE ~(\E i \in LiveAt : evs[i] = e)
  BY <1>1, EachAnswered DEF Posts
<1>2. ASSUME NEW i \in LiveAt, evs[i] = e PROVE Posts(e)
  <2>1. "answer" \in Kinds /\ "stray" \in Kinds \ CleanKinds
    BY DEF Kinds, CleanKinds
  <2>2. i < next => e \in Elements(body)
    BY <1>2 DEF RankInv, Elements
  <2>3. \/ posted'[e] = posted[e]
        \/ posted'[e] = Append(posted[e], "answer") /\ i < next
        \/ posted'[e] = Append(posted[e], "stray")
    BY <1>2, EachAnswered
  <2> QED
    BY <1>2, <2>1, <2>2, <2>3 DEF Posts
<1> QED
  BY <1>1, <1>2

LEMMA FreshPosts ==
  ASSUME TypeInv, DestInv, OrderInv, FreshInv, [Next]_vars, Firing, phase # "encode",
         phase' = "next", UNCHANGED <<batches, overflow, rounds, todo, evs, next, body>>,
         \A e \in Events : Posts(e)
  PROVE  FreshInv'
<1> SUFFICES ASSUME Clean' \/ rounds' = 0 PROVE Fresh'
  BY DEF FreshInv
<1>0. /\ posted \in [Events -> Seq(Kinds)] /\ todo \subseteq Keys /\ EmptyInv /\ CutInv
      /\ overflow \in [Keys -> Seq(Events)] /\ body \in Seq(Events)
  BY DEF TypeInv, TypeOK, OrderInv
<1>1. Fresh /\ (Clean' => Clean)
  BY PremiseStays DEF FreshInv
<1>2. ASSUME NEW e \in Events PROVE Len(posted'[e]) <= 1
  <2>1. CASE posted'[e] = posted[e]
    BY <1>1, <2>1 DEF Fresh
  <2>2. CASE posted'[e] # posted[e]
    <3>1. PICK kind \in Kinds : posted'[e] = Append(posted[e], kind)
      BY <2>2 DEF Posts
    <3>2. posted[e] = <<>>
      BY <1>1, <2>2 DEF Fresh, Posts
    <3> QED
      BY <3>1, <3>2
  <2> QED
    BY <2>1, <2>2
<1>3. ASSUME rounds = 0, NEW k \in todo, NEW e \in Elements(batches[k])
      PROVE  posted'[e] = <<>>
  <2>1. e \in Events /\ KeyOf(e) = k /\ posted[e] = <<>>
    BY <1>0, <1>1, <1>3, BucketEvents DEF Fresh
  <2>2. ~(\E i \in LiveAt : evs[i] = e)
    BY <1>0, <2>1 DEF EmptyInv
  <2> QED
    BY <2>1, <2>2 DEF Posts
<1>4. ASSUME Clean', NEW k \in Keys, NEW e \in Elements(overflow[k])
      PROVE  posted'[e] = <<>>
  <2>1. e \in Events /\ KeyOf(e) = k /\ posted[e] = <<>>
    BY <1>1, <1>4, BucketEvents DEF Fresh
  <2>2. e \notin Elements(body)
    <3>1. phase \in {"encoded", "post"}
      BY DEF Firing
    <3> QED
      BY <1>0, <1>4, <2>1, <3>1 DEF CutInv, Elements
  <2>3. ASSUME NEW kind \in Kinds \ CleanKinds, posted'[e] = Append(posted[e], kind) PROVE FALSE
    <3>1. kind \in Elements(Append(posted[e], kind))
      <4>1. posted[e] \in Seq(Kinds) /\ kind \in Kinds
        BY <1>0, <2>1
      <4>2. Elements(Append(posted[e], kind)) = Elements(posted[e]) \cup {kind}
        BY <4>1, AppendElements
      <4> QED
        BY <4>2
    <3>2. Elements(posted'[e]) \subseteq CleanKinds
      BY <1>4, <2>1 DEF Clean, Elements
    <3> QED
      BY <2>3, <3>1, <3>2
  <2> QED
    BY <2>1, <2>2, <2>3 DEF Posts
<1>5. ~Firing' /\ phase' # "collect"
  BY DEF Firing
<1>6. rounds' = 0 => \A k \in todo' : \A e \in Elements(batches[k])' : posted'[e] = <<>>
  BY <1>3 DEF Elements
<1>7. Clean' => \A k \in Keys : \A e \in Elements(overflow[k])' : posted'[e] = <<>>
  BY <1>4 DEF Elements
<1> QED
  BY <1>2, <1>5, <1>6, <1>7 DEF Fresh

LEMMA FreshNext ==
  TypeInv /\ DestInv /\ OrderInv /\ RankInv /\ FreshInv /\ [Next]_vars => FreshInv'
<1> SUFFICES ASSUME TypeInv, DestInv, OrderInv, RankInv, FreshInv, [Next]_vars
             PROVE  FreshInv'
  OBVIOUS
<1>0. /\ batches \in [Keys -> Seq(Events)] /\ overflow \in [Keys -> Seq(Events)]
      /\ evs \in Seq(Events \cup {Nil}) /\ next \in Nat \ {0} /\ body \in Seq(Events)
      /\ rounds \in Nat /\ todo \subseteq Keys /\ posted \in [Events -> Seq(Kinds)]
      /\ DistinctInv /\ EmptyInv /\ CutInv
  BY DEF TypeInv, TypeOK, OrderInv
<1>1. (Clean' => Clean) /\ (Clean' \/ rounds' = 0 => Fresh)
  BY PremiseStays DEF FreshInv
<1>2. \A k \in Keys : /\ \A e \in Elements(batches[k]) : e \in Events /\ KeyOf(e) = k
                      /\ \A e \in Elements(overflow[k]) : e \in Events /\ KeyOf(e) = k
  BY BucketEvents
<1>3. ASSUME UNCHANGED <<batches, rounds, todo, evs, posted>>, phase' # "collect",
             Firing' => Firing, UNCHANGED overflow
      PROVE  FreshInv'
  BY <1>1, <1>3 DEF FreshInv, Fresh, LiveAt, Elements, Clean
<1>4. CASE Skip \/ Done \/ EncodeEnd
  BY <1>3, <1>4 DEF Skip, Done, EncodeEnd, SameBatch, Firing
<1>5. CASE Encode
  BY <1>3, <1>5 DEF Encode, Encoding, Firing
<1>6. CASE UNCHANGED vars
  BY <1>1, <1>6 DEF vars, FreshInv, Fresh, LiveAt, Elements, Clean, Firing
<1>7. CASE Fire \/ \E e \in Events : Add(e)
  <2>1. /\ phase = "collect" /\ posted' = posted /\ overflow' = overflow
        /\ phase' \in {"collect", "next"}
    BY <1>7 DEF Fire, Add
  <2>2. rounds = 0
    BY <1>0, <2>1 DEF EmptyInv
  <2>3. \A e \in Events : posted'[e] = <<>>
    BY <2>1, <2>2 DEF FreshInv, Fresh
  <2>4. TypeInv' /\ DestInv'
    BY TypeNext, DestNext
  <2>5. /\ \A k \in todo' : \A e \in Elements(batches[k])' : posted'[e] = <<>>
        /\ \A k \in Keys : \A e \in Elements(overflow[k])' : posted'[e] = <<>>
    <3>1. todo' \subseteq Keys /\ batches' \in [Keys -> Seq(Events)]
          /\ overflow' \in [Keys -> Seq(Events)]
      BY <2>4 DEF TypeInv, TypeOK
    <3> QED
      BY <2>3, <3>1 DEF Elements
  <2>6. ~Firing' /\ \A e \in Events : Len(posted'[e]) <= 1
    BY <2>1, <2>3 DEF Firing
  <2> QED
    BY <2>3, <2>5, <2>6 DEF FreshInv, Fresh
<1>8. ASSUME NEW k \in Keys, FireBatch(k) PROVE FreshInv'
  <2>1. /\ k \in todo /\ todo' = todo \ {k} /\ phase = "next" /\ phase' = "encode"
        /\ UNCHANGED <<batches, rounds, posted>>
        /\ \/ rounds = 0 /\ evs' = batches[k] /\ overflow' = overflow
           \/ rounds # 0 /\ evs' = overflow[k] /\ overflow' = [overflow EXCEPT ![k] = <<>>]
    BY <1>8 DEF FireBatch
  <2> SUFFICES ASSUME Clean' \/ rounds' = 0 PROVE Fresh'
    BY DEF FreshInv
  <2>2. Fresh /\ (rounds # 0 => Clean)
    BY <1>1, <2>1
  <2>3. \A q \in Keys : Elements(overflow'[q]) \subseteq Elements(overflow[q])
    <3>1. \A q \in Keys : overflow'[q] = overflow[q] \/ overflow'[q] = <<>>
      BY <1>0, <2>1
    <3>2. Elements(<<>>) = {}
      BY DEF Elements
    <3> QED
      BY <3>1, <3>2
  <2>4. \A i \in LiveAt' : posted[evs'[i]] = <<>>
    <3>1. CASE rounds = 0
      BY <2>1, <2>2, <3>1 DEF Fresh, LiveAt, Elements
    <3>2. CASE rounds # 0
      BY <2>1, <2>2, <3>2 DEF Fresh, LiveAt, Elements
    <3> QED
      BY <3>1, <3>2
  <2>5. \A e \in Events : Len(posted'[e]) <= 1
    BY <2>1, <2>2 DEF Fresh
  <2>6. rounds' = 0 => \A q \in todo' : \A e \in Elements(batches[q])' : posted'[e] = <<>>
    BY <2>1, <2>2 DEF Fresh, Elements
  <2>7. Clean' => \A q \in Keys : \A e \in Elements(overflow[q])' : posted'[e] = <<>>
    <3> SUFFICES ASSUME Clean', NEW q \in Keys, NEW e \in Elements(overflow'[q])
                 PROVE  posted[e] = <<>>
      BY <2>1 DEF Elements
    <3> QED
      BY <1>1, <2>2, <2>3 DEF Fresh
  <2> QED
    BY <2>1, <2>4, <2>5, <2>6, <2>7 DEF Fresh
<1>9. CASE OverflowRound
  <2>1. /\ phase = "next" /\ phase' = "next" /\ rounds' = rounds + 1
        /\ UNCHANGED <<batches, overflow, evs, posted>>
    BY <1>9 DEF OverflowRound
  <2>2. rounds' # 0 /\ ~Firing'
    BY <1>0, <2>1 DEF Firing
  <2> QED
    BY <1>1, <2>1, <2>2 DEF FreshInv, Fresh, Elements, Clean
<1>10. CASE Reject
  <2> DEFINE d == evs[next]
  <2>1. /\ next \in DOMAIN evs /\ d \in Events /\ phase = "encode" /\ phase' = "encode"
        /\ evs' = [evs EXCEPT ![next] = Nil]
        /\ posted' = [posted EXCEPT ![d] =
                        Append(@, IF d \in Bad THEN "invalid" ELSE "toolarge")]
        /\ UNCHANGED <<batches, overflow, rounds, todo>>
    BY <1>10, CurrentEvent DEF Reject, Encoding, Current
  <2> SUFFICES ASSUME Clean' \/ rounds' = 0 PROVE Fresh'
    BY DEF FreshInv
  <2>2. next \in LiveAt /\ Firing
    BY <2>1, BatchAggAssumption DEF LiveAt, Firing
  <2>3. Fresh /\ posted[d] = <<>> /\ overflow[KeyOf(d)] = <<>> /\ KeyOf(d) \notin todo
    BY <1>0, <1>1, <2>1, <2>2 DEF Fresh, EmptyInv
  <2>4. LiveAt' = LiveAt \ {next} /\ \A i \in LiveAt' : evs'[i] = evs[i] /\ evs[i] # d
    BY <1>0, <2>1, <2>2 DEF LiveAt, DistinctInv
  <2> HIDE DEF d
  <2>5. /\ \A e \in Events : e # d => posted'[e] = posted[e]
        /\ Len(posted'[d]) <= 1
    <3>1. \/ posted'[d] = Append(<<>>, "invalid")
          \/ posted'[d] = Append(<<>>, "toolarge")
      BY <1>0, <2>1, <2>3
    <3>2. Len(posted'[d]) <= 1
      <4>1. <<>> \in Seq(Kinds) /\ Len(<<>>) = 0 /\ "invalid" \in Kinds /\ "toolarge" \in Kinds
        BY DEF Kinds
      <4>2. \A kind \in Kinds : Len(Append(<<>>, kind)) <= 1
        BY <4>1
      <4> QED
        BY <3>1, <4>1, <4>2
    <3>3. \A e \in Events : e # d => posted'[e] = posted[e]
      BY <1>0, <2>1
    <3> QED
      BY <3>2, <3>3
  <2>6. ASSUME NEW e \in Events PROVE Len(posted'[e]) <= 1
    <3>1. CASE e = d
      BY <2>5, <3>1
    <3>2. CASE e # d
      BY <2>3, <2>5, <3>2 DEF Fresh
    <3> QED
      BY <3>1, <3>2
  <2>7. rounds = 0 => \A k \in todo : \A e \in Elements(batches[k]) : posted'[e] = <<>>
    BY <1>0, <1>2, <2>3, <2>5 DEF Fresh
  <2>8. \A i \in LiveAt' : posted'[evs'[i]] = <<>>
    <3>1. \A i \in LiveAt' : i \in LiveAt /\ evs[i] \in Events
      BY <2>4, LiveEvents
    <3> QED
      BY <2>2, <2>3, <2>4, <2>5, <3>1 DEF Fresh
  <2>9. Clean' => \A k \in Keys : \A e \in Elements(overflow[k]) : posted'[e] = <<>>
    <3> SUFFICES ASSUME Clean', NEW k \in Keys, NEW e \in Elements(overflow[k])
                 PROVE  posted'[e] = <<>>
      OBVIOUS
    <3>1. e \in Events /\ KeyOf(e) = k /\ posted[e] = <<>>
      BY <1>1, <1>2, <2>3 DEF Fresh
    <3>2. e # d
      BY <2>3, <3>1 DEF Elements
    <3> QED
      BY <2>5, <3>1, <3>2
  <2> QED
    BY <2>1, <2>6, <2>7, <2>8, <2>9 DEF Fresh, Elements
<1>11. CASE Reenqueue
  <2> DEFINE k == KeyOf(evs[next])
  <2>1. /\ phase = "encode" /\ phase' = "encoded"
        /\ UNCHANGED <<batches, rounds, todo, evs, posted>>
        /\ \A q \in Keys : q # k => overflow'[q] = overflow[q]
        /\ \A i \in DOMAIN overflow'[k] :
              overflow'[k][i] = evs[next + i - 1] /\ next + i - 1 \in DOMAIN evs
        /\ DOMAIN overflow'[k] = 1 .. Len(evs) - next + 1
        /\ \A i \in DOMAIN evs : i >= next => evs[i] \in Events
    BY <1>11, ReenqueueFields
  <2> HIDE DEF k
  <2> SUFFICES ASSUME Clean' \/ rounds' = 0 PROVE Fresh'
    BY DEF FreshInv
  <2>2. Fresh /\ Firing /\ (Clean' => Clean)
    BY <1>1, <2>1 DEF Firing
  <2>3. \A e \in Elements(overflow'[k]) : posted[e] = <<>>
    <3> SUFFICES ASSUME NEW i \in DOMAIN overflow'[k] PROVE posted[overflow'[k][i]] = <<>>
      BY DEF Elements
    <3> DEFINE j == next + i - 1
    <3>1. overflow'[k][i] = evs[j] /\ j \in DOMAIN evs
      BY <2>1
    <3>2. j >= next
      BY <1>0, <2>1
    <3>3. j \in LiveAt
      BY <2>1, <3>1, <3>2, BatchAggAssumption DEF LiveAt
    <3> QED
      BY <2>2, <3>1, <3>3 DEF Fresh
  <2>4. Clean' => \A q \in Keys : \A e \in Elements(overflow'[q]) : posted'[e] = <<>>
    <3> SUFFICES ASSUME Clean', NEW q \in Keys, NEW e \in Elements(overflow'[q])
                 PROVE  posted'[e] = <<>>
      OBVIOUS
    <3>1. CASE q = k
      BY <2>1, <2>3, <3>1
    <3>2. CASE q # k
      BY <2>1, <2>2, <3>2 DEF Fresh
    <3> QED
      BY <3>1, <3>2
  <2>5. rounds' = 0 => \A q \in todo' : \A e \in Elements(batches'[q]) : posted'[e] = <<>>
    BY <2>1, <2>2 DEF Fresh
  <2>6. \A i \in LiveAt' : posted'[evs'[i]] = <<>>
    BY <2>1, <2>2 DEF Fresh, LiveAt
  <2> QED
    BY <2>1, <2>2, <2>4, <2>5, <2>6 DEF Fresh, Elements
<1>12. CASE BuildURL
  <2>1. /\ phase = "encoded" /\ UNCHANGED <<batches, overflow, rounds, todo, evs, next, body>>
        /\ \/ phase' = "post" /\ posted' = posted
           \/ phase' = "next" /\ AnswerAll("failed")
    BY <1>12 DEF BuildURL, SameBatch
  <2>2. Firing /\ "failed" \in Kinds \ CleanKinds
    BY <2>1 DEF Firing, Kinds, CleanKinds
  <2> QED
    BY <1>3, <2>1, <2>2, AllPosts, FreshPosts
<1>13. ASSUME NEW o \in Outcomes, Attempt(o) PROVE FreshInv'
  <2>1. /\ phase = "post" /\ UNCHANGED <<batches, overflow, rounds, todo, evs, next, body>>
        /\ \/ phase' = "post" /\ posted' = posted
           \/ phase' = "next" /\ \/ \E kind \in Kinds \ CleanKinds : AnswerAll(kind)
                                 \/ \E n \in Int : AnswerEach(n)
    <3>1. /\ phase = "post" /\ UNCHANGED <<batches, overflow, rounds, todo, evs, next, body>>
          /\ \/ phase' = "post" /\ posted' = posted
             \/ phase' = "next" /\ \/ \E kind \in Kinds \ CleanKinds : AnswerAll(kind)
                                   \/ AnswerEach(Len(body))
                                   \/ \E n \in 0 .. Len(body) + 1 : AnswerEach(n)
      BY <1>13 DEF Attempt, SameBatch, Kinds, CleanKinds
    <3>2. Len(body) \in Int /\ 0 .. Len(body) + 1 \subseteq Int
      BY <1>0
    <3> QED
      BY <3>1, <3>2
  <2>2. Firing
    BY <2>1 DEF Firing
  <2>3. ASSUME phase' = "next", \A e \in Events : Posts(e) PROVE FreshInv'
    BY <2>1, <2>2, <2>3, FreshPosts
  <2>4. CASE phase' = "post" /\ posted' = posted
    BY <1>3, <2>1, <2>2, <2>4
  <2>5. ASSUME phase' = "next", NEW kind \in Kinds \ CleanKinds, AnswerAll(kind) PROVE FreshInv'
    BY <2>3, <2>5, AllPosts
  <2>6. ASSUME phase' = "next", NEW n \in Int, AnswerEach(n) PROVE FreshInv'
    BY <2>2, <2>3, <2>6, EachPosts
  <2> QED
    BY <2>1, <2>4, <2>5, <2>6
<1> QED
  BY <1>4, <1>5, <1>6, <1>7, <1>8, <1>9, <1>10, <1>11, <1>12, <1>13 DEF Next, Step, Terminated

LEMMA FreshInvariant == Spec => []FreshInv
<1>1. Init => FreshInv
  <2> SUFFICES ASSUME Init PROVE Fresh
    BY DEF FreshInv
  <2>1. /\ \A e \in Events : posted[e] = <<>>
        /\ phase = "collect" /\ todo = {} /\ overflow = [k \in Keys |-> <<>>]
    BY DEF Init
  <2>2. \A e \in Events : Len(posted[e]) <= 1
    BY <2>1
  <2>3. ~Firing /\ \A k \in Keys : Elements(overflow[k]) = {}
    BY <2>1 DEF Firing, Elements
  <2> QED
    BY <2>1, <2>2, <2>3 DEF Fresh
<1> QED
  BY <1>1, FreshNext, TypeInvariant, DestInvariant, OrderInvariant, RankInvariant, PTL DEF Spec

(***************************************************************************)
(* An event has two responses only behind an overflow and a failure that   *)
(* answers the whole batch: before the first round of overflow, or as long *)
(* as no request and no URL failed, it has one at most.                    *)
(***************************************************************************)
THEOREM SingleKept == Spec => []SingleUnlessFailed
<1>1. FreshInv => SingleUnlessFailed
  BY DEF FreshInv, Fresh, SingleUnlessFailed, SingleResponse
<1> QED
  BY <1>1, FreshInvariant, PTL

(***************************************************************************)
(* On the same condition no request posts an event that was answered.      *)
(***************************************************************************)
THEOREM FreshKept == Spec => []FreshUnlessFailed
<1>1. TypeInv /\ RankInv /\ FreshInv => FreshUnlessFailed
  <2> SUFFICES ASSUME TypeInv, RankInv, FreshInv, Clean \/ rounds = 0, phase = "post",
                      NEW e \in Elements(body)
               PROVE  posted[e] = <<>>
    BY DEF FreshUnlessFailed, NotPostedAfterAnswer
  <2>1. Firing
    BY DEF Firing
  <2>2. PICK i \in LiveAt : evs[i] = e
    BY <2>1, BodyLive DEF Elements
  <2> QED
    BY <2>1, <2>2 DEF FreshInv, Fresh
<1> QED
  BY <1>1, TypeInvariant, RankInvariant, FreshInvariant, PTL

-----------------------------------------------------------------------------
(***************************************************************************)
(* Answers go to their events: an extra one, of a server that answers more *)
(* events than it got, meets an event only behind those that were encoded. *)
(***************************************************************************)
\* What was appended is the last element.
LEMMA AppendedLast ==
  ASSUME NEW S, NEW s \in Seq(S), NEW a \in S, NEW b \in S
  PROVE  Append(s, a) # s /\ (Append(s, a) = Append(s, b) => a = b)
<1>1. Append(s, a)[Len(s) + 1] = a /\ Append(s, b)[Len(s) + 1] = b
  OBVIOUS
<1>2. Len(Append(s, a)) = Len(s) + 1 /\ Len(s) \in Nat
  OBVIOUS
<1> QED
  BY <1>1, <1>2

LEMMA StrayStep ==
  ASSUME TypeInv, OrderInv, RankInv, [Next]_vars,
         NEW e \in Events, posted'[e] = Append(posted[e], "stray")
  PROVE  e \in Elements(SubSeq(evs, next, Len(evs)))
<1>1. posted[e] \in Seq(Kinds) /\ "stray" \in Kinds
  BY DEF TypeInv, TypeOK, Kinds
<1>2. ASSUME NEW kind \in Kinds \ {"stray"}, posted'[e] = Append(posted[e], kind) PROVE FALSE
  BY <1>1, <1>2, AppendedLast
<1>3. ASSUME posted'[e] = posted[e] PROVE FALSE
  BY <1>1, <1>3, AppendedLast
<1>4. ASSUME NEW kind \in Kinds \ {"stray"}, AnswerAll(kind) PROVE FALSE
  BY <1>2, <1>3, <1>4, AllAnswered
<1>5. ASSUME Firing, NEW n, AnswerEach(n) PROVE e \in Elements(SubSeq(evs, next, Len(evs)))
  <2>1. PICK i \in LiveAt : evs[i] = e
    BY <1>3, <1>5, EachAnswered
  <2>2. "answer" \in Kinds \ {"stray"}
    BY DEF Kinds
  <2>3. ~(i < next)
    BY <1>2, <1>3, <1>5, <2>1, <2>2, EachAnswered
  <2>4. /\ i \in DOMAIN evs /\ i \in Nat /\ next \in Nat \ {0}
        /\ evs \in Seq(Events \cup {Nil})
    BY LiveEvents DEF TypeInv, TypeOK
  <2> DEFINE tail == SubSeq(evs, next, Len(evs))
  <2>5. i - next + 1 \in DOMAIN tail /\ tail[i - next + 1] = evs[i]
    <3>1. /\ Len(evs) \in Nat /\ i <= Len(evs) /\ i >= next
          /\ \A j \in next .. Len(evs) : evs[j] \in Events \cup {Nil}
      BY <2>3, <2>4
    <3>2. /\ Len(tail) = Len(evs) - next + 1 /\ DOMAIN tail = 1 .. Len(tail)
          /\ \A j \in 1 .. Len(evs) - next + 1 : tail[j] = evs[next + j - 1]
      BY <2>4, <3>1
    <3>3. /\ i - next + 1 \in 1 .. Len(evs) - next + 1
          /\ next + (i - next + 1) - 1 = i
      BY <2>4, <3>1
    <3> HIDE DEF tail
    <3> QED
      BY <3>2, <3>3
  <2> QED
    BY <2>1, <2>5 DEF Elements
<1>6. CASE Reject
  <2>1. /\ posted \in [Events -> Seq(Kinds)]
        /\ posted' = [posted EXCEPT ![Current] =
                        Append(@, IF Current \in Bad THEN "invalid" ELSE "toolarge")]
    BY <1>6 DEF Reject, TypeInv, TypeOK
  <2>2. \/ posted'[e] = posted[e]
        \/ posted'[e] = Append(posted[e], "invalid")
        \/ posted'[e] = Append(posted[e], "toolarge")
    BY <2>1
  <2>3. {"invalid", "toolarge"} \subseteq Kinds \ {"stray"}
    BY DEF Kinds
  <2> QED
    BY <1>2, <1>3, <2>2, <2>3
<1>7. CASE BuildURL
  <2>1. posted' = posted \/ AnswerAll("failed")
    BY <1>7 DEF BuildURL
  <2> QED
    BY <1>3, <1>4, <2>1 DEF Kinds
<1>8. ASSUME NEW o \in Outcomes, Attempt(o)
      PROVE  e \in Elements(SubSeq(evs, next, Len(evs)))
  <2>1. /\ phase = "post"
        /\ \/ posted' = posted
           \/ \E kind \in Kinds \ {"stray"} : AnswerAll(kind)
           \/ \E n : AnswerEach(n)
    BY <1>8 DEF Attempt, Kinds
  <2>2. Firing
    BY <2>1 DEF Firing
  <2> QED
    BY <1>3, <1>4, <1>5, <2>1, <2>2
<1>9. CASE Fire \/ OverflowRound \/ Done \/ Encode \/ Reenqueue \/ EncodeEnd \/ Skip
  BY <1>3, <1>9 DEF Fire, OverflowRound, Done, Encode, Reenqueue, EncodeEnd, Skip
<1>10. CASE (\E k \in Keys : FireBatch(k)) \/ (\E d \in Events : Add(d)) \/ UNCHANGED vars
  BY <1>3, <1>10 DEF FireBatch, Add, vars
<1> QED
  BY <1>6, <1>7, <1>8, <1>9, <1>10 DEF Next, Step, Terminated

(***************************************************************************)
(* The response that the server gave for an event goes to that event, over *)
(* rejected events and overflow, whatever the server answers: only what it *)
(* answers in excess reaches events that were not in the body.             *)
(***************************************************************************)
THEOREM AnswersKept == Spec => AnswersOwnEvent
<1>1. TypeInv /\ OrderInv /\ RankInv /\ [Next]_vars =>
        [\A e \in Events : posted'[e] = Append(posted[e], "stray")
                           => e \in Elements(SubSeq(evs, next, Len(evs)))]_vars
  BY StrayStep
<1> QED
  BY <1>1, TypeInvariant, OrderInvariant, RankInvariant, PTL DEF Spec, AnswersOwnEvent

=============================================================================
