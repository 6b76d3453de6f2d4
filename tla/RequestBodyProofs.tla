------------------------- MODULE RequestBodyProofs -------------------------
(***************************************************************************)
(* What is proved of RequestBody, for any number of Fires and buffers and  *)
(* bodies of any length: the pool gives no buffer to two, and a request    *)
(* that is being sent reads its own batch.                                 *)
(***************************************************************************)
EXTENDS RequestBody, FiniteSetTheorems, SequenceTheorems, TLAPS

-----------------------------------------------------------------------------
(***************************************************************************)
(* Types.  A Read under way has room for one more chunk, which is why no   *)
(* body is read beyond its end.                                            *)
(***************************************************************************)
TypeInv ==
  /\ TypeOK
  /\ \A x \in Requests :
        body[x].loaded # NoBuffer => /\ body[x].from \in {"reader", "copy"}
                                     /\ Len(body[x].chunks) < Chunks

\* The chunks of a body are a sequence that is not longer than the body.
LEMMA ChunkType ==
  ASSUME NEW c
  PROVE  c \in UNION {[1 .. n -> Fires] : n \in 0 .. Chunks}
           <=> c \in Seq(Fires) /\ Len(c) <= Chunks
<1>1. ASSUME NEW n \in 0 .. Chunks, c \in [1 .. n -> Fires]
      PROVE  c \in Seq(Fires) /\ Len(c) <= Chunks
  <2>1. n \in Nat /\ n <= Chunks
    BY BodyAssumption
  <2>2. c \in Seq(Fires)
    BY <1>1, <2>1, SeqDef
  <2>3. Len(c) = n
    BY <1>1, <2>1, <2>2, LenProperties
  <2> QED
    BY <2>1, <2>2, <2>3
<1>2. ASSUME c \in Seq(Fires), Len(c) <= Chunks
      PROVE  \E n \in 0 .. Chunks : c \in [1 .. n -> Fires]
  BY <1>2, BodyAssumption, LenProperties
<1> QED
  BY <1>1, <1>2

LEMMA RequestParts ==
  /\ \A x \in Requests : x[1] \in Fires /\ x[2] \in {1, 2} /\ x = <<x[1], x[2]>>
  /\ TypeOK => \A f \in Fires : Current(f) \in Requests /\ Current(f)[1] = f
<1> QED
  BY DEF Requests, Current, TypeOK

\* What the fields of a body range over, and that every update keeps to it.
LEMMA BodyFields ==
  ASSUME NEW r \in BodyStates
  PROVE  /\ r.from \in {"none", "reader", "copy", "ended"}
         /\ r.slice \in Buffers \cup {NoBuffer} /\ r.loaded \in Buffers \cup {NoBuffer}
         /\ r.chunks \in Seq(Fires) /\ Len(r.chunks) \in Nat /\ Len(r.chunks) <= Chunks
<1> DEFINE C == UNION {[1 .. n -> Fires] : n \in 0 .. Chunks}
<1>1. r \in [from : {"none", "reader", "copy", "ended"},
              slice : Buffers \cup {NoBuffer}, loaded : Buffers \cup {NoBuffer},
              chunks : C]
  BY DEF BodyStates
<1>2. r.chunks \in C => r.chunks \in Seq(Fires) /\ Len(r.chunks) <= Chunks
  BY ChunkType
<1> HIDE DEF C
<1> QED
  BY <1>1, <1>2, LenProperties

LEMMA BodyUpdates ==
  ASSUME NEW r \in BodyStates, NEW o \in {"none", "reader", "copy", "ended"},
         NEW s \in Buffers \cup {NoBuffer}, NEW c \in Seq(Fires), Len(c) <= Chunks
  PROVE  /\ [r EXCEPT !.slice = s] \in BodyStates
         /\ [r EXCEPT !.loaded = s] \in BodyStates
         /\ [r EXCEPT !.from = o, !.slice = s] \in BodyStates
         /\ [r EXCEPT !.chunks = c, !.loaded = s] \in BodyStates
<1> DEFINE C == UNION {[1 .. n -> Fires] : n \in 0 .. Chunks}
<1>1. c \in C
  BY ChunkType
<1>2. BodyStates = [from : {"none", "reader", "copy", "ended"},
                    slice : Buffers \cup {NoBuffer}, loaded : Buffers \cup {NoBuffer},
                    chunks : C]
  BY DEF BodyStates
<1> HIDE DEF C
<1> QED
  BY <1>1, <1>2

LEMMA NoBodyType ==
  /\ NoBody \in BodyStates
  /\ NoBody.from = "none" /\ NoBody.slice = NoBuffer /\ NoBody.loaded = NoBuffer
  /\ NoBody.chunks = <<>>
<1> DEFINE C == UNION {[1 .. n -> Fires] : n \in 0 .. Chunks}
<1>1. <<>> \in C
  <2>1. <<>> \in Seq(Fires) /\ Len(<<>>) = 0
    OBVIOUS
  <2> QED
    BY <2>1, ChunkType, BodyAssumption
<1>2. BodyStates = [from : {"none", "reader", "copy", "ended"},
                    slice : Buffers \cup {NoBuffer}, loaded : Buffers \cup {NoBuffer},
                    chunks : C]
  BY DEF BodyStates
<1> HIDE DEF C
<1> QED
  BY <1>1, <1>2 DEF NoBody

\* A body that has just been made for a reader or a copy.
NewBody(o, s) == [NoBody EXCEPT !.from = o, !.slice = s]

LEMMA NewBodyType ==
  ASSUME NEW o \in {"reader", "copy"}, NEW s \in Buffers \cup {NoBuffer}
  PROVE  /\ NewBody(o, s) \in BodyStates
         /\ NewBody(o, s).from = o /\ NewBody(o, s).slice = s
         /\ NewBody(o, s).loaded = NoBuffer /\ NewBody(o, s).chunks = <<>>
<1>1. <<>> \in Seq(Fires) /\ Len(<<>>) <= Chunks
  BY BodyAssumption
<1>2. NewBody(o, s) \in BodyStates
  BY <1>1, NoBodyType, BodyUpdates DEF NewBody
<1> QED
  BY <1>2 DEF NewBody, NoBody

LEMMA TypeInit == Init => TypeInv
<1> SUFFICES ASSUME Init PROVE TypeInv
  OBVIOUS
<1>1. body \in [Requests -> BodyStates]
  BY NoBodyType DEF Init
<1>2. \A x \in Requests : body[x].loaded = NoBuffer
  BY DEF Init, NoBody
<1> QED
  BY <1>1, <1>2 DEF Init, TypeInv, TypeOK, FireStates

\* NewRequest: one Fire goes to Do with a buffer, and the body of its current
\* request reads that buffer from the start.
LEMMA RequestFields ==
  ASSUME TypeOK, NEW f \in Fires, NEW b \in Buffers, Request(f, b)
  PROVE  /\ pool'[b] = (IF b = buf[f] THEN pool[b] ELSE 0)
         /\ \A c \in Buffers : c # b => pool'[c] = pool[c] /\ mem'[c] = mem[c]
         /\ mem'[b] = f /\ buf'[f] = b /\ fire'[f] = "do"
         /\ \A g \in Fires : g # f => buf'[g] = buf[g] /\ fire'[g] = fire[g]
         /\ body'[Current(f)] = NewBody("reader", b)
         /\ \A x \in Requests : x # Current(f) => body'[x] = body[x]
         /\ pool' \in [Buffers -> Nat] /\ mem' \in [Buffers -> Fires]
         /\ buf' \in [Fires -> Buffers \cup {NoBuffer}] /\ fire' \in [Fires -> FireStates]
         /\ body' \in [Requests -> BodyStates]
<1>1. Current(f) \in Requests
  BY RequestParts
<1>2. NewBody("reader", b) \in BodyStates
  BY NewBodyType
<1>3. body' = [body EXCEPT ![Current(f)] = NewBody("reader", b)]
  BY DEF Request, NewBody
<1>4. body' \in [Requests -> BodyStates]
  BY <1>1, <1>2, <1>3 DEF TypeOK
<1> QED
  BY <1>1, <1>3, <1>4 DEF Request, TypeOK, FireStates

LEMMA TypeNext == TypeInv /\ [Next]_vars => TypeInv'
<1> SUFFICES ASSUME TypeInv, [Next]_vars PROVE TypeInv'
  OBVIOUS
<1>0. /\ TypeOK
      /\ \A x \in Requests :
            body[x].loaded # NoBuffer => /\ body[x].from \in {"reader", "copy"}
                                         /\ Len(body[x].chunks) < Chunks
  BY DEF TypeInv
<1>1. ASSUME NEW f \in Fires, GetBuffer(f) PROVE TypeInv'
  <2>1. UNCHANGED <<compress, mem, try, body>> /\ pool' \in [Buffers -> Nat]
    BY <1>0, <1>1 DEF GetBuffer, TypeOK
  <2>2. buf' \in [Fires -> Buffers \cup {NoBuffer}] /\ fire' \in [Fires -> FireStates]
    BY <1>0, <1>1 DEF GetBuffer, TypeOK, FireStates
  <2> QED
    BY <1>0, <2>1, <2>2 DEF TypeInv, TypeOK, Requests
<1>2. ASSUME NEW f \in Fires, NEW b \in Buffers, Request(f, b), UNCHANGED <<compress, try>>
      PROVE  TypeInv'
  <2>1. TypeOK'
    BY <1>0, <1>2, RequestFields DEF TypeOK
  <2>2. ASSUME NEW x \in Requests, body'[x].loaded # NoBuffer
        PROVE  body'[x].from \in {"reader", "copy"} /\ Len(body'[x].chunks) < Chunks
    <3>1. CASE x = Current(f)
      <4>1. body'[x] = NewBody("reader", b)
        BY <1>0, <1>2, <3>1, RequestFields
      <4> QED
        BY <2>2, <4>1, NewBodyType
    <3>2. CASE x # Current(f)
      BY <1>0, <1>2, <2>2, <3>2, RequestFields
    <3> QED
      BY <3>1, <3>2
  <2> QED
    BY <2>1, <2>2 DEF TypeInv, Requests
<1>3. ASSUME NEW f \in Fires, Encode(f) \/ BuildPlain(f) PROVE TypeInv'
  BY <1>2, <1>3 DEF Encode, BuildPlain
<1>4. ASSUME NEW f \in Fires, DoReturn(f) \/ ReleasePut(f) PROVE TypeInv'
  <2>1. UNCHANGED <<compress, mem, body>> /\ try' \in [Fires -> {1, 2}]
        /\ fire' \in [Fires -> FireStates]
    BY <1>0, <1>4 DEF DoReturn, ReleasePut, Again, TypeOK, FireStates
  <2>2. buf' \in [Fires -> Buffers \cup {NoBuffer}]
    BY <1>0, <1>4 DEF DoReturn, ReleasePut, TypeOK
  <2>3. pool' \in [Buffers -> Nat]
    BY <1>0, <1>4 DEF DoReturn, ReleasePut, TypeOK
  <2> QED
    BY <1>0, <2>1, <2>2, <2>3 DEF TypeInv, TypeOK, Requests
<1>5. ASSUME UNCHANGED <<compress, pool, mem, try, buf>>, fire' \in [Fires -> FireStates],
             NEW x \in Requests, body'[x] \in BodyStates, NEW r, body' = [body EXCEPT ![x] = r],
             body'[x].loaded # NoBuffer => /\ body'[x].from \in {"reader", "copy"}
                                           /\ Len(body'[x].chunks) < Chunks
      PROVE  TypeInv'
  <2>1. body' \in [Requests -> BodyStates]
    BY <1>0, <1>5 DEF TypeOK
  <2>2. \A y \in Requests : y # x => body'[y] = body[y]
    BY <1>0, <1>5 DEF TypeOK
  <2>3. \A y \in Requests :
            body'[y].loaded # NoBuffer => /\ body'[y].from \in {"reader", "copy"}
                                          /\ Len(body'[y].chunks) < Chunks
    BY <1>0, <1>5, <2>2
  <2> QED
    BY <1>0, <1>5, <2>1, <2>3 DEF TypeInv, TypeOK, Requests
<1>6. ASSUME NEW f \in Fires, ReleaseReset(f) PROVE TypeInv'
  <2> DEFINE x == Current(f)
             s == IF body[x].from = "reader" THEN NoBuffer ELSE body[x].slice
             r == [body[x] EXCEPT !.slice = s]
  <2>1. x \in Requests /\ body[x] \in BodyStates
    BY <1>0, RequestParts DEF TypeOK
  <2>2. /\ body' = [body EXCEPT ![x] = r] /\ UNCHANGED <<compress, pool, mem, try, buf>>
        /\ fire' \in [Fires -> FireStates]
    BY <1>0, <1>6 DEF ReleaseReset, TypeOK, FireStates
  <2>3. r.from = body[x].from /\ r.loaded = body[x].loaded /\ r.chunks = body[x].chunks
    BY <2>1 DEF BodyStates
  <2>4. r \in BodyStates
    <3>1. s \in Buffers \cup {NoBuffer} /\ <<>> \in Seq(Fires) /\ Len(<<>>) <= Chunks
      BY <2>1, BodyFields, BodyAssumption
    <3> QED
      BY <2>1, <3>1, BodyUpdates
  <2>5. body'[x] = r
    BY <1>0, <2>1, <2>2 DEF TypeOK
  <2> HIDE DEF x, r
  <2> QED
    BY <1>0, <1>5, <2>1, <2>2, <2>3, <2>4, <2>5
<1>7. ASSUME NEW x \in Requests, ReadStart(x) PROVE TypeInv'
  <2>1. body[x] \in BodyStates /\ fire' = fire /\ fire \in [Fires -> FireStates]
        /\ UNCHANGED <<compress, pool, mem, try, buf>>
    BY <1>0, <1>7 DEF ReadStart, TypeOK
  <2>2. CASE body[x].slice = NoBuffer \/ Len(body[x].chunks) = Chunks
    <3> DEFINE r == [body[x] EXCEPT !.from = "ended", !.slice = NoBuffer]
    <3>1. body' = [body EXCEPT ![x] = r] /\ body'[x] = r
      BY <1>0, <1>7, <2>2 DEF ReadStart, TypeOK
    <3>2. r.loaded = NoBuffer
      BY <1>7, <2>1 DEF ReadStart, BodyStates
    <3>3. r \in BodyStates
      <4>1. <<>> \in Seq(Fires) /\ Len(<<>>) <= Chunks
        BY BodyAssumption
      <4> QED
        BY <2>1, <4>1, BodyUpdates
    <3> HIDE DEF r
    <3> QED
      BY <1>5, <2>1, <3>1, <3>2, <3>3
  <2>3. CASE ~(body[x].slice = NoBuffer \/ Len(body[x].chunks) = Chunks)
    <3> DEFINE r == [body[x] EXCEPT !.loaded = body[x].slice]
    <3>1. body' = [body EXCEPT ![x] = r] /\ body'[x] = r
      BY <1>0, <1>7, <2>3 DEF ReadStart, TypeOK
    <3>2. r.from = body[x].from /\ r.chunks = body[x].chunks
      BY <2>1 DEF BodyStates
    <3>3. r \in BodyStates
      <4>1. /\ <<>> \in Seq(Fires) /\ Len(<<>>) <= Chunks
            /\ body[x].slice \in Buffers \cup {NoBuffer}
        BY <2>1, BodyFields, BodyAssumption
      <4> QED
        BY <2>1, <4>1, BodyUpdates
    <3>4. r.from \in {"reader", "copy"} /\ Len(r.chunks) < Chunks
      BY <1>7, <2>1, <2>3, <3>2, BodyFields, BodyAssumption DEF ReadStart
    <3> HIDE DEF r
    <3> QED
      BY <1>5, <2>1, <3>1, <3>3, <3>4
  <2> QED
    BY <2>2, <2>3
<1>8. ASSUME NEW x \in Requests, ReadChunk(x) PROVE TypeInv'
  <2> DEFINE m == mem[body[x].loaded]
             r == [body[x] EXCEPT !.chunks = Append(body[x].chunks, m), !.loaded = NoBuffer]
  <2>1. body[x] \in BodyStates /\ fire' = fire /\ fire \in [Fires -> FireStates]
        /\ UNCHANGED <<compress, pool, mem, try, buf>> /\ m \in Fires
    BY <1>0, <1>8, BodyFields DEF ReadChunk, TypeOK
  <2>2. body' = [body EXCEPT ![x] = r] /\ body'[x] = r
    BY <1>0, <1>8 DEF ReadChunk, TypeOK
  <2> HIDE DEF m
  <2>3. r.loaded = NoBuffer
    BY <2>1 DEF BodyStates
  <2>4. Append(body[x].chunks, m) \in Seq(Fires) /\ Len(Append(body[x].chunks, m)) <= Chunks
    <3>1. body[x].chunks \in Seq(Fires) /\ Len(body[x].chunks) < Chunks
      BY <1>0, <1>8, <2>1, BodyFields DEF ReadChunk
    <3>2. /\ Append(body[x].chunks, m) \in Seq(Fires)
          /\ Len(Append(body[x].chunks, m)) = Len(body[x].chunks) + 1
      BY <2>1, <3>1
    <3> QED
      BY <3>1, <3>2, LenProperties, BodyAssumption
  <2>5. r \in BodyStates
    BY <2>1, <2>4, BodyUpdates
  <2> HIDE DEF r
  <2> QED
    BY <1>5, <2>1, <2>2, <2>3, <2>5
<1>9. ASSUME NEW f \in Fires, Rewind(f) PROVE TypeInv'
  <2>1. Current(f) \in Requests /\ buf[f] \in Buffers \cup {NoBuffer}
        /\ fire \in [Fires -> FireStates]
    BY <1>0, RequestParts DEF TypeOK
  <2>2. /\ body' = [body EXCEPT ![Current(f)] = NewBody("copy", buf[f])]
        /\ UNCHANGED <<compress, pool, mem, fire, try, buf>>
    BY <1>9 DEF Rewind, NewBody
  <2>3. body'[Current(f)] = NewBody("copy", buf[f])
    BY <1>0, <2>1, <2>2 DEF TypeOK
  <2>4. body'[Current(f)] \in BodyStates /\ body'[Current(f)].loaded = NoBuffer
    BY <2>1, <2>3, NewBodyType
  <2> QED
    BY <1>5, <2>1, <2>2, <2>4
<1>10. ASSUME NEW x \in Requests, CloseBody(x) PROVE TypeInv'
  <2>1. /\ body' = [body EXCEPT ![x] = NoBody] /\ body'[x] = NoBody
        /\ UNCHANGED <<compress, pool, mem, fire, try, buf>>
        /\ fire \in [Fires -> FireStates]
    BY <1>0, <1>10 DEF CloseBody, TypeOK
  <2>2. NoBody.loaded = NoBuffer
    BY DEF NoBody
  <2> QED
    BY <1>5, <2>1, <2>2, NoBodyType
<1>11. CASE UNCHANGED vars
  BY <1>0, <1>11 DEF vars, TypeInv, TypeOK, Requests
<1> QED
  BY <1>1, <1>3, <1>4, <1>6, <1>7, <1>8, <1>9, <1>10, <1>11 DEF Next, Terminated

LEMMA TypeInvariant == Spec => []TypeInv
<1> QED
  BY TypeInit, TypeNext, PTL DEF Spec

\* Type correctness of the buffers and the bodies.
THEOREM TypeCorrect == Spec => []TypeOK
<1>1. TypeInv => TypeOK
  BY DEF TypeInv
<1> QED
  BY <1>1, TypeInvariant, PTL

-----------------------------------------------------------------------------
(***************************************************************************)
(* Buffers: one that is in the pool is in it once, and no Fire has it; no  *)
(* two Fires have the same.                                                *)
(***************************************************************************)
BufferInv ==
  /\ \A f, g \in Fires : f # g /\ buf[f] = buf[g] => buf[f] = NoBuffer
  /\ \A b \in Buffers : pool[b] <= 1 /\ (pool[b] # 0 => \A f \in Fires : buf[f] # b)

LEMMA BufferInit == Init => BufferInv
<1> QED
  BY DEF Init, BufferInv

\* A Fire encodes into the buffer it has or into one that no other has.
LEMMA RequestBuffer ==
  ASSUME TypeOK, NEW f \in Fires, Encode(f) \/ BuildPlain(f)
  PROVE  \E b \in Buffers : /\ Request(f, b) /\ UNCHANGED <<compress, try>>
                            /\ \A g \in Fires : g # f => buf[g] # b \/ buf[f] = b
                            /\ BuildPlain(f) /\ try[f] # 1 => b = buf[f]
<1> QED
  BY DEF Encode, BuildPlain, Fresh

LEMMA BufferNext == TypeInv /\ BufferInv /\ [Next]_vars => BufferInv'
<1> SUFFICES ASSUME TypeOK, BufferInv, [Next]_vars PROVE BufferInv'
  BY DEF TypeInv
<1>0. /\ pool \in [Buffers -> Nat] /\ buf \in [Fires -> Buffers \cup {NoBuffer}]
      /\ NoBuffer \notin Buffers
  BY BodyAssumption DEF TypeOK
<1>1. ASSUME NEW f \in Fires, GetBuffer(f) PROVE BufferInv'
  <2>1. CASE UNCHANGED pool /\ buf' = [buf EXCEPT ![f] = NoBuffer]
    BY <1>0, <2>1 DEF BufferInv
  <2>2. ASSUME NEW b \in Buffers, pool[b] > 0, pool' = [pool EXCEPT ![b] = @ - 1],
               buf' = [buf EXCEPT ![f] = b]
        PROVE  BufferInv'
    <3>1. pool[b] = 1 /\ \A g \in Fires : buf[g] # b
      BY <1>0, <2>2 DEF BufferInv
    <3>2. pool'[b] = 0 /\ \A c \in Buffers : c # b => pool'[c] = pool[c]
      BY <1>0, <2>2, <3>1
    <3>3. buf'[f] = b /\ \A g \in Fires : g # f => buf'[g] = buf[g]
      BY <1>0, <2>2
    <3> QED
      BY <1>0, <3>1, <3>2, <3>3 DEF BufferInv
  <2> QED
    BY <1>1, <2>1, <2>2 DEF GetBuffer
<1>2. ASSUME NEW f \in Fires, Encode(f) \/ BuildPlain(f) PROVE BufferInv'
  <2>1. PICK b \in Buffers : /\ Request(f, b)
                             /\ \A g \in Fires : g # f => buf[g] # b \/ buf[f] = b
    BY <1>2, RequestBuffer
  <2>2. /\ pool'[b] = (IF b = buf[f] THEN pool[b] ELSE 0)
        /\ \A c \in Buffers : c # b => pool'[c] = pool[c]
        /\ buf'[f] = b /\ \A g \in Fires : g # f => buf'[g] = buf[g]
    BY <2>1, RequestFields
  <2>3. pool'[b] = 0 /\ \A g \in Fires : g # f => buf'[g] # b
    BY <1>0, <2>1, <2>2 DEF BufferInv
  <2> QED
    BY <1>0, <2>2, <2>3 DEF BufferInv
<1>3. ASSUME NEW f \in Fires, ReleasePut(f) PROVE BufferInv'
  <2>1. /\ pool' = [pool EXCEPT ![buf[f]] = @ + 1] /\ buf' = [buf EXCEPT ![f] = NoBuffer]
    BY <1>3 DEF ReleasePut
  <2>2. CASE buf[f] \in Buffers
    <3>1. pool[buf[f]] = 0 /\ \A g \in Fires : g # f => buf[g] # buf[f]
      BY <1>0, <2>2 DEF BufferInv
    <3>2. pool'[buf[f]] = 1 /\ \A c \in Buffers : c # buf[f] => pool'[c] = pool[c]
      BY <1>0, <2>1, <2>2, <3>1
    <3>3. buf'[f] = NoBuffer /\ \A g \in Fires : g # f => buf'[g] = buf[g]
      BY <1>0, <2>1
    <3> QED
      BY <1>0, <3>1, <3>2, <3>3 DEF BufferInv
  <2>3. CASE buf[f] = NoBuffer
    <3>1. pool' = pool /\ buf' = buf
      BY <1>0, <2>1, <2>3
    <3> QED
      BY <3>1 DEF BufferInv
  <2> QED
    BY <1>0, <2>2, <2>3
<1>4. ASSUME UNCHANGED <<pool, buf>> PROVE BufferInv'
  BY <1>4 DEF BufferInv
<1>5. ASSUME NEW f \in Fires, DoReturn(f) \/ ReleaseReset(f) \/ Rewind(f) PROVE BufferInv'
  BY <1>4, <1>5 DEF DoReturn, ReleaseReset, Rewind
<1>6. ASSUME NEW x \in Requests, ReadStart(x) \/ ReadChunk(x) \/ CloseBody(x) PROVE BufferInv'
  BY <1>4, <1>6 DEF ReadStart, ReadChunk, CloseBody
<1>7. CASE UNCHANGED vars
  BY <1>4, <1>7 DEF vars
<1> QED
  BY <1>1, <1>2, <1>3, <1>5, <1>6, <1>7 DEF Next, Terminated

(***************************************************************************)
(* A buffer is in the pool once at most, and then no fireBatch has it; no  *)
(* two have the same, so none encodes into the body another is sending:    *)
(* what Release and the use of zstdBufferPool by buildRequestReader keep.  *)
(***************************************************************************)
THEOREM OwnedOnce == Spec => []OneOwner
<1>1. ASSUME TypeOK, BufferInv, NEW b \in Buffers
      PROVE  pool[b] + Cardinality({f \in Fires : buf[f] = b}) <= 1
  <2> DEFINE H == {f \in Fires : buf[f] = b}
  <2>1. pool[b] \in Nat /\ pool[b] <= 1 /\ b # NoBuffer
    BY <1>1, BodyAssumption DEF TypeOK, BufferInv
  <2>2. CASE H = {}
    <3>1. Cardinality(H) = 0
      BY <2>2, FS_EmptySet
    <3> QED
      BY <2>1, <3>1
  <2>3. ASSUME NEW f \in H PROVE pool[b] + Cardinality(H) <= 1
    <3>1. pool[b] = 0 /\ H = {f}
      BY <1>1, <2>1 DEF BufferInv
    <3>2. Cardinality(H) = 1
      BY <3>1, FS_Singleton
    <3> QED
      BY <3>1, <3>2
  <2> QED
    BY <2>2, <2>3
<1>2. TypeInv /\ BufferInv => OneOwner
  BY <1>1 DEF OneOwner, TypeInv
<1> QED
  BY <1>2, TypeInit, TypeNext, BufferInit, BufferNext, PTL DEF Spec

-----------------------------------------------------------------------------
(***************************************************************************)
(* What a body has read.  FilledInv: the buffer of a Fire that is in Do or *)
(* Release holds its batch (encEvs, from the first try on).  ReadInv: a    *)
(* reader has its slice until Release only, so that a Read of it that      *)
(* finds another's batch was under way before, and is the last; without    *)
(* compression there is encEvs only.  CurrentInv: the request in Do reads  *)
(* the buffer of its Fire.                                                 *)
(***************************************************************************)
Filled(f) ==
  /\ fire[f] \in {"encode", "reset", "put"} => compress
  /\ fire[f] \in {"do", "reset", "put"} => buf[f] # NoBuffer /\ mem[buf[f]] = f
  /\ ~compress /\ buf[f] # NoBuffer => mem[buf[f]] = f
  /\ ~compress /\ fire[f] = "build" /\ try[f] = 1 => buf[f] = NoBuffer

FilledInv == \A f \in Fires : Filled(f)

Reader(x) ==
  /\ body[x].slice # NoBuffer => body[x].loaded \in {NoBuffer, body[x].slice}
  /\ compress /\ body[x].slice # NoBuffer =>
       fire[x[1]] \in {"do", "reset"} /\ x = Current(x[1]) /\ body[x].slice = buf[x[1]]
  /\ \/ ForeignChunks(x) = {}
     \/ /\ body[x].slice = NoBuffer /\ body[x].loaded = NoBuffer
        /\ \E i \in DOMAIN body[x].chunks : ForeignChunks(x) = {i}

Plain(x) ==
  /\ body[x].slice \in {NoBuffer, buf[x[1]]}
  /\ body[x].loaded \in {NoBuffer, buf[x[1]]}
  /\ ForeignChunks(x) = {}

ReadInv ==
  \A x \in Requests : (body[x].from = "reader" => Reader(x)) /\ (~compress => Plain(x))

InDo(f) ==
  LET x == Current(f) IN
  /\ body[x].from \in {"reader", "copy"} => body[x].slice = buf[f]
  /\ body[x].loaded \in {NoBuffer, buf[f]}
  /\ ForeignChunks(x) = {}
  /\ body[x].from = "ended" => Len(body[x].chunks) = Chunks

CurrentInv == \A f \in Fires : fire[f] = "do" => InDo(f)

\* One more chunk is foreign when it comes from another Fire's batch.
LEMMA ForeignAppend ==
  ASSUME NEW c \in Seq(Fires), NEW f, NEW g \in Fires, {i \in DOMAIN c : c[i] # f} = {}
  PROVE  LET d == Append(c, g)
             F == {i \in DOMAIN d : d[i] # f}
         IN  (g = f => F = {}) /\ (F = {} \/ \E i \in DOMAIN d : F = {i})
<1> DEFINE d == Append(c, g)
           F == {i \in DOMAIN d : d[i] # f}
           n == Len(c) + 1
<1>1. /\ DOMAIN c = 1 .. Len(c) /\ DOMAIN d = 1 .. n /\ Len(c) \in Nat
      /\ d[n] = g /\ \A i \in 1 .. Len(c) : d[i] = c[i]
  OBVIOUS
<1>2. n \in DOMAIN d /\ \A i \in DOMAIN d : i # n => i \in DOMAIN c /\ d[i] = c[i]
  BY <1>1
<1> HIDE DEF d, n
<1>3. \A i \in DOMAIN d : i # n => d[i] = f
  BY <1>2
<1>4. CASE g = f
  BY <1>1, <1>3, <1>4 DEF F
<1>5. CASE g # f
  <2>1. F = {n}
    BY <1>1, <1>2, <1>3, <1>5 DEF F
  <2> QED
    BY <1>2, <1>5, <2>1
<1> QED
  BY <1>4, <1>5 DEF d

\* Nothing read, nothing foreign; the same chunks, the same foreign ones.
LEMMA ForeignSame ==
  ASSUME NEW x \in Requests
  PROVE  /\ body'[x].chunks = <<>> => ForeignChunks(x)' = {}
         /\ body'[x].chunks = body[x].chunks => ForeignChunks(x)' = ForeignChunks(x)
<1>1. DOMAIN <<>> = {}
  OBVIOUS
<1> QED
  BY <1>1 DEF ForeignChunks

-----------------------------------------------------------------------------
LEMMA FilledInit == Init => FilledInv
<1> QED
  BY DEF Init, FilledInv, Filled

\* A Fire that keeps its buffer and its place keeps what the buffer holds.
LEMMA FilledSame ==
  ASSUME NEW g \in Fires, Filled(g), compress' = compress, fire'[g] = fire[g],
         try'[g] = try[g], buf'[g] = buf[g],
         buf[g] # NoBuffer => mem'[buf[g]] = mem[buf[g]]
  PROVE  Filled(g)'
<1> QED
  BY DEF Filled

LEMMA FilledNext == TypeInv /\ BufferInv /\ FilledInv /\ [Next]_vars => FilledInv'
<1> SUFFICES ASSUME TypeOK, BufferInv, FilledInv, [Next]_vars PROVE FilledInv'
  BY DEF TypeInv
<1>0. /\ pool \in [Buffers -> Nat] /\ buf \in [Fires -> Buffers \cup {NoBuffer}]
      /\ fire \in [Fires -> FireStates] /\ try \in [Fires -> {1, 2}]
      /\ mem \in [Buffers -> Fires] /\ NoBuffer \notin Buffers
      /\ \A f \in Fires : Filled(f)
  BY BodyAssumption DEF TypeOK, FilledInv
<1>1. ASSUME NEW f \in Fires, UNCHANGED <<compress, mem>>, Filled(f)',
             \A g \in Fires : g # f => /\ fire'[g] = fire[g] /\ try'[g] = try[g]
                                       /\ buf'[g] = buf[g]
      PROVE  FilledInv'
  <2>1. \A g \in Fires : g # f => Filled(g)'
    BY <1>0, <1>1, FilledSame
  <2> QED
    BY <1>1, <2>1 DEF FilledInv
<1>2. ASSUME NEW f \in Fires, GetBuffer(f) PROVE FilledInv'
  <2>1. /\ UNCHANGED <<compress, mem, try>> /\ compress /\ fire'[f] = "encode"
        /\ \A g \in Fires : g # f => fire'[g] = fire[g] /\ buf'[g] = buf[g]
    BY <1>0, <1>2 DEF GetBuffer
  <2>2. Filled(f)'
    BY <2>1 DEF Filled
  <2> QED
    BY <1>1, <2>1, <2>2
<1>3. ASSUME NEW f \in Fires, Encode(f) \/ BuildPlain(f) PROVE FilledInv'
  <2>1. PICK b \in Buffers : /\ Request(f, b) /\ UNCHANGED <<compress, try>>
                             /\ \A g \in Fires : g # f => buf[g] # b \/ buf[f] = b
    BY <1>3, RequestBuffer
  <2>2. /\ mem'[b] = f /\ \A c \in Buffers : c # b => mem'[c] = mem[c]
        /\ buf'[f] = b /\ fire'[f] = "do"
        /\ \A g \in Fires : g # f => buf'[g] = buf[g] /\ fire'[g] = fire[g]
    BY <2>1, RequestFields
  <2>3. \A g \in Fires : g # f => buf[g] # b
    BY <1>0, <2>1 DEF BufferInv
  <2>4. Filled(f)'
    BY <1>0, <2>2 DEF Filled
  <2>5. \A g \in Fires : g # f => Filled(g)'
    BY <1>0, <2>1, <2>2, <2>3, FilledSame
  <2> QED
    BY <2>4, <2>5 DEF FilledInv
<1>4. ASSUME NEW f \in Fires, DoReturn(f) PROVE FilledInv'
  <2>1. /\ UNCHANGED <<compress, mem, buf>> /\ fire[f] = "do"
        /\ \/ compress /\ fire'[f] = "reset" /\ try'[f] = try[f]
           \/ ~compress /\ fire'[f] = "build" /\ try'[f] = 2
           \/ ~compress /\ fire'[f] = "done"
        /\ \A g \in Fires : g # f => fire'[g] = fire[g] /\ try'[g] = try[g]
    BY <1>0, <1>4 DEF DoReturn, Again
  <2>2. Filled(f)'
    BY <1>0, <2>1 DEF Filled
  <2> QED
    BY <1>1, <2>1, <2>2
<1>5. ASSUME NEW f \in Fires, ReleaseReset(f) PROVE FilledInv'
  <2>1. /\ UNCHANGED <<compress, mem, try, buf>> /\ fire[f] = "reset" /\ fire'[f] = "put"
        /\ \A g \in Fires : g # f => fire'[g] = fire[g]
    BY <1>0, <1>5 DEF ReleaseReset
  <2>2. Filled(f)'
    BY <1>0, <2>1 DEF Filled
  <2> QED
    BY <1>1, <2>1, <2>2
<1>6. ASSUME NEW f \in Fires, ReleasePut(f) PROVE FilledInv'
  <2>1. /\ UNCHANGED <<compress, mem>> /\ fire[f] = "put" /\ fire'[f] \in {"build", "done"}
        /\ \A g \in Fires : g # f => /\ fire'[g] = fire[g] /\ try'[g] = try[g]
                                     /\ buf'[g] = buf[g]
    BY <1>0, <1>6 DEF ReleasePut, Again
  <2>2. Filled(f)'
    BY <1>0, <2>1 DEF Filled
  <2> QED
    BY <1>1, <2>1, <2>2
<1>7. ASSUME UNCHANGED <<compress, mem, fire, try, buf>> PROVE FilledInv'
  BY <1>0, <1>7, FilledSame DEF FilledInv
<1>8. ASSUME NEW f \in Fires, Rewind(f) PROVE FilledInv'
  BY <1>7, <1>8 DEF Rewind
<1>9. ASSUME NEW x \in Requests, ReadStart(x) \/ ReadChunk(x) \/ CloseBody(x) PROVE FilledInv'
  BY <1>7, <1>9 DEF ReadStart, ReadChunk, CloseBody
<1>10. CASE UNCHANGED vars
  BY <1>7, <1>10 DEF vars
<1> QED
  BY <1>2, <1>3, <1>4, <1>5, <1>6, <1>8, <1>9, <1>10 DEF Next, Terminated

-----------------------------------------------------------------------------
\* The steps that change one body, field by field.
LEMMA ReadStartFields ==
  ASSUME TypeOK, NEW x \in Requests, ReadStart(x)
  PROVE  /\ UNCHANGED <<compress, pool, mem, fire, try, buf>>
         /\ \A y \in Requests : y # x => body'[y] = body[y]
         /\ body[x].from \in {"reader", "copy"} /\ body[x].loaded = NoBuffer
         /\ body'[x].chunks = body[x].chunks
         /\ \/ /\ body[x].slice = NoBuffer \/ Len(body[x].chunks) = Chunks
               /\ body'[x].from = "ended" /\ body'[x].slice = NoBuffer
               /\ body'[x].loaded = NoBuffer
            \/ /\ body[x].slice # NoBuffer
               /\ body'[x].from = body[x].from /\ body'[x].slice = body[x].slice
               /\ body'[x].loaded = body[x].slice
<1>1. body \in [Requests -> BodyStates] /\ body[x] \in BodyStates
  BY DEF TypeOK
<1>2. CASE body[x].slice = NoBuffer \/ Len(body[x].chunks) = Chunks
  <2>1. body'[x] = [body[x] EXCEPT !.from = "ended", !.slice = NoBuffer]
    BY <1>1, <1>2 DEF ReadStart
  <2>2. /\ body'[x].from = "ended" /\ body'[x].slice = NoBuffer
        /\ body'[x].loaded = body[x].loaded /\ body'[x].chunks = body[x].chunks
    BY <1>1, <2>1 DEF BodyStates
  <2> QED
    BY <1>1, <1>2, <2>2 DEF ReadStart
<1>3. CASE ~(body[x].slice = NoBuffer \/ Len(body[x].chunks) = Chunks)
  <2>1. body'[x] = [body[x] EXCEPT !.loaded = body[x].slice]
    BY <1>1, <1>3 DEF ReadStart
  <2>2. /\ body'[x].from = body[x].from /\ body'[x].slice = body[x].slice
        /\ body'[x].loaded = body[x].slice /\ body'[x].chunks = body[x].chunks
    BY <1>1, <2>1 DEF BodyStates
  <2> QED
    BY <1>1, <1>3, <2>2 DEF ReadStart
<1> QED
  BY <1>2, <1>3

LEMMA ReadChunkFields ==
  ASSUME TypeOK, NEW x \in Requests, ReadChunk(x)
  PROVE  /\ UNCHANGED <<compress, pool, mem, fire, try, buf>>
         /\ \A y \in Requests : y # x => body'[y] = body[y]
         /\ body[x].loaded \in Buffers /\ mem[body[x].loaded] \in Fires
         /\ body[x].chunks \in Seq(Fires)
         /\ body'[x].from = body[x].from /\ body'[x].slice = body[x].slice
         /\ body'[x].loaded = NoBuffer
         /\ body'[x].chunks = Append(body[x].chunks, mem[body[x].loaded])
<1>1. body \in [Requests -> BodyStates] /\ body[x] \in BodyStates
  BY DEF TypeOK
<1>2. /\ body[x].loaded \in Buffers /\ body[x].chunks \in Seq(Fires)
      /\ mem[body[x].loaded] \in Fires
  BY <1>1, BodyFields DEF ReadChunk, TypeOK
<1> DEFINE c == Append(body[x].chunks, mem[body[x].loaded])
<1>3. body'[x] = [body[x] EXCEPT !.chunks = c, !.loaded = NoBuffer]
  BY <1>1 DEF ReadChunk
<1> HIDE DEF c
<1>4. /\ body'[x].from = body[x].from /\ body'[x].slice = body[x].slice
      /\ body'[x].loaded = NoBuffer /\ body'[x].chunks = c
  BY <1>1, <1>3 DEF BodyStates
<1> QED
  BY <1>1, <1>2, <1>4 DEF ReadChunk, c

LEMMA ReleaseResetFields ==
  ASSUME TypeOK, NEW f \in Fires, ReleaseReset(f), NEW x, x = Current(f)
  PROVE  /\ UNCHANGED <<compress, pool, mem, try, buf>>
         /\ fire[f] = "reset" /\ fire'[f] = "put"
         /\ \A g \in Fires : g # f => fire'[g] = fire[g]
         /\ \A y \in Requests : y # x => body'[y] = body[y]
         /\ body'[x].from = body[x].from /\ body'[x].loaded = body[x].loaded
         /\ body'[x].chunks = body[x].chunks
         /\ body[x].from = "reader" => body'[x].slice = NoBuffer
<1>1. body \in [Requests -> BodyStates] /\ x \in Requests /\ body[x] \in BodyStates
  BY RequestParts DEF TypeOK
<1> DEFINE s == IF body[x].from = "reader" THEN NoBuffer ELSE body[x].slice
<1>2. body'[x] = [body[x] EXCEPT !.slice = s]
  BY <1>1 DEF ReleaseReset
<1> HIDE DEF s
<1>3. /\ body'[x].from = body[x].from /\ body'[x].loaded = body[x].loaded
      /\ body'[x].chunks = body[x].chunks /\ body'[x].slice = s
  BY <1>1, <1>2 DEF BodyStates
<1> QED
  BY <1>1, <1>3 DEF ReleaseReset, TypeOK, s

LEMMA RewindFields ==
  ASSUME TypeOK, NEW f \in Fires, Rewind(f)
  PROVE  /\ UNCHANGED <<compress, pool, mem, fire, try, buf>>
         /\ \A y \in Requests : y # Current(f) => body'[y] = body[y]
         /\ body'[Current(f)] = NewBody("copy", buf[f]) /\ fire[f] = "do"
         /\ buf[f] \in Buffers \cup {NoBuffer}
<1> QED
  BY RequestParts DEF Rewind, NewBody, TypeOK

LEMMA CloseFields ==
  ASSUME TypeOK, NEW x \in Requests, CloseBody(x)
  PROVE  /\ UNCHANGED <<compress, pool, mem, fire, try, buf>>
         /\ \A y \in Requests : y # x => body'[y] = body[y]
         /\ body'[x] = NoBody
<1> QED
  BY DEF CloseBody, TypeOK

-----------------------------------------------------------------------------
LEMMA ReadInit == Init => ReadInv
<1> SUFFICES ASSUME Init, NEW x \in Requests PROVE Reader(x) /\ Plain(x)
  BY DEF ReadInv
<1>1. body[x] = NoBody
  BY DEF Init
<1>2. ForeignChunks(x) = {}
  BY <1>1, NoBodyType DEF ForeignChunks
<1> QED
  BY <1>1, <1>2, NoBodyType DEF Reader, Plain

\* A body that is not touched: its Fire must keep buffer and try while the
\* reader has its slice.
LEMMA ReaderSame ==
  ASSUME NEW x \in Requests, Reader(x), body'[x] = body[x], compress' = compress,
         fire[x[1]] \in {"do", "reset"} /\ x = Current(x[1]) =>
           \/ body[x].slice = NoBuffer
           \/ /\ fire'[x[1]] \in {"do", "reset"} /\ try'[x[1]] = try[x[1]]
              /\ buf'[x[1]] = buf[x[1]]
  PROVE  Reader(x)'
<1>1. ForeignChunks(x)' = ForeignChunks(x)
  BY ForeignSame
<1> QED
  BY <1>1 DEF Reader, Current

LEMMA PlainSame ==
  ASSUME NEW x \in Requests, Plain(x), body'[x] = body[x],
         buf[x[1]] = NoBuffer \/ buf'[x[1]] = buf[x[1]]
  PROVE  Plain(x)'
<1>1. ForeignChunks(x)' = ForeignChunks(x)
  BY ForeignSame
<1> QED
  BY <1>1 DEF Plain

LEMMA ReadSame ==
  ASSUME NEW x \in Requests, ReadInv, body'[x] = body[x], compress' = compress,
         fire'[x[1]] = fire[x[1]], try'[x[1]] = try[x[1]], buf'[x[1]] = buf[x[1]]
  PROVE  (body'[x].from = "reader" => Reader(x)') /\ (~compress' => Plain(x)')
<1> QED
  BY ReaderSame, PlainSame DEF ReadInv

LEMMA ReadNext == TypeInv /\ BufferInv /\ FilledInv /\ ReadInv /\ [Next]_vars => ReadInv'
<1> SUFFICES ASSUME TypeInv, BufferInv, FilledInv, ReadInv, [Next]_vars,
                    NEW y \in Requests
             PROVE  (body'[y].from = "reader" => Reader(y)') /\ (~compress' => Plain(y)')
  BY DEF ReadInv, Requests
<1> DEFINE Kept == (body'[y].from = "reader" => Reader(y)') /\ (~compress' => Plain(y)')
           g == y[1]
<1>0. /\ TypeOK /\ y \in Requests /\ g \in Fires
      /\ buf \in [Fires -> Buffers \cup {NoBuffer}] /\ fire \in [Fires -> FireStates]
      /\ try \in [Fires -> {1, 2}] /\ NoBuffer \notin Buffers
      /\ \A f \in Fires : Filled(f)
      /\ body[y].from = "reader" => Reader(y)
      /\ ~compress => Plain(y)
  BY RequestParts, BodyAssumption DEF TypeInv, TypeOK, FilledInv, ReadInv
<1>1. ASSUME NEW f \in Fires, GetBuffer(f) PROVE Kept
  <2>1. /\ UNCHANGED <<compress, try, body>> /\ compress /\ fire[f] = "build"
        /\ \A h \in Fires : h # f => fire'[h] = fire[h] /\ buf'[h] = buf[h]
    BY <1>0, <1>1 DEF GetBuffer
  <2> QED
    BY <1>0, <2>1, ReaderSame
<1>2. ASSUME NEW f \in Fires, Encode(f) \/ BuildPlain(f) PROVE Kept
  <2>1. PICK b \in Buffers : /\ Request(f, b) /\ UNCHANGED <<compress, try>>
                             /\ BuildPlain(f) /\ try[f] # 1 => b = buf[f]
    BY <1>0, <1>2, RequestBuffer
  <2>2. /\ buf'[f] = b /\ fire'[f] = "do" /\ b \in Buffers
        /\ \A h \in Fires : h # f => buf'[h] = buf[h] /\ fire'[h] = fire[h]
        /\ body'[Current(f)] = NewBody("reader", b)
        /\ \A x \in Requests : x # Current(f) => body'[x] = body[x]
    BY <1>0, <2>1, RequestFields
  <2>3. CASE y = Current(f)
    <3>1. /\ body'[y].slice = b /\ body'[y].loaded = NoBuffer /\ body'[y].chunks = <<>>
          /\ g = f /\ y = Current(f)'
      BY <1>0, <2>1, <2>2, <2>3, NewBodyType DEF Current
    <3>2. ForeignChunks(y)' = {}
      BY <3>1, ForeignSame
    <3> QED
      BY <2>2, <3>1, <3>2 DEF Reader, Plain
  <2>4. CASE y # Current(f) /\ g = f
    <3>1. fire[f] \notin {"do", "reset"} /\ body'[y] = body[y]
      BY <1>0, <1>2, <2>2, <2>4 DEF Encode, BuildPlain
    <3>2. body'[y].from = "reader" => Reader(y)'
      BY <1>0, <2>1, <2>4, <3>1, ReaderSame
    <3>3. ~compress => buf[f] = NoBuffer \/ buf'[f] = buf[f]
      BY <1>0, <1>2, <2>1, <2>2 DEF Filled, Encode, BuildPlain
    <3>4. ~compress' => Plain(y)'
      BY <1>0, <2>1, <2>4, <3>1, <3>3, PlainSame
    <3> QED
      BY <3>2, <3>4
  <2>5. CASE g # f
    <3>1. body'[y] = body[y]
      BY <1>0, <2>2, <2>5, RequestParts
    <3> QED
      BY <1>0, <2>1, <2>2, <2>5, <3>1, ReadSame
  <2> QED
    BY <2>3, <2>4, <2>5
<1>3. ASSUME NEW f \in Fires, DoReturn(f) PROVE Kept
  <2>1. /\ UNCHANGED <<compress, buf, body>>
        /\ \/ compress /\ fire'[f] = "reset" /\ try'[f] = try[f]
           \/ ~compress
        /\ \A h \in Fires : h # f => fire'[h] = fire[h] /\ try'[h] = try[h]
    BY <1>0, <1>3 DEF DoReturn, Again
  <2>2. CASE compress
    BY <1>0, <2>1, <2>2, ReaderSame
  <2>3. CASE ~compress
    <3>1. ForeignChunks(y)' = ForeignChunks(y)
      BY <2>1, ForeignSame
    <3> QED
      BY <1>0, <2>1, <2>3, <3>1, PlainSame DEF Reader
  <2> QED
    BY <2>2, <2>3
<1>4. ASSUME NEW f \in Fires, ReleaseReset(f) PROVE Kept
  <2>1. /\ UNCHANGED <<compress, pool, mem, try, buf>> /\ fire[f] = "reset"
        /\ \A h \in Fires : h # f => fire'[h] = fire[h]
        /\ y # Current(f) => body'[y] = body[y]
        /\ y = Current(f) =>
             /\ body'[y].from = body[y].from /\ body'[y].loaded = body[y].loaded
             /\ body'[y].chunks = body[y].chunks
             /\ body[y].from = "reader" => body'[y].slice = NoBuffer
    BY <1>0, <1>4, ReleaseResetFields
  <2>2. compress
    BY <1>0, <2>1 DEF Filled
  <2>3. CASE y = Current(f)
    <3>1. ForeignChunks(y)' = ForeignChunks(y)
      BY <2>1, <2>3, ForeignSame
    <3> QED
      BY <1>0, <2>1, <2>2, <2>3, <3>1 DEF Reader
  <2>4. CASE y # Current(f)
    BY <1>0, <2>1, <2>2, <2>4, ReaderSame
  <2> QED
    BY <2>3, <2>4
<1>5. ASSUME NEW f \in Fires, ReleasePut(f) PROVE Kept
  <2>1. /\ UNCHANGED <<compress, body>> /\ fire[f] = "put"
        /\ \A h \in Fires : h # f => /\ fire'[h] = fire[h] /\ try'[h] = try[h]
                                     /\ buf'[h] = buf[h]
    BY <1>0, <1>5 DEF ReleasePut, Again
  <2>2. compress
    BY <1>0, <2>1 DEF Filled
  <2> QED
    BY <1>0, <2>1, <2>2, ReaderSame
<1>6. ASSUME NEW f \in Fires, Rewind(f) PROVE Kept
  <2>1. /\ UNCHANGED <<compress, fire, try, buf>> /\ buf[f] \in Buffers \cup {NoBuffer}
        /\ y # Current(f) => body'[y] = body[y]
        /\ y = Current(f) => body'[y] = NewBody("copy", buf[f]) /\ g = f
    BY <1>0, <1>6, RewindFields, RequestParts
  <2>2. CASE y = Current(f)
    <3>1. /\ body'[y].from = "copy" /\ body'[y].slice = buf[g] /\ body'[y].loaded = NoBuffer
          /\ body'[y].chunks = <<>>
      BY <2>1, <2>2, NewBodyType
    <3>2. ForeignChunks(y)' = {}
      BY <3>1, ForeignSame
    <3> QED
      BY <2>1, <3>1, <3>2 DEF Plain
  <2>3. CASE y # Current(f)
    BY <1>0, <2>1, <2>3, ReadSame
  <2> QED
    BY <2>2, <2>3
<1>7. ASSUME NEW x \in Requests, ReadStart(x) PROVE Kept
  <2>1. /\ UNCHANGED <<compress, fire, try, buf>>
        /\ y # x => body'[y] = body[y]
    BY <1>0, <1>7, ReadStartFields
  <2>2. CASE y = x
    <3>1. /\ body[y].loaded = NoBuffer /\ body'[y].chunks = body[y].chunks
          /\ \/ /\ body'[y].from = "ended" /\ body'[y].slice = NoBuffer
                /\ body'[y].loaded = NoBuffer
             \/ /\ body[y].slice # NoBuffer
                /\ body'[y].from = body[y].from /\ body'[y].slice = body[y].slice
                /\ body'[y].loaded = body[y].slice
      BY <1>0, <1>7, <2>2, ReadStartFields
    <3>2. ForeignChunks(y)' = ForeignChunks(y)
      BY <3>1, ForeignSame
    <3>3. ~compress' => Plain(y)'
      BY <1>0, <2>1, <3>1, <3>2 DEF Plain
    <3>4. body'[y].from = "reader" => Reader(y)'
      BY <1>0, <2>1, <3>1, <3>2 DEF Reader, Current
    <3> QED
      BY <3>3, <3>4
  <2>3. CASE y # x
    BY <1>0, <2>1, <2>3, ReadSame
  <2> QED
    BY <2>2, <2>3
<1>8. ASSUME NEW x \in Requests, ReadChunk(x) PROVE Kept
  <2>1. /\ UNCHANGED <<compress, mem, fire, try, buf>>
        /\ y # x => body'[y] = body[y]
    BY <1>0, <1>8, ReadChunkFields
  <2>2. CASE y = x
    <3> DEFINE m == mem[body[y].loaded]
    <3>1. /\ body[y].loaded # NoBuffer /\ m \in Fires /\ body[y].chunks \in Seq(Fires)
          /\ body'[y].from = body[y].from /\ body'[y].slice = body[y].slice
          /\ body'[y].loaded = NoBuffer /\ body'[y].chunks = Append(body[y].chunks, m)
      BY <1>0, <1>8, <2>2, BodyAssumption, ReadChunkFields
    <3>2. ForeignChunks(y) = {} =>
            /\ m = g => ForeignChunks(y)' = {}
            /\ \/ ForeignChunks(y)' = {}
               \/ \E i \in DOMAIN body'[y].chunks : ForeignChunks(y)' = {i}
      BY <3>1, ForeignAppend DEF ForeignChunks
    <3> HIDE DEF m
    <3>3. ~compress' => Plain(y)'
      <4>1. CASE ~compress
        <5>1. body[y].loaded = buf[g] /\ ForeignChunks(y) = {}
          BY <1>0, <3>1, <4>1 DEF Plain
        <5>2. m = g
          BY <1>0, <3>1, <4>1, <5>1 DEF Filled, m
        <5> QED
          BY <1>0, <2>1, <3>1, <3>2, <4>1, <5>1, <5>2 DEF Plain
      <4> QED
        BY <2>1, <4>1
    <3>4. body'[y].from = "reader" => Reader(y)'
      <4>1. CASE body[y].from = "reader"
        <5>1. Reader(y) /\ ForeignChunks(y) = {}
          BY <1>0, <3>1, <4>1 DEF Reader
        <5>2. body[y].slice # NoBuffer => m = g
          <6>1. CASE body[y].slice # NoBuffer /\ compress
            BY <1>0, <3>1, <5>1, <6>1 DEF Reader, Filled, m
          <6>2. CASE body[y].slice # NoBuffer /\ ~compress
            BY <1>0, <3>1, <6>2 DEF Plain, Filled, m
          <6> QED
            BY <6>1, <6>2
        <5> QED
          BY <1>0, <2>1, <3>1, <3>2, <5>1, <5>2 DEF Reader, Current
      <4> QED
        BY <3>1, <4>1
    <3> QED
      BY <3>3, <3>4
  <2>3. CASE y # x
    BY <1>0, <2>1, <2>3, ReadSame
  <2> QED
    BY <2>2, <2>3
<1>9. ASSUME NEW x \in Requests, CloseBody(x) PROVE Kept
  <2>1. /\ UNCHANGED <<compress, fire, try, buf>>
        /\ y # x => body'[y] = body[y]
        /\ y = x => body'[y] = NoBody
    BY <1>0, <1>9, CloseFields
  <2>2. CASE y = x
    <3>1. /\ body'[y].from = "none" /\ body'[y].slice = NoBuffer
          /\ body'[y].loaded = NoBuffer /\ ForeignChunks(y)' = {}
      BY <2>1, <2>2, NoBodyType, ForeignSame
    <3> QED
      BY <3>1 DEF Plain
  <2>3. CASE y # x
    BY <1>0, <2>1, <2>3, ReadSame
  <2> QED
    BY <2>2, <2>3
<1>10. ASSUME UNCHANGED vars PROVE Kept
  BY <1>0, <1>10, ReadSame DEF vars
<1> QED
  BY <1>1, <1>2, <1>3, <1>4, <1>5, <1>6, <1>7, <1>8, <1>9, <1>10 DEF Next, Terminated

-----------------------------------------------------------------------------
LEMMA CurrentInit == Init => CurrentInv
<1> QED
  BY DEF Init, CurrentInv

LEMMA CurrentSame ==
  ASSUME NEW f \in Fires, TypeOK, CurrentInv, fire[f] = "do", try'[f] = try[f],
         buf'[f] = buf[f], body'[Current(f)] = body[Current(f)]
  PROVE  InDo(f)'
<1>1. Current(f)' = Current(f) /\ Current(f) \in Requests
  BY RequestParts DEF Current
<1>2. ForeignChunks(Current(f))' = ForeignChunks(Current(f))
  BY <1>1, ForeignSame DEF ForeignChunks
<1> QED
  BY <1>1, <1>2 DEF InDo, CurrentInv

LEMMA CurrentNext ==
  TypeInv /\ BufferInv /\ FilledInv /\ CurrentInv /\ [Next]_vars => CurrentInv'
<1> SUFFICES ASSUME TypeInv, BufferInv, FilledInv, CurrentInv, [Next]_vars,
                    NEW g \in Fires, fire'[g] = "do", NEW y, y = Current(g)
             PROVE  InDo(g)'
  BY DEF CurrentInv
<1>0. /\ TypeOK /\ y \in Requests /\ y[1] = g
      /\ buf \in [Fires -> Buffers \cup {NoBuffer}] /\ fire \in [Fires -> FireStates]
      /\ try \in [Fires -> {1, 2}] /\ NoBuffer \notin Buffers
      /\ \A f \in Fires : f # g => y # Current(f)
      /\ Filled(g)
      /\ fire[g] = "do" => InDo(g)
  BY RequestParts, BodyAssumption DEF TypeInv, TypeOK, FilledInv, CurrentInv, Current
<1>1. ASSUME fire[g] = "do", try'[g] = try[g], buf'[g] = buf[g], body'[y] = body[y]
      PROVE  InDo(g)'
  BY <1>0, <1>1, CurrentSame
<1>2. ASSUME try'[g] = try[g], ForeignChunks(y)' = {},
             body'[y].from \in {"reader", "copy"} => body'[y].slice = buf'[g],
             body'[y].loaded \in {NoBuffer, buf'[g]},
             body'[y].from = "ended" => Len(body'[y].chunks) = Chunks
      PROVE  InDo(g)'
  <2>1. Current(g)' = y
    BY <1>2 DEF Current
  <2>2. ForeignChunks(Current(g))' = {}
    BY <1>2, <2>1 DEF ForeignChunks
  <2> QED
    BY <1>2, <2>1, <2>2 DEF InDo
<1>3. ASSUME NEW f \in Fires, GetBuffer(f) \/ ReleasePut(f) \/ DoReturn(f) PROVE InDo(g)'
  <2>1. /\ body' = body /\ fire'[f] # "do"
        /\ g # f => fire'[g] = fire[g] /\ try'[g] = try[g] /\ buf'[g] = buf[g]
    BY <1>0, <1>3 DEF GetBuffer, ReleasePut, DoReturn, Again
  <2> QED
    BY <1>1, <2>1
<1>4. ASSUME NEW f \in Fires, Encode(f) \/ BuildPlain(f) PROVE InDo(g)'
  <2>1. PICK b \in Buffers : Request(f, b) /\ UNCHANGED <<compress, try>>
    BY <1>0, <1>4, RequestBuffer
  <2>2. /\ buf'[f] = b
        /\ g # f => buf'[g] = buf[g] /\ fire'[g] = fire[g]
        /\ body'[Current(f)] = NewBody("reader", b)
        /\ y # Current(f) => body'[y] = body[y]
    BY <1>0, <2>1, RequestFields
  <2>3. CASE g = f
    <3>1. /\ body'[y].from = "reader" /\ body'[y].slice = buf'[g]
          /\ body'[y].loaded = NoBuffer /\ body'[y].chunks = <<>>
      BY <1>0, <2>1, <2>2, <2>3, NewBodyType, RequestFields
    <3>2. ForeignChunks(y)' = {}
      BY <1>0, <3>1, ForeignSame
    <3> QED
      BY <1>2, <2>1, <3>1, <3>2
  <2>4. CASE g # f
    BY <1>0, <1>1, <2>1, <2>2, <2>4
  <2> QED
    BY <2>3, <2>4
<1>5. ASSUME NEW f \in Fires, ReleaseReset(f) PROVE InDo(g)'
  <2>1. /\ UNCHANGED <<try, buf>> /\ g # f /\ fire'[g] = fire[g] /\ body'[y] = body[y]
    BY <1>0, <1>5, ReleaseResetFields
  <2> QED
    BY <1>1, <2>1
<1>6. ASSUME NEW f \in Fires, Rewind(f) PROVE InDo(g)'
  <2>1. /\ UNCHANGED <<fire, try, buf>> /\ buf[f] \in Buffers \cup {NoBuffer}
        /\ y # Current(f) => body'[y] = body[y]
        /\ body'[Current(f)] = NewBody("copy", buf[f])
    BY <1>0, <1>6, RewindFields
  <2>2. CASE g = f
    <3>1. /\ body'[y].from = "copy" /\ body'[y].slice = buf[g] /\ body'[y].loaded = NoBuffer
          /\ body'[y].chunks = <<>>
      BY <2>1, <2>2, NewBodyType
    <3>2. ForeignChunks(y)' = {}
      BY <1>0, <3>1, ForeignSame
    <3> QED
      BY <1>2, <2>1, <3>1, <3>2
  <2>3. CASE g # f
    BY <1>0, <1>1, <2>1, <2>3
  <2> QED
    BY <2>2, <2>3
<1>7. ASSUME NEW x \in Requests, ReadStart(x) PROVE InDo(g)'
  <2>1. /\ UNCHANGED <<fire, try, buf>>
        /\ y # x => body'[y] = body[y]
    BY <1>0, <1>7, ReadStartFields
  <2>2. CASE y = x
    <3>1. /\ body[y].from \in {"reader", "copy"} /\ body'[y].chunks = body[y].chunks
          /\ \/ /\ body[y].slice = NoBuffer \/ Len(body[y].chunks) = Chunks
                /\ body'[y].from = "ended" /\ body'[y].slice = NoBuffer
                /\ body'[y].loaded = NoBuffer
             \/ /\ body[y].slice # NoBuffer
                /\ body'[y].from = body[y].from /\ body'[y].slice = body[y].slice
                /\ body'[y].loaded = body[y].slice
      BY <1>0, <1>7, <2>2, ReadStartFields
    <3>2. ForeignChunks(y)' = {}
      BY <1>0, <2>1, <3>1, ForeignSame DEF InDo
    <3>3. body[y].slice = buf[g] /\ buf[g] # NoBuffer
      BY <1>0, <2>1, <3>1 DEF InDo, Filled
    <3> QED
      BY <1>2, <2>1, <3>1, <3>2, <3>3
  <2>3. CASE y # x
    BY <1>1, <2>1, <2>3
  <2> QED
    BY <2>2, <2>3
<1>8. ASSUME NEW x \in Requests, ReadChunk(x) PROVE InDo(g)'
  <2>1. /\ UNCHANGED <<mem, fire, try, buf>>
        /\ y # x => body'[y] = body[y]
    BY <1>0, <1>8, ReadChunkFields
  <2>2. CASE y = x
    <3> DEFINE m == mem[body[y].loaded]
    <3>1. /\ body[y].loaded # NoBuffer /\ m \in Fires /\ body[y].chunks \in Seq(Fires)
          /\ body'[y].from = body[y].from /\ body'[y].slice = body[y].slice
          /\ body'[y].loaded = NoBuffer /\ body'[y].chunks = Append(body[y].chunks, m)
          /\ body[y].from \in {"reader", "copy"}
      BY <1>0, <1>8, <2>2, ReadChunkFields DEF TypeInv
    <3>2. m = g /\ ForeignChunks(y) = {} /\ body[y].slice = buf[g]
      BY <1>0, <2>1, <3>1 DEF InDo, Filled
    <3>3. ForeignChunks(y)' = {}
      BY <1>0, <3>1, <3>2, ForeignAppend DEF ForeignChunks
    <3> HIDE DEF m
    <3> QED
      BY <1>2, <2>1, <3>1, <3>2, <3>3
  <2>3. CASE y # x
    BY <1>1, <2>1, <2>3
  <2> QED
    BY <2>2, <2>3
<1>9. ASSUME NEW x \in Requests, CloseBody(x) PROVE InDo(g)'
  <2>1. /\ UNCHANGED <<fire, try, buf>>
        /\ y # x => body'[y] = body[y]
        /\ y = x => body'[y] = NoBody
    BY <1>0, <1>9, CloseFields
  <2>2. CASE y = x
    <3>1. /\ body'[y].from = "none" /\ body'[y].loaded = NoBuffer
          /\ ForeignChunks(y)' = {}
      BY <1>0, <2>1, <2>2, NoBodyType, ForeignSame
    <3> QED
      BY <1>2, <2>1, <3>1
  <2>3. CASE y # x
    BY <1>1, <2>1, <2>3
  <2> QED
    BY <2>2, <2>3
<1>10. ASSUME UNCHANGED vars PROVE InDo(g)'
  BY <1>1, <1>10 DEF vars
<1> QED
  BY <1>3, <1>4, <1>5, <1>6, <1>7, <1>8, <1>9, <1>10 DEF Next, Terminated

-----------------------------------------------------------------------------
ReadingInv == TypeInv /\ BufferInv /\ FilledInv /\ ReadInv /\ CurrentInv

LEMMA ReadingInvariant == Spec => []ReadingInv
<1>1. Init => ReadingInv
  BY TypeInit, BufferInit, FilledInit, ReadInit, CurrentInit DEF ReadingInv
<1>2. ReadingInv /\ [Next]_vars => ReadingInv'
  BY TypeNext, BufferNext, FilledNext, ReadNext, CurrentNext DEF ReadingInv
<1> QED
  BY <1>1, <1>2, PTL DEF Spec

(***************************************************************************)
(* While Do runs, what is read of a body is the batch of that Fire, and all*)
(* of it once the end is found: in the second try of the loop of fireBatch *)
(* as in the first, and after a rewind, whatever other Fires do.           *)
(***************************************************************************)
THEOREM ReadsOwnBatch == Spec => []BodyWhole
<1>1. ReadingInv => BodyWhole
  <2> SUFFICES ASSUME ReadingInv, NEW f \in Fires, fire[f] = "do"
               PROVE  /\ \A i \in DOMAIN body[Current(f)].chunks :
                            body[Current(f)].chunks[i] = f
                      /\ body[Current(f)].from = "ended" =>
                            Len(body[Current(f)].chunks) = Chunks
    BY DEF BodyWhole
  <2>1. InDo(f) /\ Current(f)[1] = f
    BY RequestParts DEF ReadingInv, CurrentInv, TypeInv
  <2> QED
    BY <2>1 DEF InDo, ForeignChunks
<1> QED
  BY <1>1, ReadingInvariant, PTL

(***************************************************************************)
(* After Do, a transport that still reads sees another's batch in one Read *)
(* at most, the one that was under way when Release reset the reader       *)
(* (pooledReader.Release), unless it reads a copy from GetBody; and never  *)
(* when the bodies are not compressed.                                     *)
(***************************************************************************)
THEOREM LateReads == Spec => []LateChunk
<1>1. ReadingInv => LateChunk
  <2> SUFFICES ASSUME ReadingInv, NEW x \in Requests
               PROVE  /\ body[x].from = "reader" => Cardinality(ForeignChunks(x)) <= 1
                      /\ ~compress => ForeignChunks(x) = {}
    BY DEF LateChunk
  <2>1. ~compress => ForeignChunks(x) = {}
    BY DEF ReadingInv, ReadInv, Plain
  <2>2. ASSUME body[x].from = "reader" PROVE Cardinality(ForeignChunks(x)) <= 1
    <3>1. ForeignChunks(x) = {} \/ \E i : ForeignChunks(x) = {i}
      BY <2>2 DEF ReadingInv, ReadInv, Reader
    <3>2. CASE ForeignChunks(x) = {}
      <4>1. Cardinality(ForeignChunks(x)) = 0
        BY <3>2, FS_EmptySet
      <4> QED
        BY <4>1
    <3>3. ASSUME NEW i, ForeignChunks(x) = {i} PROVE Cardinality(ForeignChunks(x)) <= 1
      <4>1. Cardinality(ForeignChunks(x)) = 1
        BY <3>3, FS_Singleton
      <4> QED
        BY <4>1
    <3> QED
      BY <3>1, <3>2, <3>3
  <2> QED
    BY <2>1, <2>2
<1> QED
  BY <1>1, ReadingInvariant, PTL

=============================================================================
