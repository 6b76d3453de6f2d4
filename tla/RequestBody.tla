---------------------------- MODULE RequestBody ----------------------------
(***************************************************************************)
(* The body of the batch requests of transmission/transmission.go: the     *)
(* reader that fireBatch builds for each try, the pool zstdBufferPool that *)
(* the compressed bodies share, and Release, while the transport of        *)
(* net/http may go on reading a body after Do has returned (an early       *)
(* answer, a timeout).  The transport is external: what is modelled of it  *)
(* is how it reads, chunk by chunk, from the reader it was given or, after *)
(* a redirect or a lost connection, from a copy made by Request.GetBody.   *)
(***************************************************************************)
EXTENDS Naturals, Sequences, FiniteSets

CONSTANTS
  Fires,     \* goroutines in fireBatch, each with one batch to send
  Buffers,   \* byte slices; one that nobody refers to is as good as new
  Chunks,    \* how many Reads it takes to read a body
  MaxLate,   \* bound: bodies that are still read when their Do has returned
  NoBuffer   \* the nil slice

ASSUME BodyAssumption ==
  Chunks \in Nat \ {0} /\ MaxLate \in Nat /\ NoBuffer \notin Buffers

VARIABLES
  compress,  \* ~b.disableCompression
  pool,      \* pool[b]: how many times b is in zstdBufferPool
  mem,       \* mem[b]: the Fire whose batch b was last filled with
  fire,      \* fire[f]: where f is
  try,       \* try[f]: the iteration of the loop it is in
  buf,       \* buf[f]: reader.buf, or encEvs when not compressed
  body       \* body[x]: what the transport does with the body of request x

vars == <<compress, pool, mem, fire, try, buf, body>>

\* One request per try.
Requests == Fires \X {1, 2}
Current(f) == <<f, try[f]>>

FireStates == {"build", "encode", "do", "reset", "put", "done"}

(***************************************************************************)
(* from: what the transport reads, if it reads: the reader it was given,   *)
(* or a copy of it as it was when the request was made, and "ended" after  *)
(* a Read has returned io.EOF; slice: what that reader or copy ranges over;*)
(* loaded: what a Read has taken for its slice before it copies a chunk;   *)
(* chunks: the Fires whose batch the chunks read came from.                *)
(***************************************************************************)
BodyStates == [from : {"none", "reader", "copy", "ended"},
               slice : Buffers \cup {NoBuffer}, loaded : Buffers \cup {NoBuffer},
               chunks : UNION {[1 .. n -> Fires] : n \in 0 .. Chunks}]

TypeOK ==
  /\ compress \in BOOLEAN
  /\ pool \in [Buffers -> Nat]
  /\ mem \in [Buffers -> Fires]
  /\ fire \in [Fires -> FireStates]
  /\ try \in [Fires -> {1, 2}]
  /\ buf \in [Fires -> Buffers \cup {NoBuffer}]
  /\ body \in [Requests -> BodyStates]

NoBody == [from |-> "none", slice |-> NoBuffer, loaded |-> NoBuffer, chunks |-> <<>>]

Init ==
  /\ compress \in BOOLEAN
  /\ pool = [b \in Buffers |-> 0]
  /\ \E f \in Fires : mem = [b \in Buffers |-> f]
  /\ fire = [f \in Fires |-> "build"]
  /\ try = [f \in Fires |-> 1]
  /\ buf = [f \in Fires |-> NoBuffer]
  /\ body = [x \in Requests |-> NoBody]

-----------------------------------------------------------------------------
\* A slice that an allocation may return: nobody has a reference to it, unless
\* the pool, from which the garbage collector takes what it likes.
Fresh(b) ==
  /\ \A f \in Fires : buf[f] # b
  /\ \A x \in Requests : b \notin {body[x].slice, body[x].loaded}

\* Get of the pool, which may find nothing although something was Put.
GetBuffer(f) ==
  /\ fire[f] = "build"
  /\ compress
  /\ \/ \E b \in Buffers : /\ pool[b] > 0
                           /\ pool' = [pool EXCEPT ![b] = @ - 1]
                           /\ buf' = [buf EXCEPT ![f] = b]
     \/ UNCHANGED pool /\ buf' = [buf EXCEPT ![f] = NoBuffer]
  /\ fire' = [fire EXCEPT ![f] = "encode"]
  /\ UNCHANGED <<compress, mem, try, body>>

\* NewReader over slice b, NewRequest, and Do begins.
Request(f, b) ==
  /\ pool' = [pool EXCEPT ![b] = IF b = buf[f] THEN @ ELSE 0]
  /\ mem' = [mem EXCEPT ![b] = f]
  /\ buf' = [buf EXCEPT ![f] = b]
  /\ body' = [body EXCEPT ![Current(f)] = [NoBody EXCEPT !.from = "reader", !.slice = b]]
  /\ fire' = [fire EXCEPT ![f] = "do"]

\* A wrong Encode: the second try is given the reader of the first.
EncodeOnce(f) ==
  /\ fire[f] = "encode"
  /\ \/ try[f] = 1 /\ \E b \in Buffers : (b = buf[f] \/ Fresh(b)) /\ Request(f, b)
     \/ /\ try[f] = 2
        /\ body' = [body EXCEPT ![<<f, 2>>] =
                      [NoBody EXCEPT !.from = "reader", !.slice = body[<<f, 1>>].slice]]
        /\ fire' = [fire EXCEPT ![f] = "do"]
        /\ UNCHANGED <<pool, mem, buf>>
  /\ UNCHANGED <<compress, try>>

\* EncodeAll into the buffer found, or into a new one if there is none or it
\* is too small.
Encode(f) ==
  /\ fire[f] = "encode"
  /\ \E b \in Buffers : (b = buf[f] \/ Fresh(b)) /\ Request(f, b)
  /\ UNCHANGED <<compress, try>>

\* Not compressed: every try reads encEvs.
BuildPlain(f) ==
  /\ fire[f] = "build"
  /\ ~compress
  /\ \E b \in Buffers :
        /\ IF try[f] = 1 THEN Fresh(b) ELSE b = buf[f]
        /\ Request(f, b)
  /\ UNCHANGED <<compress, try>>

\* A wrong Again: one iteration too many.
AgainThrice(f) ==
  \/ /\ try' = [try EXCEPT ![f] = @ + 1]
     /\ fire' = [fire EXCEPT ![f] = "build"]
  \/ /\ fire' = [fire EXCEPT ![f] = "done"]
     /\ UNCHANGED try

\* Where f goes after a try: around the loop, after a timeout or a status that
\* asks for it, or out of it.
Again(f) ==
  \/ /\ try[f] = 1
     /\ try' = [try EXCEPT ![f] = 2]
     /\ fire' = [fire EXCEPT ![f] = "build"]
  \/ /\ fire' = [fire EXCEPT ![f] = "done"]
     /\ UNCHANGED try

\* The bodies that the transport has not yet let go of after Do.
Late ==
  {x \in Requests : body[x].from # "none" /\ ~(fire[x[1]] = "do" /\ x = Current(x[1]))}

\* Do returns: the answer has come, maybe before the body was read, or the
\* request has failed or timed out.
DoReturn(f) ==
  /\ fire[f] = "do"
  /\ body[Current(f)].from = "none" \/ Cardinality(Late) < MaxLate
  /\ IF compress THEN fire' = [fire EXCEPT ![f] = "reset"] /\ UNCHANGED try
                 ELSE Again(f)
  /\ UNCHANGED <<compress, pool, mem, buf, body>>

\* A wrong ReleaseReset: the reader keeps its slice.
ReleaseNoReset(f) ==
  /\ fire[f] = "reset"
  /\ fire' = [fire EXCEPT ![f] = "put"]
  /\ UNCHANGED <<compress, pool, mem, try, buf, body>>

\* Release: r.Reset(nil).  A copy that GetBody made keeps its slice.
ReleaseReset(f) ==
  /\ fire[f] = "reset"
  /\ fire' = [fire EXCEPT ![f] = "put"]
  /\ body' = [body EXCEPT ![Current(f)].slice =
                IF body[Current(f)].from = "reader" THEN NoBuffer ELSE @]
  /\ UNCHANGED <<compress, pool, mem, try, buf>>

\* A wrong ReleasePut: r.buf is kept.
ReleasePutKept(f) ==
  /\ fire[f] = "put"
  /\ pool' = [pool EXCEPT ![buf[f]] = @ + 1]
  /\ Again(f)
  /\ UNCHANGED <<compress, mem, buf, body>>

\* Release: zstdBufferPool.Put(r.buf[:0]); r.buf = nil
ReleasePut(f) ==
  /\ fire[f] = "put"
  /\ pool' = [pool EXCEPT ![buf[f]] = @ + 1]
  /\ buf' = [buf EXCEPT ![f] = NoBuffer]
  /\ Again(f)
  /\ UNCHANGED <<compress, mem, body>>

-----------------------------------------------------------------------------
\* The transport (external).  A Read of the body takes the slice it ranges
\* over, or finds the end ...
ReadStart(x) ==
  /\ body[x].from \in {"reader", "copy"}
  /\ body[x].loaded = NoBuffer
  /\ IF body[x].slice = NoBuffer \/ Len(body[x].chunks) = Chunks
     THEN body' = [body EXCEPT ![x].from = "ended", ![x].slice = NoBuffer]
     ELSE body' = [body EXCEPT ![x].loaded = body[x].slice]
  /\ UNCHANGED <<compress, pool, mem, fire, try, buf>>

\* ... and copies a chunk out of it.
ReadChunk(x) ==
  /\ body[x].loaded # NoBuffer
  /\ body' = [body EXCEPT ![x].chunks = Append(@, mem[body[x].loaded]),
                          ![x].loaded = NoBuffer]
  /\ UNCHANGED <<compress, pool, mem, fire, try, buf>>

\* The request is sent again, in Do, with a body from GetBody: a copy of the
\* reader as NewRequest found it.
Rewind(f) ==
  /\ fire[f] = "do"
  /\ body' = [body EXCEPT ![Current(f)] =
                [NoBody EXCEPT !.from = "copy", !.slice = buf[f]]]
  /\ UNCHANGED <<compress, pool, mem, fire, try, buf>>

\* The transport is done with the body.
CloseBody(x) ==
  /\ body[x].from # "none"
  /\ body' = [body EXCEPT ![x] = NoBody]
  /\ UNCHANGED <<compress, pool, mem, fire, try, buf>>

Terminated ==
  /\ \A f \in Fires : fire[f] = "done"
  /\ \A x \in Requests : body[x].from = "none"
  /\ UNCHANGED vars

Next ==
  \/ \E f \in Fires : GetBuffer(f)
  \/ \E f \in Fires : Encode(f)
  \/ \E f \in Fires : BuildPlain(f)
  \/ \E f \in Fires : DoReturn(f)
  \/ \E f \in Fires : ReleaseReset(f)
  \/ \E f \in Fires : ReleasePut(f)
  \/ \E f \in Fires : Rewind(f)
  \/ \E x \in Requests : ReadStart(x)
  \/ \E x \in Requests : ReadChunk(x)
  \/ \E x \in Requests : CloseBody(x)
  \/ Terminated

Spec == Init /\ [][Next]_vars

-----------------------------------------------------------------------------
(***************************************************************************)
(* A buffer is in the pool once at most, and then no fireBatch has it; no  *)
(* two have the same, so none encodes into the body another is sending.    *)
(***************************************************************************)
OneOwner ==
  \A b \in Buffers :
     pool[b] + Cardinality({f \in Fires : buf[f] = b}) <= 1

(***************************************************************************)
(* While Do runs, what is read of a body is the batch of that Fire and,    *)
(* once the end is found, all of it: in the second try as in the first, and*)
(* after a rewind, whatever other Fires do with the pool.                  *)
(***************************************************************************)
BodyWhole ==
  \A f \in Fires :
     fire[f] = "do" =>
       LET x == Current(f) IN
       /\ \A i \in DOMAIN body[x].chunks : body[x].chunks[i] = f
       /\ body[x].from = "ended" => Len(body[x].chunks) = Chunks

(***************************************************************************)
(* After Do, a transport that still reads sees the batch of another Fire   *)
(* only when it has a copy from GetBody, which Release does not reach      *)
(* (line 713 speaks of the reader only), or when a Read was already under  *)
(* way, which then is the last.  Without compression it never does.        *)
(***************************************************************************)
ForeignChunks(x) == {i \in DOMAIN body[x].chunks : body[x].chunks[i] # x[1]}
LateChunk ==
  \A x \in Requests :
     /\ body[x].from = "reader" => Cardinality(ForeignChunks(x)) <= 1
     /\ ~compress => ForeignChunks(x) = {}

=============================================================================
