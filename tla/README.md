# libhoney-go in TLA+

libhoney-go sends events to the Honeycomb API: a program creates events, calls
`Send`, and the library batches them, posts the batches and returns one
`Response` per event on a channel. These modules model the part of it where
goroutines, channels and failures meet; TLC checks them on small instances and
TLAPS proves every safety property of the passing runs but one (`SentInOrder`) for all
instances, some of them under a hypothesis that it names. Line numbers are those of
`src/transmission/transmission.go` unless another file is named.

## The system

| Part | State | Operations | Interacts with |
|---|---|---|---|
| `Honeycomb`, the default transmission | `muster` (the current batching client) under `musterLock`, the channel `responses` | `Start`, `Add`/`tryAdd`, `Flush`, `Stop`, `SendResponse`, `TxResponses` | replaces muster clients; shares `responses` with every Fire and with the program |
| muster client (library `facebookgo/muster`) | channel `Work`, the batch being collected, a worker goroutine, a wait group limited to `MaxConcurrentBatches` | `Start`, `Stop`, send on `Work`, batch timer | calls `batchAgg.Add` from the worker, `batchAgg.Fire` in a goroutine per batch |
| `batchAgg`, one batch | `batches` and `overflowBatches` by key | `Add`, `Fire`, `fireBatch`, encoders, `reenqueueEvents` | HTTP server; enqueues Responses |
| `Sender`, the interface | what it promises | `Add`, `Flush`, `Stop`, `TxResponses`, `SendResponse` | implemented by Honeycomb and the other senders |
| `Event`, `Builder` (`src/libhoney.go`) | `data` under `lock`, `sent` under `sendLock`, `dynFields` under `dynFieldsLock` | `Add*`, `Send`, `SendPresampled`, `NewEvent`, `Clone`, `AddDynamicField` | `Client`, then `Sender.Add`, or `SendResponse` when sampled out |
| `Client` (`src/client.go`) | transmission, logger, builder, each created once | `NewClient`, the calls that go to one of them, `Flush`, `Close`, `ensure*` | everything above |
| request bodies | the pool `zstdBufferPool`, a `pooledReader` per request | `buildReqReader`, `Release` | `fireBatch`; the HTTP transport, which reads them |
| package-level API | default client `dc`, `transitionResponses` | `Init`, `Close`, `Responses` and its pump goroutine | default client |
| `WriterSender`, `DiscardSender`, `MockSender`, `transitionOutput` | own responses channel | those of `Sender` | alternatives to Honeycomb |
| encoders, key verification, loggers, metrics | none that matters between calls | | |

What is hard here:

- `Add` sends on the `Work` channel of a client that `Flush` closes at the same
  time; the read lock of `tryAdd` and the write lock of `Flush` keep them apart,
  and with `BlockOnSend` the read lock is held for as long as the queue is full.
- `Flush` cannot flush a client: it starts a new one, swaps, and stops the old one,
  so several clients live side by side and each must be drained by somebody.
- `Stop` closes `responses`, on which every Fire posts.
- With the blocking options a full channel anywhere stops goroutines back to
  `Send`: reader, Fire, the wait group, worker, `Work`, lock.
- A batch may be larger than the API takes. Its tail is re-enqueued, by key, and
  goes out in later rounds, whose number is limited; events that cannot be encoded
  leave holes in the batch, and answers come back by position.
- A request is tried twice, and fails in seven ways.
- The buffer of a compressed body goes back to a pool when `Do` returns, while the
  transport may still be reading it.
- The parts of a `Client{}` that was not made by `NewClient` are created by whichever
  call needs them first, from any goroutine; `Close` and `Flush` look for one without
  creating it, and an `Init` that fails leaves no Client at all.
- `Send` hands the map of an event over by reference and the encoder reads it later,
  with no lock; only the `sent` flag and the copies made by `NewEvent` and `Clone` keep
  the program from writing to it. Four kinds of locks are taken two at a time.

`PROJECT.json` lists these and smaller ones as hazards, each at its line.

What makes the parts correct:

- transmission: no send on a closed channel; an accepted event is in exactly one
  place until it was sent; `Flush` and `Stop` return only when what was in flight
  has been sent; calls return; nothing stays in a batch for ever; responses arrive.
- batch: every event is posted at most once per overflow round it is in, in the order of
  the Adds, with events of its batch key only, in bodies of limited size; one response
  each, its own; Fire returns.
- events and builders: a sent event does not change, is sent with all of an Add or
  nothing of it, copies are complete and independent, no map is written while it is in
  use, every call returns.
- request bodies: each request sends its own batch, whole, whatever other Fires do with
  the pool.
- clients: all goroutines find the same parts, ready to use, and nothing panics but what
  the code leaves open by name.
- other senders and the pump: no event lost or doubled under concurrent Adds, responses
  in order, none lost between two channels, and no Add that waits for ever on a channel
  that the program reads.

## Modules

**`Sender`** is the abstract specification. Its state is what a user of the
interface can tell: which events were handed over, which are pending, which are
sent, how many responses each got, who is in `Flush` and which events these found in
flight (`awaited`), and whether `Stop` was called. Its actions are the sentences of
`src/transmission/sender.go`, but one is weaker: of several Flushes that overlap, only
the last to return promises that all that any of them found has been sent, because the
code does no more (`tx_flush_overlap` below). `StartAgain` is the "unless Start has
subsequently been called" of line 14.

**`Muster`** is the library's client as this code uses it (it is not in the
repository, so it is marked external). The state is indexed by generation, since
each `Flush` makes a new client: `work[m]`, `closed`, `worker[m]`, `batch[m]`,
`firing[m]`. `conf` is the configuration, the fields of `Honeycomb` that decide how
clients and channels behave; `Init` chooses it among `Configs`, so that one run covers
several. Actions: a receive by the worker, the batch timer, the end of a closed
`Work`, the start of a Fire when the wait group has room, and the end of a Fire.

**`HoneycombTx`** extends `Muster` with the transmission itself.

| Code | Model |
|---|---|
| `Add`, `tryAdd` (201-239) | `AddCall`; `AddRLock` (lock and read of `h.muster`); `AddSend` or `AddFull` with the deferred unlock; `Respond` for the overflow response, outside the lock |
| `SendResponse` (245) | `SendResponse`, `Respond` |
| `Flush` (180) | `FlushStart` (new client), `FlushLock` (a pending writer keeps new readers out), `FlushSwap` (when the readers are gone, up to the unlock), `FlushClose`, `FlushReturn` |
| `Stop` (173) | `StopCall` (reads `h.muster` without the lock), `StopClose`, `StopReturn` (waits, then closes `responses`) |
| `Start` (127) | `Init`; after a Stop `StartAgain`: a new channel, a new client |
| worker, `batchMaker`, `Fire` | `Collect`, `GoFire`, `FirePost`, `FireDone` |
| `writeToResponse` (`response.go:84`) | `PostResponse` |
| a reader of `TxResponses()` | `Consume` |

A send on a closed channel, or a second close, sets `program` to "panicked", where
everything stops. The variables `handed`, `accepted`, `sent`, `answered`, `awaited` are
history that only properties read. `GoFire` chooses how many responses Fire will post
for each event (`Answers`): one in the runs and in the refinement of `Sender`, any
numbers in the other proofs, as `BatchAgg` shows that it may be none or two. A channel without buffer is modelled by letting a send
succeed only if the receiver can be waiting and, for a `select` with a default, letting
it fail even so.

**`BatchAgg`** is one Fire with all it calls, in a single goroutine, step by step:
`Add`; `Fire`; `FireBatch` for each key; `Reject`, `Encode`, `Reenqueue`, `EncodeEnd`
for the loop of either encoder; `Skip`, `BuildURL`; `Attempt`, once per request, for its
outcomes; `OverflowRound`; `Done`. An event is a model value with a destination, a size
and possibly a failure to marshal. A destination is a host, a key and a dataset, each a
sequence of tokens, and the batch key of an event (`KeyOf`) joins the three by `_` as line
295 does, without quoting, so that two destinations may share one. `posted[e]` is the
sequence of the kinds of responses it got; all errors that are the same for the whole
batch are one kind, "failed", but for "unread", with which the code loses the status it
had. The sizes follow the code: `[`, `]` and commas, or the five bytes kept free for
a msgpack array header. The two encoders differ in nothing else, so they share actions;
which one a batch uses is chosen in `Init`. Events of one bucket share a key, so
`Reenqueue` appends the tail to one bucket; that invariant is proved (`OneKey`).

**`EventBuilder`** is the program's side: goroutines that share events and builders
and call their methods, interleaved at each lock, each field and each copy. `data[h]`
is the reference to the map of `h`, `heap` the maps, so that sharing a map would show.
A holder has two names for maps, as AddFields with more fields than the map has puts a
merged one in its place; nobody refers to the old one when a third would come. The value of a field is the goroutine that set it, or `Dynamic`. **`RWMutex`** is Go's
`sync.RWMutex` (external), in which a waiting writer keeps new readers out, so that
the order of the locks matters.

| Code (`src/libhoney.go`) | Model |
|---|---|
| `NewClient` (`client.go:68`) | `Init`: the builder of the Client |
| `AddField`, `AddFields`, `Add`, `AddFunc` of Event (779-830) and Builder (632-756) | `CallAdd`; for an Event `SendLock` and the `sent` flag; `LockAsk`, `Lock`, `Write` for each field or `Merge` (645-653), `BadKey` (a map key that is not accepted ends the call), `Unlock`, which in `AddFunc` is followed by the next field |
| `Send` (847) | `CallSend`, `Keep` or `SampleOut`, then as `SendPresampled` |
| `SendPresampled` (880) | `SendLock`, `RLock`, `CheckFails` or `MarkSent`, `Queue` (the call of `Sender.Add`), then the deferred `RUnlock`, `SendUnlock` and `Log`, in that order |
| `NewEvent` (994) | `CallNewEvent`, `RLock`, `DynRLock`, `Copy`, `ApplyDynamic`, `Release` |
| `Builder.Clone`, `NewBuilder` (1024) | `CallClone`, `RLock`, `Copy`, `DynRLock`, `CopyDyn`, `Release` |
| `AddDynamicField` (955) | `DynLockAsk`, `DynLock`, `AppendDyn` |

What a call is doing is `pc[g]`, its arguments `call[g]`; `seen` and `keys` remember
what a builder had when the call began, which only `InheritsAll` reads. A write lock is
taken in two steps, asking and getting, a read lock in one. The checks of API host, key
and dataset (898-918) do not depend on fields and are a choice; that of an empty event
is not.

**`LocalSenders`** has the senders that do their work inside `Add`, and
**`ResponsePump`**, which extends it, the package-level functions around them.

| Code | Model |
|---|---|
| `Start` of the senders, `libhoney.Init` | `Start`, `InitClient`: a new Client with its own transmission becomes the default; before any Init there is one with a DiscardSender (`client.go:117`) |
| `WriterSender.Add` (`writer.go:35`), `MockSender.Add`, `Events` (`mock.go:20`, `40`) | `CallAdd`, `CallEvents`; `Lock`; `Load` and `Store`, or `Copy`; `Post` for the writer, which still holds its mutex; `Unlock` |
| `DiscardSender.Add` | `AddDiscarded` |
| `SendResponse` of a sender, and of `transitionOutput` (`libhoney.go:305`) | `PostInner` and `PostOuter`, each with its channel; `CallRespond`, `Respond` |
| `Responses` (`libhoney.go:572`) | `Responses` (once, for the Client of that time), then its goroutine: `PumpReceive`, `PumpSend` |
| the program | `Read` |

An Output inside a `transitionOutput` posts into its own channel, while `TxResponses`
gives the outer one: `responses` and `outer` keep them apart. An event is named by the
number of the call that gave it. `ResponseQueueSize` and the capacity of the
`transitionOutput` are one constant; each has its own flag for blocking, `block`
(`writer.go:16`) and `blockOuter` (`libhoney.go:240`).

**`RequestBody`** is what `fireBatch` does with the body of a request, in several Fires
at once. A buffer is a byte slice; what counts is whose batch was last encoded into it
(`mem`). `body[x]` is what the transport, which is external, does with the body of
request `x`: it reads chunk by chunk, each Read in two steps (the slice is taken, then
bytes are copied), may start over with a copy from `Request.GetBody`, and may go on
after `Do` has returned.

| Code | Model |
|---|---|
| `buildReqReader` (742) | `GetBuffer`, `Encode` (into the buffer found or a new one), or `BuildPlain` |
| `http.NewRequest`, `Do` (429-447) | `Request`: the body is the reader itself; `DoReturn` |
| `Release` (712) | `ReleaseReset`, `ReleasePut` |
| the loop over tries (424) | `Again` |
| the transport | `ReadStart`, `ReadChunk`, `Rewind`, `CloseBody` |

`Reset(nil)` is one step, although with a Read under way in another goroutine it is a
data race in Go; the model takes the reader to be read from one goroutine at a time. The
garbage collector may empty the pool, and a buffer that nobody refers to is as good as a
new one (`Fresh`).

**`Client`** is the parts of a Client and how calls get to them.

| Code | Model |
|---|---|
| `dc` of the package (`libhoney.go:53`), `Init` (193), `NewClient` (`client.go:68`) | `Init`; `InitPackage`, which leaves `dc` nil when the transmission does not start |
| functions of the package, methods of Client | `CallClient`; `Ensured` lists which parts each makes sure of, `Used` the one it then calls |
| `ensureLogger`, `ensureTransmission`, `ensureBuilder` (`client.go:117`) | `EnsureFirst` (the `sync.Once` is taken), `Make`, `Start`; `EnsureDone` (the Once is over, others wait for that) |
| `Close`, `Flush` | `PeekClose` reads the transmission without its Once, `Use` |
| `Send`, `SendPresampled` (`libhoney.go:847`) | `CallSend`, `PeekSend` (line 904 reads the transmission before it is ensured), then the Once and `Use` |
| `AddField`, `AddFields` of an event | `AddToEvent` |

Events are those made by `NewEvent` and those a program makes as literals, without Client
and map. Each part counts how often it was set (`part`), so that a second one would show.

**`MCHoneycombTx`**, **`MCBatchAgg`**, **`MCEventBuilder`**, **`MCResponsePump`**,
**`MCRequestBody`**, **`MCClient`** give the instances,
**`HoneycombTxProofs`**, **`HoneycombTxPlaces`**, **`HoneycombTxRefinement`**,
**`BatchAggProofs`**, **`EventBuilderProofs`**, **`ResponsePumpProofs`**,
**`RequestBodyProofs`** and **`ClientProofs`** hold the proofs.
Operators whose comment begins with "A wrong" are deliberate mistakes: substituted for
the definition after them, each makes TLC find a violated property, which shows that the
property depends on that code.

The parts meet in two places. `EventBuilder` gives `queued`, the events that
`HoneycombTx` gets from `Sender.Add`; the encoder in `BatchAgg` reads their fields at
an unknown later time, which is why `SentUnchanged` is about all later time. And in the
constant `Answers`: `HoneycombTx` assumes of a Fire only
that it posts, in any order, some number of responses for its events and ends;
`BatchAgg` shows what that number is (`SingleUnlessFailed`, `EveryEventAnswered`) and
that it ends (`FireReturns`).

## Runs

| Run | Question | Instance |
|---|---|---|
| `tx_safety` | Is an accepted event in exactly one place across Flush, Stop and Start, is no client abandoned, does nothing panic, are the batches in flight bounded, does Stop wait for all, and does the transmission implement `Sender`? | 3 events, 2 adders, 2 flushers, 3 clients (Flushes at once, in sequence, or a Start after a Stop), symmetric; three configurations: dropping, with batches of 2, one Fire per client and `Work` of 1; unbuffered channels, no limits, `BlockOnResponse`; `BlockOnSend`, no batch timer |
| `tx_blocking` | With both blocking options, does every call return, every event get sent, every response get read? | 3 events, 2 adders, one Flush, two configurations: queues of one or two and the batch timer; and `Rendezvous`, batches of one, one Fire, no room in `Work`; liveness |
| `agg_fire` | Does every event get a response, only one and its own unless something fails, in every overflow round and for every outcome of two attempts? Do bodies keep their key, their order and their limit, does each round make progress, and does Fire return? | 7 events, 4 destinations with 2 batch keys, one destination without URL; sizes 5 to 8, one of 16 (too large), one that does not marshal; bodies of 15; both encoders; servers that answer too few or too many; liveness |
| `event_builder` | Are maps kept from concurrent use, sent events unchanged and whole, copies complete and independent, and does every call return? | 2 goroutines making 4 calls in all on a builder, a clone and an event, 2 fields; liveness |
| `response_pump` | Do concurrent Adds on a writer or mock keep every event, are responses in order, does `Responses` lose none of those of its Client, and who may wait for ever? | the Client of the package and one of Init with 5 kinds of transmission, 2 goroutines, 4 calls, channels of 1; liveness |
| `request_body` | Does each request send its own batch, whole, with a retry, a rewind, and a transport that reads on after `Do`? | 2 Fires, 3 buffers, bodies of 2 chunks, 2 bodies read late; compressed and not |
| `client_parts` | Do goroutines whose first calls race share the parts of a Client, does every call find them ready, and what can panic? | 3 goroutines making 5 calls, the Client of the package, one of Init, one of a literal event; 2 events |

Five runs end in a counterexample to what the repository says:

| Run | Said | Done |
|---|---|---|
| `tx_flush_overlap` | Flush "blocks until everything in flight has been sent" (`sender.go:18`) | a second Flush replaces the fresh client and returns while the first still drains the old one |
| `agg_overflow_failure` | "a single Response for each Event added" (`sender.go:22`) | a failed request is answered for the re-enqueued tail too, which is then sent and answered again |
| `agg_overflow_limit` | the same, and "Process these until complete" (327) | after 11 overflow rounds the rest is dropped in silence; a default batch of 50 events of the maximal size gets there |
| `agg_retry_status` | "StatusCode contains the HTTP Status Code" (`response.go:22`) | after a second 429 or 503 the closed body is read, the read fails and the code is lost |
| `agg_shared_key` | "based on the trio of api/wk/ds", "if all three of those match it's safe to send all the events in one batch" (291-292) | the three are joined by underscores, which may occur in each: key `k` with dataset `a_b` and key `k_a` with dataset `b` share a batch, and all of it goes to the destination of the first event |

Smaller differences are visible in the properties rather than in runs of their own.
`InFlightBound` allows each running Flush `MaxConcurrentBatches` batches besides those
of the current client, where line 86 speaks of one limit. `BodyBound` allows a JSON
body one byte over `apiMaxBatchSize`, for the comma counted after the check (618,
626). `AnswersOwnEvent` allows one answer to go astray: where overflow has cut the batch
short and the server sends more answers than it got events, the one too many goes to an
event of the tail, which was not in the body and is sent again. `SingleUnlessFailed` and
`FreshUnlessFailed` say when the code keeps to one response, and posts nothing that was
answered: before the first round of overflow always, and after it while no request and no
URL has failed and no server sent too much (`Clean`); `agg_overflow_failure` is the rest.
`Add` does not wait for a Flush in progress (197) but only for its
swap. `StopDuringFlush` is FALSE in every run: Stop reads `h.muster` unlocked (175),
so a Stop during a Flush may stop a client twice or close `responses` too early.

In `libhoney.go`, `NoDataRace` leaves out one read: the deferred call of the logger
(886) formats the event, and its `String` reads the map when the locks are released
already. After a failed Send nothing keeps an Add from writing at that time, which with
a logger that prints is a race. A Send that samples the event out (855) returns without
setting `sent`, although line 844 says that a sent event is immutable; `SentUnchanged`
speaks of events that the transmission has.

`LateChunk` allows what line 713 rules out, "Ensure further attempts to read will return
io.EOF": a copy from `GetBody` keeps the buffer that `Release` gives back to the pool, so
that a transport that still reads it when `Do` has returned sees the next batch. The
request has been answered or has failed by then. `ReadyToUse` names what may panic: a
call of the package after an `Init` that failed (`libhoney.go:259`), and an event made as
a literal, whose map is nil (635) and whose new Client has no transmission at line 904,
although line 848 gives it one to drop the event with. It also names that `Close` and
`Flush` may find the DiscardSender of a `Client{}` before it was started, or miss it.

The other senders promise less than `sender.go` says. A MockSender, a DiscardSender and
an Output in a `transitionOutput` give no response for an event; a writer that does not
block loses responses when its channel is full. `Responses` stays with the Client it was
first called for. `CallsReturn` of `ResponsePump` names the callers that a blocking sender
may keep (`Drained`): those of a Client whose channel nobody reads, and those of a
WriterOutput that blocks in a `transitionOutput`, as nobody can read its own channel; the
configurations leave that last kind out.

**Bounds.** `MaxMusters` bounds the clients ever created, hence the Flushes and Starts;
three give a Flush after, or during, another, or after a Start. Two adders are enough
for a reader that holds the lock while another waits behind the writer. Three events
with batches of two give a full batch, a batch fired by the timer and one fired by Stop,
and, with capacity 1, a full queue; the responses channel has capacity two, so it fills
as well. Liveness takes a smaller instance than the waiting of `BlockOnSend` seems to
ask for, since `Rendezvous` has no room where events could be: one event is fired, one
waits with the worker for that Fire to end, the third is in the hand of an Add which
holds the read lock, and a Flush waits for the lock; the Fire may still owe its response
when all of them wait. That the responses channel is full at the same time would take a
fourth event, which is beyond what TLC checks in the time of a run; in the other
configuration that channel does fill. In `agg_fire` the two keys have three and four
events, from two destinations each, so that bodies are mixed, tails overflow twice, a
body is one byte over the limit, holes are before, in and after what is encoded, and stray
answers occur behind an overflow; a server answers up to one event more than it got. The
limits are scaled down with the inequality the code needs, that the largest event fits in
a body on its own.
`maxOverflowBatches` is 10 as in the code, except in `agg_overflow_limit`, where 1 makes
the case small. In `event_builder` four calls let a builder get a field and a dynamic
field, and then make an event while the other goroutine adds to the builder or uses the
event; two fields are what it takes to tear an AddFunc apart. Deadlock is not checked
there because a program that has made its calls is done; `CallsReturn` says that all
goroutines are idle again some time after any call, which with finitely many calls means
that none waits for ever. In `response_pump` four calls fill the channel of the program, the hand
of the pump and the channel of the sender, so that the fourth waits in `Post` or is
lost; the Client of the package is enough to show a pump that stays with the Client
before Init. In `request_body` two Fires are what it takes to use a buffer twice, three
buffers allow for one in the pool besides, and two chunks for a body that is half read;
`MaxLate` of 2 lets the transport keep a body of each Fire, or both of one. In
`client_parts` three goroutines are one in a Once, one that waits for it and one that
does not look at it; five calls are enough for a call of each after an Init.

**Callers.** The model assumes what `sender.go` and the comments of `Close` and
`Flush` ask of the program: no Add or Flush after Stop was called, unless Start was, and
no Stop while an Add is running. No call of the package is running when `Init` is called,
which assigns `dc` without a lock, and an event made as a literal belongs to one goroutine.
In `EventBuilder`, events and builders come from `NewClient`, `NewBuilder` and
`NewEvent` and are used by others only when these have returned; dynamic functions
(1019) do not use their builder, whose locks are held; the map that `Fields` returns is
not written to.

**Fairness.** Weak fairness for each goroutine: the Go scheduler runs what can run,
and a goroutine that waits on a channel or lock proceeds when it stays possible. An
adder waiting for the read lock is not overtaken for ever, since a Flush releases the
lock. FireStep is fair because a request ends by the HTTP client's timeout and is
tried at most twice. Consume is fair in `tx_blocking`, whose
question is what happens when the program reads the responses, as it must if it asks
to block on them. Nothing makes the program call Add, Flush or Stop. In `BatchAgg`
the only fairness is that a Fire goes on. In `EventBuilder` it is that a goroutine in a
call goes on when it can; with finitely many calls weak fairness is enough for the locks.
In `ResponsePump` the goroutines, the pump and the reader of `Responses` go on when they
can; nothing makes the program call Init, Responses or a sender.

## Proofs

`HoneycombTxProofs`, for any finite or infinite set of events, any number of
goroutines and clients and any capacities:

- `TypeCorrect`: `TypeOK`, inductive together with the ranges of what each goroutine
  holds (`TypeInv`).
- `NeverPanics`: no send on, or second close of, a closed channel, if Stop is not
  called during a Flush. `NoPanic` alone is not inductive. `ClientInv` says who owns a
  client: those not made yet are fresh, each client that a Flush holds is neither the
  current one nor held by another Flush, an adder in its send is inside the read lock
  and sends on the current client, so no Flush can have swapped it away (`ReaderInv`),
  and a client is closed only after its owner closed it.
- `NoneOrphaned`: a client with work left is current or held by a Flush that will
  wait for it, from the same invariant.
- `StopComplete`: when Stop returns, every accepted event was sent. The invariant
  `EventInv` adds that an accepted, unsent event is in the queue, batch or Fire of some
  client (`KeptInv`) and that a client whose worker ended has an empty queue and batch
  (`EndedInv`); with no orphans, what Stop waits for is all there is.

`HoneycombTxPlaces` goes on from there:

- `InOnePlace`: an accepted event is in one queue, batch or Fire, and once, until it was
  sent. `EventInv` says that it is somewhere; `PlaceInv` adds that it is in no two places
  of one client (`OncePerClient`) nor of two (`OneClient`), that only accepted events are
  anywhere (`OnlyAccepted`), that no empty batch is fired (`FilledInv`), and that the
  event of an Add under way is in no place yet and in no other Add (`HandInv`).
- `BoundedInFlight`: each client keeps to `MaxConcurrentBatches` (`SlotInv`), and the
  clients with a batch in flight map one to one to the current one and the running
  Flushes, by `ClientInv`.

`HoneycombTxRefinement` proves `KeepsPromise`: the transmission implements `Sender`. Each
action has a lemma that maps it to a step of `Sender` or to none. The invariants are
`AnswerInv` (who still owes the response of an event: an Add, a SendResponse or a Fire)
and `AwaitInv` (what a Flush awaits is in a client that is swapped out already, unless it
was sent, so that the last Flush to return finds it all sent). Its hypotheses are that no
Stop comes during a Flush and `Answers = {1}`, without which the code breaks the promise
of one response, as `agg_overflow_failure` and `agg_overflow_limit` show.

`BatchAggProofs`, for any events, sizes, limits and outcomes, from
`BatchAggAssumption` (which says that the largest event fits in a body):

- `TypeCorrect`: what `Reenqueue` appends is a sequence of events because nothing from
  `next` on has been rejected yet (`Unseen`).
- `BodyBounded` and `OverflowProgresses` from `SizeInv`: the count stays within the
  limit and is that of an empty body when nothing is encoded, so the first event that
  is not rejected always fits.
- `KeysKept`: all events of a body have the key of its first, whatever the destinations
  and however their keys collide. `DestInv` says that buckets hold events of their key,
  that a batch therefore has one key, and that what was encoded is among it; the first
  live event exists because Nat is well-founded.
- `SingleKept` and `FreshKept`: no event is answered twice, and none is
  posted after its answer, in the first round, and in the later ones as long as no request
  failed (`Clean`). `FreshInv` says that what waits in a bucket or in the overflow has no
  answer; it rests on `OrderInv`, that an event is in one bucket once and that the overflow
  is a tail of the batch. The premise cannot go: after a failed request the tail is
  answered and sent again (`agg_overflow_failure`).
- `AnswersKept`: answers go to their own events. The answer at a position goes to the live
  event of that `Rank`, and the lemmas about `Rank` say that rejected events shift both
  sides alike. It needs no hypothesis on what the server answers, since an answer beyond
  the body can only reach the part of the batch that overflow cut off.
- `ShortBucketsAnswered`: every event is answered when Fire returns, if no bucket has more
  than B (R + 2) events, where B events of the largest size fit in a body and R is
  `maxOverflowBatches`. `LengthInv` says that a bucket gets shorter by B events in every
  round, `AnsweredInv` that an event without an answer still waits somewhere. The bound is
  sharp: with the limits of the code (bodies of 5,000,000 bytes, events of 1,000,000, ten
  rounds) B is 4 and the bound 48, while `DefaultMaxBatchSize` is 50; of 50 events of the
  largest size the last two are lost, which is what `agg_overflow_limit` shows in small.

`EventBuilderProofs`, for any goroutines, events, builders and fields and any number of
calls, from `EventBuilderAssumption` (which only tells the constants apart). The
invariant `Inv` is proved part by part; each part has a lemma for calls and one for
steps, on top of `Others` (a step of one goroutine moves no other) and `Own`:

- `MapInv`: each object refers to a map of its own two names, which `Merge` exchanges.
  `CallInv`: which calls can be where.
  `FreshInv`: an object in the making belongs to one call and was not sent.
- `SendInv`: whoever adds to an event holds its `sendLock`, and it was not sent;
  `LockInv`, `DynInv`: the holders of the RWMutexes, by `MutexStep` and `MutexKept`,
  which say what any step does to a lock that somebody else holds.
- From these follow `TypeCorrect`, `NoRace`, `NotTorn` (with `TornInv`: an unfinished
  Add is still inside the sendLock), `SentStays` and `OnlyOwn` (with `HeapStep`: a step
  changes only the map being added to or a new one, and `ContentStep`, which says the same
  of the fields of an object whichever map they are in).
- `Inherits` adds `InheritInv`: fields and dynamic fields of a builder only grow, so
  that what it had at the call is still there when it is copied.

`ResponsePumpProofs`, for any goroutines, Clients, calls, capacities and kinds of senders:

- `TypeCorrect`, with what a goroutine in a call has in hand (`CallOf`).
- `PassesOn`: `Forwarded` is inductive with `WayInv`, which says of the Clients that the
  pump does not read that all they posted is still in their channel.
- `KeepsOnce` and `AnswersInOrder`: who is between Lock and Unlock has the mutex
  (`MutexInv`), hence nobody else changes what the sender keeps, and the event stored last
  is that of the holder (`HeldInv`); an event is of one call and not recorded before
  that call stores or posts it (`EventInv`); from these a new line is new and its response
  comes behind those of all earlier lines (`LineInv`).

`RequestBodyProofs`, for any number of Fires, buffers, chunks and tries:

- `TypeCorrect`, and `OwnedOnce` from `BufferInv`: no two Fires have the same buffer, and
  none has one that is in the pool.
- `ReadsOwnBatch` and `LateReads`: `FilledInv` says when the buffer of a Fire has its own
  batch; `ReadInv` what a reader or a plain body may still see after `Do`, namely at most
  one foreign chunk and nothing after it; `CurrentInv` that during `Do` the transport reads
  the buffer of the Fire.

`ClientProofs`, for any goroutines, Clients, events and calls:

- `TypeCorrect`; `RacingCallsShare`: a part is set once, by the only call that runs the
  function of its Once (`OnceInv`, `MakingInv`), so that fields are added to one builder
  and events go to one transmission (`AddedInv`).
- `CallsFindParts`: `ProgressInv` says which parts a call has passed by where it is, and
  `OwnerInv` that an event made by `NewEvent` has a Client with a transmission.

Proving changed two definitions of the models. In `Client`, the step after a Once was a
`CASE` whose guards overlapped, so that its value was left open where both held; it is an
`IF` now, in the order of the code. `AnsweredInOrder` compares positions (`InOrder`) where
it compared filtered sequences; as no line is kept twice, both say the same.

Only model-checked: all liveness (`CallsReturn`, `AllSent`, `AllRead`, `FireReturns`,
`ResponsesArrive`), which TLAPS cannot prove; `SentInOrder`, that a body is a part
of its bucket in order, which would take an invariant on the whole way of a tail through
the rounds; and what the five runs with a counterexample show.

## Not modelled, and the plan

Not modelled because there is nothing to interleave or remember: key verification (one
request), loggers and metrics (output), the encoding of single events (its result is a
size or a failure in `BatchAgg`), the examples. `Stop` and `Flush` of the local senders
do nothing, and the counters of MockSender are read by nobody.

Left out of a modelled part: the end of the pump when Honeycomb closes its channel;
`transitionOutput.Flush`, which stops its Output twice and does not start it again
although the comment of Flush says that it reopens it (the Outputs of the library do
nothing in Stop); a second Send of an event that was sampled out, which may transmit it
after its response; and a Stop during a Flush, which the callers must avoid.

Planned are more proofs: that a Fire that goes on comes nearer to its end with each step
(the safety part of `FireReturns`), and that the locks of `EventBuilder` are taken in an
order that rules out a circle of waiting goroutines (that of `CallsReturn`).
