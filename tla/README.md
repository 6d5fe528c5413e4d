# A TLA+ development for libpqwire

libpqwire (`src/src/pqwire.c`, `scram.c`, `mitm.c` and the headers in
`src/include/`) is a PostgreSQL wire protocol library without I/O: a caller
feeds bytes into a *context*, polls events, calls send helpers and drains
output bytes. Both ends of the protocol are implemented. The library has no
threads; what makes it hard to test is that the caller's transport cuts the
stream anywhere, that events keep pointers into buffers that later input
overwrites, that queues and buffers have limits that are reached in the middle
of a call, and that two contexts in two processes run independently.

## Inventory

| component | state | operations | what makes it correct |
|---|---|---|---|
| event queue and row arena | `events`, `event_head/tail/count`, `row_arena_used` | `enqueue_event`, `dequeue_event`, `parse_data_row`, `pqwire_reset` | a bounded FIFO; no queued or held row is overwritten |
| input framing | `input_buf`, `input_len`, `startup_seen` | `pqwire_feed_input`, `pqwire_reset` | every message once, in order, whatever the chunks; bounded residue; the call returns |
| output buffer | `output_buf`, `output_len`, `output_cap` | `append_output`, `emit_msg`, `pqwire_send_startup`, `pqwire_get_output`, `pqwire_reset` | the stream is the accepted messages in order; no write beyond the capacity |
| dispatch and protocol phase | `proto_state`, `auth_state`, scratch strings | `handle_message` and its parsers, `pqwire_start_auth` | an event reads as the message that caused it; the phase follows startup and simple queries |
| client/server exchange | two contexts, the transport (`mitm_step`) | send helpers, `pqwire_next_event` | every request gets its own answer |
| encoders | staging buffers | `pqwire_send_*` | nothing beyond the buffer, lengths agree with bodies, no half pipeline beyond a Parse |
| Bind codec, identity rewrite | - | `pqwire_send_bind`, `parse_bind_msg`, `pqwire_bind_*` | decoding inverts encoding; both rewrites agree |
| parameter ownership | `pqwire_param_t` | `pqwire_param_*` | every copy freed once, also after partial failure |
| mid-pipeline recovery | `pqwire_pipeline_status_t` | `pqwire_pipeline_*`, `pqwire_note_ready` | a backend reported clean is clean |
| SCRAM-SHA-256 | `scram_ctx` | `scram_sha256_*` | RFC 5802 |
| attack list of the mitm harness | `enabled_attacks` | `mitm_enable_attack`, `mitm_disable_attack` | a set of at most 16 |

Components call each other inside one context: `feed_input` frames a message,
`handle_message` parses it, the parsers copy text to scratch or to the arena
and enqueue an event; send helpers append to the output. Two contexts interact
only through bytes. The hazards, each at its line, are in `PROJECT.json`.

## Modules

| module | models | abstraction |
|---|---|---|
| `LossyFifo` | what the event queue promises: a FIFO of bounded length that drops its oldest item when full | - |
| `EventRing` | the ring and the arena; `parse_data_row` one loop iteration per step | an event is its kind and its columns (offset, length); contents do not matter |
| `EventRingProofs` | theorems about `EventRing` | |
| `Framing` | `pqwire_feed_input` on bytes, one loop iteration per step | a handled message is recorded instead of parsed |
| `FramingProofs` | theorems about `Framing` | |
| `OutputBuffer` | the output side, with failing `realloc` | a byte is known by its message and piece |
| `Context` | a whole context as a record, its functions as operators on whole messages | one text per message, a number; the queue is `LossyFifo`'s sequence, which the ring is proved to implement; framing is left to `Framing` |
| `Dialectic` | a client and a server context, their applications and the transport | applications are external: any legal request, any answer |
| `Encoders` | the send helpers: staging buffers with their real capacities, checks and writes one per step, failing allocations of the buffer and of the output | lengths only; a call is the list of its steps |
| `BindCodec` | `parse_bind_msg`, `pqwire_send_bind` and the zerocopy rewrite on bytes, as operators | `PQWIRE_MAX_BIND_PARAMS` is a constant; names are not cut |
| `ParamOwnership` | `pqwire_param_*` and the loop body of `pqwire_bind_inject_identity` on an array and a heap, as sets of outcomes | a block is a number and its bytes |
| `PipelineRecovery` | `pqwire_pipeline_*` and `pqwire_note_ready` on top of `Context` | one number for the fields of an error |
| `Proxy` | an identity proxy composed of the three modules above, with its server | proxy application and server are external; the input buffer is reduced to the bytes seen in the place of a Bind |
| `OutputBufferProofs`, `EncodersProofs`, `ProxyProofs`, `DialecticProofs` | theorems about the modules of that name | |
| `ParamProofs` | the round trip of `BindCodec`, and lemmas about it and `ParamOwnership` that `ProxyProofs` rests on | |
| `NatRecursion` | induction and recursive functions over the naturals, in a form first-order provers can use | |
| `MCEventRing`, `MCFraming`, `MCEncoders`, `MCProxy` | instances for TLC | |

Names follow the code (`input_len`, `event_head`, `row_arena_used`, `rd32_be`,
...); `PROJECT.json` maps every definition to its lines. Definitions introduced
as *mutants* are plausible bugs that take the place of the definition below
them to test that a property notices; no specification uses them.

Points of the correspondence worth knowing:

* `EventRing`. `row` is the local state of `parse_data_row`; every other action
  requires it to be idle, as the code is single threaded. `held` and `plen` are
  history: the row the caller got last, and a column's length on the wire.
  `dequeue_event` starts the arena over when the *last* event leaves, and with it
  ends the validity of the row just delivered (`held` becomes empty): that row is
  overwritten by the next DataRow, so the caller must copy it before it feeds again.
* `Framing`. The length check comes before the completeness check, a rejected
  StartupMessage empties the buffer and ends the call, a rejected typed message
  is skipped or empties the buffer and the loop goes on. A failing `realloc`
  returns 0 before anything is stored and is a stuttering step. `overwritten`
  records how far the memmove that follows a message reaches into its body.
  `LegalStream` is a stream of legal messages in which a StartupMessage stands
  first if the context is a server, and nowhere else.
* `OutputBuffer`. `append_output` is a set of outcomes: a buffer that has to be
  enlarged may stay as it is.
* `Dialectic`. `Discipline` says when the client makes its next request. The
  connection may be lost at any moment; both sides then call `pqwire_reset` and
  use their contexts again, with scratch strings left as they were.
  `ClientToServer` and `ServerToClient` move any first part of the output, as
  sockets do; `MitmStep` is `mitm_step`. A server reads a StartupMessage only
  while it has seen none; the client application sends one per connection. The
  output always finds memory here: what is left of a message when it does not is
  the subject of `OutputBuffer` and `Encoders`.
* `Encoders`. `Require` is a check that returns -1, `Fit` the `realloc` of
  `pqwire_send_bind` and `pqwire_send_data_row_multi`, `Put` a write. The list of
  a helper has them in the order of its code, and `body` is the length that the
  protocol prescribes, computed from the arguments alone (`args` keeps them).
  `Reject` is the early return of the rewrite for a Bind without the slot.
  `sent` are the messages of this invocation: the length that `emit_msg` announces,
  and how much of the header and of the payload `append_output` has found memory
  for, each on its own and without a word to the caller (`torn`). The loops of
  `pqwire_send_bind` and `pqwire_send_data_row_multi` differ in one point: a value
  with a positive length and no pointer takes its space in the first (uninitialised
  bytes of the heap) and none in the second (`Written`). `EncodersAssumption` says what an invocation is: one helper with texts and values of any length, or
  the four calls of `pqwire_send_unnamed_pipeline`.
* `BindCodec`. The early returns of `parse_bind_msg` give `NoBind`. The loop that
  stops at the end of the body leaves the remaining parameters as `memset` made
  them (`Unread`). Lengths are signed, `wr32_be` and `rd32_be` go through bytes.
* `ParamOwnership`. A text value is copied to a temporary block, cut at its first
  NUL and copied again; `malloc(0)` may return NULL or a block. A parameter that
  was cleared differs from one that the caller zeroed (length -1 and 0).
* `PipelineRecovery`. `feed_input` may fail, its result is ignored; a message
  whose text is `Huge` exceeds `max_message_size` and raises PROTOCOL_ERROR.
* `Proxy`. One proxy works on one request at a time, over and over with the same
  array, status and backend context. It injects the identity into owned parameters
  or uses the zerocopy rewrite. After a failed injection it may or may not clear
  the array. A request has two byte sequences: `body`, which `parse_bind_msg` has
  parsed, and `seen`, what stands in the input buffer in its place when the proxy
  polls the event. `feed_input` moves the messages that follow the Bind in its chunk
  over it before it returns, so the two are equal only if nothing followed; both
  rewrites read the values from `seen`. The proxy polls before it feeds again, as the
  header asks. Either way of sending may be refused, because a staging buffer is too
  small (8192 bytes for the rewritten Bind) or finds no memory, with the Parse sent
  or not. After a refused pipeline it sends a Sync and forwards only the
  ReadyForQuery: this is the proxy's own recovery, which the library makes
  possible by never leaving a Bind without its Sync. `turn` alternates so that
  an error left over from the last pipeline is recognised.

## Runs

| run | result | shows |
|---|---|---|
| `ring` | passes | ring indexes consistent, refinement of `LossyFifo`, arena regions disjoint |
| `ring_oversized` | violated | a row that would fit loses columns because of rows queued before it (comment at `pqwire.c:657`) |
| `framing` | passes | legal streams are recovered under every chunking, in both roles; on illegal lengths the loop progresses, returns, keeps its place in the stream and its residue bounded |
| `framing_views` | violated | Bind parameter pointers are stale before the event can be read (`protocol_events.h:117`) |
| `output` | passes | buffer never overrun, stream equals accepted messages unless an allocation failed, whole ordered pieces in any case |
| `output_torn` | violated | `emit_msg` returns 0 for a message it has torn (`ARCHITECTURE.md:26`) |
| `dialectic` | passes | every answer belongs to its request, nothing lost, the server's phase follows startup and simple queries only, every request answered |
| `dialectic_scratch` | violated | a client that trusts `pqwire_current_state` gets one answer twice (`pqwire.h:40`) |
| `dialectic_overflow` | violated | the documented feed and drain loop loses events (`ARCHITECTURE.md:56`) |
| `encoders` | passes | lengths around every limit: writes stay in the buffer (`pqwire_send_startup` excepted), accepted messages announce their whole length and are whole unless the output finds no memory or one of three helpers cuts them, fitting ones are not refused, a failing pipeline leaves at most a Parse |
| `encoders_startup` | violated | `pqwire_send_startup` writes up to eight bytes beyond its buffer before it refuses a user name (`docs/decisions/003-testing-fuzzing-valgrind.md:23`) |
| `proxy` | passes | the identity is in every Bind sent, the others arrive as sent (their bytes if the Bind was the last message of its chunk), every block freed once, a complete pipeline leaves a clean connection and reports its own error, answers are legal, every pipeline completes |

Bounds. `ring`: three slots, so that the ring wraps and overflows with more than
one event left; an arena of three bytes, which two rows fill and a third
overruns; at most two columns, with a body of three, one SQL NULL, one empty and
one column larger than the arena. `framing`: a limit of 10 bytes, with messages
of minimal length, of exactly the limit, one byte beyond it, of announced length
0, 3 and 65536, and a body that contains the image of another message; up to
three messages per stream and every way to cut it. `output`: a header of two
bytes and an initial capacity of three, so that the header fits and the payload
does not; three messages. `dialectic`: two requests of three kinds (simple,
unnamed pipeline, pipeline with Describe, Flush and Close), one lost connection,
queues of seven events, the length of the longest exchange; the overflow run has
the default queue of 16 and a result of fourteen rows. `encoders`: the capacities
of the code, and texts and values whose lengths lie two on each side of every
limit, alone and in combination; up to three values, so that a value follows one
for which the buffer was enlarged, and rows whose pointers are missing. `proxy`: a limit of two parameters, so that
bodies with three parameters and three formats are beyond it; every combination
of NULL, empty and other values with every way to write the formats, a Bind torn
at every byte, lengths of -7, an embedded NUL; both slots, and one that does not
exist; Binds that stand alone in their chunk and Binds that a Describe, an Execute
and a Sync follow and overwrite. Requests are unbounded in number; one notice or notification is under way
at a time. Deadlock is not checked in
`dialectic`: after `Terminate` the two sides may stop.

Fairness. `Framing`: weak fairness of the loop's iterations, as a call of
`feed_input` runs to completion. `Dialectic`: weak fairness of the transport in
both directions and of both applications' polling, which is the loop that
`ARCHITECTURE.md` prescribes; nobody is obliged to make a request, and
`EveryRequestAnswered` excepts requests whose connection was lost. `Proxy`: weak
fairness of the proxy's own steps after it has sent a pipeline, which are its
drain loop, and of the server's answers; a request need never come and notices
may come without end.

## Proofs

Every theorem holds for all values of the constants that satisfy the named
assumptions; TLC evaluates those assumptions on the instances of the runs.

**`EventRingProofs`** (assumptions `QueueSizeAssumption`, `ArenaAssumption`,
`RowBodyAssumption`): every queue size, arena size, column limit and set of row
bodies.

* `TypeCorrect`: the type invariant; among others `row_arena_used` never exceeds
  the arena, so that `memcpy` stays inside it.
* `RingCorrect`: `event_tail = (event_head + event_count) % size`.
* `ArenaCorrect`, `DeliveredCorrect`: queued rows, the row under construction and
  the row delivered last own disjoint parts of the arena.
* `Refinement`: the ring implements `LossyFifo`.

The inductive invariant `IInv` is the conjunction of the type invariant, of
`RowIdle` (no columns are kept outside `parse_data_row`), `RingConsistent` and the
two arena invariants. None of the last three is inductive alone: that enqueueing
on a full ring overwrites exactly the slot that leaves the queue needs
`RingConsistent`; that a new row lies above all queued ones needs the bound of
every queued row by `row_arena_used`; that it lies above the delivered row needs
that the arena starts over only when that row's claim has ended. The proof has a
lemma for modular successors, one for what each queue operation does to the
sequence `Queue`, and one step per action.

**`FramingProofs`** (`FramingAssumption`, a natural limit; `TrafficAssumption`,
which says how the bytes of a stream are made of its messages): every limit, every
stream, every way to cut it.

* `TypeCorrect`: among others no more bytes are consumed than were fed.
* `BufferCorrect`: the buffer is the part of the stream fed and not yet consumed.
* `ResidueCorrect`: between calls the buffer is bounded by the limit.
* `ProgressCorrect`: an iteration that goes on has shortened the buffer.
* `MessagesCorrect`: of a legal stream exactly the messages that have arrived in
  full have been handed on when a call returns, in order and unchanged.

The first four hold of illegal streams too and rest on `TypeOK /\
BufferIsStreamSuffix /\ ResidueBounded`: the type invariant alone is not
inductive, as that `consumed` stays below `fed` needs the length of the buffer to
be their difference. Every iteration but the last takes some number of bytes from
the front of the buffer, so one lemma (`ConsumeStep`) carries the invariant for
all four of them. `MessagesCorrect` adds `Aligned`: what has left the buffer is a
whole number of messages, and between calls the next one is incomplete. That
`rd32_be` of the bytes at such a place is the length of the next message takes the
inverse of `wr32_be` for every 32-bit number.

**`OutputBufferProofs`** (`OutputAssumption`): every size of header, buffer and
payload, any number of messages, any failing `realloc`.

* `TypeCorrect`: the buffer never holds more than its capacity.
* `StreamGrows`: bytes handed out or waiting are never changed, except by a reset.
* `PromiseKept`: unless an allocation failed, the stream is the accepted messages
  in the order of the calls. The promised stream is a recursive definition; the
  proof unfolds it by one message per accepted call.
* `PiecesCorrect`: whole headers and payloads in order, failures or not. Its
  invariant `OrderInv` adds that every byte of the stream belongs to a call made
  so far, without which a new message might stand before an old one.

**`EncodersProofs`** (`EncodersAssumption`): texts and values of every length, any
number of values, columns and formats, any failing allocation, the capacities of
the code.

* `TypeCorrect`, `BoundsCorrect` (`EncodersInBounds`), `WholeCorrect`
  (`AcceptedWhole`), `FittingCorrect` (`FittingMessagesAccepted`) and
  `PipelineCorrect` (`PipelineBreaksBeforeBind`).

A list of steps is summarised as a *segment*: from `a` bytes written and room for
`r` more to `b` bytes written and room for `q` more, where a check may add the room
it asks for but asks for no more than the whole message takes. Segments compose
(`SegConcat`), a loop of segments is one (`SegFlatten`, by induction), and each
helper is one from an empty buffer to a whole message, which takes a lemma per
helper (`EveryCallSound`); the rewrite of a missing slot is a single refusal.
`TypeCorrect` says that no amount is negative, for lengths that include the -1 of
NULL. The invariant `EncodersInv` says that what is left of
the call under way is a segment for which the buffer has room; a step of the
machine takes off the head of a segment. `EncodersInBounds` alone is not
inductive, since the room for a write is known only from a check several steps
before it. That a pipeline does not break after its Bind follows from
`FittingMessagesAccepted`: Execute with an empty portal and Sync always fit and
allocate nothing.

**`ParamProofs`** (`BindCodecAssumption`: the limit on parameters is a positive
16-bit number).

* `BindRoundTrip`: `parse_bind_msg` of what `pqwire_send_bind` encodes gives the
  formats, the parameters (length, format, bytes) and the result formats that
  were encoded, for names without a zero byte, values whose length an `int32_t`
  holds, and counts up to the limit.

`StandsAt(body, off, part)` says that a part of the encoding stands at an offset.
The encoder is a concatenation, so each of its parts stands at the sum of the
lengths before it; the loop of the decoder is a recursive function whose value
at `k` is shown, by induction, to be the offset behind the first `k` values and
their views. Numbers go through `wr16_be`/`rd16_be` and `wr32_be`/`rd32_be`, each an
inverse of the other, -1 for NULL included.

**`ProxyProofs`** (`ProxyAssumption` on the requests, `BindCodecAssumption`,
`ContextAssumption`): any Bind bodies, any number of parameters, rows, notices and
pipelines, any failure of `malloc`, of a send helper, of `feed_input` or of the
server.

* `ViewsCorrect`: the views of `parse_bind_msg` lie inside the body.
* `HeapCorrect`: no block is leaked or freed twice.
* `TypeCorrect`: the injection stays inside the caller's array.
* `CleanCorrect`: a pipeline reported complete has left the context clean.
* `ErrorCorrect`: the status reports the error of this pipeline and of no other.
* `AnswerCorrect`: the filtered answer is one that the protocol allows.
* `IdentityCorrect`: every Bind that leaves the proxy decodes and has the identity
  in its slot, with either rewrite.
* `OthersCorrect`: if the frontend's Bind is within the limits (`Within`: formats
  none, one or one each, text without a zero byte), the number of parameters, the
  NULLs, the formats and the result formats arrive as the frontend means them, and
  so do the bytes of every other parameter if `seen` is `body`. The condition is
  needed: without it the run `proxy` refutes `OthersUntouched`, which is the finding
  of `framing_views` seen from the backend. The other theorems have no such condition:
  lengths, formats and the identity are held by value.

There are three invariants. `Rewrites` is about the array and the heap: every block
has exactly one owner at every iteration of the injection, which needs the
decoder's bounds. `Conversation` is about the pipeline: while it is under way
(`Talking`), what the server has still to send, what is on the wire and what the
proxy has shown are one answer in the order of the protocol, and the phase of the
context agrees with its part; between pipelines (`Quiet`) nothing of an earlier
one is on the wire. The properties speak only of completed pipelines and are
reached from `Talking` when the ReadyForQuery arrives. `Prepared` is about what is
sent: the parameters that the injection has passed hold what it should have put
there, one more at each iteration, and what has been sent carries the identity and
the others. It uses `Rewrites` (the array is the one the decoder described) and the
round trip twice: of the frontend's Bind and of the proxy's own.

**`DialecticProofs`** (`ContextAssumption`, `DialecticAssumption`): any number of
requests, reconnects and rows, every interleaving of the two applications with the
transport, every cut of the two outputs at message boundaries. The theorems assume
`Sized`: the client waits for the READY_FOR_QUERY event, and the queues take the
longest exchange (seven commands; the rows and six more answers). Both parts are
needed: `dialectic_scratch` refutes `AnswersMatch` for a client that goes by
`pqwire_current_state`, `dialectic_overflow` shows events lost with more rows than
the queue takes. The `dialectic` run is an instance of `Sized`, with the shortest
queue it allows.

* `AnswersCorrect`: answer k of a connection is the answer to its request k.
* `NothingLostCorrect`: neither queue ever drops an event.
* `PhaseCorrect`: the server's phase is AUTHENTICATING or QUERYING exactly while a
  STARTUP or a QUERY waits for its answer, and READY otherwise: also while Parse,
  Bind, Execute and Sync wait, for which `ARCHITECTURE.md:56` suggests a state of
  their own.
* `TypeCorrect`: the type invariant.

None of these is inductive. The invariant `Exchanging` says that one exchange is
under way: the client sends the messages of one *script* (startup, simple query,
two pipelines, terminate), `m` of which have reached the server and `k` of which
its application has answered. From `k` and `m` follow the server's queue, its
phase, its scratch string and what is left in the client's output (`Commands`, with
the password of `pqwire_start_auth` before, behind or already gone); and what may
be under way to the client or in its queue (`Due`): no ReadyForQuery before the
last answer, at most one concluding answer, and no more events than the queue still
has room for when the rest of the script has been answered. `Texts` says that the
text of a concluding answer is the last request's wherever it is: in the output,
or in the client's scratch string. There is a lemma per operation (`CommandsMove`,
`AnswersMove`, `ClientPolls`, `ServerPolls`, `Asks`, `Terminates`, `Authenticates`,
`Connects`); a chunk of several messages goes through `HandleMessage` one by one,
by induction. TLC checked `Exchanging` on the instance of the `dialectic` run before
it was proved.

Only model-checked: liveness (`FeedReturns`, `EveryRequestAnswered`,
`EveryPipelineCompletes`), which is beyond the prover. Every safety property of a
passing run is also a theorem.

## Observations that no run is spent on

* `pqwire_reset` leaves `row_arena_used`, so that the first rows of the next
  connection find the arena partly used until the queue drains.
* What follows an oversized message is recovered if the message was in the
  buffer as a whole and parsed as garbage if it was not.
* `tests/test_input_robustness.c:30` expects `PQ_EVENT_ERROR` where the code
  raises `PQ_EVENT_PROTOCOL_ERROR`; the test is not built (`TODO.md:23`).
* No message is refused because of the phase it arrives in, and
  `PROTO_STATE_ERROR` is never entered, although `README.md:18` lists state
  machine guards.
* The server ignores `'p'` messages: SCRAM is never answered.
* `pqwire_send_bind` enlarges its buffer for a value that does not fit (line 1094)
  but not for what follows the value: with one parameter, one format and one result
  format a value of 305 to 308 bytes fits into the 320 bytes, the result formats
  behind it do not, and the call returns -1; a value of 309 bytes is accepted.
  `FittingMessagesAccepted` speaks of messages that fit as a whole.
* `pqwire_send_call` cuts its statement at 511 characters and
  `pqwire_send_row_description` leaves out columns beyond the sixteenth;
  `pqwire_send_data_row_multi` writes the length of a value whose pointer is missing
  and no bytes behind it (line 1334). All return 0 (`AcceptedWhole` excepts them).
* A second StartupMessage, or one sent to a client, is read as a typed message: its
  first byte is the type 0, its length is taken from the wrong place.
* A Bind with more than 32 formats or parameters is decoded shifted: the entries
  beyond the limit are read as the fields that follow. The identity is in its slot
  nevertheless; what the other slots hold is not what the frontend sent.
* A torn Bind that ends before a length gives empty parameters, not an error.
  For those the two rewrites may differ in formats: one takes them from the
  parameter view, the other from the list of formats.
* A text value with an embedded NUL is cut by `pqwire_bind_inject_identity` and
  not by the zerocopy rewrite; PostgreSQL itself accepts no such text.
* `pqwire_pipeline_feed_backend_msg` discards the events it drains, notifications
  included: a proxy has to forward the bytes itself.

## Not modelled

A transport that loses bytes: `mitm_step` ignores the result of `feed_input`, and
so bytes are lost when its `realloc` fails. In `PipelineRecovery` the same failure
is modelled.

A Sync, or another message of the proxy's pipeline, that `append_output` drops for
want of memory: the pipeline would not complete, as its caller was told that it was
sent (`output_torn`). Answers of the server with PortalSuspended or
EmptyQueryResponse, which need a row limit or an empty query.

The attack list of `mitm.c` is kept and never read, as the mutations are a TODO.
`pqwire_prepared_from_parse` copies one record into another. `pqwire_msg_peek`
only cuts the proxy's input into whole messages.
SHA-256, HMAC and PBKDF2 in `scram.c` are arithmetic on fixed data that test
vectors settle; the functions that process server messages are not called by the
library. COPY events are declared in `protocol_events.h` and raised nowhere.
Destruction of a context, the NULL and magic-number checks and truncation of
names by `copy_cstr` are left out. Examples, tests and fuzz targets are callers
and were read for how the library is driven.
