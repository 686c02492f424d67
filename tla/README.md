# tokio-jsonrpc in TLA+

TLA+ models of the crate in `src/` (its Rust sources are `src/src/*.rs`), checked
with TLC and proved with TLAPS. Every definition is translated from the source;
`PROJECT.json` maps each to its lines. Line numbers without a file are those of
`src/src/endpoint.rs`.

## 1. The system

tokio-jsonrpc turns a byte stream into a JSON-RPC 2.0 connection in which both
sides may call each other. One reactor thread runs everything; the concurrency is
that of futures, which the reactor polls in no particular order, and of the peer.

| component | state | operations |
|---|---|---|
| `Client` (349-481) | clones of the idmap, of the control block, of the reactor's handle, of the terminator (`RcDrop`) and of the channel's sender | `call`, `notify`, clone, drop; futures `RpcSent` and `RpcFinished` |
| `ServerCtl` (54-193) | `stop`, options `terminator`, `sender`, `killer` | `terminate`, `kill`, `client`, `cleanup` |
| idmap | request id -> oneshot sender | insert (`call`), remove (`do_response`, timeout), clear (`cleaner`, end of the task) |
| `Endpoint::start` (598-705), the task `transmitted` | the framed stream, `buffer_unordered`, the channel of 32 messages, the sink | reads, dispatches, collects answers, sends, ends |
| `do_msg`, `do_request`, `do_notification`, `do_response` (196-347) | none of their own | turn one message into futures, or a response into a oneshot's value |
| `do_batch` (242-300) | a channel as long as the batch | one future per part and one that collects |
| codecs (`codec.rs`) | position cache of `Line`, `DirtyLine` | `encode`, `decode` |
| message format (`message.rs`) | none | serialise, deserialise, classify broken messages |
| servers (`server.rs`) | none, or the list of a `ServerChain` | `rpc`, `notification`, `initialized`; macro `jsonrpc_params!` |

How they interact:

- A client puts its message into the channel. `outbound` merges the receiver of
  that channel with `answers`, the stream of what handlers answer, and `send_all`
  moves `outbound` into the sink. Responses, requests and the end of input all come
  through the stream that `buffer_unordered(parallel)` pulls.
- A call registers a oneshot sender under its id in the idmap *before* it is sent.
  The response, a timeout, the end of input or the end of the task takes it out.
- `ServerCtl` ties lifetimes together. Its `sender` keeps the channel open; its
  `terminator`, with those in clients and pending calls, keeps the connection
  reading; dropping its `killer` ends the task.
- Handlers get a `ServerCtl`, and may take a client from it and call the peer while
  they are polled by the very task that has to read the response.

What is hard: which of several futures is polled first; the order of a response,
its timer and the end; what an end in the middle of things does to calls, messages
and handlers; the shared slots, which may starve what they wait for; bounded
channels that feed each other; a batch that is terminated halfway. `hazards` in
`PROJECT.json` lists each at its line with the properties aimed at it.

What makes each component correct:

- *Client*: a call ends once, with the outcome it should have, and does end;
  nothing stays behind for it.
- *ServerCtl*: what callbacks rely on holds; who stopped the endpoint gets no more
  clients; termination and kill lead to the end.
- *Task*: an orderly end loses nothing, no end leaves a caller waiting, work is
  bounded, senders and handlers make progress.
- *Batches*: one complete answer per batch, no deadlock in the shared slots.
- *Codecs*: the lines read are the lines sent, however they are cut into chunks.
- *Message format*: what is written reads back as the same message; a message is
  taken for what it is.
- *Servers*: the first server of a chain that knows a method answers.

## 2. The modules

| module | is | proofs |
|---|---|---|
| `RpcCalls` | the abstract promise of `Client::call` | |
| `Endpoint` | clients, control block, idmap, message dispatch and `transmitted`, for messages that come alone | `EndpointProofs` |
| `Batch` | dispatch and slots when messages come in batches, nested too | `BatchProofs` |
| `LineStream` | the abstract promise of the Line codec | |
| `LineCodec` | `Line` and `DirtyLine` at both ends of a wire, with the buffers of Framed | `LineCodecProofs` |
| `BoundaryCodec` | `Boundary` on the read buffer of Framed | `BoundaryCodecProofs` |
| `Json` | JSON values and `Option` | |
| `MessageFormat` | reading and writing one message | `MessageFormatProofs` |
| `Params` | `jsonrpc_params!` | `ExchangeProofs` |
| `Exchange` | two endpoints with chains of servers, their messages and what those hold, batches included | `ExchangeProofs` |
| `ConnectedEndpoint` | an `Endpoint` whose peer is another one, seen from one side | `ConnectedEndpointProofs` |
| `Connection` | two of them at the ends of a socket | `ConnectionProofs` |
| `MCEndpoint`, `MCBatch`, `MCLineCodec`, `MCBoundaryCodec`, `MCExchange`, `MCConnection` | instances for TLC | |

### Endpoint

An action is one poll of one future, or one call by user code, run to its next
suspension point. That is what one thread with cooperative futures allows to
interleave. Correspondence of the state:

- `phase`: whether `transmitted` runs, and why it ended: `closed` (both streams
  ended, 665-668), `killed` (670), `failed` (685).
- `input`: `reading`, or ended by the peer (`eof`) or by the terminator marker
  (`terminated`, 629-657).
- `ctl`: the four fields of `ServerCtlInternal` (the options only as present or not).
- `idle`, `op`, `awaits`: the clients and their uses. `idle` counts the `Client` values
  that the user and the handlers hold between them: whoever has one may pass it on, and
  may keep it, so the model does not say whose it is. One consumed by `call` or `notify`
  lives in the send future (`sending`) and comes back with `SendAccepted`. `awaits` has the
  calls and notifications each handler has made, any number one after the other or at
  once. The `RcDrop` count is not a variable: the terminator has fired (`TermFired`) when
  no client, no pending call and not the control block holds one.
- `idmap`, `reply`: ids with a live oneshot sender; oneshots with a value not yet
  polled. A call in neither has been cancelled and will find out.
- `channel`, `staged`, `wire`: the bounded channel, the sink with what
  `send_all` buffers, what has been written.
- `inbound`: what became of each message of the peer.

Actions: `Terminate`, `Kill`, `NewClient` (ServerCtl); `CloneClient`,
`DropClient`, `UserCalls`, `UserNotifies`, `SendAccepted`, `SendFailed`, `DropOp`,
`GetAnswer`, `GetLost`, `TimesOut` (Client and its futures); `IgnoreMessage`,
`ServeMessage`, `ReceiveResponse`, `HandlerCalls`, `HandlerNotifies`, `Complete`,
`ReadEof`, `ReadTerminator` (the server half); `SendQueued`, `Flush`, `ReadError`,
`WriteError`, `KillFires`, `Close` (the task).

Choices worth knowing: a call with a timeout polls its timer first (427-457), so a
timeout may win over a response that is there; handlers are futures of
`transmitted`, so they and their calls advance only while it polls `outbound`
(`Polled`, `CanPoll`) and are dropped with it (`Finish`), and with a handler that ends go
clients it holds, none or more (`LosesClientsOf`). Taking a client (`NewClient`, which looks
at the control block) and using it (`Call` and `Notify`, which do not) are steps of
their own, so that the end of input, a termination or a kill may come between the two.
A handler works on until it completes: it may call again with the client it got back,
drop a future it waits for (`DropOp`), or wait for several. `KillSeen` waits for
`send_all` to have run out of things to take, as `select` polls it first;
`Init` lets `Server::initialized` terminate the endpoint before anything runs,
which the `Empty` server does.

### RpcCalls

Each call has one status. `Endpoint` maps `op`, `reply` and `idmap` to it
(`CallStatus`) and `phase` and `input` to `link`. The refinement says: only a
pending call on a live connection is replied to; only a replied call is answered;
a call is lost only after the connection went down; only calls with a timeout time
out; outcomes are final; going down hits all open calls in one step.

### Batch

A message is named by its place in the order in which `do_msg` comes to messages: a
batch, then what is in it. `kind` and `last`, chosen in `Init`, say what each one is and
where the batch that begins there ends, so that nesting needs no recursion: what is in
a batch is an interval (`Inside`), and what is right inside it what is in no smaller one
(`Parts`). `ReadMessage` is one call of `do_msg` with all the recursion into a batch: the
callbacks of all parts run in it, in order, and any one may terminate the endpoint
(`stopper`), so that later parts see the stop flag. `todo` holds the futures that
wait for a slot; they get it in the order of `do_batch` (`Before`: parts before the
collecting future). `slots` are those that run. `buffer` and `got` are the channel of a
batch and what its collector has taken.

### ConnectedEndpoint and Connection

`Endpoint` leaves the peer open: any message may come at any time, and so may the
end. `ConnectedEndpoint` EXTENDS it and ties these to a peer of the same make:
`incoming` and `outgoing` are what the socket holds in each direction (up to
`StreamCap`), `peer` is what the properties speak of in the other side. `Receive`
takes the next message of `incoming` and is the action of Endpoint it calls for,
`ReceiveEof` is `ReadEof` once a peer that has ended has been read to its end, `Write`
is `Flush` into the socket if that has room. `End` and `Fail` close the socket, and
what was not read is gone. `Local` is all that does not touch the socket. A message
keeps its name on its way: a call of one side is a request to the other and then
the answer.

`Connection` has the variables of both sides and instantiates `ConnectedEndpoint`
twice, each side the peer of the other. A step of it is a step of one side. The
socket itself is external: it keeps order, loses nothing while both ends are open, and
fails when it likes (`Fail`).

### LineStream and LineCodec

`Line` and `DirtyLine` share `encode_codec` and `decode_codec` (codec.rs, 36-67) and
differ only in the conversion of a line, which is left out, so one module stands
for both. `wbuf` and `rbuf` are the buffers `FramedWrite` and `FramedRead` hand to
the codec, `position` is the number in the codec itself, `readable` and `eof` are
flags of `FramedRead`. `Send` is `encode`; `DecodeLine`, `DecodeNothing` and
`DecodeEof` are the outcomes of a `decode` (`decode_eof` is left at its default:
bytes that remain are an error). The actions of Framed itself are
external: `Write` and `Read` move any number of bytes, `Break` loses what has not
been written, and the flags follow tokio-io (decode until nothing comes, then read).
`wire` may begin with anything (`Foreign`): the peer need not be well-behaved.

`LineStream` has one stream of bytes, lines taken off it, and an end. `LineCodec`
implements it: the stream is `wire \o wbuf`, and what has been read is what was
taken less what is in `rbuf`. The cache, chunks and buffers do not show.

### BoundaryCodec

What `Boundary` does with its buffer depends on what `StreamDeserializer` says: a
value, an end in the middle of one (`is_eof`), a syntax error or nothing, and in
each case a `byte_offset`. JSON is reduced to what decides these: brackets that
nest without commas, space, and a byte that is never right. Values that do
not end themselves (numbers) are left out: no message is one. `Decode` is one call
of `decode`, `DecodeNext` that call made by `FramedRead`. With each result `frames` keeps
where in the input the reader then stood (`end`), for the properties only.

### MessageFormat and Params

Both are pure. `MessageFormat` has the structures of `message.rs` as serde derives
them: `Fits` says when an object or an array is one (all deny unknown fields; an
array must have every field), `Option` and `SomeValue` differ in what they make of
`null`, and `ReadSingle` tries request, response and notification in the order of
the untagged enum. The writers skip what is `None`. Since `null` for an `Option`
is read as nothing, a message reads back as `SettleSingle` of it.

`Decode` of `Params` is the macro: the style of the definition picks the arm, and
a `Refused` is the early return with an error. `from_value` stands as `Convert` for types
that tell the arms apart: a bool, an optional one, a list of bools, a structure with a
bool, and three that take more than they are meant for: `Value`, `Vec<Value>` and a
structure of one optional field. A single parameter is first converted from all the
parameters (`Whole`), so an argument of such a type may be taken together with the array
or object it comes in, or be lost in it.

### Exchange

Endpoint and Batch know when messages move and not what they hold; Exchange is the
other half. `chain` has the servers of each side, `calls` what a call asked and
got, `wire` the texts under way in order, each with the message it was written
from. `Call`, `Notify` and `Receive` are the steps of two endpoints of this crate,
`Inject` that of a peer of another make. `Receive` parses a text, dispatches it
(`Answered` and `Reply`: `do_msg` and `do_batch`) and sends the answer at
once, with the results of a batch in the order of its parts. That order and the
time a handler takes are chosen in Batch and Endpoint, and nothing here depends on
them. A chain with an `Empty` server is `Stopped` from the start: it ignores all
but responses.

Batches in batches are written flat, as in Batch: a text is a function from places
(numbers in the order of the text, the whole at `Root`) to what each `holds` and the
set of places of the batches it is `inside` of. Reading, writing and answering then go
part by part, with no recursion: `Reply` keeps the places that have an answer and
the batches around them, since a batch with no answer inside gives none (290).
`IsText` says which such functions are texts. An array that is one of the structures is
held by one place; one that is none is a `List`, with places for its items, which
`ReadPart` reads as a batch. This is how the untagged enum decides, as no array
of another length than three or four, or without the version in front, is a structure
(`ListsAreBatches`).

Three assumptions are on the constants. `ExchangeAssumption`: there are two sides, and
parameters are JSON. `ChainsAssumption`: servers use the macro as its arms allow.
`ForeignAssumption`: what another peer makes up is text and does not happen on the
ids of our calls, which are fresh uuids (message.rs, 258); answers to them come from `Receive`.

## 3. Properties and runs

| run | checks | expected |
|---|---|---|
| `endpoint_safety` | all safety invariants of Endpoint and its refinement of RpcCalls | pass |
| `endpoint_liveness` | liveness of Endpoint | pass |
| `call_after_eof` | every call is resolved | violated |
| `one_slot` | handlers finish, with one slot | violated |
| `batch` | batches are answered completely, nothing gets stuck | pass |
| `batched_responses` | responses get through once terminated | violated |
| `connection` | both sides agree on calls, an orderly parting loses nothing, an end is noticed, calls hang only for known reasons | pass |
| `blocked_writers` | a terminated endpoint ends | violated |
| `line_codec` | the cache is sound, messages arrive, the reader ends, refinement of LineStream | pass |
| `boundary_codec` | values come out whole and in order, a cut-off text fails, the reader ends | pass |
| `boundary_errors` | every result takes its bytes off the input | violated |
| `exchange` | what is written is read, calls get their own, true answers, right arguments arrive, errors are not answered with errors | pass |

Bounds. `endpoint_safety` has two calls, one with a timeout, a notification of ours,
a request and a notification of the peer, capacities of 1 and one slot: the smallest
numbers at which channel, sink and slots are full, a handler competes with a client for the channel,
and a response, a timeout and an end can meet. Two clients alive at a time
(`MaxClients`) let one be kept while another is used, by the user, a handler or both. `endpoint_liveness` takes two
slots for one request, so that the known deadlock of `one_slot` (which it would
only repeat) is out of the way, and asks for everything else. The request's handler may
make both calls, one after the other or together, and keep a client over the end of input:
`EofCompletes` and `HandlersFinish` say that such a call, if it has no timeout, is the
only thing that holds up the one or the other. `batch` has all streams of up
to three messages and two of seven with batches in batches, nested in all ways, with two slots:
fewer than the futures of any batch of two. The channel
of 32 and the default `parallel` of 1 are parameters (`ChannelCap`, `Parallel`);
the proofs hold for every value. Deadlock is checked for Endpoint, whose user
always has a step left; Batch may really be done.

`line_codec` sends a message of one byte and one of two, up to 10 bytes with up to 3
foreign ones (`MaxStream`): three lines fit, one of them with a foreign start, and
a chunk may begin or end at every place of each. `HighWater` of 1 is below the
length of a line, so a second message is encoded before and after the first has been
written. `boundary_codec` takes all texts of up to six bytes: two nested values with
space, three flat ones, and all ways to be broken; `MaxFrames` stops the run after
four results, more than six bytes hold of values, since a syntax error would go on.

`exchange` has two calls of one client, so that answers could be mixed up, with twelve
choices of parameters: none, null, scalars, arrays of 1 and 2, nested ones,
structures, names right, missing and surplus. Eleven chains have every style, a method that only
one server or two servers know, an `Empty` server, and a single parameter of each type, those
that take too much included. One notification or foreign text
(`MaxOthers`) comes at any point: ten texts that are nearly messages, among them a result
with an error, an array that has the shape of both a request and a response, an
empty batch and batches in a batch. One is
enough for each kind to meet calls before, between and after their answers; two foreign
texts next to each other are met as parts of a foreign batch.

`connection` has one call of each side, one of them with a timeout; either may be made
by the user or by the handler of the other, so that a call answers a call that answers
a call. One slot a side is the default and lets slots starve; `SinkCap` of 2 lets an
answer and a call wait in one sink, and a channel and a socket of one message are
full at once with that. With a single call a side there are too few messages for
both sides to fill sink and socket at one time: `blocked_writers` has two
notifications a side and capacities of 1, and looks for just that. With one slot,
a handler of the peer that waits for a call (one of the reasons in
`CallsHangOnlyIf`) always starves the peer too; with more slots it need not.

Symmetry is not used: the state spaces are small without it.

Fairness. `FairSpec` of Endpoint is weakly fair to what the reactor polls (send
futures, response futures, timers, `transmitted`), to handlers (they finish unless
they wait for a call), to the socket taking what is written, and to the peer
answering what it read. A future that can advance stays ready until it is polled,
so weak fairness is what a reactor gives. There is none for user code, for errors,
for reading the peer's requests, nor for the end of input: the peer owes us neither.
Batch is fair to reading, starting, finishing and collecting; not to `Terminate`.
The codecs are fair to the reading side, which the endpoint polls until its stream
ends, and not to the writer: `ReaderEnds` of LineCodec starts from a writer that
has stopped. The peer of BoundaryCodec sends a finite text and closes.
Connection is fair to what the reactor polls on each side (`SideFairness`) and to the
socket (`SocketFairness`), as Endpoint is, but not to the peer answering: whether it does is
the question. `EndIsNoticed` and `CallsHangOnlyIf` speak of the left side only; the
sides are alike but for the timeout of the right call. `OrderlySpec` of MCConnection,
which `blocked_writers` uses, has the fair behaviours of Connection in which nobody kills,
fails or drops a future and only the left side is terminated, so that none of these
explains the violation; it adds no behaviour.
Exchange is fair to each endpoint reading what comes, and to nobody who starts anything.

What the violated runs show:

- `call_after_eof`: a call made with a kept client after the peer's end of input
  is inserted into the idmap after `cleaner` emptied it. It never ends, and the client keeps
  the endpoint alive. A handler may make such a call too, with a client it took in its callback
  or got back from an earlier call; then it never ends either and keeps the endpoint alive
  by itself. `Unanswerable` and `WaitsInVain` name this state, which the liveness properties
  have to except.
- `one_slot`: with the default `parallel(1)` a handler that calls the peer waits
  for a response that comes through the stream its own slot blocks (661), while
  the doc (573) says `parallel` influences the server half only.
- `batched_responses`: once the endpoint stops, `do_msg` lets responses through but
  drops a batch with the responses in it (325).
- `blocked_writers`: `send_all` (668) polls `outbound`, and so reads, only after
  the sink has taken the message it holds. Two sides whose sinks and sockets are full wait
  for each other, and a side that was terminated (107) does not end. A kill, a
  failure or a timeout of the user's own is the way out.
- `boundary_errors`: after a syntax error `byte_offset` has not moved, so `split_to`
  (codec.rs, 180) cuts nothing, and the same error comes for ever.

Seen while modelling, with no run: after a connection error `ServerCtl::client` goes
on returning clients (685), where its doc (129) promises `AlreadyTerminated`, which is
why `EndRefusesClients` is about the other two ends; and all callbacks of a batch
run at once (254), while the doc of `parallel` (570) speaks of how many futures there
may be.

## 4. Proofs

`EndpointProofs` proves, for all sets of calls and messages, all capacities and
all `Parallel` that satisfy `EndpointAssumption` (the sorts of messages are disjoint
where it matters, the capacities positive, the peer's messages finitely many):

| theorem | of | argument |
|---|---|---|
| `TypeCorrect` | `TypeOK`, with the bounds of channel and sink | inductive as it stands |
| `WaitersReleased` | `NoWaiterLeftBehind` | inductive with types: only handlers' calls and `Call` enter the idmap, only a running task turns `sending` into `waiting` |
| `NothingStale` | `NoStaleEntry`: what stays in the idmap is under way, was dropped, or failed after the end | needs `ReplyIsTaken` (a value in a oneshot means its entry is gone) and `OutIsSent` (what has left was accepted), or a response could come for a call not yet waiting |
| `ClientsForCallbacks` | `CallbackMayUnwrap` | `CtlConsistent` ties the flag to the options |
| `ClientsRefused` | `EndRefusesClients` | `CtlConsistent` ties an end to the sender |
| `TerminationFinal` | `TerminatedMeansUnwanted` | holds when the marker is read; from then on no step makes a client |
| `NothingLost` | `GracefulCloseDelivers` | `Conserved`: until a failure or kill, what was accepted is in channel, sink or wire |
| `AllOutOnce` | no message is sent twice (`OutOnce`) | what a client sends was not accepted yet (`OutIsSent`), and only what is done is answered (`OnlyDoneIsSent`), so neither can be on its way already |
| `ParallelBounded` | `ParallelBound` | cardinalities: only `ServeMessage` adds to `Serving`, and only with a slot |
| `Refinement` | `RefinesRpcCalls` | step by step (`CallStatusStep`), under `TypeOK` and `ReplyIsTaken` |
| `HandlersDoMoveOn` | `HandlersMoveOn`: a handler that is stuck is stuck because all slots are taken, or because it waits for a call without a timeout that it made after the end of input | full buffers can be emptied (`Unblocked`); a call that waits is lost, expires, has been written and may be answered, or was made after the end (`WaitingCall`, from `AllConserved`), and the input has not ended in want of clients (`TerminationFinal`) |
| `EndDoesMoveOn` | `EndMovesOn`: an end that is due is never stuck, if there are slots at all, unless all the handlers that are left wait for calls of that kind | a call that waits after the end of input is lost, expires or was made after it (`WaitingCall`); without handlers the task may close or stop reading |

The last two are what liveness needs besides fairness: `HandlersMoveOn` of `HandlersFinish`, with
`one_slot` as the case it leaves open, and `EndMovesOn` of `TerminationCompletes` and
`EofCompletes`. They speak of the guards of actions (`CanFlush` and so on), since the
provers have no ENABLED; TLC has found each equal to ENABLED of its actions, and both
true, on the instance of `endpoint_safety` with one slot and with two. `WaitsAreSound` is the invariant they needed:
neither says anything of what waits, or of the control block after the end of input. The
exceptions are real: without them TLC finds both violated with two slots (with one, a
handler keeps the end of the input from being read), as it does `EofCompletes` and
`HandlersFinish`.

`ConnectionProofs` proves, for all sets of calls and notifications, all capacities and
all `Parallel` that satisfy `ConnectionAssumption`:

| theorem | of | argument |
|---|---|---|
| `LeftIsEndpoint`, `RightIsEndpoint` | each side is an `Endpoint` | a step of the connection is a step of that side or leaves its variables alone (`StepIsNext`) |
| `SidesAgree` | `AnswersAgree` | `KnowsPeer`: what this side took was written by the peer, and what was written and has left the socket (`Arrived`) was taken; only what is done is written (`OnlyDoneIsSent`), and a call is lost only by the end of input (`LostOnlyByEof`) |
| `OrderlyPartingLosesNothing` | `NothingUnread` | at the end of input all that the peer wrote has arrived, and an orderly end has written all that was accepted (`GracefulCloseDelivers` of the peer) |
| `WrittenComesOnce` | what one side writes the other takes once, and nothing else (`ComesOnce`, with the bound of the socket) | the peer writes only what it has not written (`AllOutOnce`), and what is read leaves the socket |
| `RestIsExplained` | `Explained`: why two sides stand still | below |

The first makes every theorem of `EndpointProofs` one about a side of a connection. The
next two are proved about one side in `ConnectedEndpointProofs`, which does not know
that its peer is an endpoint. There, `KnowsPeer` is inductive: steps of this side keep
it, given what the theorems of `EndpointProofs` say of the side (`Known`, `OwnKeeps`),
and so do steps of a peer that does no more to this side than write (`PeerStep`,
`PeerKeeps`); `WhatIsKnown` draws the conclusion from laws of the peer. `ConnectionProofs`
shows that each side takes such steps and keeps these laws. The prover takes two
instances of one definition for two definitions, which is why `SameLeft` and
`SameRight` match them.

`RestIsExplained` is what `CallsHangOnlyIf`, `EndIsNoticed` and `TerminationCompletes` need
besides fairness. When no action of `SideFairness` and `SocketFairness` is left on either
side (`AtRest`; only users, failures and handlers that use their clients could go on), a side that
has ended has told all its callers (`Over`). One that runs was not killed, and has noticed the
end of its peer unless it is starved. Then it is `Idle` (nothing in the channel or the
sink, handlers that all wait for calls, and no end due but one that `HandlersHang` holds up:
all the handlers that are left called after the end of input), and each call that waits has a
reason: the peer ignored it or serves it with a handler that waits for a call of its
own (`RightOwes`), or it was made after the end of input. All that leaves one case, `Stalled`:
a side is `Starved` of slots (`one_slot`), or both are `WriteBlocked` (`blocked_writers`).
The argument goes round the socket. A sink that is not empty means that the peer runs and
the socket to it is full (`RestWrites`); a peer with something to read and no starved slots
is blocked itself (`RestReads`); so if the two are not stalled, both have written
everything (`LeftDrained`), have read it (`RestTakes`), and what a call became is decided by what each
knows of the other (`KnowsPeer`, `ComesOnce`, `Conserved`). TLC has found `AtRest` equal
to the negation of ENABLED, the theorem true and every one of its cases reachable, on
instances with one call a side, with or without a timeout, and one or two slots, and with
two notifications a side.

`LineCodecProofs` proves, for all bytes, messages, encodings without newlines,
foreign starts and sizes that satisfy `CodecAssumption`:

| theorem | of | argument |
|---|---|---|
| `LineTypes` | `TypeOK`, with `position` inside the buffer | inductive as it stands |
| `CacheSound` | `CacheIsSound` | `BufferInv`: the buffer is the part of the wire taken last, so a line is found where the cache says it can be |
| `LineRefinement` | `ImplementsLineStream` | step by step: a line of the buffer is the next line of the stream (`LineStep`), an end of input its end (`EndStep`), all else but sending and stopping is a stutter |
| `ReaderHasAStep`, `ReaderComesCloser` | once nothing more is sent, a reader that is open has a step, and every step leaves fewer to do (`ToDo`, a natural number) | a newline that is not scanned has a first one before it (`FirstNewline`); the end of the input is read once (`EofIsSeen`), each byte is read once, and a scan that finds nothing is followed by reading |
| `Arrival` | `MessagesArrive` | `ArrivalInv`: the messages accepted so far cut the stream into lines (`Cut`), and the reader stands at the end of one of them or has not yet reached the first's (`ReadUpTo`); the next newline is then the end of the next message (`NextEnd`), and what was read ends with it (`MessageInStream`). A reader that ends stands at the end of the last |

`BoundaryCodecProofs` proves, for all texts and chunks (`BoundaryAssumption` only says
that the texts are texts):

| theorem | of | argument |
|---|---|---|
| `BoundaryTypes` | `TypeOK`, with `split_to` inside the buffer | inductive, from `DecodeType`: what is cut off is the space skipped and a value found behind it |
| `DecodeIsStable` | `decode`: once it has a result, value or error, bytes that arrive later would not have made it another one | the first byte that is no space is in the buffer; the least value in the buffer is still the least in a longer one; and what may become a value begins with what may become one (`ViablePrefix`), so what is wrong stays wrong |
| `ResultsAreTheValues` | `FramesAreInput` | `ReadingInv`: the reader has what follows in the input, the depth of the brackets is 0 where it stands, and the results are the values before that. From there decode takes the next value and comes to depth 0 again, or skips space and leaves what may still become a value (`DecodeSound`) |
| `SoundResultsEat` | the results of a sound text take their bytes off the input, two each at least | from the step of `decode` (`DecodeAdvances`): a result found in a sound text is a value, which begins and ends with a bracket (`ValuesAreLong`) |
| `ReaderHasAStep`, `ReaderComesCloser` | the reader of a sound text has a step until it ends, and every step leaves fewer to do (`ToDo`) | each result takes bytes (`SoundResultsEat`), so they are fewer than `MaxFrames` if that is more than half the text, and `decode` without a result is followed by reading or the end |
| `TruncationDetected` | `TruncationFails` | by the same invariant. Where no value can be read from depth 0 on, one has been begun, and the depth is more than 0 (`Begun`): a bracket that opened after one that closed would do so at depth 0, and the value would have ended there |

`DecodeIsStable` holds because a message is an object or an array, which ends with a
bracket, and other texts are left out of the model: a bare number could go on in
the next chunk. The counts of brackets are handled without induction: where a part of a
text begins and ends says what it does to the depth (`CountAdds`, `DepthOf`).

`BatchProofs` proves, for all streams of messages, all ways to nest them and any number of
slots but none (`BatchAssumption`):

| theorem | of | argument |
|---|---|---|
| `BatchesAnswered` | `BatchAnswered` | `BatchInv`: messages are read whole (`ReadWhole`), are worked off once (`Working`), and the results of each batch are in its channel or taken out of it (`ResultsKept`), which `BatchAnswered` says only of batches that are finished; a message is right inside one batch at most (`PartsOf`) |
| `ChannelsSuffice` | `ResultsFit` | from the same: a part that has a slot has no result in the channel yet, so that holds fewer than there are parts |
| `NoBatchDeadlock` | `SlotsMoveOn`: if any future has a slot, one of those that have can go on | the collecting future gets its slot after its parts (`PartsFirst`), so the last message with a slot waits for nobody, and its answer has room (`HasBatch`, `ChannelsSuffice`) |

The last is the safety half of `EveryMessageFinishes`, for every number of slots.

`MessageFormatProofs`, and `ExchangeProofs` for `Params`, have theorems without state or
assumptions on constants:

| theorem | says | argument |
|---|---|---|
| `RequestReadsBack`, `NotificationReadsBack` | a request or notification is read as it was written, for every method, params and id | the fields of what is written decide which structures it fits, and `id` tells the two apart |
| `ResultReadsBack`, `ErrorResponseReadsBack` | so is a response, positive (with null too) or negative | exactly one of `result` and `error` is written; `ErrorReadsBack` for the error inside |
| `NameOrPosition` | the arguments by name decode as they do by position | both convert the same values (`SameValues`) |
| `RightArguments` | right arguments, by either, decode as they are, unless a single parameter's type accepts the array or object around it (`TakenWhole`), which is then what arrives; `Unmistakable` types never do | each style by itself (`ByPosition`, `ByName`, `OneByOne`); an argument of an unmistakable type is not right with an array or object around it (`Wrapped`) |
| `ListsAreBatches` | an array that is no structure falls through to a batch | a structure as an array has all its fields, three or four of them, with the version first |

`ExchangeProofs` proves of Exchange, for all calls, questions, notices, chains of servers
and foreign texts that satisfy its three assumptions, with no bound on what is on the wires:

| theorem | of | argument |
|---|---|---|
| `MessagesReadBack` | `ReadsBack` | what is written holds only parts that endpoints make (`OwnMessage`), each is read as it was (`PartReadsBack`, from the theorems of `MessageFormatProofs`), and the flat shape is left alone (`MessageReadsBack`) |
| `TrueAnswers` | `AnswersAreTrue` | `ExchangeInv`, below |
| `ArgumentsDoArrive` | `ArgumentsArrive` | the answer is the true one (`ExchangeInv`), the server that gives it is the first that knows the method (`FirstServer`), and it decodes the right arguments as said there (`RightArguments`) |
| `CallsNotForgotten` | `NoneForgotten`: a call to an endpoint that serves waits for something that is on its way | inductive with `ExchangeInv`: a question that is read gives way to a response, which is a text of its own, and a response to a result (`ReceiveForgetsNone`) |
| `AnswersEnd` | an answer is answered with nothing | what is sent in answer holds only responses and batches (`ReplyRight`), and reads as it was |

`AnswersAreTrue` is not inductive: it says nothing of the answers still under way, any of
which may be the next to resolve a call. `ExchangeInv` adds them. Every part of a
text on a wire that has the id of a call is either its question, at the side that
serves it, or the true answer to it (`PartTrue`); a call waits for what it asked or has its true
answer (`CallRight`); and what is on a wire is a text that reads back (`EntryRight`). A
question read gives the true answer (`ReplyTrue`); a true answer resolves its call and no
other, since ids are read as they were written (`Resolving`); nothing else has the id
of a call. What is true stays true, as a call asks once (`StillTrue`).
The last two are what `CallsAnswered` and `Silence` need besides fairness. TLC has checked
`ExchangeInv` and `NoneForgotten` on the instance of `exchange` as well.

Many of the inductive arguments of `EndpointProofs` cite `CallSteps` or `CtlSteps`, which sort the actions by
what they do to the calls or to the control block.

Every safety invariant of the runs, and both refinements, are theorems. Only
model-checked is liveness, in Endpoint, Batch, the codecs, Connection and Exchange: it
needs fairness, and the provers here have no ENABLED. The theorems above prove the
half of it that is safety: that whoever waits can go on, or waits for one who can. For the
codecs they prove the other half too, that a reader can not go on for ever, so that only the step
from there to `ReaderEnds` is left to TLC. In the endpoints no such measure exists,
since their users may go on for ever, and for Batch it is left to TLC as well.

## 5. Not modelled

- How ids are drawn (each call has a fresh uuid), logging, the wording of errors.
- An object with the same field twice, numbers that are not integers of 64 bits, and
  `from_value` for more types than the seven of `Convert`.
- `RpcError::server_error` and the conversions of messages to text, which only users call.
- `Timeout::new` failing (431): only when the reactor itself is gone.
- Integration tests, examples and `lib.rs` have no behaviour of their own.
- How often a result stands in a batch: `buffer` and `got` are sets, so that what came twice
  would not show. `do_batch` polls each future for one result.
- serde_json's limit on how deep arrays and objects nest (128): BoundaryCodec has none, so a
  message nested deeper, which the crate refuses as a syntax error, is not one of its texts.
- Who holds a client that is not in use (`idle` is one number), and a future of a handler's
  call that the handler gives away to be polled elsewhere.
- How a codec converts the bytes of a line or value into a message, invalid UTF-8
  included. Framed and serde_json as far as the codecs do not use them.

## 6. Plan

Written in this order: Endpoint with RpcCalls, Batch, the codecs, the message format with the
servers, Exchange, Connection; then the proofs, in the same order, and at last what they say
of liveness: who waits for whom in one endpoint (`HandlersMoveOn`, `EndMovesOn`), in a batch
(`SlotsMoveOn`), in two endpoints at the ends of a socket (`RestIsExplained`), and that the
readers of the codecs come to an end. `WriteBlocked` is wider than it was at first for the
sake of that proof: a side that was terminated and has something left to flush
does not read either, even if its sink has room.

What is left are the steps from these theorems to the liveness properties, which need a
prover with ENABLED.
