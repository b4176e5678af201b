# codex-chat-bridge: TLA+ verification

`codex-chat-bridge` is an HTTP service. A client speaks the *Responses* API to
it; it speaks *Chat Completions* to an upstream model gateway and translates
both ways, streaming or buffered, and it remembers finished turns so that a
client can continue one with `previous_response_id`. This directory models
the parts of it that keep state across messages, turns or requests, checks them
with TLC and proves what matters most about six of them with TLAPS.

Paths such as `stream_tools.rs:448` are below `src/src/`.

## 1. Inventory

| part | code | state | operations | hard because |
|---|---|---|---|---|
| stream consumer | `stream_chat_to_responses.rs` | the generator of one response body | one upstream message, `[DONE]`, end of bytes, save, drop by the client | a message touches five sub-states in a fixed order; events are yielded after they are computed; the save comes after the terminal event |
| composed turn state | `stream_responses_state.rs` | the five sub-states below | route a delta, `finalize`, `fail`, build the assistant message | `finalize` and `fail` are reached from every end of the stream |
| envelope | `stream_envelope.rs` | lifecycle flags, output-index allocator, completed items, model, usage, finish_reason | start, allocate, advance, terminal events | one allocator, three kinds of claimants |
| reasoning item | `stream_reasoning.rs` | lifecycle, text | delta, finalize | opened by two sources, closed by four |
| message item | `stream_message.rs` | lifecycle, open part, parts, annotations | text, refusal, annotations, finalize | strings, part arrays, refusals in any order |
| inline think detector | `stream_inline_think.rs`, `reasoning.rs` | phase, held-back text | route content, flush, force to text | tags split over chunks, abandoned, preceded by blanks |
| tool-call store | `stream_tools.rs`, `context.rs` | per upstream index: identity, arguments, what was sent of them | delta, finalize, persist | identity and arguments arrive in any order; four kinds of tools; nested namespaces are held back |
| session store | `session_store.rs` | map id → record, last access | `get`, `save` (cap, cleanup) | sliding TTL against an LRU cap |
| turns | `lib.rs` (`create_response`), `session_bridge.rs` | a request under way with the history it resolved | resolve, call, answer, save | snapshot at the start, save at the end; branches; disconnects; restarts |
| middleware | `middleware.rs`, `lib.rs` (`build_app`) | semaphore, its queue, two gauges, guards on bodies | arrive, wait, shed, admit, respond, release, record, cancel at any point | guards ride on bodies; futures are dropped anywhere |
| upstream client | `upstream.rs`, `compat.rs` | one request's body, applied rewrites, attempts | send, rewrite, back off, give up, relay | two nested retry loops over one mutable body |
| tool registry | `context.rs` | registered tools by name and namespace | register, merge, resolve, restore | joined names collide and are cut; continuations merge; calls come back turns later |
| request conversion | `convert/responses_to_chat.rs` and neighbours | messages, a pending assistant message, call ids to skip | one input item, sanitize, hoist | calls, outputs, reasoning and messages interleave |
| response conversion | `convert/chat_to_responses.rs` | none | one body to one response, or to a burst of events | second implementation of what the stream does |
| reasoning cache | `reasoning_cache.rs` | none (pure over a session) | extract, apply | |
| SSE framing, UTF-8 | `sse.rs`, the loop of `stream_chat_to_responses.rs` | partial character, partial frame | feed, drain, end, fault | the network cuts anywhere |
| SSE rendering | `stream_events.rs` | none | one event to its text | |
| config, types, errors, metrics, media, digests | the rest | counters | | |

How they interact. A request passes the middleware, whose guards live until the
*body* has ended. `create_response` resolves the session it continues (a clone
out of the store), converts the request, calls the upstream and either answers
with a whole body, saving the turn before, or returns a generator. The generator
feeds each upstream message to the composed turn state, yields the events and,
after the upstream's bytes have ended, saves the turn. The client going away
drops whatever future or generator is at work, at its last await.

What makes each part correct:

- stream: what the client reassembles from deltas is what the upstream said, in
  each of three channels (text, reasoning, tool arguments), nothing lost,
  repeated or moved to another item; every item is added, spoken of, and done, in
  this order; one terminal event; indices order items; what is saved is what was
  shown, and exactly when the turn ended well.
- sessions: at most the cap; nothing evicted early; a conversation is the exact
  line of its ancestors; nothing gone comes back; the model is inherited.
- middleware: permits are conserved through every cancellation; no permit idle
  while somebody waits; gauges never lie in the dangerous direction; every wait
  ends.
- request conversion: what was said is passed on once, in order; a call, its reasoning and its output stay
  together; a continuation neither doubles nor loses anything.
- upstream client: bounded sends, no rewrite nobody asked for, the last answer is
  the one reported.
- tool registry: what a turn of the conversation declared is callable; a call comes back under
  the name upstream used; what is registered keeps its definition.
- bytes: where the network cuts them makes no difference.
- the two ways to answer: a body is the same response as one object and as a stream, and is
  saved on the same terms.

## 2. Modules

| module | models | composed from |
|---|---|---|
| `StreamEnvelope` | `stream_envelope.rs`, status mapping | |
| `StreamReasoning` | `stream_reasoning.rs` | `StreamEnvelope` |
| `StreamMessage` | `stream_message.rs` | `StreamReasoning` |
| `StreamInlineThink` | `stream_inline_think.rs`, tag helpers of `reasoning.rs` | `StreamMessage` |
| `StreamTools` | `stream_tools.rs`, the questions it asks of `context.rs` | `StreamInlineThink` |
| `ResponsesStream` | the consumer and the composed state; `Init`, `Next`, `Spec` | all stream modules |
| `CreateResponse` | `chat_to_responses.rs`, the burst of a whole body, what the buffered path saves; `TurnSpec` | `ResponsesStream` |
| `ResponsesStreamProperties` | what a turn promises, streamed or not | |
| `StreamLemmas`, `ResponsesStream_proofs` | what each handler does to a turn; the promises that are proved | |
| `Iteration`, `Iteration_proofs` | a `for` loop over the positions of an array, and the rule by which to reason about one | |
| `UpstreamBytes` | UTF-8 decoding, SSE framing, the loop over the body, the error frame | |
| `UpstreamBytesProperties` | the reader it is compared with | |
| `SessionStore` | `session_store.rs` | |
| `TurnSessions` | resolve, answer, save, disconnect, restart | `SessionStore` |
| `TurnSessionsProperties`, `TurnSessions_proofs` | promises, proofs | |
| `CapacityLimit` | abstract: at most N served, everyone leaves once | |
| `AdmissionGate` | `middleware.rs` around one handler | implements `CapacityLimit` |
| `AdmissionGateProperties`, `AdmissionGate_proofs` | promises, proofs | |
| `UpstreamCall` | `upstream.rs`, `compat.rs` | |
| `UpstreamCallProperties`, `UpstreamCall_proofs` | promises, proofs | |
| `ChatMessages` | `message_normalization.rs`, `reasoning_cache.rs`: lists of messages | `Iteration` |
| `InputItems` | `responses_to_chat.rs` over input items and turns | `ChatMessages` |
| `InputItemsProperties`, `InputItems_proofs` | promises, proofs | |
| `ToolRegistry` | `context.rs`, the merge of a continuation, the names of calls out and back | |
| `ToolRegistryProperties`, `ToolRegistry_proofs` | promises, proofs | |
| `MCResponsesStream`, `MCTurnSessions`, `MCUpstreamCall`, `MCInputItems`, `MCToolRegistry`, `MCUpstreamBytes` | instances for TLC | |

Beside some definitions stands a variant that no action uses (`NobodyWoken`
beside `Release`, `FinalizeAgain` beside `Finalize`): the same operator with one
plausible mistake. Each property of each passing run has such a variant,
listed under `mutants` in `PROJECT.json`; put in its place, it makes TLC find the property
violated. They are there to show that the properties can fail.

### The stream

The state of a turn is one record `st` with the fields of `ResponsesStreamState`
(`env`, `reasoning`, `message`, `think`, `tools`) and `out`, the events emitted so
far. Each method of the code that returns events is an operator from such a record to
such a record; the order of calls in the code is the nesting of operators. Every
upstream message is one step, because the code computes all events of a message
before it yields the first: no one can see the state in between, and the generator
can be dropped only at a yield or an await.

Text is a sequence of tokens. `"o" "p"` and `"c" "d"` are the halves of `<think>`
and `</think>`, `"w"` is whitespace, others are plain: the smallest alphabet in which
a tag can be split by a chunk boundary, be abandoned, and follow blanks. Tool
arguments are fragments of three kinds (see the head of `StreamTools`): enough to
tell an object that parses, a nested action that is known, unknown or missing, and
what is a decodable prefix of a custom input. `Undeclared` has the names nobody declared that split into a registered
namespace and a rest at their last `__`, as `restore_namespace_and_name` does with them; other undeclared names stay whole.

What is saved is one text: `ChatMessageContent` joins the parts with `NewLine`, writes `RefusalLabel` before a refusal and
keeps no annotations, as `chat_message_content_from_response_content` does. A part whose text is empty has no line.

The code's `for` loops are instances of `Iteration` with the loop's body for `Step`: over the calls, parts and
choices of a chunk or body (`EachCall`, `EachPart`, `EachChoice`), the parts of a message that closes
(`EachSegment`) and the calls that are unfinished at the end, lowest index first (`EachUnfinished`). The output of a
terminal event is sorted by rank: an item stands behind as many as have a lower index, or the same and came
before (`Rank`), which is what a stable sort by index gives.

A chunk is any record of `ChunkSet`; `[DONE]` is not among them, since it is no JSON. A fragment of a call has an
index from 0 on, as the Chat protocol numbers them; the code reads any `i64` there (`stream_tools.rs:553`) and would treat a negative
one as another key before 0. A choice of a whole body carries no error: what is fed for it has no such key
(`stream_chat_to_responses.rs:386`).

`Disconnect` drops the generator; `Persist` is the code after the loop. What an upstream may send
is given in kinds (`Upstreams`): each stream keeps to one of them (`Speaks`), so that an instance
can follow text with every way to end, and parallel tools, without their product.

### The two ways to answer

`CreateResponse` adds to the stream what `create_response` does with an upstream body that comes whole:
`AnswerInFull` makes it one object (`ChatToResponses`), `AnswerInABurst` feeds the stream's own state with a
fake delta of each choice and emits what a stream would have. Both save from the body. Nothing is awaited
between the body and the answer, so each is one step. `BufferedAgrees` compares the two programs on the same
body: the item list, ids, status and usage of the object against those of the burst's terminal event.
The differences between them that the code has are listed in section 6; `Comparable` names the bodies without
them, and `Tidy` takes away two that a client can undo: whitespace around text, where only one of the two trims it, and
the name of an undeclared call under a registered namespace, which the stream splits and the object leaves whole.

### Bytes

A body in `UpstreamBytes` is a sequence of symbols: two kinds of bytes of a character of three, the line ends,
and pieces of ASCII nothing looks inside of. `ReceiveBytes` takes any next chunk, `Fault` puts the error frame of
`create_chat_completion_stream` in place of the rest, `EndOfBytes` is the residual frame. `ChunkingInvisible`
compares what the turn has been fed with a reader written from the event-stream standard, line by line over all
the text at once (`Read`). All lines of a body end alike, in LF or in CR LF: a stray CR before a CR LF is
outside. The log slice and the counter of replaced characters are left out.

### Sessions and turns

`SessionStore` has the map and the clock; `get` and `save` are single steps as each
runs under one mutex. An `Instant` is a natural number. `enforce_cap` evicts the entry
accessed least recently and, among equals, the smallest id; ids are random, so the
model lets it be any of them. A turn is named by the id of its response, and what it adds
to the conversation is the single entry of that name, so that a stored conversation
can be compared with the ancestors of its turn. `Restart` empties the store and kills
the turns under way.

### The admission gate

A request moves through named stages. Every await at which a dropped client makes axum
drop the request's future is a stage, and `Cancel` leaves each of them with the effects
of the destructors, in their order (`gauge` before the permit). Tokio's semaphore is
external: it is fair, a permit given back goes straight to the first waiter, and a waiter
that was granted a permit and is dropped before it is polled passes it on. `timeout`
polls the acquisition before it looks at the clock, so a granted request is never shed.

### The upstream call

One record `state` is the code's `ReasoningState`: the body, the canonical effort, the wire
mode and the labels applied. Of a body the model keeps the fields the policy reads or
writes, of an error's text the needles it is searched for. A `bridge` call is
`send_with_retry` around `send_with_compat`: one send is one step, and what the code does with
its answer (rewrite and send again, end the attempt and back off, hand on, fail) is part of
that step, because nothing is awaited in between that the call's outcome depends on. The labels
and the rewritten body live as long as the call; the hops begin anew with each transport attempt. A
`relay` call has neither: it repeats the same bytes and hands on whatever answer is left. The repository's README
(`src/README.md:70`) calls `BRIDGE_UPSTREAM_MAX_RETRIES` the maximum of "400-compat / transport retry attempts"; the code counts
transport attempts by it and nothing else, so the bound proved is that number and the six labels together.

The upstream is arbitrary: any answer, at any time, in any order. Beside it the model keeps
whether it has been *consistent* so far (`honest`, `taste`): it rejects a fixed set of fields, names what
it rejects, stops complaining when the field is gone, and may fail transiently at any time. Two
properties speak of such an upstream only; `Satisfiable` leaves out the bodies that could not
please it however they are rewritten.

The fourth step of `next_retry`, which strips `thinking`, is left out: `initial_state` has removed the
field and nothing puts it back. Reading the body of a successful answer is outside.

### The request's input items

`InputItems` follows the messages of one conversation: `Begin` takes the stored history (with cached
reasoning restored) and the instructions, each input item is one step of its kind, `Send` is the last
flush, `sanitize_messages` and `collapse_system_messages_to_head`, `Answer` is what `save_session` keeps.
The conversion runs without an await, so its steps are interleaved with nothing; they are steps so that
the order of items is open. Every piece of text or reasoning and every call is named by the place of the
item that brought it, turn and position, and keeps the name through every later turn: a property can ask
where each piece of the conversation has gone. The content of a message has text or not (text and refusal parts, joined) and
media or not (every other part), which `ChatMessageContent` drops, as the code does. Tool names and character cleaning are left
out; the choice between an item that converts and one that does not is an attribute of the item. The
variable `told` is a history variable. What `sanitize_messages` and the collapse keep of a list is picked by a loop (`Pick`), an instance of
`Iteration` like those of the stream.

Two properties of `InputItems` speak of messages in which no call id occurs twice. Where one does,
`apply_reasoning_cache` gives the reasoning of the later call to the earlier one if that had none, and
repeats it.

### The tool registry

A name in `ToolRegistry` is the sequence of its pieces between `"__"`, so joins of namespaces and names collide
exactly when the code's do, and `Flatten` cuts a long one and appends a digest, as the code does with bytes.
A turn registers its tools in `fresh` (`DeclareTool`, then the scan of the input), and either begins a line of turns
(`StartLine`) or merges `fresh` into the stored `context`, one round of the loop a step. `Call` shows an
upstream's call to the client by either path; its item is kept in the history variable `calls`, and the properties ask under
which name the item comes back in later turns. `declared` is a history variable too. A namespace has at most two
children: the proofs use no recursion, and a third child would do what the second does. The kind, namespace, name and
nested actions of a tool are kept; its JSON schema is the identity `def`.

## 3. Runs

| run | instance | shows |
|---|---|---|
| `StreamTurn` | two kinds of upstream: 21 chunks of text and endings, 12 of four kinds of tools in two to three parallel calls; up to 4 messages; and whole bodies of every combination of content, refusal, reasoning, annotations, calls and finish_reason in `MCBodies` | parts well formed, no text, reasoning or annotation lost, repeated or moved; item protocol, order, mirrored arguments, custom input, identity; one terminal event with everything closed at it; saved exactly when worth saving; the saved text, read back line by line, is the parts that were shown; later messages do not change the verdict; object and burst agree, up to whitespace and the names of undeclared calls. A think block is found however it is cut, with one exception that the property states: after a first chunk of blanks alone the whole content is text |
| `TurnSessions` | four turns, a store of two, TTL 1, clock to 2 | the cap, the working set, what is gone, the lines of ancestors and the model inherited |
| `AdmissionGate` | four model requests over two permits and a control-plane request | permits, gauges, refinement of `CapacityLimit`, bounded wait |
| `UpstreamCall` | five bodies, eleven sets of needles, six statuses, faults, three attempts, every taste | bounded sends, no rewrite unsent, a consistent upstream is served and loses nothing it would have taken |
| `InputItems` | 14 items, five answers, two turns, items taken while the conversation holds fewer than four | text, reasoning and calls that were said are in the request once, in order, or their loss is recorded, except what section 6 says of media in messages and of reasoning beside them; calls and outputs neither doubled nor unpaired; the history as it was |
| `ToolRegistry` | 12 tools chosen so that plain names, flat and nested namespaces and custom tools meet in one name; two turns of up to two tools and a call, names cut at three pieces | declared tools are callable, calls come back, the first definition stands |
| `UpstreamBytes` | bodies of up to four lines from six contents, LF or CR LF, every prefix of each; chunks of one or two bytes or all the rest; a fault anywhere | chunking is invisible; a fault is told to the turn unless data of an unfinished frame have come |
| `StreamIndexCollision`, `StreamDeltaReplay`, `AdmissionGateLeak`, `InputItemsToolResult`, `ToolRegistryNested` | small | the findings of section 6: each checks one statement of the repository that its code does not keep |

Deadlock is not checked: a turn, a request or a call comes to its end and the system may
stop there.

Why the bounds are enough. The sub-states of a turn have few phases, and two messages
bring any of them into any phase from which a third and a fourth can show what is wrong:
open, move on, come back, end. Four messages take a nested call through buffering,
identity, degradation and late arguments. In the instance a chunk has at most two calls and two parts; a
third would only repeat what the second does, and the theorems have any number. In the store, four turns on two places let a
turn be evicted while another continues it and while a third is saved, and TTL 1 with a
clock to 2 has entries that are fresh, at the limit and stale. At the gate, four requests over two
permits fill the permits and still queue two, so that a permit passes to a waiter while the
other leaves. Four items make a reasoning item, its call, what comes between, and the output; the history of a
second turn is a list like that of a third. Two turns are a stored registry and its merge; a third merges
into the same kind of registry. Four lines are a frame with a name and split data, its blank line, and
the beginning of the next.

Fairness. Only `AdmissionGate` assumes any: weak fairness of `Shed`, `Admit` and
`Release`. A timer fires, the runtime polls a task that was woken, and a destructor once
begun runs to its end. Handlers, bodies and clients may hang for ever, and the bounded wait
holds all the same. The other modules state safety only; that a call to the upstream ends follows from the bound on
its sends.

## 4. Proofs

`ResponsesStream_proofs`, for every set of upstreams and bodies that satisfy `ChunksAssumption` and
`BodiesAssumption`, every tool context that satisfies `ToolsAssumption` (a tool is registered under a name and has
one, as `register_chat_tool` and the filters before it see to, and no undeclared name is registered), every buffer limit and number of messages; chunks may
carry any number of calls and parts with any text:

- `TurnInvariant`: the inductive invariant `IInv` of `TurnSpec`, in three parts. `Core` is about the turn alone. The
  properties read the event log, while the code decides by life cycles and flags, so `Shown` says that
  the two agree: an item has an event exactly when its life cycle has begun and a done event exactly when it has
  ended, an opened call has an item id that is neither of the two fixed ids, and no event is about anything else. `InOrder`
  is `ItemProtocol` of the log, and that no open call has been closed in it. `Begun` and `Concluded` tie the
  response events to `started` and `completed`; a completed turn has no unfinished call. `Accounted` ties the turn to the messages: it is completed exactly when
  one of them was a terminator, `finish` is the last finish reason among them, and the status is worth saving exactly when
  the messages say so. `CallsFollowed` ties the log and the calls to the fragments that named them.
- `TypeCorrect`, `LifecycleKept`, `ItemsInOrder`, `SavedWhenWorthIt` are invariants that follow from it;
  `EverythingCloses` and `VerdictIsFinal` are action properties, from what a step does to a turn (`Continues`):
  it either leaves it open, or ends it (`Ended`), or lets a verdict stand (`Stands`). `ItemProtocol` has the premise
  that no two opened calls have one item id (`ItemsDistinct`): an upstream that gives one id to two calls
  makes one item of them, and the bridge does not check it.
- `PartsKept`: `PartProtocol`, what a client reassembles of the message and of the reasoning summary. It is not inductive: it
  says nothing of a part that is still open, nor that the message's closing event has the parts the state holds.
  `Told`, a conjunct of the invariant, does. `ReasoningTold` and `MessageTold` say of each
  phase of the two items what the log has told by then: before the item is added nothing; while it is open every delta of the
  open part and no `text_done`; only the last segment may be open, and nothing is told of segments that do not exist yet; after the item is
  done the log has its text or its parts, and no event follows. What deltas have told (`Heard`) is a loop over the
  log, so that it can be reasoned about by `LoopUnfolds`: an event either adds its text or changes nothing
  (`HeardUpTo...`).

- `ArgumentsKept`, `IdentityKept` and `CustomInputKept`: `ArgumentsMirrored`, `IdentityStable` and `CustomInputExact`, of every call that the upstream gives an id
  and a name once, both in one fragment, and whose id no other call has (`NamedOnce`; a second name may rename a call
  that is open). None is inductive: they say nothing of a call that is not open yet, whether its arguments came
  before its identity or it is a namespaced call held back, nor whether the name it is opened under may still change.
  `CallTold` says both. While calls are not finalized (`OpenTold`) a call not named yet is neither open nor held back, one that is not
  open has told none of its arguments, and an open one is `Titled` and `Mirrored`: it was added, and closed if it was,
  under what its present name resolves to, and its deltas carry its arguments. A custom tool's deltas carry an input
  that is decoded from unfinished JSON: `Dictated` has them told what was recorded (`input`), and the record a prefix of what can be
  decoded. It stays one because decoding only grows (`PartialInputGrows`), and when the JSON is whole the
  decoded prefix is the input (`InputWhole`), so the residue at the end completes it (`LastInput`).
  `finalize` may open a call and rewrite its arguments, so afterwards (`Settled`) an open call goes on as before (`Goes`), and of
  one that is done the titles are claimed, and of a custom one the whole input (`Exact`). `ToldOf`
  has this of all calls at once, given the messages: one more message names a call only if those before it did not
  (`GivenBefore`), so a call is followed from the state where nobody knows it to its end (`MessageHeard`).

`StreamLemmas` carries the argument. A handler `Steps` the turn when it only adds item events to the log, keeps ids and
closed items as they are, and keeps `Shown` and `InOrder` if they held; it `Moves` the turn when it also keeps `Told`. Both
compose, so each of the forty or so operators is
one lemma from the lemmas of those it calls, in the order of the modules; only opening, closing and speaking of an
item look at the log (`LifeMoves`, `CallOpens`, `CallCloses`, `SayingMoves`). Operators that write the message and the
reasoning item break `Told` for a moment, when the state has changed and the event is not yet out or the other way
around; for them the first half of the module has `Steps` only, and a second half (the `Told` and `...Tells` lemmas) gives `Told`
for the handler as a whole. What speaks of calls cannot touch either of the two items, as their ids are apart from every call's (`Paces`).
What is told of the calls comes on top, in the first half of `ResponsesStream_proofs`. A step of the other components (`Writes`) keeps what was told of every call, because
no event of it is about one (`Aside`); a fragment is proved stage by stage: it is taken in (`Ready`), the call is opened or not, and its
delta is sent (`Awaits`: the log has the arguments but for the newest fragment). `StaysTold` is that what was told
is told still, `TellsCalls` that the first fragments of a chunk are told as well; they compose as `Moves` does.
`FlushOpenItemsFlushes` shows why `flush_open_items`
closes everything: the think detector may open an item, so it comes first, and the tools, which open items of their own, last.

`Iteration_proofs` has two lemmas about loops, which say nothing of the program and serve the proofs about it: `LoopInvariant`, that what holds before a loop and is kept by each round holds after it. A theorem that
takes a predicate as its argument cannot be used here, so the predicate is a constant of the module, `Holds`, and
each loop instantiates the module with what is true of it. The induction is that no set of numbers goes down for ever
(`WFMin` of the library). `LoopUnfolds`: the last round of a loop, by itself.

`TurnSessions_proofs`, for every set of ids, TTL, cap and clock bound that satisfy
`StoreAssumption`:

- `StoreTypes`, `StoreKeepsItsCap`, `StoreKeepsTheWorkingSet`,
  `DeliveredTurnsAreSaved` from the inductive invariant `StoreInv`.
  The last of them has no run: within `PersistStream` the save and the end of the body are one step.
  `WorkingSetKept` is not inductive: it speaks of the history variable `lastUse`, and
  the store decides by the time stamps of its entries. `StampsAgree` says that the stamps of
  present entries are the last uses, `UsesPast` that no use lies in the future and
  `Unsaved` that a turn still idle, calling or answered has not been saved. With these, an entry that
  `enforce_cap` evicts has at least as many more recent ids beside it as the cap allows, which is
  a fact about cardinalities (`SaveKeepsWorkingSet`).
- `GoneTurnsStayGone`: the action property, from `StoreInv` at both ends of a step.
- `StoredLineageIsIntact` from `LineageInv`, which adds that the history a turn under way has
  resolved is also a line of ancestors, ending in its parent, and that a turn that has begun keeps its
  parent.
- `StoredModelIsInherited` from `ModelInv` beside `LineageInv`: the record's model is the last one named
  along its line, and a turn under way carries the model its resolved line gives it, whatever has
  happened to the parent's record since.

`AdmissionGate_proofs`, for every finite set of requests and every capacity that satisfy
`GateAssumption`:

- `PermitsAreConserved`, `GateIsWorkConserving`, `GaugeStaysWithinPermits` from
  `GateInv`. Conservation alone is not inductive: a permit is handed to the head of the queue, so
  whatever the queue holds must be at stage `queued`, and there once (`QueueSound`), only
  requests to limited paths may reach the stages that hold a permit (`Sides`), and the gauge counts exactly the requests that are
  past admission and not past their guard (`GaugeExact`).
- `InFlightIsCovered`: a step that moves a request in or out of the process changes the count and
  the gauge together, and a permit given back only moves a request between stages inside or takes one out.
- `GateKeepsPromise`: every step of the gate is a step of `CapacityLimit` or leaves its
  variables alone. The step that matters is a permit changing hands: one request leaves and
  another is served, in one step, and never more than `Capacity` are.

`UpstreamCall_proofs`, for every set of bodies, statuses and complaints and every number of retries that
satisfy `CallAssumption`:

- `SendsAreBounded`, `SendsInNumbers`, `NothingHelpsAfterGivingUp` from `CallInv`. `SendsBounded` is
  inductive only as an equation: while a call is sending, `sends` is attempts and labels spent together
  (`Accounts`), and the hops of an attempt are at most the labels spent. There are six labels and the cap
  is seven hops, so the cap is never reached and no rewrite is made without being sent; that is why
  `GivesUpOnlyWhenNothingHelps` holds although the code tests the cap after it has rewritten the
  body. In numbers: at most `MaxRetries + 7` sends.
- `NothingIsLostInVain`, `HonestUpstreamIsServedInTheEnd` from `HonestInv`: while the upstream is consistent,
  every label spent was asked for, has done its work on the body, and no other label can undo it
  (`Earned`). The one pair that could is the two ways to set `reasoning_effort`; `Satisfiable` keeps both
  from being spent (`EarnedEffort`). A rejection then names a field whose label is not spent, so
  there is a rewrite left.

`ToolRegistry_proofs`, for every set of offered tools with names and children as `NamesAssumption` has them, every policy, name
limit, digest and number of turns:

- `DeclaredToolsAreCallable`, `CallsReturn`, `DefinitionsStand` from `IInv`. None of the three is
  inductive, as `context` is overwritten by `fresh` or grown from it one tool at a time: `Registry` says of both that the list
  and the map name the same functions, each once, and that a namespaced name is joined by `Flatten`;
  `FreshAgrees` and `ContextAgrees` that each holds what its turns declared and nothing else (of a merge, the part
  done so far); `CallsLeadBack` that the item of a call joins to the name upstream used by itself, so that no later
  registration can change where it leads. Each way to register is one lemma: the registry grows by what was wanted
  and keeps the rest (`Grown`).

`InputItems_proofs`, for every set of items and answers that satisfy `ItemsAssumption` and conversations of any length:

- `HistoryKept` from `HistoryInv`. While a request is converted, `HistoryStands` says nothing yet, so the invariant says what
  the list under construction is: the restored history with more behind it, where only the last message of the history may
  differ, if it is the assistant's, by reasoning behind its own (`Continues`). Whatever is taken only goes behind, and
  reasoning put back goes to the last message, which is either of this turn or the history's last. The second half is that the
  history loses nothing at `Send`: what is stored was sanitized before it was sent, and what `Kept` let through
  once it lets through again (`AllKept`), whatever reasoning is restored to it; the answer is the assistant's, so it passes too. That is also why
  `sanitize_messages` must keep an assistant message that says nothing: dropped from a later request, the history would shift. That order is kept
  when messages are dropped or hoisted is `PickFacts` and `PickConcat`, about the loop `Pick`, by
  `LoopInvariant` and `LoopUnfolds`.
- `PairsKept` from `PairInv`. `CallsAndOutputsPair` speaks of what is sent, and says nothing of the history it came from, of
  the calls still pending or of the ids not yet seen. `PairInv` says the same of the history and of the list under construction, for
  every item told so far (`OutputsPair`, `CallsFirst`), pending calls included (`CallsHeld`), and adds the two facts that make it
  inductive: while a request is converted, whatever id is not of this turn is one that `should_skip` knows (`Recent`, `CallsRecent`),
  so nothing is taken under an id of the history; and places told lie in the past (`PlacesPast`), so a new item is mistaken
  for none before it. Sanitizing, hoisting the system text, restoring and putting back reasoning keep the order of
  what they keep and every message of the assistant (`Thins`), so an output never loses the call before it, in any later turn.

Only model-checked:

- What a client reassembles from the stream, part by part and call by call, is proved; what it is as a whole is not: `VisibleFaithful`, `ThinkSplitFaithful`,
  `AnnotationsConserved`. They speak of filters and
  concatenations of the whole log (`SelectSeq`, `FlattenSeq`), recursive functions of the library about which nothing is proved
  yet; the loop rule can serve for them. `SavedMatchesOutput` and `OutputIndexIsPosition` compare the output with such filters.
- `BufferedAgrees`: two programs on the same body, token by token.
- Of the conversion of input items `NothingGoesUnsaid` and `OrderKept`, which count and compare the pieces of a whole list.
- `ChunkingInvisible`: draining frames is a `RECURSIVE` operator.
- `WaitIsBounded`, which is liveness under fairness and out of the prover's reach.

## 5. Not modelled

- Of the request conversion the fields beside the messages: `UpstreamCall` begins from the bodies they can make.
  JSON schemas of tools and the character cleaning of text are data.
- Of the response its ids, timestamps, the echo of the request and the arithmetic of usage.
- The rendering of events as text, media, sanitizing and digests: pure functions on strings.
- Of the upstream client the model catalogue, and a relayed body that is no JSON.
- Configuration, types, errors, log lines, request ids, metrics other than the two gauges.

## 6. What the models found

Five statements of the repository are not kept by its code; each has a run.

- `StreamIndexCollision`: two items with one `output_index` when text comes between parallel
  calls (`stream_tools.rs:450`).
- `StreamDeltaReplay`: arguments in two fragments are sent twice (`stream_tools.rs:620`).
- `AdmissionGateLeak`: a request cancelled before its response leaves the in-flight gauge one
  too high (`middleware.rs:119`).
- `InputItemsToolResult`: on a continuation the result of a tool call that the assistant made in the
  stored turn is dropped as a duplicate, because the call itself put its id among those to skip; the next request
  has a call without its output (`convert/responses_to_chat.rs:297`).
- `ToolRegistryNested`: a call of a nested namespace is shown under its action and comes back under the join of
  namespace and action, which is no tool's name (`convert/responses_to_chat.rs:503`).

Seen on the way, without a run of their own:

- A first chunk of blanks keeps the think block after it from being seen (`reasoning.rs:191`). `ThinkSplitFaithful` states this
  exception and what the client then gets.
- A transport fault after data of an unfinished frame: the error frame is appended to them (`upstream.rs:135`), what results is
  malformed and skipped, where the comment at `upstream.rs:124-126` has the fault end the turn as an error. If a
  finish_reason has been seen, the turn completes and is saved. `FaultIsTold` states the exception.
- An image or any other part of a message's content that is neither text nor refusal is dropped and the loss is not recorded
  (`convert/message_normalization.rs:105-131`), where `transform_loss.rs:3-9` has every drop recorded. An image item of its own
  is recorded. `NothingGoesUnsaid` speaks of text, reasoning and calls.
- The terminal event is yielded before the turn is saved (`stream_chat_to_responses.rs:454`): a client that
  continues at once may be ahead of the save, one that hangs up at once prevents it.
- The reasoning of a system message is kept by `build_generic_message` and lost, without a record, when `sanitize_messages` or
  the collapse joins the system texts (`convert/message_normalization.rs:222-248`, `318-338`); so is that of a tool message that
  sanitizing drops. `NothingGoesUnsaid` leaves both out (`ReasonsInVain`).
- The object and the burst differ for some bodies (`chat_to_responses.rs` against `stream_*.rs`): a think tag that is
  unclosed, not at the start, or beside a reasoning field or calls is split by one only; a message's annotations go to every text part or to
  the first; a refusal beside calls stands before or after them; a missing model becomes the requested one or stays
  empty; an empty body without finish_reason is completed or failed. A call without an id is given one in the
  object which the saved message lacks, and the saved message keeps the think tags.
- Two tools with one joined name: the second is dropped without a word. A function called `tool_search` that is declared first
  keeps the search tool out.
- `merge` does not copy `registered_namespaces` (`context.rs:373`), so a name nobody declared is restored by the turn
  that declared its namespace and not by one that merged it.
- A name nobody declared is split into namespace and name in a stream and left whole in an object (`context.rs:357`);
  `BufferedAgrees` compares the two up to that.
- A streamed turn saves a nested call under its action, a buffered one under the name upstream used.
- A namespace call that overflows its buffer sends its arguments raw (`stream_tools.rs:589`). Should the name it
  degrades to be a custom tool's, its input would follow at the end as well; `CustomInputExact` leaves such calls out (`resolved`).
- A call that never gets an id or a name claims no output index and is closed under index 0 with an empty
  item id, although it was never added (`stream_tools.rs:747`). `ItemProtocol` therefore
  speaks of items with an id.
- `process_chat_chunk` does not ask whether the turn has completed: after the terminal event new items may
  still open. `VerdictStands` says what survives that: the status and what was already shown.
- A chunk with `"error": null` is taken for an error (`stream_chat_to_responses.rs:149`).
- A reasoning delta after the reasoning item is done is dropped.
- Every call of a chunk receives the reasoning of that chunk, where a comment
  (`stream_chat_to_responses.rs:166`) says the first.
- A refusal *part* does not close an open text part; the refusal *field* does.
- `config.rs` says a shed request gets 429; `middleware.rs` answers 503.
- The forced-tool-choice rule inserts `reasoning_effort: "none"` for any model (`compat.rs:287`), also for
  those of which `reasoning.rs:35` says that the bridge never sends reasoning parameters. An upstream that rejects
  the field then gets the very body it rejected first, once more.
- The rule that strips `thinking` (`compat.rs:311`) cannot fire: `initial_state` strips the field from every body.
- Instructions are appended to the system text of the history on every continuation: a client that repeats
  its instructions finds them in the request as often as there were turns (`responses_to_chat.rs:98`).
- A reasoning item at the start of a continuation goes to the history's last assistant message, behind the
  reasoning it has already; a client that sends the conversation's reasoning again doubles it.
- With upstream streaming switched off, a streamed request is sent with `stream: true` all the same
  (`responses_to_chat.rs:114`), and the answer is parsed as one JSON body (`lib.rs:443`).
- `resolve_nested_namespace_arguments` promises to keep the original argument string when the action is unknown
  (`context.rs:203`); the code then drops `action` and serializes the rest anew.
- An error chunk is cut for the log at byte 200 (`stream_chat_to_responses.rs:133`), which need not be
  the start of a character.

## 7. Plan

What is left, in this order:

1. `AnnotationsConserved` as a theorem on the footing of `PartProtocol`, one more conjunct of `Moves`.
2. The model catalogue and the relay's checks of a body, should they come to keep state.
