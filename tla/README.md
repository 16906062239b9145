# A formal model of mqtt-typed-client

`mqtt-typed-client` is a typed MQTT client for Rust on top of the `rumqttc`
backend. One broker connection is fanned out to any number of typed
subscribers; a routing actor owns the subscriptions, an event-loop task owns
the connection. The compile-time half (macros, typed topics) is sequential; the
runtime half is two tasks, several bounded channels and any number of
application tasks. Both halves are modelled here: the runtime as concurrent
systems, the compile-time half and the conversions as operators with the life of
one typed topic around them.

Paths below are relative to the repository root; `SM` is
`core/src/routing/subscription_manager.rs`.

## 1. Inventory

### Components, their state and their operations

| Component | Source | State it keeps | Operations | What makes it correct |
|---|---|---|---|---|
| Routing actor | `SM` | router, `parked` map, `slow_send_futures`, three receivers | `handle_subscribe`, `handle_send`, `handle_slow_send`, `drain_parked`, `handle_unsubscribe`, `handle_resubscribe_all`, cleanup | per-subscriber FIFO; exact loss counter; a slow consumer hurts only itself; cleanup ends |
| Subscriber | `core/src/routing/subscriber.rs` | receiver, `unsubscribe_tx`, `last_seen_drops` | `recv`, `unsubscribe`, `unsubscribe_immediate`, `Drop` | `None` is final and complete; a dropped subscriber is removed |
| Topic router | `mqtt-topic-engine/src/topic_router.rs`, `topic_matcher.rs` | id map, trie of tables, `next_id` | `add_subscription`, `unsubscribe`, `get_subscribers`, `get_topics_for_resubscribe`, `cleanup` | the trie finds exactly what MQTT matching says; map and trie agree; the answers about the broker are right |
| Event loop | `core/src/client/async_client.rs` `run` | `error_count`, `reconnect_attempt`, published `ConnectionState` | one arm per `poll()` outcome; backoff; resubscribe; terminal state | gives up when it should and only then; publishes what is true; never stops serving the others |
| Connection handle | `core/src/connection.rs` | controller, join handle | `shutdown`, `Drop` | `shutdown` returns; every end closes the streams |
| Connect bootstrap | `async_client.rs` `connect_with_config`, `establish_connection` | none after it returns | handshake against a timeout, then spawn | no task is left behind by a failed connect |
| Topic patterns | `topic_pattern_path.rs`, `topic_pattern_item.rs`, `topic_match.rs` | segments, bindings, match cache | parse, bind, match, format, compatibility | agrees with MQTT matching; binding keeps broker and trie in step; a cache never changes an answer |
| Connection options | `connection_options.rs`, `last_will.rs`, `config.rs` | option values | builders, URL parsing, conversion | invalid settings are rejected, not asserted on in the backend |
| Publisher, typed subscribers, builders | `client/publisher.rs`, `client/subscriber.rs`, `structured/subscriber.rs`, `client/subscription_builder.rs` | little | thin layers over the above | an undecodable message does not end the stream |
| Serializers, metadata, errors | `message_serializer.rs`, `message_meta.rs`, `error.rs` | none | pure conversions | - |
| Macros | `macros/src/` | none at run time | analysis of a struct against a pattern, code generation | the fields accepted are those the pattern binds |
| Backend and broker | external | request queue, connection, subscriptions | as the code uses them | - |

### How they interact

- Application to actor: `Command::Subscribe` through a bounded command channel
  with a oneshot answer; a `Subscriber` queues its id on a second bounded
  channel when it ends.
- Event loop to actor: `Command::Send` for each message, `ResubscribeAll` (and
  the event loop *waits for the answer*), `Command::Shutdown` at its end, all
  through the same command channel.
- Actor to event loop: `client.subscribe().await` / `unsubscribe().await` put a
  request on the backend's bounded channel, which only `event_loop.poll()`
  empties. `MqttConnection::shutdown` puts its DISCONNECT there too.
- Actor to consumers: one bounded channel per subscription, closed when the last
  sender (router entry, parked entry, slow send) is gone.
- Event loop to watchers: a `watch` channel with the `ConnectionState`.

### What is hard here

A consumer that reads between any two `try_send`s of a drain; a grace timer
that expires while room appears; an unsubscribe while a send is in flight;
dropping a future half way; cleanup with consumers that never read; a lost
session with old requests still queued, refused or superseded; a caller that is
gone before its subscription is answered; two error counters with different reset
rules; bounded channels in a circle (event loop, actor, request channel); a trie
that is pruned while overlapping patterns come and go; options that are public
fields, validated only when they are used; a pattern that is bound, narrowed,
cached and replaced after the macro has fixed which wildcard is which field.
`PROJECT.json` lists each
hazard with its line and the properties aimed at it. Five have no property, since
no text contradicts what the code does there; their notes name the definition that
describes it, or the property that exempts it.

## 2. The modules

| Module | Models | Used by |
|---|---|---|
| `LossyFifo` | what one subscription promises: a FIFO that may lose messages, counts losses, and ends | instanced by `Backpressure` |
| `Backpressure` | delivery: channel, slow send, parked queue, drops, cancellation, cleanup | `MCBackpressure`, `Backpressure_proofs`, `BackpressureFifo_proofs` |
| `TopicRouter` | id map and trie | `MCTopicRouter`, `TopicRouter_proofs`, extended by `BrokerSync` |
| `BrokerSync` | router, actor, request queue, broker and owners together | `MCBrokerSync`, `BrokerSync_proofs` |
| `ClientSystem` | event loop, actor, connection handle, their channels, backend and broker | `MCClientSystem`, `ClientSystem_proofs` |
| `ConnectionOptions` | options from a URL, their validation and conversion for the backend, reason codes | extended by `Connect` |
| `Connect` | configuration, handshake, the start of both tasks | `MCConnect`, `Connect_proofs` |
| `TopicPattern` | a pattern's template, bindings, match cache; what broker, trie, subscriber and publisher make of it | `TopicPattern_proofs`, extended by `MacroExpansion` |
| `MacroExpansion` | what the attribute accepts and the code it generates | extended by `TypedMessage` |
| `TypedMessage` | a struct in use: publishers, last wills, retained messages, subscribers | `MCTypedMessage`, `TypedMessage_proofs` |

The `MC` modules hold only values for constants, and each `_proofs` module only
theorems and their lemmas. `BrokerSync`, `ClientSystem` and `Backpressure` are
three views of the same actor: what it asks of the broker and why (`BrokerSync`,
no channel bounds but that of the requests), how it can block (`ClientSystem`, no
QoS levels), and what happens to messages (`Backpressure`, an actor that does
not wait for requests).

### Backpressure

The actor handles one event at a time, so a handler that touches each consumer's
channel at most once is one step: consumers cannot tell it from its parts.
`drain_parked` may send several times to the same channel while the consumer
reads, so it is one step per `try_send`; while it runs, `draining` holds the
subscription whose `ParkedState` it took out of the map and no other handler is
enabled (`Idle`). `handle_send` is `HandleSend(T)`, with the set of matching
subscriptions as its input, and makes every decision of the loop for every
member of `T`: behind a slow send, queue full, channel closed, channel full,
delivered.

`slowSend[s]` is the sequence of messages of the futures of `s` in
`slow_send_futures`. The code means it to hold at most one; the model does not
assume it. A future outlives its parked entry after an unsubscribe and after
step 2 of cleanup, and its completion is then ignored (`Resume`, `SlowSendTimeout`
and `SlowSendClosed` look at `parked`). `send_timeout` polls the send before its
timer, so a timeout needs a full channel. `EndCleanup` stands for both ways
step 3 ends: nothing is left, or 500 ms have passed, and then only sends that
are still waiting for room are left.

A consumer is a `phase`: `receiving` is a pending `recv()` (which looks at the
drop counter once, before it waits), `leaving` a pending `unsubscribe()`. Both
futures may be dropped (`RecvCancel`, `UnsubscribeCancelled`). `Drop` has one
`try_send`; on a full channel nothing is queued and the subscription stays routed.

Messages are positions in the broker's stream, so order and loss can be stated
about numbers. `published`, `routedTo` and `received` are history.

### LossyFifo

The abstract specification: messages of growing position are accepted into
`pending`, delivered from its head, or counted in `missed`; nothing overtakes.
What is left when messages expire or the subscription closes is `Thinned`: some of
the elements, in the order they had (positions grow along `pending`).
`Backpressure` maps `channel \o slowSend \o queue` to `pending`
(`Fifo(s)`), and `ImplementsLossyFifo` checks that every step of the system is a
step or a stutter of every subscription's `LossyFifo`.

### TopicRouter

The trie is a set of nodes, a node being the path of items to it, plus a table of
ids per pattern: `tables[path]` is the node's `exact_match_data`,
`tables[path \o <<"#">>]` its `multi_level_wildcard_data`. `Pruned` is what
`update_node`'s recursion removes on its way back: the maximal run of nodes at
the end of the path that became empty. `Reached` is the search with its
branching on a literal child and the `+` child. `Matches` is MQTT's definition
of matching, used only in `RoutesExactly`. A panic (`BUG: ...`) or an
`expect`/`TopicMatcherError` would need the two structures to disagree, which
`InStep` excludes.

### BrokerSync

The router's operations with everything the actor does around them.
`handle_subscribe` adds the subscription, then sends its SUBSCRIBE if the router
says so, then answers; it is under way (`inHand`, and `asks` until the request is
sent) while it waits for room, and no other handler is. The request may fail
(`RequestSubscribeFails`, the rollback), and the caller may be gone when the
answer comes (`ReplyGone`: the `Subscriber` comes back, is dropped, and the
subscription is removed by the actor as well). `Release` is the tail of every
removal: a request when the router reports an empty topic, which may fail too.
`CleanUp` and `HandleResubscribeAll` loop over all patterns, each request with its
own failure. The order of a loop over a `HashMap` does not matter, since each
pattern occurs once.

External: `requests` is the backend's queue, which survives a reconnect; the
broker grants or rejects the head (`Answer`), and forgets everything when it loses
the session (`LoseSession`). `Ok` from a client call means queued, so a rejecting
SUBACK is seen by nobody.

`owned` and `leaving` are the `Subscriber`s and the unsubscribe channel, whose
`try_send` may find it full (`deserted`). `refused`, `leftover` and `deserted` are
history: what the application cannot expect to be in order. `leftover` is set
exactly where a removal changes what the router would ask for and no request
follows, which is how the finding about `topic_now_empty` enters this model.

`Settled(p)` is what the broker will hold for `p` once everything queued has been
granted, `Needed(p)` what the router would ask for now.

### ClientSystem

The event loop is `loop`: each arm of `match event_loop.poll().await` is an
action, and an `.await` inside an arm is a state in which the loop does not poll
(`dispatching`, `resubscribing`, `awaiting`, `sleeping`, `closing`). An
unsuccessful CONNACK changes nothing and is a stutter. The actor has a handler
state with the patterns it still has to request (`todo`), one step per request,
in any order (they come from a `HashMap`). `handle` is the owner of
`MqttConnection` in its three shutdown steps; `dropped` is a handle that was
dropped, which drops `shutdown_tx` and stops the actor.

External: the request channel holds `RequestCapacity` requests, keeps them while
the connection is down, and calls fail once the event loop is dropped at the end
of `run`. `Ok` from a call means queued, not granted (`docs/PLAN_0.4.md` says so
too). The broker grants what is requested, keeps its subscriptions when the
session is resumed and starts from none when it is not.

### ConnectionOptions and Connect

`ConnectionOptions` is pure: `New` and `FromUrl` (defaults, ports, the table of
query parameters, which error is reported when several things are wrong), `Valid`
(everything `to_backend` refuses, for the backend and the features compiled in),
`ToBackend`, and `ReasonCode`, in which the two vocabularies of the backend's
return codes meet. The `url` crate's parsing is external: a URL is the record of
its parts. Durations keep whether they have a fraction of a second, since that
alone is refused.

`Connect` is the way from there to a client: the options' fields are public, so
`Assign` may write any of them after construction; `SetSettings` and
`WithLastWill`; then `ConnectWithConfig` validates, the handshake races the
timeout, a CONNACK accepts or refuses (as a packet or as the backend's error,
depending on the protocol version), and `Spawn` makes the channels and the two
tasks. Panics are modelled where the code has them: tokio's channels without
room, the default TLS configuration without readable certificates, and the
backend's assertion about an empty client id, which the validation is there to
keep out of reach. `ClientSystem` starts where this module's `connected` is
reached.

### TopicPattern

One pattern through its life: from the struct it is declared on (`declared`, which
the macro has parsed at compile time), through `for_<name>` (`BindParameter`,
`ForMethodPanics`), `with_cache`, `with_pattern`, clones and matches. A pattern
is a sequence of items. `Parses` is what `new_from_string` accepts; the characters
of a segment are abstracted to a valid item or `Invalid`. A bound or formatted
value is a string of the model and `Split` says where its slashes are: the trie
looks a value up as a whole, the broker splits it. MQTT keeps topics with a `$` in
front (the set `Dollar` of first segments) from filters that begin with a wildcard;
the trie has no such rule, which does no harm as long as the broker has it, and
`BrokerAgrees` says so: the trie finds all the broker sends, and the broker sends
what the trie finds elsewhere.

`TrieFinds` is what `TopicRouter` shows its trie to find (`RoutesExactly`), here
for literal items that may hold any string. `try_match`'s results are records of
what each wildcard took, by position and by name; an error is the absence of a
result (its kind is only logged). `cache` is the LRU list, most recent first:
`Vacated` is the place that becomes free when an entry goes to the front, its own
or, in a full cache, the last, and `Remember` moves those before it.
`asked` is history: the values the application asked for.

### MacroExpansion

What `#[mqtt_topic]` is given is a record: pattern, arguments, shape and fields.
`ArgsAccepted` and `StructAccepted` are the rules of `macros/src/lib.rs` and
`analysis.rs`; `TopicParams` is the list of wildcards with the types of their
fields, on which all generated code rests. `FromMqttMessage` is the conversion
generated by `codegen.rs`: a field is read by the *position* its wildcard has in
the declared pattern. `Compiles` says which accepted structs the compiler then
refuses, because two parameters of a generated method have the same name.

### TypedMessage

A struct with code generated for it, from the builder to the event that
`receive()` returns. The pattern is prepared first (`Build` takes the steps of
`TopicPattern`); a builder is a value in the hands of the application and
preparing it commutes with publishing, so nothing is lost. `Built` ends that phase
for patterns that have only plain values bound and no cache: `BrokerAgrees` and
`CacheTransparent`, checked over the phase before, say why the others need not be
followed further. The delivery is that of one consumer that keeps up;
`Backpressure` has all the others.

`Publish` formats the topic of the default or of a compatible custom pattern,
validates it, encodes the payload and sends it with the retain flag of the method
called; `LastWill` is the will of another client with the same struct, encoded
when its configuration was made. External: the broker, with its retained messages
(`Replay` may come after the message was replaced or cleared). `Receive` skips
empty payloads, decodes, matches and converts, and reports a failure as an event
without ending the stream. A codec is a pair of rules: which values it refuses to
encode and which it encodes to no bytes at all.

`from` and `wished` are history. `wished` records, for each topic, what was last
asked to be kept, and is written by what the methods are *documented* to do:
`publish` by the publisher's own flag, `publish_retain` always, `publish_normal`
never (`AskedToKeep`), `clear_retained` always. The flag that goes to the broker is
what the code makes of the call (`Retains`), so that a wrong override sets the two
apart and breaks `RetainedIsLatest`, which also says that nothing is kept that
nobody asked for.

`RoundTrip` is stated for subscribers of the template the message was published by.
Templates of one struct need only have the same wildcards in the same order, so two
of them can match one topic: `{x}/s/{y}` and `s/{x}/{y}` both match `s/s/7`, and a
subscriber of the one reads what a publisher of the other sent with `x` and `y`
taken from other segments. That is what the code does and no text says otherwise;
what still holds there is `FieldsExtracted`. Between subscribers and publishers of
one template the values may be equal to its literals (`"s"` in the run).

## 3. The runs

| Run | Expect | Bounds | Shows |
|---|---|---|---|
| `delivery` | pass | 2 subscriptions (capacity 1; 1 and 0 parked places), unsubscribe channel 1, 2 messages; 88 k states | accounting and routing with two subscriptions; the actor cannot be blocked by consumers that never read; cleanup ends; leaked subscriptions are removed |
| `delivery_deep` | pass | 1 subscription, 2 + 1 + 2 places, 6 messages, a consumer that keeps reading; 60 k states | order, drops only under pressure, the abstract FIFO is implemented; every message is received or counted; streams end after the actor's end and after `unsubscribe_immediate` |
| `router` | pass | 6 overlapping patterns, 6 topics, 3 QoS levels, 4 subscriptions; 138 k states | trie against MQTT matching, map against trie, pruning |
| `doc_empty_flag` | violation | same, 2 subscriptions | `topic_now_empty` is about the whole router |
| `sync` | pass | 2 patterns, 2 QoS levels, 3 subscriptions, 2 queued requests, 1 place in the unsubscribe channel | what is routed stays asked for at its level; nothing but the named leftovers differs; nobody is left without somebody who removes it |
| `client` | pass | 2 patterns, channels of 2, 3 errors, 4 subscribe calls; 241 k states | covered when Connected, counters, order of the terminal states |
| `client_live` | pass | 1 pattern, request channel 3, command channel 1, 2 errors; 9.6 k states | with room in the request channel, resubscription, `shutdown()` and the end of streams complete; hopeless connections are given up |
| `doc_resubscribe` | violation | 2 patterns, channels of 1 | event loop and actor wait for each other |
| `connect` | pass | 4 sets of features, 36 URLs, up to 2 edited fields, wills, capacities of zero, 4 refusals; 240 k states | no task left behind, every panic explained, the address used, refusals told |
| `typed` | pass | 10 structs (6 of them refused), 8 templates (5 refused), 12 topics, 4 values (one is also a literal of the patterns, one has a slash, one is a wildcard), 3 payloads, 4 messages of others, cache up to 2, 2 messages; 177 k states | cache, binding and matching agree; what is published by a template comes back by it field for field; what is retained is what was last asked for |
| `doc_narrowing` | violation | same, plain values | `with_pattern` drops the bindings made before it |
| `doc_last_will` | violation | same as `typed` | a last will has the encoding of the client, not of the struct |

### Why the bounds are enough

- Delivery: the interesting limits are one message away from each other. With
  capacity 1 the second message parks a subscription, or overflows the one with no
  parked place; the third would fill the parked queue, which `delivery_deep` does
  with more room. A drain that sends several messages and then parks again needs
  two places in the channel and two in the queue, which is `delivery_deep`: its
  sixth message is the first that overflows. An unsubscribe channel of 1 fills
  with two consumers. With three messages `delivery` has 1.26 million states; its
  safety properties hold there too, and by the theorems of section 5 for every
  bound.
- Router: the patterns share prefixes, put a table on an inner node, two tables
  on one node (`a` and `a/#`), a `#` at the root and a `+` beside a literal; the
  longest sequence of additions is four, with removals in any order and a
  cleanup that starts the ids over.
- Sync: two patterns are needed for a removal that does not empty the router; two
  levels for a level that rises and falls; three subscriptions for two on one
  pattern beside another; two queued requests for one that a later one supersedes,
  and for a resubscription of both patterns at once; one place in the
  unsubscribe channel fills with two owners.
- Client: every channel can fill; `MaxErrors` 3 (10 in the code) leaves errors
  below, at and after a reset; four calls are enough to fill command and request
  channels and to subscribe and leave a pattern again.
- Connect: every scheme with and without a port, and every row of the table of
  parameters at least once, some in both orders; each field that validation looks
  at takes a value below, at and above its limit, a fraction included
  (`ExpiryLimit` stands for 2^32 - 1). Two edits are enough for a session without
  a client id, and for a transport that no longer fits the URL.
- Typed: the four structs that are used have both kinds of fields, a serializer
  of their own, an anonymous wildcard before a field, a `#`, and a wildcard with
  the name of a reserved field; the others break one rule each. Each declared
  pattern has one template that fits it and differs in its literals; the refused
  ones cover each rule of the parser and of the compatibility check. A cache of 2
  evicts, since up to four topics match. One topic has a `$` in front. Two
  messages are enough for one to replace, clear or overtake the retained other.

`MaxPublished`, `MaxIds`, `MaxRequests`, `MaxCalls`, `MaxEdits` and `MaxMessages`
only bound the runs (with `MaxRequests` the actor waits, as for room).
`MaxErrors`, and all capacities, are parameters of the code.

`CHECK_DEADLOCK FALSE` is set in the runs of `ClientSystem`, `Connect` and
`TypedMessage`. The client system really can stop with tasks waiting for each
other (`doc_resubscribe` is that state), so the safety properties are checked in
and around those states instead; `connect` returns or panics, once; a method of a
typed subscription may panic, and a subscription that has ended stays so.
In the other modules a stop is an error; a finished delivery stutters in
`Finished`.

### Symmetry

The two patterns of `client` are only compared with each other, and no temporal
property needs them apart in that run; it uses `Permutations(Patterns)`. No
liveness run uses symmetry.

## 4. Fairness

- Delivery, actor (`ActorFairness`): tokio's `select!` starts at a random branch,
  so a branch that stays ready is taken; every slow send has a timer, so its
  future completes while the actor runs; a drain and cleanup are straight-line
  code. In cleanup the 500 ms limit may be shorter than the timer of a slow send,
  so there only sends that can complete are fair. Nothing is assumed of
  consumers: `ParkedResolves` and `CleanupEnds` hold although they never read.
- Delivery, consumer (`ReaderFairness`): only for the two properties about a
  consumer that keeps calling `recv()`.
- Client (`Fairness`): `poll()` finishes each attempt to reconnect, one way or
  the other, and writes requests while connected (strongly fair: the connection
  may drop in between); the sleeping loop wakes; `select!` is random and tokio's
  bounded channel serves waiting senders in their order, hence strong fairness
  of the sends and of the actor's commands. No fairness of the broker, of the
  application or of `shutdown()` being called.

The temporal finding (`doc_resubscribe`) is a counterexample under this fairness.
`BrokerSync`, `Connect` and `TypedMessage` have safety properties only.

## 5. What is proved

Each theorem holds for every value of the constants that satisfies the named
assumptions of its module.

| Module | Theorem | Statement |
|---|---|---|
| `Backpressure_proofs` | `TypeCorrect` | `Spec => []TypeOK`, the buffer bounds included |
| | `OneSlowSendHolds` | `Spec => []OneSlowSend` |
| | `InOrderHolds` | `Spec => []InOrder` |
| | `ExactAccountingHolds` | `Spec => []ExactAccounting` |
| | `LiveStaysRoutedHolds` | `Spec => []LiveStaysRouted` |
| | `DropsOnlyUnderPressureHolds` | `Spec => DropsOnlyUnderPressure`, an action property |
| `BackpressureFifo_proofs` | `ImplementsLossyFifoHolds` | `Spec => ImplementsLossyFifo`: each subscription refines `LossyFifo` |
| `TopicRouter_proofs` | `TypeCorrect`, `InStepHolds`, `NoGarbageHolds` | `Spec => []TypeOK`, `[]InStep`, `[]NoGarbage` |
| | `RoutesExactlyHolds` | `Spec => []RoutesExactly` |
| `BrokerSync_proofs` | `SyncTypeCorrect` | `SyncSpec => []SyncTypeOK` |
| | `NoOrphanHolds` | `SyncSpec => []NoOrphan` |
| | `CoveredHolds` | `SyncSpec => []Covered` |
| | `ExactUnlessLeftoverHolds` | `SyncSpec => []ExactUnlessLeftover` |
| | `RoutesExactlyInSync` | `SyncSpec => []RoutesExactly` |
| | `RouterInSync` | `SyncSpec => Spec`: the composition refines `TopicRouter` |
| `ClientSystem_proofs` | `TypeCorrect` | `Spec => []TypeOK`, the bounds of both channels included |
| | `CountersAgreeHolds` | `Spec => []CountersAgree` |
| | `TerminalBeforeStreamsHolds` | `Spec => []TerminalBeforeStreams` |
| | `ConnectedMeansCoveredHolds` | `Spec => []ConnectedMeansCovered` |
| `Connect_proofs` | `NothingLeftBehindHolds` | `Spec => []NothingLeftBehind` |
| | `PanicsExplainedHolds` | `Spec => []PanicsExplained` |
| | `AddressedAsConfiguredHolds` | `Spec => []AddressedAsConfigured` |
| | `RefusalsAreToldHolds` | `Spec => []RefusalsAreTold` |
| `TopicPattern_proofs` | `TypeOKHolds` | `Spec => []TypeOK`, the bound of the cache included |
| | `CacheTransparentHolds` | `Spec => []CacheTransparent` |
| | `RoutedMatchesHolds`, `BrokerAgreesHolds` | `Spec => []RoutedMatches`, `[]BrokerAgrees` |
| | `FieldsExtractedHolds` | `Spec => []FieldsExtracted` |
| `TypedMessage_proofs` | `PatternInUse` | `TypedSpec => []` of the five above |
| | `RetainedIsLatestHolds` | `TypedSpec => []RetainedIsLatest` |
| | `RoundTripHolds` | `TypedSpec => []RoundTrip` |
| | `TypedTypeOKHolds` | `TypedSpec => []TypedTypeOK`, two messages received for one sent at most |

With these, every invariant and action property that a run checks is proved. The
assumptions on the constants say what the code's types and parsers give:

- capacities and limits are natural numbers, positive where the code clamps or
  requires it;
- `TopicRouter`: patterns and topics are not empty, a `#` comes last, a topic has no
  wildcards (the parsers refuse the others);
- `TopicPattern`: patterns are sequences of parsed items, a literal of one is a
  single segment and no wildcard character (a template is split at its slashes
  first), and the macro has parsed the declared ones; topics are non-empty
  sequences of segments;
- `MacroExpansion`: a number, written out, parses as itself (`NumeralsAssumption`);
- `Connect`: a URL has one port or none, and its parameters are a sequence, each
  setting fields that `parse` knows (`UrlsAssumption`); `websocket_url` is not a
  public field (`EditsAssumption`).

### The arguments

*Delivery.* `TypeOK` is inductive. `OneSlowSend` is not: a state in which a
subscription is in the middle of a drain *and* parked satisfies it and re-parks
into two slow sends. `Shape` adds that `draining` excludes `parked`, that both
imply `routed`, that the actor drains only while running, that no parked entry is
left after cleanup's step 2, and that a subscription not yet made has nothing
anywhere. `InOrder` needs `Shape` (a message may go straight into the channel only
because nothing is parked; a drain sends only because no slow send is left) and
that no stage holds a message from the future (`Order`). `ExactAccounting` follows
from `Account` and `Shape`: where a message leaves a stage without being counted,
the subscription is no longer routed, its consumer is gone, or cleanup has begun
to drop queues. `LiveStaysRouted` needs `Stays`: whatever is in the unsubscribe
channel was put there by a consumer that cancelled. `DropsOnlyUnderPressure` is
about one step and needs `TypeOK` only.

*Router.* `Inv` is `TypeOK`, `InStep` and `NoGarbage` with the root in place; it is
inductive only as a whole: `Pruned` removes exactly what has no table below it
because there was no garbage before, and the map stays in step because nothing
with a table is removed (`OthersSurvive`). `RoutesWhenInStep` is the algorithm:
the sets of nodes that the search reaches after `n` steps are described by a
recursive function, one step at a time (`OneMore`), and the two directions
(`FoundMatches`, `MatchIsFound`) give MQTT's definition of matching, for patterns
and topics of any length.

*Router and broker.* Every step of `SyncSpec` is a router step or a stutter
(`RouterStep`), so the router's invariant, and exact routing with it, holds in the
composition. `SyncInv` adds: a SUBSCRIBE that is still to be sent raises the level
of its pattern above that of all other subscriptions (`Raises`), which is what
makes a rollback harmless; and for each pattern that is neither refused nor left
over, what the broker will settle on is the level of the subscriptions other than
the pending one, or nothing while a session is lost and not asked for again
(`Exact`). The lemmas on the queue say what settles after one more request, after
the oldest is answered, and after one request for each pattern. `OnlyOne` is the
arithmetic behind `topic_now_empty`: a removal that empties the router was of the
only subscription. `NoOrphan` needs that only the handler's own id is without an
owner.

*Client.* `CountersAgree` and `TerminalBeforeStreams` come from invariants over
loop, actor and handle: the published state is a terminal one exactly when the
loop is closing or ended, and a `Shutdown` or DISCONNECT is queued only from there
or by the owner. `ConnectedMeansCovered` needs `CoverInv`: at most one
`ResubscribeAll` is under way, and only while the loop waits for it; what a
handler has still to request is in `todo`; Connected is not published while the
link is down or a session is being restored; and meanwhile each routed pattern is
covered or still to be requested. That a queue covers a pattern is preserved by
appending requests about others and by writing the head (`CovSubscribe`,
`CovOther`, `CovTail`).

*The abstract FIFO.* For each subscription, each handler is one of seven kinds of
step (`FifoStep`): it leaves the subscription alone, opens it, accepts a message
at the end, refuses one, counts one that was pending, delivers the first, or
closes. `FifoStepMaps` turns these into steps of `LossyFifo` and stutters. The
rest is about `channel \o slowSend \o queue` read as one sequence: moving a
message from the head of one stage to the tail of the one before it changes
nothing (`MoveConcat`), taking the head of the first stage takes the head of the
whole (`TakeConcat`), giving up the slow send takes exactly its message out
(`ExpireStages`), and what is appended is later than all before it. It needs the
invariants `Shape` and `Order` of the delivery proofs, since a message that went
into the channel while one was parked would overtake.

*Connect.* `ValidSuffices`: what the validation lets through, the backend does not
assert against. `NothingLeftBehind` and `PanicsExplained` follow the ownership of
the event loop. `AddressInv` carries from the URL, through parsing and edits, that
every field of the address that was not edited is that of the URL (the port of a URL that
names none being the scheme's default), and that the backend has been given exactly
these options; `FromUrlMakes` is the part about parsing: no query parameter sets a
field of the address. What the theorem leaves is what the code leaves: an edited
field, and the default port, which only the options have (section 6). `ToldInv`
says that there is no answer before the handshake, and `ReasonsDiffer` that two
different codes have one reason only where the backend itself has two names for it.

*Patterns.* The positions of the wildcards, and the flattening of a filter or a
topic, are recursive functions. What they return is proved by the least
counterexample: were a fact about the prefix of length `i` not always true, there
would be a least `i` at which it fails (`LeastNumber`), and it is not 0 and not the
successor of one at which it holds. So `WildcardPositions` (each wildcard once, in
place) and `FlattenWords` (segments of one word each give the sequence of the
words) hold for patterns of any length. `PatternInv` adds to `TypeOK` and
`CacheTransparent` that the template has the wildcards of the declared pattern:
`WithPattern` compares with the template in place, and the fields are read by the
declared one. The agreement of trie and `try_match` is then a comparison segment by
segment (`TrieReads`, `TrieAccepts`): in a template that parses, the first `#` is
the last segment. That of broker and trie needs that no bound value is a wildcard
or has a slash (`FilterWords`).

*Typed messages.* `RetainedIsLatest` is inductive by itself; its only fact about
the code is that the flag of each call is the documented one (`RetainsAsAsked`).
`RoundTrip` is not: it speaks of the last event. `TypedInv` says of everything retained or queued that it
is `Genuine`: if it is the struct's own, its topic is what its template gives for
its parameters and its bytes are those of its payload, or none; and of everything
queued, that its match is that of the template (`Contents`), which stays what it is
because the pattern does not change once messages flow (`Phases`). `ReadBack` is
then about one message: the topic has each parameter at its wildcard's place
(`FormattedTopic`), the match takes it from there, the conversion succeeds because
the publisher's parameter had the type of the field, and the field of a name reads
the only wildcard of that name, which is not a reserved field (`FieldOfWildcard`,
where the macro's checks are used). `Counts` bounds the queue: what the broker has
retained, or still owes, is never more than what was sent.

### What is only model-checked

- Liveness: `ParkedResolves`, `CleanupEnds`, `LeakReclaimed`, `StreamsEnd`,
  `EveryMessageResolved` and the properties of `client_live` depend on fairness,
  which is out of the prover's reach.
- The counterexamples of the runs that expect a violation.

## 6. Disagreements between the code and what it says

1. `topic_now_empty` (`topic_router.rs:171`) is true only when the whole router is
   empty, because `update_node` returns the emptiness of the root to its caller.
   The broker keeps every other pattern subscribed (`doc_empty_flag`). `sync`
   shows the extent: these patterns, and those whose level should fall, are the
   `leftover` ones, and a reconnect without a session heals them.
2. The event loop awaits `resubscribe_all` in its poll loop while the actor may
   wait for room in the channel only that loop empties (`doc_resubscribe`): after a
   reconnect without a session the subscriptions are then not re-established,
   though `connection_state.rs:23-25` says they were (`LostSessionRestored`).
   The same wait can keep the loop's last `Command::Shutdown` and
   `MqttConnection::shutdown` from getting through, which is why three
   properties of `client_live` are stated for behaviours in which the request
   channel does not fill up.
3. `with_pattern` returns the candidate without the bindings of the pattern it
   replaces, so a subscription narrowed by `for_<name>` is widened again
   (`doc_narrowing`).
4. The last will generated for a struct with a serializer of its own is encoded by
   the configuration it is given to, with the client's serializer
   (`doc_last_will`), though `README.md:184` says that the topic always uses the
   struct's.

Read in the code, without a run of their own:

- A message whose grace period elapses during cleanup is not counted (`SM:278`),
  though `SM:69-71` says every drop is. `ExactAccounting` is stated until cleanup.
- Two texts disagree on a broker to which every reconnection succeeds and that drops
  the connection before anything else arrives. `connection_state.rs:31-33` says that
  the count of errors is separate from the observable attempt "so a broker that
  keeps reconnecting is not permanently killed"; `async_client.rs:171-176` says that
  it "still accumulates toward termination". The code does the latter: the CONNACK of
  a reconnection resets the attempt only (`async_client.rs:195`), so this broker is
  given up after `MAX_CONSECUTIVE_ERRORS` errors with no attempt above 1 published.
  `SilentFlapTerminates` states what the code does, and by holding contradicts
  `connection_state.rs`.
- Nor does the promise of `async_client.rs:171-176` always hold: with a subscription
  to restore, the written SUBSCRIBE resets the count (`async_client.rs:262`), and a
  broker that accepts and drops is retried for ever. `SilentFlapTerminates` is
  about one that nothing is written to.
- The default port of a `ws` or `wss` URL that names none is documented as 8000
  (`connection_options.rs:274-275`). `from_url` writes it into `options.port` (where
  the test `from_url_default_ports_and_schemes` finds it), but the backend is given
  the URL as it was written (`connection_options.rs:578`), without a port: nothing
  hands the default on, although no field was edited. the last conjunct but one
  of `AddressedAsConfigured` says so.
- A `ResumeFor` with a fraction of a second is refused, where its documentation
  (`connection_options.rs:59`) has it rounded up to whole seconds.
- The comment at `SM:156-158` ("if and only if exactly one slow-send future") is
  stronger than the code: after an unsubscribe a send may be in flight without an
  entry. `OneSlowSend` states what does hold.

Two more weaknesses contradict no text. A bound value with a slash or a
wildcard character is one literal in the trie and several segments, or a
wildcard, for the broker: such a subscription receives nothing
(`BrokerAgrees` is about the other values). And a `for_` method exists for every
wildcard, but for a `#` and for a wildcard without a name it panics
(`ForMethodPanics`).

## 7. Plan

Done, in this order: `Backpressure` with `LossyFifo`, `TopicRouter`,
`ClientSystem`, `TopicPattern`, `BrokerSync`, `ConnectionOptions` and `Connect`,
`MacroExpansion` and `TypedMessage`; proofs of `Backpressure`, `TopicRouter`,
`ClientSystem`, `BrokerSync` and `Connect`; then the refinement of `LossyFifo` and
the proofs of `TopicPattern` and `TypedMessage`. What would add most now:

1. `BrokerSync` with the bounded command channel of `ClientSystem`: levels and
   refusals together with a full request channel.
2. The safety half of the liveness arguments as theorems: that a parked
   subscription always has a send in flight or a drain under way, and that a loop
   that waits has a message or an answer on its way.
3. The reading of the trie in `TopicPattern` derived from `RoutesExactly` instead of
   stated beside it.

## 8. Not modelled

- Timing: a timer may fire whenever its guard allows; how long a backoff or a
  grace period lasts is not modelled.
- The codecs, TLS, the transports and the backend's QoS handshakes: third-party
  code behind the external actions. The QoS conversions of
  `mqtt-topic-engine/src/qos.rs` are one-to-one maps.
- The actor's `topic_path_cache`, from a topic to its own segments; the router's
  diagnostics; logging; the texts of errors.
- The `watch` channel's coalescing: an observer may miss a state, the properties
  are about those published.
- The names and syntax trees of generated code, and the generated typed client,
  whose methods forward to those of the struct.
- The product of the three views of the actor: a consumer's `unsubscribe` during
  the actor's wait for a broker request is in `Backpressure` with an immediate
  request, in `BrokerSync` and in `ClientSystem` without messages.
