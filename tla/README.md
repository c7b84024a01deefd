# A verification of inx-mqtt

inx-mqtt is a plugin of an IOTA node. It offers the node's events as MQTT topics: a
client subscribes to `blocks`, `outputs/nft/<address>` or
`block-metadata/<blockID>/raw`, and the service asks the node for the matching gRPC
stream, turns what the stream reports into messages and publishes them. This
directory holds TLA+ modules that model the service, TLC configurations that check
them on small instances, and TLAPS proofs of the safety properties of every module for
all instances. Paths below are relative to `src/pkg`.

## 1. Inventory

| Component (source) | State | Operations | Interacts with |
|---|---|---|---|
| gRPC subscription registry (`mqtt/server.go` 323-397) | `grpcSubscriptions`: call -> count, identifier, cancel function, under a mutex; one goroutine per open stream | add, count, discount, cancel, remove after the stream ended | called by the two topic handlers; its goroutines call the node bridge and, if the node is gone, the shutdown handler |
| Topic routing (`mqtt/server.go` 193-321, `mqtt/topics.go`) | none | the switches of `onSubscribeTopic` and `onUnsubscribeTopic`, parsing and naming of topics | decides which streams are touched, in which order, and what is fetched |
| Event callbacks (`mqtt/server.go` 399-483, `mqtt/publish.go` 113-218) | none | from a block, a metadata response, a transaction or a ledger update to topics | run in the listener goroutines, call the publishing functions |
| Publishing and fetches (`mqtt/publish.go` 11-110, `mqtt/server.go` 485-604) | cached payloads inside one call | ask for subscribers, make a payload, send; once in JSON, once in binary | broker, node bridge |
| Server lifecycle (`mqtt/server.go` 82-183, `components/mqtt`, `daemon`) | hooks of broker and node bridge, context of the worker | Start, Run, Stop, self-shutdown | everything above |
| Broker hook (`broker/broker_hook.go`) | none of its own | session established, disconnect, subscribed, unsubscribed, authentication, access control | called by mochi-mqtt, calls the subscription manager |
| Broker wrapper (`broker/broker.go`) | server, subscription manager, hook of DropClient | start, stop, send, has subscribers, drop a client | library code |
| Subscription manager, MQTT server, node bridge | libraries outside the repository | | modelled from their use |
| Prometheus exporter (`components/prometheus`) | gauges, shared by all requests | serve a request: copy the broker's values, collect the gauges; shut down | reads the broker, stopped before it |
| TLS, options, wiring, `gendoc` | configuration | | not modelled: I/O and assignments |

**What is hard here.** Every handler runs in the goroutine of its connection, so the
two registry calls of one handler interleave with those of other clients. A
listener goroutine outlives its entry: it is cancelled, returns later and then
removes "its" entry, while a successor may already be registered under the same
name. The node may end a stream at any moment. The worker's context ends before
the handlers are unhooked. Fetches and streams publish on the same topic without
any order between them. The repository's tests run all of this in one goroutine
against mocks; the modules explore the interleavings. The node may stay silent, so every
call of it lasts until its context ends, and the shutdown may arrive in the middle of
the start.

**What makes each component correct.**

* Registry: entries and uncancelled goroutines match one to one; a count is the
  number of subscriptions that need the stream; a stream runs exactly while it is
  needed; nothing survives the shutdown.
* Routing and callbacks: a topic's subscription starts the stream whose callback
  publishes on it; a chain keeps its topic while its output changes; nobody is told
  the same thing twice in one publication.
* Publishing: a new subscriber receives the current state, an old one every change; one
  publication is consistent; no goroutine waits longer than its contexts live.
* Sessions: the subscription manager knows exactly the subscriptions of the living
  sessions.
* Access: what a protected pattern names takes a password.
* Lifecycle: nobody who connects during the start is overlooked; start and stop leave no
  hook, stream, route or goroutine behind; the stop ends.
* Metrics: a response shows values of its own time.

## 2. Modules

```
EventTopics <---- GrpcSubscriptions <---- MCGrpcSubscriptions      DemandStreams
     ^                   |  ^                                           ^
     |                   |  +- GrpcSubscriptionsProofs                  |
     |                   |       ^- DemandStreamsProofs                 |
     |                   +---------- INSTANCE (refinement) -------------+
     +---- PublishedTopics <---- MCPublishedTopics, PublishedTopicsProofs
TopicUpdates  <---- MCTopicUpdates, TopicUpdatesProofs
NodeFetches   <---- MCNodeFetches, NodeFetchesProofs
TopicPatterns <---- BrokerSessions <---- MCBrokerSessions, BrokerSessionsProofs
ServerLifecycle <---- ServerLifecycleProofs
MetricsRequests <---- MetricsRequestsProofs
```

A `...Proofs` module extends the module it is about and holds its inductive
invariants, lemmas and theorems; section 5 tells what they say.

### EventTopics: which topic touches which stream

A topic is the sequence of its levels, and the handlers' tests are tests on levels:
`strings.HasPrefix(topic, "outputs/")` is "the first level is `outputs` and there is
another one". `StartedBy` and `StoppedBy` are the switches of the two handlers;
they differ below `block-metadata/`, as in the code. What parses as a block ID is
the constant `BlockIDs`. The topic names are constants of iota.go, which is not in
the repository.

### GrpcSubscriptions: the streams on demand

| Variable | Code |
|---|---|
| `grpcSubscriptions` | the map of the same name (count and identifier; the entry's context is the goroutine's `cancelled`) |
| `listener` | the goroutines of `startListenIfNeeded`: the call they serve, whether they were cancelled, whether `listenFunc` has returned |
| `sub`, `todo` | where each subscription is, and which registry calls its running handler still has to make |
| `connected` | the connections the subscription manager knows |
| `ctx`, `hooked` | the context given to `Start`, and whether the broker events still reach the handlers |

The three functions that hold `grpcSubscriptionsLock` are one action each
(`StartListenIfNeeded`, `StopListenIfNeeded`, `RemoveGRPCSubscription`), split into
the cases of their conditions (`CountSubscriber`, `OpenStream`,
`DiscountSubscriber`, `CancelStream`, `NoStream`). `OpenStream` includes the `go`
statement, which cannot fail. Everything outside the lock is a step of its own: the
beginning of a handler, each of its calls in the order of the code, its return, the
return of `listenFunc` (cancelled; finished or failed; failed with
`codes.Unavailable`, which asks for the shutdown), and the later removal. A
listener whose stream failed for any reason takes the same path, so
`ListenerFinished` stands for a normal end and for every error but `Unavailable`.

`Sub` is a set of triples: connection, topic filter, copy. The subscription manager
counts how often a connection holds a filter and reports every subscription and
every release; a copy is one of these. Identifiers come from `rand.Int()`; the model
takes one that no living goroutine has, so it assumes that two goroutines that are
alive at the same time never draw the same 63-bit number.

Assumed of the libraries: the subscription manager triggers its events from the
goroutine that called it, one connection has one such goroutine, and a disconnect
reports each subscription the client still holds as unsubscribed before the same
client ID connects again. Two sessions with one client ID are the subject of
`BrokerSessions`.

### DemandStreams: what the registry is for

The abstract specification has no counts, no map and no goroutines: a stream is
`open` while it has `holders`. `GrpcSubscriptions` implements it under
`open[k] <- grpcSubscriptions[k] # Nil`, `holders[k] <- Holders(k)`,
`closing <- ctx = "done"`. `Unreliable` are the calls that can lose count of their
subscribers: those whose stream the node may end, and those some topic in use stops
without having started. Only these may be closed while held, and only while the
service runs.

### TopicUpdates: what a topic's subscribers get to see

One topic of one object, whose events carry the object's state: a version number. A
`Feed` is a listener goroutine or the node bridge's commitment events; a fetch goroutine
belongs to a new subscription. Both are a `Job` that goes through `Check`
(HasSubscribers), the payload and `Send`, first for JSON, then for `/raw`. A feed has its
payload (`EventPayload`). A fetch asks the node, again for each format and without a
timeout: the node answers (`FetchAnswered`), has an error, whether the object has a state
or not (`FetchFails`), or stays silent, which is neither. An error ends the job, as
`return err` ends both publications. The constant `Kept` tells the feeds that run anyway
(the bridge's events; a stream that another topic keeps open, as `block-metadata/accepted`
keeps one of a block's two streams) from those that the first subscriber starts. A stopped listener may still publish the change it is
working on, as in the code. `changed` and `failed` observe who was subscribed when the
object changed last, and whose fetch has met an error.

`StateIsOnItsWay` is the safety property behind `RunningFeedsMissNothing`: where the
feed runs, a subscriber has the object's state, or the stream or the feed holds it;
only a state from before the subscription is left to the subscriber's own fetch, which
may fail. Neither property assumes anything of the node's answers.
`InitialPayloadArrives` is about nothing but the fetch, so it assumes that the node
answers (`NodeAnswers`) and excepts whoever's own fetch had an error: then the code only
logs it, and the subscriber waits for the next change.

Left out: errors of the encoding (in `NodeFetches`), and messages that mochi-mqtt drops
when a client does not read.

### NodeFetches: one publication in detail

One goroutine that publishes: a hook of the bridge, a fetch, or a callback that makes
several publications in a row (`work`). A publication walks through formats and topics
(`at`), asks whether the topic has subscribers (`Check`), and for the first one that has
makes the payload: `ChooseAPI` takes the API, then the object is read, from the bridge
(`ReadCommitment`, the second call of `commitmentFunc`) or by calls to the node, and is
encoded (`Encode`). Without a commitment or an API for its version (`NoAPI`), or if the
encoding fails (`EncodeFails`), the publication ends in both formats; `NobodyForgotten`
says what that costs: the topics still to come, and no other. A call
is answered, fails, or stays open until its context is done (`ContextDone`): the
caller's, `ctxFetch`, or the inner one of the block ID's lookup, which is given the
caller's context (562), so that it may outlast `ctxFetch`. `cache` is what the closures
keep; only the kinds in `Cached` have one. `blockIDFunc` is written to keep the block ID
and never assigns it (555-574); since the block's metadata is kept, it is asked again only
when that could not be read, and then the publication has ended.

The object is a version number, as in `TopicUpdates`. The API is represented by the
version it belongs to, and left out where the code takes the committed API for every
object.

### PublishedTopics: from the node's events to topics

The callbacks and every topic they publish on, over a small ledger: a transaction
spends an output and creates others, begins chains or continues them, and a
commitment reports the net change since the last one. `Deliver` records what a
callback published; `latest` and `announced` observe what a permanent subscriber of
a chain or of a transaction has been told. Topics are chosen before anyone asks
whether they have subscribers, so every topic is taken as subscribed.

Foundries receive their ID when they are created, other chains begin with an empty
ID and use the one implied by the output ID. IDs, addresses and their encodings are
names: equal exactly if they denote the same thing. That `FoundryID()` may have an error
(`topics.go` 203-206) is left out: it needs a foundry without the unlock condition of its
account, which no ledger contains. Two assumptions on the constants say
so: `DistinctIDsAssumption`, that no two outputs or transactions share an ID (they are
hashes), and `IDsAssumption`, that no ID, address or tag reads `accepted`, `confirmed` or
`raw` (IDs and tags are hexadecimal with a prefix, addresses are Bech32).

Assumed of the node: consumed outputs carry `Metadata.Spent`, created ones do not,
and what is created and spent within one slot is in neither list of the ledger
update.

### BrokerSessions: who is subscribed

The hooks of `broker_hook.go` as the server calls them. `pc`, `closed` and `hook`
describe the goroutine of a connection; `clients` and `filters` are what the server
holds, `manager` what the subscription manager holds. A packet carries a set of filters:
the server applies it in one step, then the hook tells the manager of one filter after
the other (`OnSubscribed`, `OnUnsubscribed`), and other connections run in between. If
that exceeds the limit, the handler of `DropClient` runs, which looks the connection up
by its client ID, and then the loop goes on with the remaining filters.
`OnConnectAuthenticate` guards `Accept`, `OnACLCheck` decides whether a filter is granted.
The server asks it for a PUBLISH as well, with `write` set, and is always refused; that
changes nothing the module speaks of (a connection the server then closes is `Close`).
`overlapped` and `irregular` only observe: which client IDs were reused while connected,
and which connections repeated a subscription or were refused one.

`TopicPatterns` says what a pattern matches after `compileTopicAsRegex`: `*` any letters,
the end of the pattern at the end of the topic, the beginning anywhere. A topic is put
into lower case before it is compared and a pattern is not, so a pattern with a capital
matches nothing (`CapitalsMatchNothing`). The configuration may contain such patterns, and
so may the model's constants; the default ones have none. `Names` is what the
configuration's documentation promises of a pattern. `LowerCasePatternsProtect` states
that promise for every pattern that can match anything, beside whatever others are
configured. Letters that `.` does not match (line breaks) are left out.

Assumed of mochi-mqtt, as far as the hooks use it: a connection's goroutine calls
its hooks in order, `OnSessionEstablished` first and `OnDisconnect` last; a second
connection with the same client ID closes the first, whose goroutine still ends in
its own time; refused filters are reported with the granted ones, their reason codes
in the argument the hook ignores. Assumed of the subscription manager: connecting
starts with no topics, unknown clients are ignored, and exceeding the limit removes
the client and triggers `DropClient` in the same goroutine. Sessions are not kept
(`broker.go` 56), so nothing is inherited in a take-over. The manager counts a filter of
a client at most to `MaxCount`.

### ServerLifecycle: start, run and stop

`place` is the statement `Run` has come to: the stages of `Start` and `Stop` in their
order, each hook, call of the node and call of the broker an action of its own.
`brokerHooks`, `nodeHooks` and `dropHook` are the hooks that are set, `accepting` the open
listeners, `route` what the node has registered. A call of the node is the node's step
(`NodeRegistersRoute`) and the answer (`RegisterAPIRoute`), or an error of the node or of
the timeout (`RegisterAPIRouteFails`), which ends the process when the route is registered
(`LogFatalf`) and is only logged when it is removed. The daemon's workers (INX, MQTT,
Prometheus) are stopped by `Priority`; the configuration enables either listener, both,
or none. Clients subscribe to the latest commitment from the moment the broker accepts
them.

A commitment is published by the bridge's event, which brings it along, and by the fetch
of a new subscriber, which reads the latest. Each is a `job` of its own that checks for
subscribers, gets its commitment and sends it to every subscriber, in three steps with
anything in between, so a fetch may send what an event has already replaced. The two
formats are one message here (`NodeFetches` and `TopicUpdates` tell them apart). A
commitment in `Unknown` is of a version the node's API provider does not know: nothing is
published. The bridge makes its next event when the callback of the last has returned. The
client's fields observe whether it was `told` the latest commitment, whether the handler
was called (`handled`), and whether it subscribed before the bridge's events were hooked
and has not been sent one since (`early`).

The process has no state that outlives it, so a crash is
only its end.

### MetricsRequests: the exporter's gauges

A request reads `SystemInfo` counter by counter, sets the gauges in their order, reading
the sizes of the subscription manager as it comes to them, and then promhttp collects the
gauges in any order. The gauges are package variables, so requests that are served at the
same time mix. Two gauges stand for those that copy `SystemInfo`, one for the two sizes.
Without the option `MQTTMetrics` there are no gauges, and the handler panics at the first
one (`Panic`), whatever other metrics were asked for: a slip of the code that one request
shows, modelled and not made into a property.

## 3. Runs

All passing runs end within three minutes. Deadlock checking is off where the system
really stops: after the shutdown (`GrpcSubscriptions`, `ServerLifecycle`), when the object
has had its last change and the clients or goroutines are gone (`TopicUpdates`,
`NodeFetches`), and when every connection has ended (`BrokerSessions`); in
`MetricsRequests` requests never end, so nothing is lost by not asking.

| Run | Bounds | What it shows |
|---|---|---|
| `streams_exact` | 2 connections, a topic of both block streams and a topic of the first one, 2 goroutines, the second stream may end | The count of the reliable stream equals its subscribers whatever happens to the other; the refinement of `DemandStreams` |
| `streams_lossy` | 2 connections, a topic of one stream and a filter that only stops, 2 goroutines, the stream may end | Registry and goroutines match, counts stay between 1 and the number of subscribers, and subscribers are lost in two ways only; a stream nobody wants ends; a shutdown drains everything, also when it was asked for by a failing listener |
| `topic_updates` | 2 subscribers (JSON, raw), 2 feeds, the first one cold and the second one running anyway, 2 changes, a node that answers, fails or is silent | A state that the running feed reports is always on its way to a subscriber that does not have it, and arrives, whatever becomes of the fetches; if the node answers, a new subscriber receives a state, or its own fetch has met an error, even if the cold stream opens late |
| `published_topics` | 3 transactions, every kind of output, block and metadata event | Publishing agrees with routing, for both formats; one `any` topic per address; parsing inverts naming; the last message of a chain is its current output, per stream; a transaction is announced once |
| `fetches` | every kind of publication and a callback of four; 2 topics, 2 versions | A commitment is never encoded with a later API; both formats agree where the closures keep the object; nothing published is older than its fetch; who subscribed all the time is served, or an error came before its topic did; a timed fetch ends although the node is silent, and a cancelled goroutine ends with all it had to do |
| `sessions` | 2 connections with one client ID, at the same time or one after the other, and a user with a wrong password; 3 filters (one granted to everybody though a pattern with a capital names it, one protected, one refused) in any packets, limit 2, counts up to 2 | No subscription is forgotten unless an ID is reused while connected; the manager is exact for regular clients; it forgets a client in the end; who exceeds the limit is disconnected; what a protected pattern without capitals names needs a password |
| `lifecycle` | 2 clients, 3 commitments, the second without an API, any listeners, a shutdown at any time | The route leads to an accepting broker; nobody who subscribes during the start is overlooked, and every subscriber comes up to date although fetches may send late; the parts end in order, leave nothing behind, and do end |
| `metrics` | 2 places for requests, 3 gauges, each value changes once | A response shows nothing older than the oldest request it met, and its own values if it met none |
| `session_lost`, `asymmetric_stop`, `ended_stream`, `stream_gap` | as small as the counterexample allows | The findings below |

**Why the bounds are enough to be interesting.** A lost count needs two
subscriptions on one call; a goroutine that meets its successor needs two
identifiers; the order of two registry calls needs a topic with two streams and another client that touches only one of
them. A stale fetch needs one change before and one after it. A chain begins,
continues once under its explicit ID and ends with three transactions after the
genesis. The `Ids` bound makes `OpenStream` wait when all goroutines are alive; the
invariants of the registry are proved for any number. A mixed publication needs one
change between two formats; a stale cache two publications of one goroutine. A lost
session needs two connections, a drop in the middle of a packet a limit below the number
of filters. An early subscriber misses one commitment and is told by the next. A late
fetch needs one commitment to read and one to come too late for; the third comes after
both. A value
a slow request leaves behind needs one change, since a place may serve a request again.
`Copies` is 1 in the runs: for the registry, a second copy is a second subscription
of the same streams, like that of another client, and the proofs are for any number.

**Fairness.** Weak fairness for each goroutine that can run: the handlers, the
release of what a disconnected client still held, a cancelled listener (the gRPC
call returns when its context is done), the removal after it, the end of the context
once a shutdown was requested, and `Stop`. These are steps of the Go scheduler and
of the daemon, which nothing in the code can keep from happening. There is no
fairness for clients, for the node, or for a stream to end by itself. In
`NodeFetches` the goroutine and the two deadlines are fair and the node's answers are
not; in `BrokerSessions` the hook calls a connection owes; in `ServerLifecycle` the
worker's own steps, the end of a call of the node (its timeout), the publications, and the
other two workers, but not the node, clients or the request to shut
down; a commitment is read from the bridge, in the same process. In
`TopicUpdates` the publishing goroutines are fair in the steps for which they need
nobody; the node's answers, the opening of a stream, changes of the object and clients are
not. Where a property needs an answer (`InitialPayloadArrives`, and `SeesEveryState`, which
is violated all the same) it says so in its antecedent (`NodeAnswers`,
`NodeOpensStreams`).

## 4. Findings

1. **`asymmetric_stop`**: unsubscribing from `block-metadata/<anything>` discounts
   both block streams (`mqtt/server.go` 304-305), although subscribing starts them
   only if the rest is a block ID (235). One client's useless filter cancels the
   stream of another client.
2. **`ended_stream`**: when the node ends a stream, its entry is deleted with its
   count (`mqtt/server.go` 377, 354). The remaining subscribers receive nothing until
   somebody else subscribes; the count then restarts at 1, and the first of the old
   subscribers that leaves cancels the new stream.
3. **`stream_gap`**: with a cold stream a change between the fetch and the opening of
   the stream reaches nobody (`mqtt/server.go` 237-240).
4. **`session_lost`**: a client that reconnects before its old connection has ended
   loses its new session in the subscription manager when the old `OnDisconnect`
   arrives (`broker/broker_hook.go` 138). It stays connected and receives nothing.

`OnlyTwoWaysToLoseSubscribers` shows that 1 and 2 are the only ways in which the
registry loses a subscriber; `NoGhostClients` shows that 4 cannot do the opposite
and leave a client behind.

Also met while modelling, each part of the models and none of them excluded by a property:

* *A late fetch.* The fetch of a new subscriber may publish a commitment it has read before
  the last event (`mqtt/server.go` 488, 495), to all subscribers and after that event's own
  message; the comment at 202 speaks of the latest payload, published once to the new
  subscriber. The last message of the topic is then not the latest commitment, until the
  next event; so for the finalized one (500-513), and for the fetches of objects.
  `SubscribersComeUpToDate` says that every subscriber does receive the latest one,
  `FetchesAreFresh` that nothing older than the new subscription is sent.
* *An early subscriber.* The broker accepts clients before the bridge's events are hooked
  (99, 120), and registers a route in between. A commitment that changes in that time
  reaches nobody who has subscribed already; `SubscribersComeUpToDate` says from when on
  such a client is told again.
* *A failed fetch.* The error of a fetch is only logged, so a subscriber may wait for the
  next change although the object has a state, and one format's error costs both.
* *A refused filter* is registered with the manager all the same
  (`broker/broker_hook.go` 142-145) and may start streams; so `RegularClientsAreExact`
  speaks of clients that were refused nothing. `NoSubscriptionForgotten` shows that,
  take-overs aside, the manager only ever knows too much. A client that repeats a subscription has to give it up
  as often before the manager forgets it.
* *Patterns with a capital* match no topic (`broker/broker_hook.go` 57, 155-166), while
  `src/configuration.md` 123-124 asks for no lower case. `CapitalsMatchNothing` proves it,
  `LowerCasePatternsProtect` that every other pattern protects what it names.
* The latest commitment may be encoded with the API of its predecessor, if it changes
  between the two calls of `commitmentFunc` and the protocol's version with it. Without
  `MQTTMetrics` every request for metrics fails.

## 5. Proofs

tlapm proves every invariant that a passing run checks, the one action property and the
refinement, for all values of the constants: any number of connections, topics, copies,
goroutines, clients, requests, transactions and changes.

| Module | Theorem | Statement |
|---|---|---|
| `GrpcSubscriptionsProofs` | `TypeCorrect` | `Spec => []TypeOK` |
| | `RegistryIsExact` | `Spec => []RegistryMatchesListeners` |
| | `NoStreamWithoutSubscriber` | `Spec => []CountWithinHolders` |
| | `ReliableStreamsCountExactly` | `Spec => []CountsExact` |
| | `SubscribersAreLostInTwoWays` | `Spec => OnlyTwoWaysToLoseSubscribers` (an action property) |
| `DemandStreamsProofs` | `StreamsAreServedOnDemand` | `Spec => ServesStreamsOnDemand` (the refinement) |
| | `ReliableStreamsRunOnDemand` | `Spec => []Streams!OpenOnDemand` |
| `BrokerSessionsProofs` | `SessionTypes` | `Spec => []TypeOK` |
| | `NoFilterIsForgotten` | `Spec => []NoSubscriptionForgotten` |
| | `RegularClientsAreKnownExactly` | `Spec => []RegularClientsAreExact` |
| | `GhostsNeverStay` | `Spec => []NoGhostClients` |
| | `ProtectedIsProtected` | `Spec => []LowerCasePatternsProtect` |
| | `CapitalsMatchNothing` | a pattern with a capital matches no topic |
| `ServerLifecycleProofs` | `LifecycleTypes` | `Spec => []TypeOK` |
| | `RouteIsServed` | `Spec => []RouteLeadsToBroker` |
| | `EverySubscriptionIsHandled` | `Spec => []SubscriptionsAreHandled` |
| | `PartsEndInOrder` | `Spec => []ShutdownInOrder` |
| | `StopLeavesNothing` | `Spec => []NothingLeftBehind` |
| `NodeFetchesProofs` | `FetchTypes` | `Spec => []TypeOK` |
| | `CommitmentsAreEncoded` | `Spec => []EncodedByNoNewerAPI` |
| | `OneStateInBothFormats` | `Spec => []CachedFormatsAgree` |
| | `FetchesAreNeverStale` | `Spec => []FetchesAreFresh` |
| | `SteadySubscribersAreServed` | `Spec => []NobodyForgotten` |
| `MetricsRequestsProofs` | `MetricsTypes` | `Spec => []TypeOK` |
| | `NoResponseIsOld` | `Spec => []ResponsesAreRecent` |
| | `LoneRequestsSeeTheirOwn` | `Spec => []LoneRequestsShowTheirOwn` |
| `TopicUpdatesProofs` | `UpdateTypes` | `Spec => []TypeOK` |
| | `NoStateIsLost` | `Spec => []StateIsOnItsWay` |
| `PublishedTopicsProofs` | `TopicTypes` | `Spec => []TypeOK` |
| | `SubscribersReachTheirStream` | `Spec => []PublishedWhereSubscribed` |
| | `ToldOnce` | `Spec => []NobodyIsToldTwice` |
| | `FetchesInvertTopics` | `Spec => []FetchAnswersSubscriber` |
| | `FollowersSeeTheChain` | `Spec => []ChainSubscriberIsCurrent` |
| | `AnnouncementsAreUnique` | `Spec => []TransactionsAnnouncedOnce` |

**Assumed** are the named assumptions of the modules and nothing else:

* `GrpcSubscriptions`: `MayEnd` holds calls, `Nil` is no entry and no goroutine, `Sub` is
  finite (counts are cardinalities).
* `BrokerSessions`: every connection has a client ID, `None` is no connection and no count
  of filters, the limit of topics is positive; topics consist of letters, patterns of
  letters and wildcards, and a lower-case letter is its own lower case.
* `ServerLifecycle`: the bound of changes is a number, and the bridge is no client.
* `MetricsRequests`: the bound of changes is a number and `Nil` is not.
* `NodeFetches`: a program is a non-empty sequence of kinds of publications; there are a
  topic and a version.
* `TopicUpdates`: every subscription has a format, every change a feed, and a goroutine is
  either a fetch or a feed.
* `PublishedTopics`: what section 2 says of IDs; `None` is no level and no entry of
  `latest`; some transaction creates a basic output, for the genesis.

**The argument.** For each module there is an inductive invariant, the conjunction of
named parts, and one lemma per action that keeps it. Each was checked with TLC before it
was proved. What they add to the properties:

*Registry.* `TypeOK` alone is not inductive: cancelling a stream writes to the
goroutine its entry names, and only `RegistryMatchesListeners` says that there is
one. `RegistryMatchesListeners` in turn survives a removal because the identifier is
compared: an entry that names another goroutine stays, and by the invariant a
goroutine that was not cancelled finds its own entry. `TypedRegistry` is the
conjunction of both and is inductive.

The counts need to know where each subscription stands. `CountInv` adds to
`TypedRegistry` that a handler's outstanding calls are calls its topic starts or
stops, that an idle subscription has none, and the two statements on counts. A
registry call moves exactly one subscription into or out of `Holders(k)`, and
lemmas on cardinalities turn that into plus or minus one. A topic that stops what it
did not start moves nobody out of `Holders`, which is why such calls are
`Unreliable`: there the count may only fall below the number of holders.
`OnlyTwoWaysToLoseSubscribers` follows from the same invariant, action by action.

*Refinement.* It maps a registry call to `Acquire` or `Release`, a lossy one to
`ReleaseUnreliable` or `Close`, the removal after a stream ended to `Close`,
`CtxDone` to `Shutdown`, and everything else to a stutter. That the last release
closes the stream follows from `CountsExact`, that an unreliable one may close it
is the abstraction's weaker promise.

*Sessions.* `NoGhostClients` speaks of clients without connections and says nothing of
the steps before. `KnownClientsAreRead`, that the manager knows a client ID only while
some connection still owes its `OnDisconnect`, is inductive and implies it: every
`OnDisconnect`, whoever's it is, removes the client. `LowerCasePatternsProtect` needs
that a connection past `Accept` was authenticated (`AccessInv`), and `NamedIsProtected`:
the cuts by which a pattern without capitals names a topic are cuts of the topic in lower
case as well, so the compiled pattern matches it. With a capital no cut does
(`CapitalsMatchNothing`). `SessionInv` carries the two statements about
subscriptions into the middle of a packet: what the manager does not know yet, the running
hook still owes it (`Known`), and of a connection whose client ID nobody else has used the
server and the manager speak of the same one (`AloneInv`). The limit is a cardinality, so
the types add that the manager knows finitely many filters of a client.

*Life cycle.* `LifeInv` says for each statement of `Run` which hooks, listeners and route
exist there (`SetUpInv`, `RouteInv`) and which workers have ended (`DaemonInv`). The
properties name only a few of these statements; the others are needed to get from one to
the next, and the exits (a failed registration, the shutdown during the start) are where it
is not obvious.

*Fetches.* `FetchInv` relates the three places a version can be in, payload, `cache` and
what was sent, to the state the publication began with (`ValueInv`), says which calls are
reached only with an empty cache (`CallInv`), and which topics have already been served
(`ServedInv`). `EncodedByNoNewerAPI` rests on `api <= payload` after the second read of
the latest commitment, whose version can only have grown.

*Metrics.* `ResponsesAreRecent` compares a response with the oldest request it met.
`RecentInv` extends that backwards: whoever may still write a gauge began after the floor of
every request being served and writes nothing older than its beginning, so a gauge that a
request has set once stays above that request's floor whatever others write after it.

*Updates.* `StateIsOnItsWay` is inductive with three facts: no goroutine is ahead of the
object, a feed publishes the change it took or nothing yet, and kept streams are open
(`UpdatesInv`). A change puts the new state into a stream, and each later step hands it on;
an error ends only a fetch, and no subscriber of before the change depends on one.
This is as far as a safety property goes towards `RunningFeedsMissNothing`, which adds that
what is on its way arrives.

*Topics.* `TopicsInv` says that a callback's publications are proper: each is a list of
topics that the functions of the code make for an object of the right kind. The three
properties of a single publication follow from it. A callback goes through the outputs in
any order, so the state after it is a property of sequences: the lists are concatenated with
`FlattenSeq`, and what holds of them is shown by taking the shortest prefix for which it
fails (the library's `WFMin`, a well-founded minimum, takes a set and not an operator).
`ChainInv` adds that an unspent output is shown on its own chain's topic, that no two
continue the same chain, and that every chain began with an output of a known transaction, so
that a new one is not confused with an old one. `AnnounceInv` counts: zero before, one after,
and for a commitment, one as soon as the first output of the transaction is committed; it
needs that this output is the only one of its ID.

**What the proofs found.** The cases of `NodeFetches!ChooseAPI` overlapped, so that its
value was a choice TLC had settled silently; they are disjoint now. In `PublishedTopics` it had not been
said that hashes differ, without which neither `ChainSubscriberIsCurrent` nor
`TransactionsAnnouncedOnce` holds.

**Model-checked only** is liveness (`UnwantedStreamsEnd`, `ShutdownDrains`,
`RunningFeedsMissNothing`, `InitialPayloadArrives`, `UnmanagedConnectionsEnd`,
`TimedFetchesEnd`, `CancelledGoroutinesEnd`, `SubscribersComeUpToDate`, `ShutdownEnds`):
it needs ENABLED, which is out of the prover's reach. The four findings are
counterexamples and need no proof.

## 6. Not modelled, and the plan

Left of the plan is one module, the composition of `BrokerSessions` with
`GrpcSubscriptions`, whose `Connect`, `Subscribe` and `Disconnect` stand for it now: a
take-over then releases streams of a connection that is still there. Its theorem would be
that `Holders` of the composition are the subscriptions of the living sessions.

Not planned, because there is nothing to check: the text of the metrics, certificate
loading, options and parameters, dependency injection, `gendoc`. External and
therefore only an environment: the node, inx-app, hive.go and mochi-mqtt. The
hazards of the code, each with the properties that watch it or the reason why none
does, are listed in `PROJECT.json`.
