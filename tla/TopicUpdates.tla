----------------------------- MODULE TopicUpdates -----------------------------
(***************************************************************************)
(* How a topic of one object brings the state of the object to its         *)
(* subscribers, in pkg/mqtt/server.go and pkg/mqtt/publish.go: a topic     *)
(* whose events carry the state, as that of the metadata of one block does *)
(* and that of the latest commitment.  (The callbacks that publish outputs *)
(* and transactions ask the node as well: NodeFetches.)                    *)
(*                                                                         *)
(* Two kinds of goroutine publish on the topic.  A feed (a listener of a   *)
(* gRPC stream, or the node bridge's commitment events) publishes every    *)
(* change the node reports.  A fetch goroutine, one per new subscription,  *)
(* asks the node for the state, which answers, fails or is silent, and     *)
(* publishes the answer.  Both publish twice, in JSON on the topic and in  *)
(* binary on its "/raw" sibling, and look for subscribers, make the        *)
(* payload and send it in separate steps.  The state of the object is its  *)
(* version, 0 while the node has none.                                     *)
(***************************************************************************)
EXTENDS Naturals, Sequences

CONSTANTS
  Subs,         \* the subscriptions, <<client, format>>
  MaxVersion,   \* how often the object changes (bound)
  Feeds,        \* the streams that report changes, model values
  FeedOf,       \* [1 .. MaxVersion -> Feeds]: who reports which change
  Kept,         \* the feeds that run without this topic's subscribers: streams that
                \* other topics need as well, and the commitments of the bridge
  Idle          \* a goroutine that does not exist

Formats  == {"json", "raw"}
Versions == 1 .. MaxVersion
Workers  == Subs \cup Feeds
FormatOf(s) == s[2]

ASSUME SubsAssumption == \A s \in Subs : FormatOf(s) \in Formats
ASSUME FeedAssumption ==
  Kept \subseteq Feeds /\ MaxVersion \in Nat /\ FeedOf \in [Versions -> Feeds]

VARIABLES
  version,      \* the object's state at the node
  stream,       \* whether the node delivers changes to each feed
  feed,         \* changes delivered to each feed, not yet published
  subscribed,   \* the subscriptions the broker and its manager know
  job,          \* what each publishing goroutine is doing
  got,          \* the newest version each subscription has received
  changed,      \* who was subscribed when the object changed last, and since
  failed        \* the subscriptions whose fetch ended with an error

vars == <<version, stream, feed, subscribed, job, got, changed, failed>>
seen == <<got, changed, failed>>

\* A publication of the change "event", or of what a fetch finds if that is 0;
\* only a payload is ever sent.
Job ==
  { j \in [event: 0 .. MaxVersion, format: Formats, step: {"check", "payload", "send"},
           payload: 0 .. MaxVersion] : (j.step = "send") = (j.payload # 0) }

ASSUME WorkersAssumption == Subs \cap Feeds = {} /\ Idle \notin Job

TypeOK ==
  /\ version \in 0 .. MaxVersion
  /\ stream \in [Feeds -> {"closed", "opening", "open"}]
  /\ feed \in [Feeds -> Seq(Versions)]
  /\ subscribed \in SUBSET Subs
  /\ job \in [Workers -> Job \cup {Idle}]
  /\ got \in [Subs -> 0 .. MaxVersion]
  /\ changed \in SUBSET subscribed /\ failed \in SUBSET subscribed

Init ==
  /\ version \in 0 .. MaxVersion
  /\ stream = [f \in Feeds |-> IF f \in Kept THEN "open" ELSE "closed"]
  /\ feed = [f \in Feeds |-> <<>>]
  /\ subscribed = {}
  /\ job = [w \in Workers |-> Idle]
  /\ got = [s \in Subs |-> 0]
  /\ changed = {} /\ failed = {}

-----------------------------------------------------------------------------
(* The node.                                                               *)

\* The object changes; the node tells the feed, if that is listening.
Change ==
  /\ version < MaxVersion
  /\ version' = version + 1
  /\ LET f == FeedOf[version + 1]
     IN  feed' = IF stream[f] = "open" THEN [feed EXCEPT ![f] = Append(@, version + 1)]
                                       ELSE feed
  /\ changed' = subscribed
  /\ UNCHANGED <<stream, subscribed, job, got, failed>>

\* The goroutine that startListenIfNeeded started gets its stream.
StreamOpens(f) ==
  /\ stream[f] = "opening"
  /\ stream' = [stream EXCEPT ![f] = "open"]
  /\ UNCHANGED <<version, feed, subscribed, job, seen>>

-----------------------------------------------------------------------------
(* The clients.                                                            *)

NewJob(v) == [event |-> v, format |-> "json", step |-> "check", payload |-> 0]

\* onSubscribeTopic: start the streams if needed, then the fetch goroutine.
\* (Bound: the fetch of an earlier subscription of the same client is over.)
Subscribe(s) ==
  /\ s \notin subscribed /\ job[s] = Idle
  /\ subscribed' = subscribed \cup {s}
  /\ stream' = [f \in Feeds |-> IF stream[f] = "closed" THEN "opening" ELSE stream[f]]
  /\ job' = [job EXCEPT ![s] = NewJob(0)]
  /\ UNCHANGED <<version, feed, seen>>

\* onUnsubscribeTopic: the last one that leaves stops the streams.
Unsubscribe(s) ==
  /\ s \in subscribed
  /\ subscribed' = subscribed \ {s}
  /\ IF subscribed' = {}
     THEN /\ stream' = [f \in Feeds |-> IF f \in Kept THEN stream[f] ELSE "closed"]
          /\ feed' = [f \in Feeds |-> IF f \in Kept THEN feed[f] ELSE <<>>]
     ELSE UNCHANGED <<stream, feed>>
  /\ got' = [got EXCEPT ![s] = 0]
  /\ changed' = changed \ {s} /\ failed' = failed \ {s}
  /\ UNCHANGED <<version, job>>

-----------------------------------------------------------------------------
(* The publications.                                                       *)

HasSubscribers(format) == \E s \in subscribed : FormatOf(s) = format

\* The JSON publication is followed by the binary one.
AfterFormat(j) ==
  IF j.format = "json" THEN [j EXCEPT !.format = "raw", !.step = "check", !.payload = 0]
                       ELSE Idle

\* A feed takes the next change from its stream.
TakeChange(f) ==
  /\ job[f] = Idle /\ feed[f] # <<>>
  /\ job' = [job EXCEPT ![f] = NewJob(Head(feed[f]))]
  /\ feed' = [feed EXCEPT ![f] = Tail(@)]
  /\ UNCHANGED <<version, stream, subscribed, seen>>

\* Mutant: a topic without subscribers ends the publication.
CheckReturns(w) ==
  /\ job[w] # Idle /\ job[w].step = "check"
  /\ job' = [job EXCEPT ![w] = IF HasSubscribers(@.format) THEN [@ EXCEPT !.step = "payload"]
                                                           ELSE Idle]
  /\ UNCHANGED <<version, stream, feed, subscribed, seen>>

Check(w) ==
  /\ job[w] # Idle /\ job[w].step = "check"
  /\ job' = [job EXCEPT ![w] = IF HasSubscribers(@.format) THEN [@ EXCEPT !.step = "payload"]
                                                           ELSE AfterFormat(@)]
  /\ UNCHANGED <<version, stream, feed, subscribed, seen>>

Sending(j, v) == [j EXCEPT !.step = "send", !.payload = v]

\* A feed has the payload: the state that its event carries.
EventPayload(f) ==
  /\ job[f] # Idle /\ job[f].step = "payload"
  /\ job' = [job EXCEPT ![f] = Sending(@, @.event)]
  /\ UNCHANGED <<version, stream, feed, subscribed, seen>>

\* A fetch asks the node: for each format, without a timeout.
FetchAnswered(s) ==
  /\ job[s] # Idle /\ job[s].step = "payload" /\ version # 0
  /\ job' = [job EXCEPT ![s] = Sending(@, version)]
  /\ UNCHANGED <<version, stream, feed, subscribed, seen>>

\* The node does not know the object, or has an error: that ends the whole
\* publication, the binary one included, and is logged.
FetchFails(s) ==
  /\ job[s] # Idle /\ job[s].step = "payload"
  /\ job' = [job EXCEPT ![s] = Idle]
  /\ failed' = IF version # 0 /\ s \in subscribed THEN failed \cup {s} ELSE failed
  /\ UNCHANGED <<version, stream, feed, subscribed, got, changed>>

\* The broker sends the payload to every subscriber of the topic.
Send(w) ==
  /\ job[w] # Idle /\ job[w].step = "send"
  /\ LET reached == { s \in subscribed : FormatOf(s) = job[w].format /\ got[s] < job[w].payload }
     IN  got' = [s \in Subs |-> IF s \in reached THEN job[w].payload ELSE got[s]]
  /\ job' = [job EXCEPT ![w] = AfterFormat(@)]
  /\ UNCHANGED <<version, stream, feed, subscribed, changed, failed>>

-----------------------------------------------------------------------------
\* What a goroutine does without waiting for the node.
WorkerStep(w) ==
  Check(w) \/ Send(w) \/ (w \in Feeds /\ (TakeChange(w) \/ EventPayload(w)))

Next ==
  \/ Change
  \/ \E s \in Subs : Subscribe(s) \/ Unsubscribe(s) \/ FetchAnswered(s) \/ FetchFails(s)
  \/ \E f \in Feeds : StreamOpens(f)
  \/ \E w \in Workers : WorkerStep(w)

\* Goroutines run.  Nothing is assumed of clients, of the object, or of the node.
Fairness == \A w \in Workers : WF_vars(WorkerStep(w))

Spec == Init /\ [][Next]_vars /\ Fairness

-----------------------------------------------------------------------------
(* What the topic promises.                                                *)

\* The node leaves no fetch waiting for ever (errors are answers), and no
\* stream that is to be opened.
NodeAnswers      == \A s \in Subs  : []<>(job[s] = Idle \/ job[s].step # "payload")
NodeOpensStreams == \A f \in Feeds : []<>(stream[f] # "opening")

\* If the node answers, whoever subscribes while the object has a state
\* receives a state of it, or its own fetch has met an error, even if the
\* stream opens late and whatever else is published (the fetch goroutines of
\* onSubscribeTopic).
InitialPayloadArrives ==
  NodeAnswers =>
    \A s \in Subs :
      s \in subscribed /\ job[s] = NewJob(0) /\ version # 0
        ~> s \notin subscribed \/ got[s] # 0 \/ s \in failed

UpToDate(s) == s \in subscribed => got[s] = version

\* Whoever stays subscribed gets to know every state of the object or a later
\* one, unless its fetch fails: no change falls between the fetch and the
\* stream.  (The object changes MaxVersion times at most, so that being up to
\* date again and again means to have caught up with each of its states.)
SeesEveryState ==
  NodeAnswers /\ NodeOpensStreams => \A s \in Subs : []<>(UpToDate(s) \/ s \in failed)

\* The goroutine of job j has not yet finished with format, and what it sends
\* there will be the object's state.
WillSend(j, format) ==
  /\ j # Idle /\ (j.format = "json" \/ j.format = format)
  /\ j.format = format /\ j.step = "send" => j.payload = version

\* Where the feed runs already, every subscriber has the state of the object
\* or it is on its way: in the stream or in the hands of the feed.  Only as
\* long as the object has not changed since the subscription it may be left to
\* the subscriber's own fetch, which may fail.  No interleaving of a change
\* with the fetches, the feeds and the subscribers of the other format loses it.
StateIsOnItsWay ==
  version # 0 /\ FeedOf[version] \in Kept => \A s \in subscribed :
    \/ got[s] = version
    \/ \E i \in DOMAIN feed[FeedOf[version]] : feed[FeedOf[version]][i] = version
    \/ LET j == job[FeedOf[version]] IN WillSend(j, FormatOf(s)) /\ j.event = version
    \/ s \notin changed /\ (WillSend(job[s], FormatOf(s)) \/ s \in failed)

\* Where the feed runs already, every change since the subscription arrives, or
\* a later one does, whatever the node does to the fetches (they may fail, or
\* wait for ever) and to the streams that must be opened.
RunningFeedsMissNothing ==
  \A s \in Subs : []<>(s \in changed /\ FeedOf[version] \in Kept => got[s] = version)
=============================================================================
