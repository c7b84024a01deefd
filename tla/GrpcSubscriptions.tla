-------------------------- MODULE GrpcSubscriptions --------------------------
(***************************************************************************)
(* The demand-driven gRPC streams of pkg/mqtt/server.go.                   *)
(*                                                                         *)
(* The first subscriber that needs a stream of the node starts a listener  *)
(* goroutine for it, later ones are counted, and the last one that leaves  *)
(* cancels it.  The registry grpcSubscriptions is guarded by a mutex, so   *)
(* addGRPCSubscription, stopListenIfNeeded and removeGRPCSubscription are  *)
(* one action each.  Everything between them interleaves: the two calls of *)
(* a handler that touches two streams, the handlers of different clients   *)
(* (each runs in the goroutine of its connection), a listener that returns *)
(* and the removal of its entry, and the shutdown of the component.        *)
(***************************************************************************)
EXTENDS EventTopics, FiniteSets

CONSTANTS Clients,   \* client connections
          Topics,    \* the topic filters they use
          Copies,    \* how often one connection may hold the same filter (bound)
          Ids,       \* identifiers of listener goroutines (bound: alive at once)
          MayEnd,    \* the gRPC calls whose stream the node may end by itself
          Nil        \* no entry, no goroutine

\* One subscription of a connection, as the subscription manager counts them.
Sub == Clients \X Topics \X Copies
ClientOf(s) == s[1]
TopicOf(s)  == s[2]

\* The streams a topic starts and stops.
Starts == [t \in Topics |-> StartedBy(t)]
Stops  == [t \in Topics |-> StoppedBy(t)]

Entry    == [count: Nat \ {0}, identifier: Ids]
Listener == [call: GrpcCalls, pc: {"listening", "returned"}, cancelled: BOOLEAN]

ASSUME CallsAssumption == MayEnd \subseteq GrpcCalls
ASSUME NilAssumption   == Nil \notin Entry /\ Nil \notin Listener
ASSUME SubAssumption   == IsFiniteSet(Sub)

VARIABLES
  connected,          \* connections the subscription manager knows
  sub,                \* where each subscription is
  todo,               \* streams its running handler still has to touch
  grpcSubscriptions,  \* the registry: call -> number of subscribers and listener
  listener,           \* the listener goroutines
  ctx,                \* the context of the component's worker
  hooked              \* the broker events reach the server's handlers

vars == <<connected, sub, todo, grpcSubscriptions, listener, ctx, hooked>>

TypeOK ==
  /\ connected \in SUBSET Clients
  /\ sub \in [Sub -> {"out", "subscribing", "in", "unsubscribing"}]
  /\ todo \in [Sub -> SUBSET GrpcCalls]
  /\ grpcSubscriptions \in [GrpcCalls -> Entry \cup {Nil}]
  /\ listener \in [Ids -> Listener \cup {Nil}]
  /\ ctx \in {"live", "requested", "done"}
  /\ hooked \in BOOLEAN

Init ==
  /\ connected = {}
  /\ sub = [s \in Sub |-> "out"]
  /\ todo = [s \in Sub |-> {}]
  /\ grpcSubscriptions = [k \in GrpcCalls |-> Nil]
  /\ listener = [i \in Ids |-> Nil]
  /\ ctx = "live"
  /\ hooked = TRUE

-----------------------------------------------------------------------------
(* Events of the subscription manager.  It triggers them from the          *)
(* goroutine of the connection, one after the other.                       *)

\* The goroutine of connection c is inside one of the server's handlers.
Busy(c) == \E s \in Sub : ClientOf(s) = c /\ sub[s] \in {"subscribing", "unsubscribing"}

Connect(c) ==
  /\ hooked /\ c \notin connected
  /\ \A s \in Sub : ClientOf(s) = c => sub[s] = "out"
  /\ connected' = connected \cup {c}
  /\ UNCHANGED <<sub, todo, grpcSubscriptions, listener, ctx, hooked>>

\* TopicSubscribed: onSubscribeTopic begins.
Subscribe(s) ==
  /\ hooked /\ ClientOf(s) \in connected /\ ~Busy(ClientOf(s)) /\ sub[s] = "out"
  /\ sub'  = [sub  EXCEPT ![s] = "subscribing"]
  /\ todo' = [todo EXCEPT ![s] = Starts[TopicOf(s)]]
  /\ UNCHANGED <<connected, grpcSubscriptions, listener, ctx, hooked>>

\* TopicUnsubscribed: onUnsubscribeTopic begins.
BeginUnsubscribe(s) ==
  /\ hooked /\ ~Busy(ClientOf(s)) /\ sub[s] = "in"
  /\ sub'  = [sub  EXCEPT ![s] = "unsubscribing"]
  /\ todo' = [todo EXCEPT ![s] = Stops[TopicOf(s)]]
  /\ UNCHANGED <<connected, grpcSubscriptions, listener, ctx, hooked>>

Unsubscribe(s) == ClientOf(s) \in connected /\ BeginUnsubscribe(s)

Disconnect(c) ==
  /\ hooked /\ c \in connected /\ ~Busy(c)
  /\ connected' = connected \ {c}
  /\ UNCHANGED <<sub, todo, grpcSubscriptions, listener, ctx, hooked>>

\* The subscription manager clears what a disconnected client still held.
DropSubscription(s) == ClientOf(s) \notin connected /\ BeginUnsubscribe(s)

-----------------------------------------------------------------------------
(* The registry, under its lock.                                           *)

\* Mutants: what these operations, and two below, could get wrong.
CountSubscriberForgets(k) ==    \* no count++
  grpcSubscriptions[k] # Nil /\ UNCHANGED <<grpcSubscriptions, listener>>
DiscountSubscriberToZero(k) ==  \* the count is not compared with 0
  /\ grpcSubscriptions[k] # Nil
  /\ grpcSubscriptions' = [grpcSubscriptions EXCEPT ![k].count = @ - 1]
  /\ UNCHANGED listener
CancelStreamAlways(k) ==        \* whoever leaves cancels the stream
  /\ grpcSubscriptions[k] # Nil
  /\ grpcSubscriptions' = [grpcSubscriptions EXCEPT ![k] = Nil]
  /\ listener' = [listener EXCEPT ![grpcSubscriptions[k].identifier].cancelled = TRUE]
CancelStreamForgets(k) ==       \* no cancelFunc()
  /\ grpcSubscriptions[k] # Nil /\ grpcSubscriptions[k].count - 1 = 0
  /\ grpcSubscriptions' = [grpcSubscriptions EXCEPT ![k] = Nil]
  /\ UNCHANGED listener

\* addGRPCSubscription: one more subscriber of a stream ...
CountSubscriber(k) ==
  /\ grpcSubscriptions[k] # Nil
  /\ grpcSubscriptions' = [grpcSubscriptions EXCEPT ![k].count = @ + 1]
  /\ UNCHANGED listener

\* ... or the first one, for whom startListenIfNeeded starts goroutine i.
OpenStream(k, i) ==
  /\ grpcSubscriptions[k] = Nil /\ listener[i] = Nil
  /\ grpcSubscriptions' = [grpcSubscriptions EXCEPT ![k] = [count |-> 1, identifier |-> i]]
  /\ listener' = [listener EXCEPT
                    ![i] = [call |-> k, pc |-> "listening", cancelled |-> FALSE]]

\* stopListenIfNeeded: one subscriber fewer ...
DiscountSubscriber(k) ==
  /\ grpcSubscriptions[k] # Nil /\ grpcSubscriptions[k].count - 1 # 0
  /\ grpcSubscriptions' = [grpcSubscriptions EXCEPT ![k].count = @ - 1]
  /\ UNCHANGED listener

\* ... or none left: cancel the context of the goroutine, forget the entry.
CancelStream(k) ==
  /\ grpcSubscriptions[k] # Nil /\ grpcSubscriptions[k].count - 1 = 0
  /\ grpcSubscriptions' = [grpcSubscriptions EXCEPT ![k] = Nil]
  /\ listener' = [listener EXCEPT ![grpcSubscriptions[k].identifier].cancelled = TRUE]

NoStream(k) == grpcSubscriptions[k] = Nil /\ UNCHANGED <<grpcSubscriptions, listener>>

-----------------------------------------------------------------------------
(* The handlers' calls, in the order of the code.                          *)

NextCall(s, k) == k \in todo[s] /\ \A j \in todo[s] : ~TouchedBefore(j, k)

StartListenIfNeeded(s, k) ==
  /\ sub[s] = "subscribing" /\ NextCall(s, k)
  /\ todo' = [todo EXCEPT ![s] = @ \ {k}]
  /\ CountSubscriber(k) \/ \E i \in Ids : OpenStream(k, i)
  /\ UNCHANGED <<connected, sub, ctx, hooked>>

StopListenIfNeeded(s, k) ==
  /\ sub[s] = "unsubscribing" /\ NextCall(s, k)
  /\ todo' = [todo EXCEPT ![s] = @ \ {k}]
  /\ DiscountSubscriber(k) \/ CancelStream(k) \/ NoStream(k)
  /\ UNCHANGED <<connected, sub, ctx, hooked>>

HandlerReturn(s) ==
  /\ todo[s] = {}
  /\ \/ sub[s] = "subscribing"   /\ sub' = [sub EXCEPT ![s] = "in"]
     \/ sub[s] = "unsubscribing" /\ sub' = [sub EXCEPT ![s] = "out"]
  /\ UNCHANGED <<connected, todo, grpcSubscriptions, listener, ctx, hooked>>

-----------------------------------------------------------------------------
(* The listener goroutine: listenFunc returns, then the entry is removed.  *)

Listening(i) == listener[i] # Nil /\ listener[i].pc = "listening"

Return(i) ==
  /\ listener' = [listener EXCEPT ![i].pc = "returned"]
  /\ UNCHANGED <<connected, sub, todo, grpcSubscriptions, hooked>>

\* Mutant: the stream's context does not derive from the worker's.
ListenerIgnoresCtx(i) ==
  /\ Listening(i) /\ listener[i].cancelled
  /\ Return(i) /\ UNCHANGED ctx

\* listenFunc notices that its context, or the worker's, is done.
ListenerCanceled(i) ==
  /\ Listening(i) /\ (listener[i].cancelled \/ ctx = "done")
  /\ Return(i) /\ UNCHANGED ctx

\* The node ends the stream, or it fails: the error is only logged.
ListenerFinished(i) ==
  /\ Listening(i) /\ listener[i].call \in MayEnd
  /\ Return(i) /\ UNCHANGED ctx

\* codes.Unavailable: SelfShutdown asks for the end of the whole component.
ListenerUnavailable(i) ==
  /\ Listening(i) /\ listener[i].call \in MayEnd
  /\ ctx' = IF ctx = "live" THEN "requested" ELSE ctx
  /\ Return(i)

\* Mutant: the identifiers are not compared.
RemoveAnyGRPCSubscription(i) ==
  /\ listener[i] # Nil /\ listener[i].pc = "returned"
  /\ grpcSubscriptions' = [grpcSubscriptions EXCEPT ![listener[i].call] = Nil]
  /\ listener' = [listener EXCEPT ![i] = Nil]
  /\ UNCHANGED <<connected, sub, todo, ctx, hooked>>

\* Only the entry of this goroutine is deleted, never its successor's.
RemoveGRPCSubscription(i) ==
  /\ listener[i] # Nil /\ listener[i].pc = "returned"
  /\ LET k    == listener[i].call
         mine == grpcSubscriptions[k] # Nil /\ grpcSubscriptions[k].identifier = i
     IN  grpcSubscriptions' = IF mine THEN [grpcSubscriptions EXCEPT ![k] = Nil]
                                      ELSE grpcSubscriptions
  /\ listener' = [listener EXCEPT ![i] = Nil]
  /\ UNCHANGED <<connected, sub, todo, ctx, hooked>>

-----------------------------------------------------------------------------
(* Shutdown: the worker's context ends, then Stop unhooks the handlers.    *)

RequestShutdown ==
  /\ ctx = "live" /\ ctx' = "requested"
  /\ UNCHANGED <<connected, sub, todo, grpcSubscriptions, listener, hooked>>

CtxDone ==
  /\ ctx = "requested" /\ ctx' = "done"
  /\ UNCHANGED <<connected, sub, todo, grpcSubscriptions, listener, hooked>>

\* A handler that already runs is not interrupted.
Stop ==
  /\ ctx = "done" /\ hooked /\ hooked' = FALSE
  /\ UNCHANGED <<connected, sub, todo, grpcSubscriptions, listener, ctx>>

-----------------------------------------------------------------------------
HandlerStep(s) ==
  \/ \E k \in GrpcCalls : StartListenIfNeeded(s, k) \/ StopListenIfNeeded(s, k)
  \/ HandlerReturn(s)

ClientStep ==
  \/ \E c \in Clients : Connect(c) \/ Disconnect(c)
  \/ \E s \in Sub : Subscribe(s) \/ Unsubscribe(s)

ListenerStep(i) ==
  \/ ListenerCanceled(i) \/ ListenerFinished(i) \/ ListenerUnavailable(i)
  \/ RemoveGRPCSubscription(i)

Next ==
  \/ ClientStep
  \/ \E s \in Sub : HandlerStep(s) \/ DropSubscription(s)
  \/ \E i \in Ids : ListenerStep(i)
  \/ RequestShutdown \/ CtxDone \/ Stop

\* Go runs every goroutine that can run; clients and the node owe nothing.
Fairness ==
  /\ \A s \in Sub : WF_vars(HandlerStep(s)) /\ WF_vars(DropSubscription(s))
  /\ \A i \in Ids : WF_vars(ListenerCanceled(i)) /\ WF_vars(RemoveGRPCSubscription(i))
  /\ WF_vars(CtxDone) /\ WF_vars(Stop)

Spec == Init /\ [][Next]_vars /\ Fairness
-----------------------------------------------------------------------------
(* What the server promises.                                               *)

\* The subscriptions that have asked for the stream of k and still count.
Holders(k) ==
  { s \in Sub : /\ k \in Starts[TopicOf(s)]
                /\ \/ sub[s] = "in"
                   \/ sub[s] = "subscribing"   /\ k \notin todo[s]
                   \/ sub[s] = "unsubscribing" /\ k \in todo[s] }

Count(k) == IF grpcSubscriptions[k] = Nil THEN 0 ELSE grpcSubscriptions[k].count

\* Subscribers of k the registry does not count.
Lost(k) == Cardinality(Holders(k)) - Count(k)

\* Every entry belongs to a goroutine that serves this call and was not
\* cancelled, and every goroutine that was not cancelled owns its call's
\* entry: no call has two streams that count, and no stream runs that
\* stopListenIfNeeded could not find.  This is what the identifier of
\* removeGRPCSubscription is for.
RegistryMatchesListeners ==
  /\ \A k \in GrpcCalls : grpcSubscriptions[k] # Nil =>
       LET l == listener[grpcSubscriptions[k].identifier]
       IN  l # Nil /\ l.call = k /\ ~l.cancelled
  /\ \A i \in Ids : listener[i] # Nil /\ ~listener[i].cancelled =>
       LET e == grpcSubscriptions[listener[i].call]
       IN  e # Nil /\ e.identifier = i

\* A registered stream has a subscriber, and never counts more of them than
\* there are, whatever the node does and whatever the topics are: streams do
\* not leak (startListenIfNeeded and stopListenIfNeeded).
CountWithinHolders ==
  \A k \in GrpcCalls : grpcSubscriptions[k] # Nil =>
    grpcSubscriptions[k].count \in 1 .. Cardinality(Holders(k))

\* The calls that can lose track of subscribers: the node may end their
\* stream, or some topic stops them that does not start them.
Unreliable == MayEnd \cup UNION { Stops[t] \ Starts[t] : t \in Topics }

\* While the component runs, the count of any other stream is the number of
\* its subscribers, so it runs exactly while somebody wants it.
CountsExact ==
  ctx # "done" =>
    \A k \in GrpcCalls \ Unreliable : Count(k) = Cardinality(Holders(k))

\* While the component runs, a stream is cancelled only when the last
\* subscriber has left, as the comment in stopListenIfNeeded says.
StopsOnlyWhenNoSubscribers ==
  [][ ctx # "done" => \A i \in Ids :
        LET cancelledNow == /\ listener[i] # Nil /\ ~listener[i].cancelled
                            /\ listener'[i] # Nil /\ listener'[i].cancelled
        IN  cancelledNow => Holders(listener[i].call)' = {} ]_vars

\* The registry loses track of subscribers in two ways only: the node ends a
\* stream that is in demand, or a topic is unsubscribed that never started
\* the stream it stops.
OnlyTwoWaysToLoseSubscribers ==
  [][ \A k \in GrpcCalls : Lost(k)' > Lost(k) =>
        \/ \E i \in Ids : /\ RemoveGRPCSubscription(i)
                          /\ listener[i].call = k /\ ~listener[i].cancelled
        \/ \E s \in Sub : /\ StopListenIfNeeded(s, k)
                          /\ k \notin Starts[TopicOf(s)] ]_vars

\* Seen from outside, the registry, its counts and the goroutines serve the
\* streams on demand.
Streams == INSTANCE DemandStreams WITH
  Calls   <- GrpcCalls,
  Subs    <- Sub,
  holders <- [k \in GrpcCalls |-> Holders(k)],
  open    <- [k \in GrpcCalls |-> grpcSubscriptions[k] # Nil],
  closing <- ctx = "done"

ServesStreamsOnDemand == Streams!DSpec

\* A stream nobody wants goes away: its goroutine ends, unless a subscriber
\* that needs it comes first.
UnwantedStreamsEnd ==
  \A k \in GrpcCalls :
    Holders(k) = {} ~> \/ Holders(k) # {}
                       \/ \A i \in Ids : listener[i] # Nil => listener[i].call # k

\* A requested shutdown, that of SelfShutdown included, ends with an empty
\* registry and without goroutines, although clients may still subscribe
\* between the end of the context and Stop.
ShutdownDrains ==
  ctx # "live" ~> [](/\ \A k \in GrpcCalls : grpcSubscriptions[k] = Nil
                     /\ \A i \in Ids : listener[i] = Nil)
=============================================================================
