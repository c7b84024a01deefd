----------------------- MODULE GrpcSubscriptionsProofs -----------------------
(***************************************************************************)
(* Proofs about GrpcSubscriptions for every set of connections, topics and *)
(* identifiers.                                                            *)
(***************************************************************************)
EXTENDS GrpcSubscriptions, FiniteSetTheorems, TLAPS

(* The routing of topics: what is stopped covers what was started.         *)
(* Unsubscribing a topic stops at least the streams that subscribing it    *)
(* starts, and both touch streams of the node only.                        *)
LEMMA StoppedCoversStarted ==
  ASSUME NEW t \in Topics
  PROVE  Starts[t] \subseteq Stops[t] /\ Stops[t] \subseteq GrpcCalls
<1>1. StartedBy(t) \subseteq StoppedBy(t)
  BY DEF StartedBy, StoppedBy
<1>2. StoppedBy(t) \subseteq GrpcCalls
  BY DEF StoppedBy, BothBlockStreams, StreamsOfExactTopic, GrpcCalls
<1>3. QED
  BY <1>1, <1>2 DEF Starts, Stops

LEMMA TopicOfSub == ASSUME NEW s \in Sub PROVE TopicOf(s) \in Topics
BY DEF Sub, TopicOf

-----------------------------------------------------------------------------
(* The registry and the goroutines, as every operation on them leaves      *)
(* them.  Neither half is preserved without the other: cancelling a stream *)
(* writes to the goroutine the entry names, so the entry has to name one.  *)
RegistryInv ==
  /\ grpcSubscriptions \in [GrpcCalls -> Entry \cup {Nil}]
  /\ listener \in [Ids -> Listener \cup {Nil}]
  /\ RegistryMatchesListeners

LEMMA CountSubscriberKeepsRegistry ==
  ASSUME RegistryInv, NEW k \in GrpcCalls, CountSubscriber(k) \/ DiscountSubscriber(k)
  PROVE  RegistryInv'
<1>1. PICK n \in Nat \ {0} :
        grpcSubscriptions' = [grpcSubscriptions EXCEPT ![k].count = n]
  <2>1. grpcSubscriptions[k] \in Entry
    BY DEF RegistryInv, CountSubscriber, DiscountSubscriber
  <2>2. grpcSubscriptions[k].count + 1 \in Nat \ {0}
    BY <2>1 DEF Entry
  <2>3. DiscountSubscriber(k) => grpcSubscriptions[k].count - 1 \in Nat \ {0}
    BY <2>1 DEF Entry, DiscountSubscriber
  <2>4. QED
    BY <2>2, <2>3 DEF CountSubscriber, DiscountSubscriber
<1>2. grpcSubscriptions[k] \in Entry /\ grpcSubscriptions[k] # Nil
  BY DEF RegistryInv, CountSubscriber, DiscountSubscriber
<1>3. grpcSubscriptions'[k] \in Entry
  BY <1>1, <1>2 DEF Entry, RegistryInv
<1>4. listener' = listener
  BY DEF CountSubscriber, DiscountSubscriber
<1>5. grpcSubscriptions'[k].identifier = grpcSubscriptions[k].identifier
  BY <1>1, <1>2 DEF Entry, RegistryInv
<1>6. \A j \in GrpcCalls \ {k} : grpcSubscriptions'[j] = grpcSubscriptions[j]
  BY <1>1 DEF RegistryInv
<1>7. grpcSubscriptions' \in [GrpcCalls -> Entry \cup {Nil}]
  BY <1>1, <1>3, <1>6 DEF RegistryInv
<1>8. grpcSubscriptions'[k] # Nil
  BY <1>3, NilAssumption
<1>9. RegistryMatchesListeners'
  BY <1>2, <1>4, <1>5, <1>6, <1>8 DEF RegistryInv, RegistryMatchesListeners, Listener
<1>10. QED
  BY <1>4, <1>7, <1>9 DEF RegistryInv

LEMMA OpenStreamKeepsRegistry ==
  ASSUME RegistryInv, NEW k \in GrpcCalls, NEW i \in Ids, OpenStream(k, i)
  PROVE  RegistryInv'
<1> DEFINE e == [count |-> 1, identifier |-> i]
           l == [call |-> k, pc |-> "listening", cancelled |-> FALSE]
<1>1. e \in Entry /\ l \in Listener /\ e # Nil /\ l # Nil
  <2>1. e \in Entry
    BY DEF Entry
  <2>2. l \in Listener
    BY DEF Listener
  <2>3. QED
    BY <2>1, <2>2, NilAssumption, Zenon
<1>2. grpcSubscriptions' = [grpcSubscriptions EXCEPT ![k] = e] /\ listener' = [listener EXCEPT ![i] = l]
  BY DEF OpenStream
<1>3. /\ e.identifier = i /\ l.call = k /\ l.cancelled = FALSE
  OBVIOUS
<1> HIDE DEF e, l
<1>4. /\ grpcSubscriptions' \in [GrpcCalls -> Entry \cup {Nil}]
      /\ listener' \in [Ids -> Listener \cup {Nil}]
  BY <1>1, <1>2 DEF RegistryInv
<1>5. RegistryMatchesListeners'
  <2>1. grpcSubscriptions[k] = Nil /\ listener[i] = Nil
    BY DEF OpenStream
  <2>2. ASSUME NEW j \in GrpcCalls, grpcSubscriptions'[j] # Nil
        PROVE  LET m == listener'[grpcSubscriptions'[j].identifier]
               IN  m # Nil /\ m.call = j /\ ~m.cancelled
    <3>1. CASE j = k
      BY <1>1, <1>2, <1>3, <3>1 DEF RegistryInv
    <3>2. CASE j # k
      <4>1. grpcSubscriptions'[j] = grpcSubscriptions[j] /\ grpcSubscriptions[j].identifier \in Ids
        BY <1>2, <2>2, <3>2 DEF RegistryInv, Entry
      <4>2. listener[grpcSubscriptions[j].identifier] # Nil
        BY <2>2, <4>1 DEF RegistryInv, RegistryMatchesListeners
      <4>3. listener'[grpcSubscriptions'[j].identifier] = listener[grpcSubscriptions[j].identifier]
        BY <1>2, <2>1, <4>1, <4>2 DEF RegistryInv
      <4>4. QED
        BY <2>2, <4>1, <4>3 DEF RegistryInv, RegistryMatchesListeners
    <3>3. QED
      BY <3>1, <3>2
  <2>3. ASSUME NEW j \in Ids, listener'[j] # Nil, ~listener'[j].cancelled
        PROVE  LET d == grpcSubscriptions'[listener'[j].call]
               IN  d # Nil /\ d.identifier = j
    <3>1. CASE j = i
      BY <1>1, <1>2, <1>3, <3>1 DEF RegistryInv
    <3>2. CASE j # i
      <4>1. listener'[j] = listener[j] /\ listener[j].call \in GrpcCalls
        BY <1>2, <2>3, <3>2 DEF RegistryInv, Listener
      <4>2. grpcSubscriptions[listener[j].call] # Nil
        BY <2>3, <4>1 DEF RegistryInv, RegistryMatchesListeners
      <4>3. grpcSubscriptions'[listener'[j].call] = grpcSubscriptions[listener[j].call]
        BY <1>2, <2>1, <4>1, <4>2 DEF RegistryInv
      <4>4. QED
        BY <2>3, <4>1, <4>3 DEF RegistryInv, RegistryMatchesListeners
    <3>3. QED
      BY <3>1, <3>2
  <2>4. QED
    BY <2>2, <2>3 DEF RegistryMatchesListeners
<1>6. QED
  BY <1>4, <1>5 DEF RegistryInv

LEMMA CancelStreamKeepsRegistry ==
  ASSUME RegistryInv, NEW k \in GrpcCalls, CancelStream(k)
  PROVE  RegistryInv'
<1> DEFINE i == grpcSubscriptions[k].identifier
<1>1. i \in Ids /\ listener[i] \in Listener /\ listener[i] # Nil /\ listener[i].call = k
  BY DEF RegistryInv, RegistryMatchesListeners, CancelStream, Entry
<1>2. /\ grpcSubscriptions' = [grpcSubscriptions EXCEPT ![k] = Nil]
      /\ listener' = [listener EXCEPT ![i].cancelled = TRUE]
  BY DEF CancelStream
<1>3. i = grpcSubscriptions[k].identifier
  OBVIOUS
<1> HIDE DEF i
<1>4. listener'[i] \in Listener /\ listener'[i].call = k /\ listener'[i].cancelled
  BY <1>1, <1>2 DEF RegistryInv, Listener
<1>5. \A j \in Ids \ {i} : listener'[j] = listener[j]
  BY <1>1, <1>2 DEF RegistryInv
<1>6. /\ grpcSubscriptions' \in [GrpcCalls -> Entry \cup {Nil}]
      /\ listener' \in [Ids -> Listener \cup {Nil}]
  BY <1>1, <1>2, <1>4, <1>5 DEF RegistryInv
<1>7. RegistryMatchesListeners'
  <2>1. ASSUME NEW j \in GrpcCalls, grpcSubscriptions'[j] # Nil
        PROVE  LET m == listener'[grpcSubscriptions'[j].identifier]
               IN  m # Nil /\ m.call = j /\ ~m.cancelled
    <3>1. j # k /\ grpcSubscriptions'[j] = grpcSubscriptions[j]
      BY <1>2, <2>1 DEF RegistryInv
    <3>2. grpcSubscriptions[j].identifier \in Ids /\ listener[grpcSubscriptions[j].identifier].call = j
      BY <2>1, <3>1 DEF RegistryInv, RegistryMatchesListeners, Entry
    <3>3. grpcSubscriptions[j].identifier # i
      BY <1>1, <3>1, <3>2
    <3>4. QED
      BY <1>5, <2>1, <3>1, <3>2, <3>3 DEF RegistryInv, RegistryMatchesListeners
  <2>2. ASSUME NEW j \in Ids, listener'[j] # Nil, ~listener'[j].cancelled
        PROVE  LET d == grpcSubscriptions'[listener'[j].call]
               IN  d # Nil /\ d.identifier = j
    <3>1. j # i /\ listener'[j] = listener[j] /\ listener[j].call \in GrpcCalls
      BY <1>4, <1>5, <2>2 DEF RegistryInv, Listener
    <3>2. grpcSubscriptions[listener[j].call] # Nil /\ grpcSubscriptions[listener[j].call].identifier = j
      BY <2>2, <3>1 DEF RegistryInv, RegistryMatchesListeners
    <3>3. listener[j].call # k
      BY <1>3, <3>1, <3>2
    <3>4. QED
      BY <1>2, <3>1, <3>2, <3>3 DEF RegistryInv
  <2>3. QED
    BY <2>1, <2>2 DEF RegistryMatchesListeners
<1>8. QED
  BY <1>6, <1>7 DEF RegistryInv

LEMMA ReturnKeepsRegistry ==
  ASSUME RegistryInv, NEW i \in Ids, Listening(i), Return(i)
  PROVE  RegistryInv'
<1>1. listener[i] \in Listener /\ listener[i] # Nil
  BY DEF RegistryInv, Listening
<1>2. /\ listener' = [listener EXCEPT ![i].pc = "returned"]
      /\ grpcSubscriptions' = grpcSubscriptions
  BY DEF Return
<1>3. /\ listener'[i] \in Listener /\ listener'[i] # Nil
      /\ listener'[i].call = listener[i].call /\ listener'[i].cancelled = listener[i].cancelled
  <2>1. /\ listener'[i] \in Listener
        /\ listener'[i].call = listener[i].call /\ listener'[i].cancelled = listener[i].cancelled
    BY <1>1, <1>2 DEF RegistryInv, Listener
  <2>2. QED
    BY <2>1, NilAssumption
<1>4. \A j \in Ids \ {i} : listener'[j] = listener[j]
  BY <1>1, <1>2 DEF RegistryInv
<1>5. listener' \in [Ids -> Listener \cup {Nil}]
  BY <1>1, <1>2, <1>3, <1>4 DEF RegistryInv
<1>6. RegistryMatchesListeners'
  BY <1>1, <1>2, <1>3, <1>4 DEF RegistryInv, RegistryMatchesListeners, Entry
<1>7. QED
  BY <1>2, <1>5, <1>6 DEF RegistryInv

(* The identifier check is what this lemma rests on: without it the entry  *)
(* of a successor would go, and its goroutine stay.                        *)
LEMMA RemovalKeepsRegistry ==
  ASSUME RegistryInv, NEW i \in Ids, RemoveGRPCSubscription(i)
  PROVE  RegistryInv'
<1> DEFINE k == listener[i].call
           mine == grpcSubscriptions[k] # Nil /\ grpcSubscriptions[k].identifier = i
<1>1. k \in GrpcCalls /\ listener[i] # Nil
  BY DEF RegistryInv, RemoveGRPCSubscription, Listener
<1>2. /\ listener' = [listener EXCEPT ![i] = Nil]
      /\ mine  => grpcSubscriptions' = [grpcSubscriptions EXCEPT ![k] = Nil]
      /\ ~mine => grpcSubscriptions' = grpcSubscriptions
  BY DEF RemoveGRPCSubscription
<1>3. /\ grpcSubscriptions' \in [GrpcCalls -> Entry \cup {Nil}]
      /\ listener' \in [Ids -> Listener \cup {Nil}]
  BY <1>1, <1>2 DEF RegistryInv
<1>4. ASSUME NEW j \in GrpcCalls, grpcSubscriptions'[j] # Nil
      PROVE  /\ grpcSubscriptions'[j] = grpcSubscriptions[j]
             /\ grpcSubscriptions[j].identifier \in Ids \ {i}
  <2>1. grpcSubscriptions'[j] = grpcSubscriptions[j] /\ grpcSubscriptions[j].identifier \in Ids
    BY <1>1, <1>2, <1>4 DEF RegistryInv, Entry
  <2>2. ASSUME grpcSubscriptions[j].identifier = i PROVE FALSE
    <3>1. listener[i].call = j
      BY <1>4, <2>1, <2>2 DEF RegistryInv, RegistryMatchesListeners
    <3>2. mine
      BY <1>4, <2>1, <2>2, <3>1
    <3>3. QED
      BY <1>2, <1>4, <3>1, <3>2 DEF RegistryInv
  <2>3. QED
    BY <2>1, <2>2
<1>5. ASSUME NEW j \in Ids, listener'[j] # Nil, ~listener'[j].cancelled
      PROVE  LET d == grpcSubscriptions'[listener'[j].call]
             IN  d # Nil /\ d.identifier = j
  <2>1. j # i /\ listener'[j] = listener[j] /\ listener[j].call \in GrpcCalls
    BY <1>2, <1>5 DEF RegistryInv, Listener
  <2>2. grpcSubscriptions[listener[j].call] # Nil /\ grpcSubscriptions[listener[j].call].identifier = j
    BY <1>5, <2>1 DEF RegistryInv, RegistryMatchesListeners
  <2>3. mine => listener[j].call # k
    BY <2>1, <2>2
  <2>4. QED
    BY <1>1, <1>2, <2>1, <2>2, <2>3 DEF RegistryInv
<1>6. RegistryMatchesListeners'
  <2>1. ASSUME NEW j \in GrpcCalls, grpcSubscriptions'[j] # Nil
        PROVE  LET m == listener'[grpcSubscriptions'[j].identifier]
               IN  m # Nil /\ m.call = j /\ ~m.cancelled
    BY <1>2, <1>4, <2>1 DEF RegistryInv, RegistryMatchesListeners
  <2>2. QED
    BY <2>1, <1>5 DEF RegistryMatchesListeners
<1>7. QED
  BY <1>3, <1>6 DEF RegistryInv

-----------------------------------------------------------------------------
(* Every reachable state is well typed, and the registry and the listener  *)
(* goroutines name each other.                                             *)
TypedRegistry == TypeOK /\ RegistryMatchesListeners

LEMMA TypedRegistryInductive == TypedRegistry /\ [Next]_vars => TypedRegistry'
<1> SUFFICES ASSUME TypedRegistry, [Next]_vars PROVE TypedRegistry'
  OBVIOUS
<1>1. RegistryInv
  BY DEF TypedRegistry, TypeOK, RegistryInv
<1> DEFINE Others == /\ connected' \in SUBSET Clients
                     /\ sub' \in [Sub -> {"out", "subscribing", "in", "unsubscribing"}]
                     /\ todo' \in [Sub -> SUBSET GrpcCalls]
                     /\ ctx' \in {"live", "requested", "done"}
                     /\ hooked' \in BOOLEAN
           Quiet  == UNCHANGED <<grpcSubscriptions, listener>>
<1>2. Quiet => RegistryInv'
  BY <1>1 DEF RegistryInv, RegistryMatchesListeners
<1>3. ASSUME Others, RegistryInv' PROVE TypedRegistry'
  BY <1>3 DEF TypedRegistry, TypeOK, RegistryInv
<1> USE DEF TypedRegistry, TypeOK
<1>4. ASSUME NEW c \in Clients, Connect(c) \/ Disconnect(c) PROVE Others /\ Quiet
  BY <1>4 DEF Connect, Disconnect
<1>5. ASSUME NEW s \in Sub, Subscribe(s) \/ BeginUnsubscribe(s) PROVE Others /\ Quiet
  BY <1>5, TopicOfSub, StoppedCoversStarted DEF Subscribe, BeginUnsubscribe
<1>6. ASSUME NEW s \in Sub, NEW k \in GrpcCalls, StartListenIfNeeded(s, k)
      PROVE  Others /\ RegistryInv'
  BY <1>1, <1>6, CountSubscriberKeepsRegistry, OpenStreamKeepsRegistry DEF StartListenIfNeeded
<1>7. ASSUME NEW s \in Sub, NEW k \in GrpcCalls, StopListenIfNeeded(s, k)
      PROVE  Others /\ RegistryInv'
  BY <1>1, <1>2, <1>7, CountSubscriberKeepsRegistry, CancelStreamKeepsRegistry
     DEF StopListenIfNeeded, NoStream
<1>8. ASSUME NEW s \in Sub, HandlerReturn(s) PROVE Others /\ Quiet
  BY <1>8 DEF HandlerReturn
<1>9. ASSUME NEW i \in Ids, ListenerStep(i) PROVE Others /\ RegistryInv'
  <2>1. CASE RemoveGRPCSubscription(i)
    BY <1>1, <2>1, RemovalKeepsRegistry DEF RemoveGRPCSubscription
  <2>2. CASE ~RemoveGRPCSubscription(i)
    <3>1. Listening(i) /\ Return(i)
      BY <1>9, <2>2 DEF ListenerStep, ListenerCanceled, ListenerFinished, ListenerUnavailable
    <3>2. ctx' \in {"live", "requested", "done"}
      BY <1>9, <2>2 DEF ListenerStep, ListenerCanceled, ListenerFinished, ListenerUnavailable
    <3>3. QED
      BY <1>1, <3>1, <3>2, ReturnKeepsRegistry DEF Return
  <2>3. QED
    BY <2>1, <2>2
<1>10. ASSUME RequestShutdown \/ CtxDone \/ Stop \/ UNCHANGED vars PROVE Others /\ Quiet
  BY <1>10 DEF RequestShutdown, CtxDone, Stop, vars
<1>11. QED
  BY <1>2, <1>3, <1>4, <1>5, <1>6, <1>7, <1>8, <1>9, <1>10
     DEF Next, ClientStep, HandlerStep, Unsubscribe, DropSubscription

LEMMA TypedRegistryHolds == Spec => []TypedRegistry
<1>1. Init => TypedRegistry
  BY DEF Init, TypedRegistry, TypeOK, RegistryMatchesListeners
<1>2. QED
  BY <1>1, TypedRegistryInductive, PTL DEF Spec

(* Every reachable state is well typed: a running handler only has streams *)
(* of the node left to touch, an entry of the registry counts at least one *)
(* subscriber, and a cancelled goroutine is one that exists.               *)
THEOREM TypeCorrect == Spec => []TypeOK
BY TypedRegistryHolds, PTL DEF TypedRegistry

(* For every set of connections, topics and failing streams, the registry  *)
(* of server.go and its listener goroutines match one to one: no stream    *)
(* runs that stopListenIfNeeded could not find, and none runs twice.       *)
THEOREM RegistryIsExact == Spec => []RegistryMatchesListeners
BY TypedRegistryHolds, PTL DEF TypedRegistry

-----------------------------------------------------------------------------
(* The counts of the registry against the subscriptions that exist.        *)


(* What a handler still has to touch is part of what its topic touches.    *)
HandlerInv ==
  \A s \in Sub :
    /\ sub[s] = "subscribing"   => todo[s] \subseteq Starts[TopicOf(s)]
    /\ sub[s] = "unsubscribing" => todo[s] \subseteq Stops[TopicOf(s)]
    /\ sub[s] \in {"in", "out"} => todo[s] = {}

(* A goroutine that returned without being cancelled is one that may.      *)
ReturnInv ==
  \A i \in Ids :
    listener[i] # Nil /\ listener[i].pc = "returned" /\ ~listener[i].cancelled =>
      listener[i].call \in MayEnd \/ ctx = "done"

LEMMA HoldersFinite ==
  ASSUME NEW k
  PROVE  /\ IsFiniteSet(Holders(k)) /\ Cardinality(Holders(k)) \in Nat
         /\ IsFiniteSet(Holders(k)') /\ Cardinality(Holders(k)') \in Nat
<1>1. Holders(k) \in SUBSET Sub /\ Holders(k)' \in SUBSET Sub
  BY DEF Holders
<1>2. IsFiniteSet(Holders(k)) /\ IsFiniteSet(Holders(k)')
  BY <1>1, SubAssumption, FS_Subset
<1>3. QED
  BY <1>2, FS_CardinalityType

(* A handler's call for stream k changes the holders of k by its own       *)
(* subscription, if its topic starts k, and those of no other stream.      *)
LEMMA HoldersAfterCall ==
  ASSUME TypeOK, HandlerInv, NEW s \in Sub, NEW k \in GrpcCalls, k \in todo[s],
         todo' = [todo EXCEPT ![s] = @ \ {k}], UNCHANGED sub
  PROVE  /\ \A j \in GrpcCalls \ {k} : Holders(j)' = Holders(j)
         /\ sub[s] = "subscribing" => s \notin Holders(k) /\ Holders(k)' = Holders(k) \cup {s}
         /\ sub[s] = "unsubscribing" /\ k \in Starts[TopicOf(s)] =>
              s \in Holders(k) /\ Holders(k)' = Holders(k) \ {s}
         /\ sub[s] = "unsubscribing" /\ k \notin Starts[TopicOf(s)] => Holders(k)' = Holders(k)
<1>1. /\ \A r \in Sub \ {s} : todo'[r] = todo[r]
      /\ todo'[s] = todo[s] \ {k}
  BY DEF TypeOK
<1>2. \A j \in GrpcCalls \ {k} : Holders(j)' = Holders(j)
  BY <1>1 DEF Holders
<1>3. ASSUME sub[s] = "subscribing"
      PROVE  s \notin Holders(k) /\ Holders(k)' = Holders(k) \cup {s}
  <2>1. k \in Starts[TopicOf(s)]
    BY <1>3 DEF HandlerInv
  <2>2. QED
    BY <1>1, <1>3, <2>1 DEF Holders
<1>4. ASSUME sub[s] = "unsubscribing", k \in Starts[TopicOf(s)]
      PROVE  s \in Holders(k) /\ Holders(k)' = Holders(k) \ {s}
  BY <1>1, <1>4 DEF Holders
<1>5. ASSUME sub[s] = "unsubscribing", k \notin Starts[TopicOf(s)]
      PROVE  Holders(k)' = Holders(k)
  BY <1>1, <1>5 DEF Holders
<1>6. QED
  BY <1>2, <1>3, <1>4, <1>5

(* No other step changes who holds a stream.                               *)
LEMMA HoldersOtherwise ==
  ASSUME TypeOK, HandlerInv, NEW k \in GrpcCalls,
         \/ \E s \in Sub : Subscribe(s) \/ BeginUnsubscribe(s) \/ HandlerReturn(s)
         \/ UNCHANGED <<sub, todo>>
  PROVE  Holders(k)' = Holders(k)
<1>1. ASSUME NEW s \in Sub, Subscribe(s) PROVE Holders(k)' = Holders(k)
  BY <1>1, TopicOfSub DEF Subscribe, Holders, TypeOK, Starts
<1>2. ASSUME NEW s \in Sub, BeginUnsubscribe(s) PROVE Holders(k)' = Holders(k)
  <2>1. Starts[TopicOf(s)] \subseteq Stops[TopicOf(s)]
    BY TopicOfSub, StoppedCoversStarted
  <2>2. QED
    BY <1>2, <2>1 DEF BeginUnsubscribe, Holders, TypeOK
<1>3. ASSUME NEW s \in Sub, HandlerReturn(s) PROVE Holders(k)' = Holders(k)
  BY <1>3 DEF HandlerReturn, Holders, TypeOK
<1>4. CASE UNCHANGED <<sub, todo>>
  BY <1>4 DEF Holders
<1>5. QED
  BY <1>1, <1>2, <1>3, <1>4

-----------------------------------------------------------------------------
LEMMA HandlerInvInductive == TypeOK /\ HandlerInv /\ [Next]_vars => HandlerInv'
<1> SUFFICES ASSUME TypeOK, HandlerInv, [Next]_vars PROVE HandlerInv'
  OBVIOUS
<1> USE DEF TypeOK
<1>1. ASSUME NEW s \in Sub, Subscribe(s) PROVE HandlerInv'
  BY <1>1 DEF Subscribe, HandlerInv
<1>2. ASSUME NEW s \in Sub, BeginUnsubscribe(s) PROVE HandlerInv'
  BY <1>2 DEF BeginUnsubscribe, HandlerInv
<1>3. ASSUME NEW s \in Sub, NEW k \in GrpcCalls,
             StartListenIfNeeded(s, k) \/ StopListenIfNeeded(s, k)
      PROVE  HandlerInv'
  BY <1>3 DEF StartListenIfNeeded, StopListenIfNeeded, HandlerInv
<1>4. ASSUME NEW s \in Sub, HandlerReturn(s) PROVE HandlerInv'
  BY <1>4 DEF HandlerReturn, HandlerInv
<1>5. CASE UNCHANGED <<sub, todo>>
  BY <1>5 DEF HandlerInv
<1>6. QED
  BY <1>1, <1>2, <1>3, <1>4, <1>5
     DEF Next, ClientStep, HandlerStep, ListenerStep, Unsubscribe, DropSubscription, vars,
         Connect, Disconnect, ListenerCanceled, ListenerFinished, ListenerUnavailable, Return,
         RemoveGRPCSubscription, RequestShutdown, CtxDone, Stop

LEMMA ReturnInvInductive == TypedRegistry /\ ReturnInv /\ [Next]_vars => ReturnInv'
<1> SUFFICES ASSUME TypedRegistry, ReturnInv, [Next]_vars,
                    NEW i \in Ids, listener'[i] # Nil,
                    listener'[i].pc = "returned", ~listener'[i].cancelled
             PROVE  listener'[i].call \in MayEnd \/ ctx' = "done"
  BY DEF ReturnInv
<1>1. listener \in [Ids -> Listener \cup {Nil}] /\ grpcSubscriptions \in [GrpcCalls -> Entry \cup {Nil}]
  BY DEF TypedRegistry, TypeOK
<1>2. ASSUME UNCHANGED listener, ctx = "done" => ctx' = "done"
      PROVE  listener'[i].call \in MayEnd \/ ctx' = "done"
  BY <1>2 DEF ReturnInv
<1>3. ASSUME NEW k \in GrpcCalls, NEW j \in Ids, OpenStream(k, j), UNCHANGED ctx
      PROVE  listener'[i].call \in MayEnd \/ ctx' = "done"
  BY <1>1, <1>3 DEF OpenStream, ReturnInv
<1>4. ASSUME NEW k \in GrpcCalls, CancelStream(k), UNCHANGED ctx
      PROVE  listener'[i].call \in MayEnd \/ ctx' = "done"
  <2>1. /\ grpcSubscriptions[k].identifier \in Ids
        /\ listener[grpcSubscriptions[k].identifier] \in Listener
    BY <1>1, <1>4 DEF TypedRegistry, RegistryMatchesListeners, CancelStream, Entry
  <2>2. i # grpcSubscriptions[k].identifier
    BY <1>1, <1>4, <2>1 DEF CancelStream, Listener
  <2>3. listener'[i] = listener[i]
    BY <1>1, <1>4, <2>1, <2>2 DEF CancelStream
  <2>4. QED
    BY <1>4, <2>3 DEF ReturnInv
<1>5. ASSUME NEW j \in Ids, ListenerCanceled(j) \/ ListenerFinished(j) \/ ListenerUnavailable(j)
      PROVE  listener'[i].call \in MayEnd \/ ctx' = "done"
  <2>1. Listening(j) /\ Return(j) /\ (ctx = "done" => ctx' = "done")
    BY <1>5 DEF ListenerCanceled, ListenerFinished, ListenerUnavailable
  <2>2. CASE i # j
    BY <1>1, <2>1, <2>2 DEF Return, ReturnInv
  <2>3. CASE i = j
    <3>1. listener[i] \in Listener
      BY <1>1, <2>1, <2>3 DEF Listening
    <3>2. listener'[i].call = listener[i].call /\ listener'[i].cancelled = listener[i].cancelled
      BY <1>1, <2>1, <2>3, <3>1 DEF Return, Listener
    <3>3. QED
      BY <1>5, <2>1, <2>3, <3>2 DEF ListenerCanceled, ListenerFinished, ListenerUnavailable
  <2>4. QED
    BY <2>2, <2>3
<1>6. ASSUME NEW j \in Ids, RemoveGRPCSubscription(j)
      PROVE  listener'[i].call \in MayEnd \/ ctx' = "done"
  BY <1>1, <1>6 DEF RemoveGRPCSubscription, ReturnInv
<1>7. QED
  BY <1>2, <1>3, <1>4, <1>5, <1>6
     DEF Next, ClientStep, HandlerStep, ListenerStep, Unsubscribe, DropSubscription, vars,
         Connect, Disconnect, Subscribe, BeginUnsubscribe, HandlerReturn,
         StartListenIfNeeded, StopListenIfNeeded, CountSubscriber, DiscountSubscriber, NoStream,
         RequestShutdown, CtxDone, Stop

-----------------------------------------------------------------------------
(* What the two count invariants say of one call.                          *)
Counted(k) ==
  /\ grpcSubscriptions[k] # Nil =>
       grpcSubscriptions[k].count \in 1 .. Cardinality(Holders(k))
  /\ ctx # "done" /\ k \notin Unreliable => Count(k) = Cardinality(Holders(k))

CountInv == TypedRegistry /\ HandlerInv /\ ReturnInv /\ \A k \in GrpcCalls : Counted(k)

LEMMA CountedUnchanged ==
  ASSUME NEW k, Counted(k), Holders(k)' = Holders(k),
         grpcSubscriptions'[k] = grpcSubscriptions[k], ctx = "done" => ctx' = "done"
  PROVE  Counted(k)'
BY DEF Counted, Count

LEMMA StartKeepsCounts ==
  ASSUME CountInv, NEW s \in Sub, NEW k \in GrpcCalls, StartListenIfNeeded(s, k), NEW j \in GrpcCalls
  PROVE  Counted(j)'
<1>1. /\ \A l \in GrpcCalls \ {k} : Holders(l)' = Holders(l)
      /\ s \notin Holders(k) /\ Holders(k)' = Holders(k) \cup {s}
  BY HoldersAfterCall DEF CountInv, TypedRegistry, StartListenIfNeeded, NextCall
<1>2. /\ Cardinality(Holders(k)) \in Nat
      /\ Cardinality(Holders(k)') = Cardinality(Holders(k)) + 1
  BY <1>1, HoldersFinite, FS_AddElement
<1>3. Counted(k)
  BY DEF CountInv
<1>4. grpcSubscriptions \in [GrpcCalls -> Entry \cup {Nil}]
  BY DEF CountInv, TypedRegistry, TypeOK
<1>5. CASE j # k
  BY <1>1, <1>4, <1>5, CountedUnchanged
     DEF CountInv, StartListenIfNeeded, CountSubscriber, OpenStream
<1>6. CASE j = k /\ CountSubscriber(k)
  <2>1. grpcSubscriptions[k] # Nil /\ grpcSubscriptions[k] \in Entry
    BY <1>4, <1>6 DEF CountSubscriber
  <2>2. grpcSubscriptions'[k] \in Entry /\ grpcSubscriptions'[k].count = grpcSubscriptions[k].count + 1
    BY <1>4, <1>6, <2>1 DEF CountSubscriber, Entry
  <2>3. grpcSubscriptions'[k] # Nil
    BY <2>2, NilAssumption
  <2>4. QED
    BY <1>2, <1>3, <1>6, <2>1, <2>2, <2>3 DEF Counted, Count, Entry, StartListenIfNeeded
<1>7. CASE j = k /\ ~CountSubscriber(k)
  <2>1. PICK i \in Ids : OpenStream(k, i)
    BY <1>7 DEF StartListenIfNeeded
  <2>2. grpcSubscriptions[k] = Nil
    BY <2>1 DEF OpenStream
  <2>3. grpcSubscriptions'[k] = [count |-> 1, identifier |-> i] /\ grpcSubscriptions'[k] \in Entry
    BY <1>4, <2>1 DEF OpenStream, Entry
  <2>4. grpcSubscriptions'[k] # Nil /\ grpcSubscriptions'[k].count = 1
    BY <2>3, NilAssumption
  <2>5. QED
    BY <1>2, <1>3, <1>7, <2>2, <2>4 DEF Counted, Count, StartListenIfNeeded
<1>8. QED
  BY <1>5, <1>6, <1>7

(* A call that stops what its topic never started is an unreliable one.    *)
LEMMA StopsWithoutStart ==
  ASSUME TypeOK, HandlerInv, NEW s \in Sub, sub[s] = "unsubscribing", NEW k \in todo[s],
         k \notin Starts[TopicOf(s)]
  PROVE  k \in Unreliable
BY TopicOfSub DEF HandlerInv, Unreliable

LEMMA StopKeepsCounts ==
  ASSUME CountInv, NEW s \in Sub, NEW k \in GrpcCalls, StopListenIfNeeded(s, k), NEW j \in GrpcCalls
  PROVE  Counted(j)'
<1>1. /\ \A l \in GrpcCalls \ {k} : Holders(l)' = Holders(l)
      /\ \/ s \in Holders(k) /\ Holders(k)' = Holders(k) \ {s}
         \/ k \in Unreliable /\ Holders(k)' = Holders(k)
  BY HoldersAfterCall, StopsWithoutStart DEF CountInv, TypedRegistry, StopListenIfNeeded, NextCall
<1>2. /\ Cardinality(Holders(k)) \in Nat
      /\ \/ Cardinality(Holders(k)') = Cardinality(Holders(k)) - 1 /\ Cardinality(Holders(k)) > 0
         \/ k \in Unreliable /\ Cardinality(Holders(k)') = Cardinality(Holders(k))
  BY <1>1, HoldersFinite, FS_RemoveElement, FS_EmptySet
<1>3. Counted(k)
  BY DEF CountInv
<1>4. grpcSubscriptions \in [GrpcCalls -> Entry \cup {Nil}]
  BY DEF CountInv, TypedRegistry, TypeOK
<1>5. CASE j # k
  BY <1>1, <1>4, <1>5, CountedUnchanged
     DEF CountInv, StopListenIfNeeded, DiscountSubscriber, CancelStream, NoStream
<1>6. CASE j = k /\ DiscountSubscriber(k)
  <2>1. grpcSubscriptions[k] # Nil /\ grpcSubscriptions[k] \in Entry /\ grpcSubscriptions[k].count > 1
    BY <1>4, <1>6 DEF DiscountSubscriber, Entry
  <2>2. grpcSubscriptions'[k] \in Entry /\ grpcSubscriptions'[k].count = grpcSubscriptions[k].count - 1
    BY <1>4, <1>6, <2>1 DEF DiscountSubscriber, Entry
  <2>3. grpcSubscriptions'[k] # Nil
    BY <2>2, NilAssumption
  <2>4. QED
    BY <1>2, <1>3, <1>6, <2>1, <2>2, <2>3 DEF Counted, Count, Entry, StopListenIfNeeded, Unreliable
<1>7. CASE j = k /\ CancelStream(k)
  <2>1. grpcSubscriptions[k] # Nil /\ grpcSubscriptions[k] \in Entry /\ grpcSubscriptions[k].count = 1
    BY <1>4, <1>7 DEF CancelStream, Entry
  <2>2. grpcSubscriptions'[k] = Nil
    BY <1>4, <1>7 DEF CancelStream
  <2>3. QED
    BY <1>2, <1>3, <1>7, <2>1, <2>2 DEF Counted, Count, StopListenIfNeeded, Unreliable
<1>8. CASE j = k /\ NoStream(k)
  BY <1>2, <1>3, <1>8 DEF Counted, Count, NoStream, StopListenIfNeeded, Unreliable
<1>9. QED
  BY <1>5, <1>6, <1>7, <1>8 DEF StopListenIfNeeded

LEMMA RemovalKeepsCounts ==
  ASSUME CountInv, NEW i \in Ids, RemoveGRPCSubscription(i), NEW j \in GrpcCalls
  PROVE  Counted(j)'
<1>1. Counted(j) /\ Holders(j)' = Holders(j)
  BY HoldersOtherwise DEF CountInv, TypedRegistry, RemoveGRPCSubscription
<1>2. ctx' = ctx
  BY DEF RemoveGRPCSubscription
<1>3. CASE grpcSubscriptions'[j] = grpcSubscriptions[j]
  BY <1>1, <1>2, <1>3, CountedUnchanged
<1>4. CASE grpcSubscriptions'[j] # grpcSubscriptions[j]
  <2>1. /\ grpcSubscriptions[j] # Nil /\ grpcSubscriptions[j].identifier = i
        /\ listener[i].call = j /\ grpcSubscriptions'[j] = Nil
    BY <1>4 DEF RemoveGRPCSubscription, CountInv, TypedRegistry, TypeOK
  <2>2. ~listener[i].cancelled /\ listener[i] # Nil /\ listener[i].pc = "returned"
    BY <2>1 DEF CountInv, TypedRegistry, RegistryMatchesListeners, RemoveGRPCSubscription
  <2>3. j \in MayEnd \/ ctx = "done"
    BY <2>1, <2>2 DEF CountInv, ReturnInv
  <2>4. QED
    BY <1>2, <2>1, <2>3 DEF Counted, Unreliable
<1>5. QED
  BY <1>3, <1>4

LEMMA CountInvInductive == CountInv /\ [Next]_vars => CountInv'
<1> SUFFICES ASSUME CountInv, [Next]_vars PROVE CountInv'
  OBVIOUS
<1>1. TypedRegistry' /\ HandlerInv' /\ ReturnInv'
  BY TypedRegistryInductive, HandlerInvInductive, ReturnInvInductive DEF CountInv, TypedRegistry
<1> SUFFICES ASSUME NEW j \in GrpcCalls PROVE Counted(j)'
  BY <1>1 DEF CountInv
<1>2. CASE \E s \in Sub, k \in GrpcCalls : StartListenIfNeeded(s, k) \/ StopListenIfNeeded(s, k)
  BY <1>2, StartKeepsCounts, StopKeepsCounts
<1>3. CASE \E i \in Ids : RemoveGRPCSubscription(i)
  BY <1>3, RemovalKeepsCounts
<1>4. ASSUME grpcSubscriptions' = grpcSubscriptions, ctx = "done" => ctx' = "done",
             \/ \E s \in Sub : Subscribe(s) \/ BeginUnsubscribe(s) \/ HandlerReturn(s)
             \/ UNCHANGED <<sub, todo>>
      PROVE  Counted(j)'
  BY <1>4, HoldersOtherwise, CountedUnchanged DEF CountInv, TypedRegistry
<1>5. QED
  BY <1>2, <1>3, <1>4
     DEF Next, ClientStep, HandlerStep, ListenerStep, Unsubscribe, DropSubscription, vars,
         Connect, Disconnect, Subscribe, BeginUnsubscribe, HandlerReturn,
         ListenerCanceled, ListenerFinished, ListenerUnavailable, Return,
         RequestShutdown, CtxDone, Stop

LEMMA CountInvHolds == Spec => []CountInv
<1>1. Init => CountInv
  <2>1. Init => TypedRegistry /\ HandlerInv /\ ReturnInv
    BY DEF Init, TypedRegistry, TypeOK, RegistryMatchesListeners, HandlerInv, ReturnInv
  <2>2. ASSUME Init, NEW k \in GrpcCalls PROVE Counted(k)
    <3>1. Holders(k) = {}
      BY <2>2 DEF Init, Holders
    <3>2. QED
      BY <2>2, <3>1, FS_EmptySet DEF Init, Counted, Count
  <2>3. QED
    BY <2>1, <2>2 DEF CountInv
<1>2. QED
  BY <1>1, CountInvInductive, PTL DEF Spec

(* Streams do not leak: whatever ends them and whatever topics are used,   *)
(* a registered stream of server.go has at least as many subscribers as it *)
(* counts, and counts at least one.                                        *)
THEOREM NoStreamWithoutSubscriber == Spec => []CountWithinHolders
<1>1. CountInv => CountWithinHolders
  BY DEF CountInv, Counted, CountWithinHolders
<1>2. QED
  BY <1>1, CountInvHolds, PTL

(* Until the component's context ends, startListenIfNeeded and             *)
(* stopListenIfNeeded count exactly, for each call whose stream the node   *)
(* does not end and that no topic stops without starting it.               *)
THEOREM ReliableStreamsCountExactly == Spec => []CountsExact
<1>1. CountInv => CountsExact
  BY DEF CountInv, Counted, CountsExact
<1>2. QED
  BY <1>1, CountInvHolds, PTL

-----------------------------------------------------------------------------
(* What OnlyTwoWaysToLoseSubscribers says of a step and one call.          *)
LosesInTwoWays(k) ==
  Lost(k)' > Lost(k) =>
    \/ \E i \in Ids : /\ RemoveGRPCSubscription(i)
                      /\ listener[i].call = k /\ ~listener[i].cancelled
    \/ \E s \in Sub : /\ StopListenIfNeeded(s, k)
                      /\ k \notin Starts[TopicOf(s)]

LEMMA CountTypes ==
  ASSUME CountInv, NEW k \in GrpcCalls
  PROVE  Count(k) \in Nat /\ Cardinality(Holders(k)) \in Nat /\ ~(Lost(k) > Lost(k))
<1>1. grpcSubscriptions[k] # Nil => grpcSubscriptions[k] \in Entry
  BY DEF CountInv, TypedRegistry, TypeOK
<1>2. Count(k) \in Nat /\ Cardinality(Holders(k)) \in Nat
  BY <1>1, HoldersFinite DEF Count, Entry
<1>3. QED
  BY <1>2 DEF Lost

(* A step that leaves a call's entry and holders alone loses nobody.       *)
LEMMA NobodyElseLost ==
  ASSUME CountInv, NEW k \in GrpcCalls, Holders(k)' = Holders(k),
         grpcSubscriptions'[k] = grpcSubscriptions[k]
  PROVE  LosesInTwoWays(k)
<1>1. Lost(k)' = Lost(k)
  BY DEF Lost, Count
<1>2. QED
  BY <1>1, CountTypes DEF LosesInTwoWays

(* A new holder is counted at once, whether the stream runs or is opened.  *)
LEMMA StartLosesNobody ==
  ASSUME CountInv, NEW s \in Sub, NEW k \in GrpcCalls, StartListenIfNeeded(s, k), NEW j \in GrpcCalls
  PROVE  LosesInTwoWays(j)
<1>1. /\ \A l \in GrpcCalls \ {k} : Holders(l)' = Holders(l)
      /\ s \notin Holders(k) /\ Holders(k)' = Holders(k) \cup {s}
  BY HoldersAfterCall DEF CountInv, TypedRegistry, StartListenIfNeeded, NextCall
<1>2. grpcSubscriptions \in [GrpcCalls -> Entry \cup {Nil}]
  BY DEF CountInv, TypedRegistry, TypeOK
<1>3. CASE j # k
  BY <1>1, <1>2, <1>3, NobodyElseLost
     DEF StartListenIfNeeded, CountSubscriber, OpenStream
<1>4. CASE j = k
  <2>1. Cardinality(Holders(k)') = Cardinality(Holders(k)) + 1
    BY <1>1, HoldersFinite, FS_AddElement
  <2>2. Count(k)' = Count(k) + 1
    <3>1. CASE CountSubscriber(k)
      <4>1. grpcSubscriptions[k] # Nil /\ grpcSubscriptions[k] \in Entry
        BY <1>2, <3>1 DEF CountSubscriber
      <4>2. /\ grpcSubscriptions'[k] \in Entry
            /\ grpcSubscriptions'[k].count = grpcSubscriptions[k].count + 1
        BY <1>2, <3>1, <4>1 DEF CountSubscriber, Entry
      <4>3. QED
        BY <4>1, <4>2, NilAssumption DEF Count
    <3>2. ASSUME NEW i \in Ids, OpenStream(k, i) PROVE Count(k)' = Count(k) + 1
      <4>1. grpcSubscriptions[k] = Nil /\ grpcSubscriptions'[k] = [count |-> 1, identifier |-> i]
        BY <1>2, <3>2 DEF OpenStream
      <4>2. [count |-> 1, identifier |-> i] \in Entry
        BY DEF Entry
      <4>3. QED
        BY <4>1, <4>2, NilAssumption DEF Count
    <3>3. QED
      BY <3>1, <3>2 DEF StartListenIfNeeded
  <2>3. Lost(k)' = Lost(k)
    BY <2>1, <2>2, CountTypes DEF Lost
  <2>4. QED
    BY <1>4, <2>3, CountTypes DEF LosesInTwoWays
<1>5. QED
  BY <1>3, <1>4

(* Who started the stream takes his count with him; if nobody is counted   *)
(* any more, one lost subscriber fewer is left.                            *)
LEMMA StopLosesInTwoWays ==
  ASSUME CountInv, NEW s \in Sub, NEW k \in GrpcCalls, StopListenIfNeeded(s, k), NEW j \in GrpcCalls
  PROVE  LosesInTwoWays(j)
<1>1. /\ \A l \in GrpcCalls \ {k} : Holders(l)' = Holders(l)
      /\ k \in Starts[TopicOf(s)] => s \in Holders(k) /\ Holders(k)' = Holders(k) \ {s}
  BY HoldersAfterCall DEF CountInv, TypedRegistry, StopListenIfNeeded, NextCall
<1>2. grpcSubscriptions \in [GrpcCalls -> Entry \cup {Nil}]
  BY DEF CountInv, TypedRegistry, TypeOK
<1>3. CASE j # k
  BY <1>1, <1>2, <1>3, NobodyElseLost
     DEF StopListenIfNeeded, DiscountSubscriber, CancelStream, NoStream
<1>4. CASE j = k /\ k \notin Starts[TopicOf(s)]
  BY <1>4 DEF LosesInTwoWays
<1>5. CASE j = k /\ k \in Starts[TopicOf(s)]
  <2>1. Cardinality(Holders(k)') = Cardinality(Holders(k)) - 1
    BY <1>1, <1>5, HoldersFinite, FS_RemoveElement
  <2>2. Count(k)' \in {Count(k) - 1, Count(k)} /\ (Count(k) > 0 => Count(k)' = Count(k) - 1)
    <3>1. CASE DiscountSubscriber(k)
      <4>1. grpcSubscriptions[k] # Nil /\ grpcSubscriptions[k] \in Entry
        BY <1>2, <3>1 DEF DiscountSubscriber
      <4>2. /\ grpcSubscriptions'[k] \in Entry
            /\ grpcSubscriptions'[k].count = grpcSubscriptions[k].count - 1
        BY <1>2, <3>1, <4>1 DEF DiscountSubscriber, Entry
      <4>3. QED
        BY <4>1, <4>2, NilAssumption DEF Count
    <3>2. CASE CancelStream(k)
      <4>1. /\ grpcSubscriptions[k] # Nil /\ grpcSubscriptions[k] \in Entry
            /\ grpcSubscriptions[k].count - 1 = 0 /\ grpcSubscriptions'[k] = Nil
        BY <1>2, <3>2 DEF CancelStream
      <4>2. QED
        BY <4>1 DEF Count, Entry
    <3>3. CASE NoStream(k)
      BY <3>3 DEF NoStream, Count
    <3>4. QED
      BY <3>1, <3>2, <3>3 DEF StopListenIfNeeded
  <2>3. Lost(k)' <= Lost(k)
    <3>1. Cardinality(Holders(k)') \in Nat
      BY HoldersFinite
    <3>2. QED
      BY <2>1, <2>2, <3>1, CountTypes DEF Lost
  <2>4. ~(Lost(k)' > Lost(k))
    <3>1. Lost(k) \in Int /\ Lost(k)' \in Int
      BY <2>1, <2>2, CountTypes DEF Lost
    <3>2. QED
      BY <2>3, <3>1
  <2>5. QED
    BY <1>5, <2>4 DEF LosesInTwoWays
<1>6. QED
  BY <1>3, <1>4, <1>5

(* A goroutine that was cancelled owns no entry, so its removal of one is  *)
(* the first of the two ways.                                              *)
LEMMA RemovalLosesInOneWay ==
  ASSUME CountInv, NEW i \in Ids, RemoveGRPCSubscription(i), NEW j \in GrpcCalls
  PROVE  LosesInTwoWays(j)
<1>1. Holders(j)' = Holders(j)
  BY HoldersOtherwise DEF CountInv, TypedRegistry, RemoveGRPCSubscription
<1>2. CASE grpcSubscriptions'[j] = grpcSubscriptions[j]
  BY <1>1, <1>2, NobodyElseLost
<1>3. CASE grpcSubscriptions'[j] # grpcSubscriptions[j]
  <2>1. /\ grpcSubscriptions[j] # Nil /\ grpcSubscriptions[j].identifier = i
        /\ listener[i].call = j
    BY <1>3 DEF RemoveGRPCSubscription, CountInv, TypedRegistry, TypeOK
  <2>2. ~listener[i].cancelled
    BY <2>1 DEF CountInv, TypedRegistry, RegistryMatchesListeners
  <2>3. QED
    BY <2>1, <2>2 DEF LosesInTwoWays
<1>4. QED
  BY <1>2, <1>3

LEMMA LossesNext == CountInv /\ [Next]_vars => \A k \in GrpcCalls : LosesInTwoWays(k)
<1> SUFFICES ASSUME CountInv, [Next]_vars, NEW j \in GrpcCalls PROVE LosesInTwoWays(j)
  OBVIOUS
<1>1. CASE \E s \in Sub, k \in GrpcCalls : StartListenIfNeeded(s, k) \/ StopListenIfNeeded(s, k)
  BY <1>1, StartLosesNobody, StopLosesInTwoWays
<1>2. CASE \E i \in Ids : RemoveGRPCSubscription(i)
  BY <1>2, RemovalLosesInOneWay
<1>3. ASSUME grpcSubscriptions' = grpcSubscriptions,
             \/ \E s \in Sub : Subscribe(s) \/ BeginUnsubscribe(s) \/ HandlerReturn(s)
             \/ UNCHANGED <<sub, todo>>
      PROVE  LosesInTwoWays(j)
  BY <1>3, HoldersOtherwise, NobodyElseLost DEF CountInv, TypedRegistry
<1>4. QED
  BY <1>1, <1>2, <1>3
     DEF Next, ClientStep, HandlerStep, ListenerStep, Unsubscribe, DropSubscription, vars,
         Connect, Disconnect, Subscribe, BeginUnsubscribe, HandlerReturn,
         ListenerCanceled, ListenerFinished, ListenerUnavailable, Return,
         RequestShutdown, CtxDone, Stop

(* The registry of server.go loses track of a subscriber in two ways only: *)
(* a goroutine whose stream ended removes the entry that still counted     *)
(* subscribers, or a topic stops a stream that it never started.           *)
THEOREM SubscribersAreLostInTwoWays == Spec => OnlyTwoWaysToLoseSubscribers
<1>1. CountInv /\ [Next]_vars => [\A k \in GrpcCalls : LosesInTwoWays(k)]_vars
  BY LossesNext
<1>2. Spec => [][\A k \in GrpcCalls : LosesInTwoWays(k)]_vars
  BY <1>1, CountInvHolds, PTL DEF Spec
<1>3. QED
  BY <1>2 DEF OnlyTwoWaysToLoseSubscribers, LosesInTwoWays
=============================================================================
