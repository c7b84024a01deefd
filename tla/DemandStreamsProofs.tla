------------------------- MODULE DemandStreamsProofs -------------------------
(***************************************************************************)
(* The registry, counts and goroutines of GrpcSubscriptions implement the  *)
(* streams on demand of DemandStreams, for every value of the constants.   *)
(***************************************************************************)
EXTENDS GrpcSubscriptionsProofs

(* A new subscriber finds the stream open or opens it.                     *)
LEMMA StartIsAcquire ==
  ASSUME CountInv, NEW s \in Sub, NEW k \in GrpcCalls, StartListenIfNeeded(s, k)
  PROVE  Streams!Acquire(k, s)
<1>1. /\ \A j \in GrpcCalls \ {k} : Holders(j)' = Holders(j)
      /\ s \notin Holders(k) /\ Holders(k)' = Holders(k) \cup {s}
  BY HoldersAfterCall DEF CountInv, TypedRegistry, StartListenIfNeeded, NextCall
<1>2. grpcSubscriptions \in [GrpcCalls -> Entry \cup {Nil}]
  BY DEF CountInv, TypedRegistry, TypeOK
<1>3. /\ grpcSubscriptions'[k] # Nil
      /\ \A j \in GrpcCalls \ {k} : grpcSubscriptions'[j] = grpcSubscriptions[j]
  <2>1. CASE CountSubscriber(k)
    <3>1. grpcSubscriptions[k] \in Entry
      BY <1>2, <2>1 DEF CountSubscriber
    <3>2. grpcSubscriptions'[k] \in Entry
      BY <1>2, <2>1, <3>1 DEF CountSubscriber, Entry
    <3>3. QED
      BY <1>2, <2>1, <3>2, NilAssumption DEF CountSubscriber
  <2>2. ASSUME NEW i \in Ids, OpenStream(k, i)
        PROVE  /\ grpcSubscriptions'[k] # Nil
               /\ \A j \in GrpcCalls \ {k} : grpcSubscriptions'[j] = grpcSubscriptions[j]
    <3>1. grpcSubscriptions'[k] \in Entry
      BY <1>2, <2>2 DEF OpenStream, Entry
    <3>2. QED
      BY <1>2, <2>2, <3>1, NilAssumption DEF OpenStream
  <2>3. QED
    BY <2>1, <2>2 DEF StartListenIfNeeded
<1>4. ctx' = ctx
  BY DEF StartListenIfNeeded
<1>5. QED
  BY <1>1, <1>3, <1>4 DEF Streams!Acquire

(* What a step leaves of a stream, in the terms of the registry.           *)
LEMMA StopEffect ==
  ASSUME CountInv, NEW s \in Sub, NEW k \in GrpcCalls, StopListenIfNeeded(s, k)
  PROVE  /\ \A j \in GrpcCalls \ {k} : grpcSubscriptions'[j] = grpcSubscriptions[j]
         /\ \/ /\ grpcSubscriptions[k] # Nil /\ grpcSubscriptions'[k] # Nil
               /\ Cardinality(Holders(k)) > 1
            \/ grpcSubscriptions'[k] = Nil
<1>1. grpcSubscriptions \in [GrpcCalls -> Entry \cup {Nil}]
  BY DEF CountInv, TypedRegistry, TypeOK
<1>2. Counted(k) /\ Cardinality(Holders(k)) \in Nat
  BY HoldersFinite DEF CountInv
<1>3. CASE DiscountSubscriber(k)
  <2>1. grpcSubscriptions[k] # Nil /\ grpcSubscriptions[k] \in Entry /\ grpcSubscriptions[k].count > 1
    BY <1>1, <1>3 DEF DiscountSubscriber, Entry
  <2>2. grpcSubscriptions[k].count - 1 \in Nat \ {0}
    BY <2>1 DEF Entry
  <2>3. grpcSubscriptions'[k] \in Entry
    BY <1>1, <1>3, <2>1, <2>2 DEF DiscountSubscriber, Entry
  <2>4. grpcSubscriptions'[k] # Nil
    BY <2>3, NilAssumption
  <2>5. Cardinality(Holders(k)) > 1
    BY <1>2, <2>1 DEF Counted, Entry
  <2>6. QED
    BY <1>1, <1>3, <2>1, <2>4, <2>5 DEF DiscountSubscriber
<1>4. CASE CancelStream(k) \/ NoStream(k)
  BY <1>1, <1>4 DEF CancelStream, NoStream
<1>5. QED
  BY <1>3, <1>4 DEF StopListenIfNeeded

(* A leaving subscriber closes the stream if it is the last one; an        *)
(* earlier one closes it only if the stream is unreliable or the component *)
(* shuts down.                                                             *)
LEMMA StopIsRelease ==
  ASSUME CountInv, NEW s \in Sub, NEW k \in GrpcCalls, StopListenIfNeeded(s, k)
  PROVE  \/ Streams!Release(k, s) \/ Streams!ReleaseUnreliable(k, s)
         \/ Streams!Close(k) \/ UNCHANGED Streams!dvars
<1>1. /\ \A j \in GrpcCalls \ {k} : Holders(j)' = Holders(j)
      /\ \/ s \in Holders(k) /\ Holders(k)' = Holders(k) \ {s}
         \/ k \in Unreliable /\ Holders(k)' = Holders(k)
  BY HoldersAfterCall, StopsWithoutStart DEF CountInv, TypedRegistry, StopListenIfNeeded, NextCall
<1>2. /\ \A j \in GrpcCalls \ {k} : grpcSubscriptions'[j] = grpcSubscriptions[j]
      /\ \/ /\ grpcSubscriptions[k] # Nil /\ grpcSubscriptions'[k] # Nil
            /\ Cardinality(Holders(k)) > 1
         \/ grpcSubscriptions'[k] = Nil
  BY StopEffect
<1>3. ctx' = ctx
  BY DEF StopListenIfNeeded
<1>4. CASE k \in Unreliable /\ Holders(k)' = Holders(k)
  <2>1. CASE grpcSubscriptions'[k] = Nil
    BY <1>1, <1>2, <1>3, <1>4, <2>1 DEF Streams!Close
  <2>2. CASE grpcSubscriptions'[k] # Nil
    BY <1>1, <1>2, <1>3, <1>4, <2>2 DEF Streams!dvars
  <2>3. QED
    BY <2>1, <2>2
<1>5. CASE s \in Holders(k) /\ Holders(k)' = Holders(k) \ {s}
  <2>1. CASE grpcSubscriptions'[k] # Nil
    <3>1. Holders(k) # {s}
      <4>1. Cardinality({s}) = 1
        BY FS_Singleton
      <4>2. QED
        BY <1>2, <2>1, <4>1
    <3>2. QED
      BY <1>1, <1>2, <1>3, <1>5, <2>1, <3>1 DEF Streams!Release
  <2>2. CASE grpcSubscriptions'[k] = Nil /\ (k \in Unreliable \/ ctx = "done")
    BY <1>1, <1>2, <1>3, <1>5, <2>2 DEF Streams!ReleaseUnreliable
  <2>3. CASE grpcSubscriptions'[k] = Nil /\ k \notin Unreliable /\ ctx # "done"
    <3>1. Counted(k)'
      BY StopKeepsCounts
    <3>2. Cardinality(Holders(k)') = 0
      BY <1>3, <2>3, <3>1 DEF Counted, Count, Unreliable
    <3>3. Holders(k)' = {}
      BY <3>2, HoldersFinite, FS_EmptySet
    <3>4. Holders(k) = {s}
      BY <1>5, <3>3
    <3>5. QED
      BY <1>1, <1>2, <1>3, <1>5, <2>3, <3>4 DEF Streams!Release
  <2>4. QED
    BY <2>1, <2>2, <2>3
<1>6. QED
  BY <1>1, <1>4, <1>5

(* A goroutine that ends while its stream is in demand closes it, and that *)
(* happens to unreliable streams or during the shutdown.                   *)
LEMMA RemovalIsClose ==
  ASSUME CountInv, NEW i \in Ids, RemoveGRPCSubscription(i)
  PROVE  (\E k \in GrpcCalls : Streams!Close(k)) \/ UNCHANGED Streams!dvars
<1>1. \A j \in GrpcCalls : Holders(j)' = Holders(j)
  BY HoldersOtherwise DEF CountInv, TypedRegistry, RemoveGRPCSubscription
<1>2. ctx' = ctx
  BY DEF RemoveGRPCSubscription
<1>3. CASE grpcSubscriptions' = grpcSubscriptions
  BY <1>1, <1>2, <1>3 DEF Streams!dvars
<1>4. CASE grpcSubscriptions' # grpcSubscriptions
  <2>1. PICK k \in GrpcCalls :
        /\ k = listener[i].call /\ listener[i] # Nil /\ listener[i].pc = "returned"
        /\ grpcSubscriptions[k] # Nil /\ grpcSubscriptions[k].identifier = i
        /\ grpcSubscriptions' = [grpcSubscriptions EXCEPT ![k] = Nil]
    BY <1>4 DEF RemoveGRPCSubscription, CountInv, TypedRegistry, TypeOK, Listener
  <2>2. ~listener[i].cancelled
    BY <2>1 DEF CountInv, TypedRegistry, RegistryMatchesListeners
  <2>3. k \in Unreliable \/ ctx = "done"
    BY <2>1, <2>2 DEF CountInv, ReturnInv, Unreliable
  <2>4. /\ grpcSubscriptions'[k] = Nil
        /\ \A j \in GrpcCalls \ {k} : grpcSubscriptions'[j] = grpcSubscriptions[j]
    BY <2>1 DEF CountInv, TypedRegistry, TypeOK
  <2>5. Streams!Close(k)
    BY <1>1, <1>2, <2>1, <2>3, <2>4 DEF Streams!Close
  <2>6. QED
    BY <2>1, <2>5
<1>5. QED
  BY <1>3, <1>4

LEMMA StepRefinement ==
  CountInv /\ [Next]_vars => [Streams!DNext]_(Streams!dvars)
<1> SUFFICES ASSUME CountInv, [Next]_vars PROVE [Streams!DNext]_(Streams!dvars)
  OBVIOUS
<1>1. CASE \E s \in Sub, k \in GrpcCalls : StartListenIfNeeded(s, k)
  BY <1>1, StartIsAcquire DEF Streams!DNext
<1>2. CASE \E s \in Sub, k \in GrpcCalls : StopListenIfNeeded(s, k)
  BY <1>2, StopIsRelease DEF Streams!DNext
<1>3. CASE \E i \in Ids : RemoveGRPCSubscription(i)
  BY <1>3, RemovalIsClose DEF Streams!DNext
<1>4. ASSUME grpcSubscriptions' = grpcSubscriptions,
             \/ \E s \in Sub : Subscribe(s) \/ BeginUnsubscribe(s) \/ HandlerReturn(s)
             \/ UNCHANGED <<sub, todo>>
      PROVE  /\ (ctx = "done") = (ctx' = "done") => UNCHANGED Streams!dvars
             /\ ctx' = "done" => Streams!Shutdown
  <2>1. \A j \in GrpcCalls : Holders(j)' = Holders(j)
    BY <1>4, HoldersOtherwise DEF CountInv, TypedRegistry
  <2>2. QED
    BY <1>4, <2>1 DEF Streams!dvars, Streams!Shutdown
<1>5. QED
  BY <1>1, <1>2, <1>3, <1>4
     DEF Next, ClientStep, HandlerStep, ListenerStep, Unsubscribe, DropSubscription, vars,
         Connect, Disconnect, Subscribe, BeginUnsubscribe, HandlerReturn,
         ListenerCanceled, ListenerFinished, ListenerUnavailable, Return,
         RequestShutdown, CtxDone, Stop, Streams!DNext

(* The registry, its counts and its goroutines serve the streams of the    *)
(* node on demand: seen through Holders and the registry, server.go takes  *)
(* the steps of DemandStreams and no others.                               *)
THEOREM StreamsAreServedOnDemand == Spec => ServesStreamsOnDemand
<1>1. Init => Streams!DInit
  <2>1. ASSUME Init, NEW k \in GrpcCalls PROVE Holders(k) = {} /\ grpcSubscriptions[k] = Nil
    BY <2>1 DEF Init, Holders
  <2>2. QED
    BY <2>1 DEF Init, Streams!DInit
<1>2. QED
  BY <1>1, CountInvHolds, StepRefinement, PTL DEF Spec, ServesStreamsOnDemand, Streams!DSpec

(* Until the component's context ends, a reliable stream is registered     *)
(* exactly while some subscription needs it.                               *)
THEOREM ReliableStreamsRunOnDemand == Spec => []Streams!OpenOnDemand
<1>1. CountInv => Streams!OpenOnDemand
  <2> SUFFICES ASSUME CountInv, ctx # "done", NEW k \in GrpcCalls, k \notin Unreliable
               PROVE  grpcSubscriptions[k] # Nil <=> Holders(k) # {}
    BY DEF Streams!OpenOnDemand
  <2>1. Counted(k) /\ Count(k) = Cardinality(Holders(k))
    BY DEF CountInv, Counted
  <2>2. Cardinality(Holders(k)) = 0 <=> Holders(k) = {}
    BY HoldersFinite, FS_EmptySet
  <2>3. grpcSubscriptions[k] # Nil => Count(k) # 0
    BY HoldersFinite, <2>1 DEF Counted, Count
  <2>4. QED
    BY <2>1, <2>2, <2>3 DEF Count
<1>2. QED
  BY <1>1, CountInvHolds, PTL
=============================================================================
