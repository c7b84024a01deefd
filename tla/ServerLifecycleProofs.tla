------------------------ MODULE ServerLifecycleProofs ------------------------
(***************************************************************************)
(* What ServerLifecycle guarantees for any number of clients and           *)
(* commitments, whatever listeners are enabled.                            *)
(***************************************************************************)
EXTENDS ServerLifecycle, TLAPS

-----------------------------------------------------------------------------
(* The inductive invariant: what is set up at each statement of Run.       *)

\* Where the broker serves, where the hooks are set, and where the daemon has
\* asked the worker to stop.
Serving      == {"registering", "hooking node", "running"} \cup Stopping
Handling     == {"starting", "registering", "hooking node", "running", "unhooking"}
Listening    == {"running", "unhooking", "unhooking node"}
Dropping     == (Starting \cup {"running"} \cup Stopping) \ {"closing"}
AskedToStop  == Stopping \cup {"stopped"}

\* The statements at which the node may forward the route although its
\* removal did not fail.
Routed       == {"registering", "hooking node", "running", "unhooking", "unhooking node",
                 "unregistering"}

\* Listeners and hooks are where the code before the present statement left
\* them.  LogFatal leaves the broker's hooks alone, but the node's are not set.
SetUpInv ==
  /\ place # "down" => /\ accepting = IF place \in Serving THEN enabled ELSE {}
                       /\ (brokerHooks <=> place \in Handling)
                       /\ (dropHook <=> place \in Dropping)
  /\ place = "down" => accepting = {}
  /\ (nodeHooks <=> place \in Listening)

\* The node has the route only if the websocket is enabled, and only between
\* its registration and its removal, unless the removal failed.
RouteInv ==
  /\ place \in {"registering", "unregistering"} => "websocket" \in enabled
  /\ place # "down" /\ route /\ removal # "failed" =>
       "websocket" \in enabled /\ place \in Routed

\* The workers end in the order of their priorities.
DaemonInv ==
  /\ place \in AskedToStop => shutdown /\ "Prometheus" \in ended
  /\ "Prometheus" \in ended => ~exporting
  /\ "MQTT" \in ended => place = "stopped"
  /\ "INX" \in ended => "MQTT" \in ended

LifeInv == TypeOK /\ SetUpInv /\ RouteInv /\ DaemonInv /\ SubscriptionsAreHandled

LEMMA IdleJobs == Idle \in Job /\ [p \in Publishers |-> Idle] \in [Publishers -> Job]
BY LifecycleAssumption DEF Idle, Job

LEMMA LifeInit == Init => LifeInv
<1> SUFFICES ASSUME Init PROVE LifeInv
  OBVIOUS
<1>1. Out \in Client /\ ~Out.subscribed
  BY DEF Out, Client
<1>2. client \in [Clients -> Client] /\ \A c \in Clients : ~client[c].subscribed
  BY <1>1 DEF Init
<1>3. commitment \in 0 .. MaxCommitments /\ job \in [Publishers -> Job]
  BY LifecycleAssumption, IdleJobs DEF Init
<1>4. TypeOK
  BY <1>2, <1>3 DEF Init, TypeOK
<1>5. SetUpInv /\ RouteInv /\ DaemonInv /\ SubscriptionsAreHandled
  BY <1>2 DEF Init, SetUpInv, RouteInv, DaemonInv, SubscriptionsAreHandled, Serving, Handling,
              Listening, Dropping, AskedToStop, Starting, Stopping
<1> QED BY <1>4, <1>5 DEF LifeInv

-----------------------------------------------------------------------------
(* The steps of the worker itself.                                         *)

\* LogFatal and its like, which the code may reach only before the node's
\* events are hooked.
LEMMA DownKeepsLifeInv ==
  ASSUME LifeInv, Down, place \in Starting \cup {"configuring"} PROVE LifeInv'
<1>1. Out \in Client /\ ~Out.subscribed
  BY DEF Out, Client
<1>2. client' \in [Clients -> Client] /\ \A c \in Clients : ~client'[c].subscribed
  BY <1>1 DEF Down
<1>3. TypeOK'
  BY <1>2, IdleJobs DEF LifeInv, TypeOK, Down, hooks, metrics, daemon
<1>4. SetUpInv' /\ RouteInv' /\ DaemonInv' /\ SubscriptionsAreHandled'
  BY <1>2 DEF LifeInv, Down, hooks, metrics, daemon, SetUpInv, RouteInv, DaemonInv,
         SubscriptionsAreHandled, Serving, Handling,
         Listening, Dropping, AskedToStop, Starting, Stopping
<1> QED BY <1>3, <1>4 DEF LifeInv

LEMMA StartKeepsLifeInv ==
  ASSUME LifeInv,
         NewBroker \/ HookBrokerEvents \/ BrokerStart \/ RegisterAPIRoute \/ HookNodeEvents
  PROVE  LifeInv'
<1> USE DEF LifeInv, GoTo, hooks, metrics, daemon, Starting, Stopping,
        TypeOK, SetUpInv, RouteInv, DaemonInv, SubscriptionsAreHandled,
        Serving, Handling, Listening, Dropping, AskedToStop, Routed
<1>1. CASE NewBroker
  BY <1>1 DEF NewBroker
<1>2. CASE HookBrokerEvents
  BY <1>2 DEF HookBrokerEvents
<1>3. CASE BrokerStart
  BY <1>3 DEF BrokerStart, AfterBrokerStart
<1>4. CASE RegisterAPIRoute
  BY <1>4 DEF RegisterAPIRoute
<1>5. CASE HookNodeEvents
  BY <1>5 DEF HookNodeEvents
<1> QED BY <1>1, <1>2, <1>3, <1>4, <1>5

LEMMA StopKeepsLifeInv ==
  ASSUME LifeInv,
         \/ BeginStop \/ UnhookBrokerEvents \/ UnhookNodeEvents
         \/ UnregisterAPIRoute \/ UnregisterAPIRouteFails \/ UnhookDropClient
  PROVE  LifeInv'
<1> USE DEF LifeInv, GoTo, hooks, metrics, daemon, Starting, Stopping,
        TypeOK, SetUpInv, RouteInv, DaemonInv, SubscriptionsAreHandled,
        Serving, Handling, Listening, Dropping, AskedToStop, Routed
<1>1. CASE BeginStop
  BY <1>1 DEF BeginStop, CtxDone, Priority, Workers
<1>2. CASE UnhookBrokerEvents
  BY <1>2 DEF UnhookBrokerEvents
<1>3. CASE UnhookNodeEvents
  BY <1>3 DEF UnhookNodeEvents
<1>4. CASE UnregisterAPIRoute
  BY <1>4 DEF UnregisterAPIRoute
<1>5. CASE UnregisterAPIRouteFails
  BY <1>5 DEF UnregisterAPIRouteFails
<1>6. CASE UnhookDropClient
  BY <1>6 DEF UnhookDropClient
<1> QED BY <1>1, <1>2, <1>3, <1>4, <1>5, <1>6

\* The worker returns when the broker is closed and nobody is connected.
LEMMA CloseBrokerKeepsLifeInv == ASSUME LifeInv, CloseBroker PROVE LifeInv'
<1>1. Out \in Client /\ ~Out.subscribed
  BY DEF Out, Client
<1>2. client' \in [Clients -> Client] /\ \A c \in Clients : ~client'[c].subscribed
  BY <1>1 DEF CloseBroker
<1>3. TypeOK'
  BY <1>2 DEF LifeInv, TypeOK, CloseBroker, hooks, metrics, Workers
<1>4. SetUpInv' /\ RouteInv' /\ DaemonInv' /\ SubscriptionsAreHandled'
  BY <1>2 DEF LifeInv, CloseBroker, hooks, metrics, SetUpInv, RouteInv, DaemonInv,
              SubscriptionsAreHandled, Serving, Handling,
              Listening, Dropping, AskedToStop, Routed, Starting, Stopping
<1> QED BY <1>3, <1>4 DEF LifeInv

-----------------------------------------------------------------------------
(* The other workers, and the node.                                        *)

LEMMA DaemonKeepsLifeInv ==
  ASSUME LifeInv, RequestShutdown \/ DisconnectINX \/ Scrape \/ Scraped \/ StopExporter
  PROVE  LifeInv'
<1>1. UNCHANGED <<enabled, place, accepting, hooks, route, removal, content>>
  BY DEF RequestShutdown, DisconnectINX, Scrape, Scraped, StopExporter
<1>2. TypeOK'
  <2>1. scraping' \in BOOLEAN /\ exporting' \in BOOLEAN
    BY DEF LifeInv, TypeOK, RequestShutdown, DisconnectINX, Scrape, Scraped, StopExporter, metrics
  <2>2. shutdown' \in BOOLEAN /\ ended' \in SUBSET Workers
    BY DEF LifeInv, TypeOK, RequestShutdown, DisconnectINX, Scrape, Scraped, StopExporter,
           daemon, Workers
  <2> QED BY <1>1, <2>1, <2>2 DEF LifeInv, TypeOK, hooks, content
<1>3. SetUpInv' /\ RouteInv' /\ SubscriptionsAreHandled'
  BY <1>1 DEF LifeInv, SetUpInv, RouteInv, SubscriptionsAreHandled, hooks, content
<1>4. DaemonInv'
  <2> USE <1>1 DEF LifeInv, DaemonInv, metrics, daemon
  <2>1. CASE RequestShutdown
    BY <2>1 DEF RequestShutdown
  <2>2. CASE DisconnectINX
    BY <2>2 DEF DisconnectINX, CtxDone, Priority, Workers
  <2>3. CASE Scrape \/ Scraped
    BY <2>3 DEF Scrape, Scraped
  <2>4. CASE StopExporter
    BY <2>4 DEF StopExporter
  <2> QED BY <2>1, <2>2, <2>3, <2>4
<1> QED BY <1>2, <1>3, <1>4 DEF LifeInv

LEMMA NodeKeepsLifeInv ==
  ASSUME LifeInv, NodeRegistersRoute \/ NodeRemovesRoute PROVE LifeInv'
<1>1. /\ UNCHANGED <<enabled, place, accepting, hooks, removal, metrics, daemon, content>>
      /\ route' \in BOOLEAN /\ (route' => place = "registering")
  BY DEF NodeRegistersRoute, NodeRemovesRoute
<1>2. TypeOK' /\ SetUpInv' /\ DaemonInv' /\ SubscriptionsAreHandled'
  BY <1>1 DEF LifeInv, TypeOK, SetUpInv, DaemonInv, SubscriptionsAreHandled,
              hooks, metrics, daemon, content
<1>3. RouteInv'
  BY <1>1 DEF LifeInv, RouteInv, Routed
<1> QED BY <1>2, <1>3 DEF LifeInv

-----------------------------------------------------------------------------
(* Clients and commitments.                                                *)

\* A step that changes the clients only keeps the invariant if a client is
\* subscribed afterwards only where the broker serves, and handled if it was
\* subscribed while the server ran.
LEMMA ClientsKeepLifeInv ==
  ASSUME LifeInv, Unchanged,
         commitment' \in 0 .. MaxCommitments, job' \in [Publishers -> Job],
         client' \in [Clients -> Client],
         \A c \in Clients : client'[c].subscribed =>
           \/ client[c].subscribed /\ client'[c].handled = client[c].handled
           \/ accepting # {} /\ client'[c].handled = brokerHooks
  PROVE  LifeInv'
<1> USE DEF LifeInv, Unchanged, hooks, metrics, daemon
<1>1. TypeOK'
  BY DEF TypeOK
<1>2. SetUpInv' /\ RouteInv' /\ DaemonInv'
  BY DEF SetUpInv, RouteInv, DaemonInv
<1>3. place \in Starting \cup {"running"} /\ accepting # {} => brokerHooks
  BY DEF SetUpInv, Serving, Handling, Starting, Stopping
<1>4. SubscriptionsAreHandled'
  BY <1>3 DEF SubscriptionsAreHandled
<1> QED BY <1>1, <1>2, <1>4

LEMMA ClientStepsKeepLifeInv ==
  ASSUME LifeInv, CommitmentChanges \/ \E c \in Clients : Subscribe(c) \/ Leave(c)
  PROVE  LifeInv'
<1>1. /\ commitment \in 0 .. MaxCommitments /\ job \in [Publishers -> Job]
      /\ client \in [Clients -> Client] /\ nodeHooks \in BOOLEAN /\ brokerHooks \in BOOLEAN
  BY DEF LifeInv, TypeOK
<1>2. Out \in Client /\ ~Out.subscribed
  BY DEF Out, Client
<1>3. CASE CommitmentChanges
  <2>1. commitment' \in 0 .. MaxCommitments
    BY <1>1, <1>3, LifecycleAssumption DEF CommitmentChanges
  <2>2. job' \in [Publishers -> Job]
    BY <1>1, <1>3, <2>1 DEF CommitmentChanges, Job
  <2>3. client' = [c \in Clients |-> [client[c] EXCEPT !.told = FALSE]]
    BY <1>3 DEF CommitmentChanges
  <2>4. client' \in [Clients -> Client]
        /\ \A c \in Clients : /\ client'[c].subscribed = client[c].subscribed
                             /\ client'[c].handled = client[c].handled
    BY <1>1, <2>3 DEF Client
  <2> QED BY <1>3, <2>1, <2>2, <2>4, ClientsKeepLifeInv DEF CommitmentChanges
<1>4. ASSUME NEW c \in Clients, Subscribe(c) PROVE LifeInv'
  <2> DEFINE new == [Out EXCEPT !.subscribed = TRUE, !.early = ~nodeHooks,
                                !.handled = brokerHooks]
  <2>1. new \in Client /\ new.handled = brokerHooks
    BY <1>1, <1>2 DEF Client, Out
  <2>2. client' = [client EXCEPT ![c] = new] /\ accepting # {}
    BY <1>4 DEF Subscribe
  <2>3. job' \in [Publishers -> Job]
    BY <1>1, <1>4 DEF Subscribe, Job
  <2> HIDE DEF new
  <2> QED BY <1>1, <1>4, <2>1, <2>2, <2>3, ClientsKeepLifeInv DEF Subscribe
<1>5. ASSUME NEW c \in Clients, Leave(c) PROVE LifeInv'
  BY <1>1, <1>2, <1>5, ClientsKeepLifeInv DEF Leave
<1> QED BY <1>3, <1>4, <1>5

\* A step of a publication changes nothing but what clients have been told.
LEMMA PublishKeepsLifeInv ==
  ASSUME LifeInv, NEW p \in Publishers, Publish(p)
  PROVE  LifeInv'
<1>1. /\ commitment \in 0 .. MaxCommitments /\ job \in [Publishers -> Job]
      /\ client \in [Clients -> Client]
  BY DEF LifeInv, TypeOK
<1>2. Unchanged /\ commitment' = commitment
  BY DEF Publish, HasSubscribers, GetCommitment, Send
<1>3. job' \in [Publishers -> Job]
  <2>1. CASE HasSubscribers(p)
    BY <1>1, <2>1, IdleJobs DEF HasSubscribers, Job
  <2>2. CASE GetCommitment(p)
    <3> DEFINE v == IF p = Bridge THEN job[p].commitment ELSE commitment
    <3>1. v \in 0 .. MaxCommitments
      BY <1>1 DEF Job
    <3>2. [step |-> "send", commitment |-> v] \in Job
      BY <3>1 DEF Job
    <3>3. job' = [job EXCEPT ![p] = IF v = 0 \/ v \in Unknown THEN Idle
                                    ELSE [step |-> "send", commitment |-> v]]
      BY <2>2 DEF GetCommitment
    <3> HIDE DEF v
    <3> QED BY <1>1, <3>2, <3>3, IdleJobs
  <2>3. CASE Send(p)
    BY <1>1, <2>3, IdleJobs DEF Send
  <2> QED BY <2>1, <2>2, <2>3 DEF Publish
<1>4. client' \in [Clients -> Client]
      /\ \A c \in Clients : /\ client'[c].subscribed = client[c].subscribed
                           /\ client'[c].handled = client[c].handled
  <2>1. CASE client' = client
    BY <1>1, <2>1
  <2>2. CASE Send(p)
    <3>1. \A c \in Clients : /\ Receive(c, p) \in Client
                            /\ Receive(c, p).subscribed = client[c].subscribed
                            /\ Receive(c, p).handled = client[c].handled
      BY <1>1 DEF Receive, Client
    <3> QED BY <2>2, <3>1 DEF Send
  <2> QED BY <2>1, <2>2 DEF Publish, HasSubscribers, GetCommitment
<1> QED BY <1>1, <1>2, <1>3, <1>4, ClientsKeepLifeInv

-----------------------------------------------------------------------------
LEMMA LifeNext == LifeInv /\ [Next]_vars => LifeInv'
<1> SUFFICES ASSUME LifeInv, [Next]_vars PROVE LifeInv'
  OBVIOUS
<1>1. CASE UNCHANGED vars
  BY <1>1 DEF vars, LifeInv, TypeOK, SetUpInv, RouteInv, DaemonInv, SubscriptionsAreHandled
<1>2. CASE RequestShutdown \/ DisconnectINX \/ Scrape \/ Scraped \/ StopExporter
  BY <1>2, DaemonKeepsLifeInv
<1>3. CASE Step
  BY <1>3, StartKeepsLifeInv, StopKeepsLifeInv, CloseBrokerKeepsLifeInv, DownKeepsLifeInv
     DEF Step, NewBrokerFails, BrokerStartFails, Starting
<1>4. CASE Call
  BY <1>4, StartKeepsLifeInv, StopKeepsLifeInv, DownKeepsLifeInv
     DEF Call, RegisterAPIRouteFails, Starting
<1>5. CASE NodeRegistersRoute \/ NodeRemovesRoute
  BY <1>5, NodeKeepsLifeInv
<1>6. CASE CommitmentChanges \/ \E c \in Clients : Subscribe(c) \/ Leave(c)
  BY <1>6, ClientStepsKeepLifeInv
<1>7. CASE \E p \in Publishers : Publish(p)
  BY <1>7, PublishKeepsLifeInv
<1> QED BY <1>1, <1>2, <1>3, <1>4, <1>5, <1>6, <1>7 DEF Next

LEMMA LifeInvHolds == Spec => []LifeInv
BY LifeInit, LifeNext, PTL DEF Spec

-----------------------------------------------------------------------------
(* The results.                                                            *)

\* Every variable keeps its type, and a broker that accepts nobody has no
\* subscriber (Run and what happens around it).
THEOREM LifecycleTypes == Spec => []TypeOK
<1>1. LifeInv => TypeOK
  BY DEF LifeInv
<1> QED BY <1>1, LifeInvHolds, PTL

\* While the process lives, the node forwards the API route only to a broker
\* that accepts websockets, unless it refused to remove the route (the order
\* of Start and Stop, whatever calls time out).
THEOREM RouteIsServed == Spec => []RouteLeadsToBroker
<1>1. LifeInv => RouteLeadsToBroker
  BY DEF LifeInv, SetUpInv, RouteInv, RouteLeadsToBroker, Serving, Routed, Stopping
<1> QED BY <1>1, LifeInvHolds, PTL

\* Before the stop, every subscription has reached onSubscribeTopic: the
\* broker's events are hooked before it accepts anyone.
THEOREM EverySubscriptionIsHandled == Spec => []SubscriptionsAreHandled
<1>1. LifeInv => SubscriptionsAreHandled
  BY DEF LifeInv
<1> QED BY <1>1, LifeInvHolds, PTL

\* The parts end in the order of their priorities: the exporter before the
\* broker it reads, the broker and its hooks before the connection to the node.
THEOREM PartsEndInOrder == Spec => []ShutdownInOrder
<1>1. LifeInv => ShutdownInOrder
  BY DEF LifeInv, SetUpInv, DaemonInv, ShutdownInOrder, AskedToStop, Serving, Listening, Stopping
<1> QED BY <1>1, LifeInvHolds, PTL

\* When all workers have returned, no hook is set, nobody is accepted, and
\* the route is gone or its removal failed.
THEOREM StopLeavesNothing == Spec => []NothingLeftBehind
<1>1. LifeInv => NothingLeftBehind
  BY DEF LifeInv, SetUpInv, RouteInv, DaemonInv, NothingLeftBehind, AskedToStop, Serving,
         Handling, Listening, Dropping, Routed, Workers, Starting, Stopping
<1> QED BY <1>1, LifeInvHolds, PTL
=============================================================================
