--------------------------- MODULE ServerLifecycle ---------------------------
(***************************************************************************)
(* The life of the service: Start, Run and Stop of pkg/mqtt/server.go, the *)
(* broker of pkg/broker/broker.go, and the workers of the components with  *)
(* the priorities of pkg/daemon.                                           *)
(*                                                                         *)
(* Start hooks the broker's events, starts the broker, registers the API   *)
(* route with the node and hooks the bridge's events, one after the other, *)
(* while clients already connect and commitments change.  Stop undoes it   *)
(* after the worker's context has ended, which may happen during Start as  *)
(* well.  The node may leave a call unanswered until it times out.         *)
(*                                                                         *)
(* A commitment is published by the bridge's hook and by the goroutines    *)
(* that new subscribers start, each of which checks for subscribers, gets  *)
(* its commitment and sends it, in steps of its own.                       *)
(***************************************************************************)
EXTENDS Naturals, FiniteSets

CONSTANTS
  Clients,         \* clients that subscribe to the latest commitment
  MaxCommitments,  \* how often it changes (bound)
  Unknown          \* commitments of a version without an API: an error

Listeners == {"websocket", "tcp"}
Workers   == {"INX", "MQTT", "Prometheus"}

\* Who publishes commitments: the goroutine of a client's subscription, and
\* the bridge's event.
Bridge     == "bridge"
Publishers == Clients \cup {Bridge}

ASSUME LifecycleAssumption == MaxCommitments \in Nat /\ Bridge \notin Clients

VARIABLES
  enabled,      \* the listeners the configuration enables
  place,        \* where the MQTT worker is, "down" once the process has ended
  accepting,    \* the listeners that accept clients
  brokerHooks,  \* the broker's events reach the server's handlers
  nodeHooks,    \* the bridge's events reach the server's hooks
  dropHook,     \* DropClient reaches its handler
  route,        \* the node forwards the API route to the websocket
  removal,      \* how the removal of the route went: "none", "done" or "failed"
  scraping,     \* requests for metrics that are being served, and
  exporting,    \* whether more of them are accepted
  shutdown,     \* the shutdown was requested
  ended,        \* the workers that have returned
  commitment,   \* the bridge's latest commitment
  job,          \* what each publisher is about to do, see Job
  client        \* what each client has, see Client

vars == <<enabled, place, accepting, brokerHooks, nodeHooks, dropHook, route, removal,
          scraping, exporting, shutdown, ended, commitment, job, client>>

hooks   == <<brokerHooks, nodeHooks, dropHook>>
metrics == <<scraping, exporting>>
daemon  == <<shutdown, ended>>
content == <<commitment, job, client>>

\* "told" observes that the client has received the latest commitment,
\* "handled" that onSubscribeTopic was called, and "early" that the client
\* subscribed before the bridge's events were hooked and has not received
\* one since.
Client == [subscribed: BOOLEAN, told: BOOLEAN, early: BOOLEAN, handled: BOOLEAN]
Out == [subscribed |-> FALSE, told |-> FALSE, early |-> FALSE, handled |-> FALSE]

\* A publication: the next step, and the commitment once it is there.
Job  == [step: {"idle", "check", "get", "send"}, commitment: 0 .. MaxCommitments]
Idle == [step |-> "idle", commitment |-> 0]

\* The stages of Run, in the order of the code.
Starting == {"hooking", "starting", "registering", "hooking node"}
Stopping == {"unhooking", "unhooking node", "unregistering", "unhooking drop", "closing"}

TypeOK ==
  /\ enabled \in SUBSET Listeners /\ accepting \in SUBSET enabled
  /\ place \in Starting \cup Stopping \cup {"configuring", "running", "stopped", "down"}
  /\ brokerHooks \in BOOLEAN /\ nodeHooks \in BOOLEAN /\ dropHook \in BOOLEAN
  /\ route \in BOOLEAN /\ removal \in {"none", "done", "failed"}
  /\ scraping \in BOOLEAN /\ exporting \in BOOLEAN
  /\ shutdown \in BOOLEAN /\ ended \in SUBSET Workers
  /\ commitment \in 0 .. MaxCommitments /\ job \in [Publishers -> Job]
  /\ client \in [Clients -> Client]
  /\ accepting = {} => \A c \in Clients : ~client[c].subscribed

Init ==
  /\ enabled \in SUBSET Listeners /\ accepting = {}
  /\ place = "configuring"
  /\ brokerHooks = FALSE /\ nodeHooks = FALSE /\ dropHook = FALSE
  /\ route = FALSE /\ removal = "none"
  /\ scraping = FALSE /\ exporting \in BOOLEAN
  /\ shutdown = FALSE /\ ended = {}
  /\ commitment \in {0, 1} \cap (0 .. MaxCommitments)
  /\ job = [p \in Publishers |-> Idle]
  /\ client = [c \in Clients |-> Out]

-----------------------------------------------------------------------------
(* The daemon of the application: workers are stopped by priority, the     *)
(* highest first, each when those before it have returned.                 *)

\* Mutant: the connection to the node ends first.
PriorityReversed(w) == CASE w = "INX" -> 2 [] w = "MQTT" -> 1 [] w = "Prometheus" -> 0

Priority(w) == CASE w = "INX" -> 0 [] w = "MQTT" -> 1 [] w = "Prometheus" -> 2

CtxDone(w) ==
  shutdown /\ \A v \in Workers : Priority(v) > Priority(w) => v \in ended

\* A signal, or SelfShutdown when a stream finds the node unavailable.
RequestShutdown ==
  /\ place # "down" /\ ~shutdown /\ shutdown' = TRUE
  /\ UNCHANGED <<enabled, place, accepting, hooks, route, removal, metrics, ended, content>>

\* The worker of the node bridge closes the connection.
DisconnectINX ==
  /\ place # "down" /\ CtxDone("INX") /\ "INX" \notin ended
  /\ ended' = ended \cup {"INX"}
  /\ UNCHANGED <<enabled, place, accepting, hooks, route, removal, metrics, shutdown, content>>

-----------------------------------------------------------------------------
(* The Prometheus exporter.                                                *)

Scrape ==
  /\ place # "down" /\ exporting /\ ~scraping /\ scraping' = TRUE
  /\ UNCHANGED <<enabled, place, accepting, hooks, route, removal, exporting, daemon, content>>

Scraped ==
  /\ scraping /\ scraping' = FALSE
  /\ UNCHANGED <<enabled, place, accepting, hooks, route, removal, exporting, daemon, content>>

\* Shutdown refuses new requests and waits for the running one, 5 s at most.
StopExporter ==
  /\ place # "down" /\ CtxDone("Prometheus") /\ "Prometheus" \notin ended
  /\ exporting' = FALSE
  /\ ended' = ended \cup {"Prometheus"}
  /\ UNCHANGED <<enabled, place, accepting, hooks, route, removal, scraping, shutdown, content>>

-----------------------------------------------------------------------------
(* The MQTT worker: NewBroker, Start.                                      *)

Unavailable == "INX" \in ended   \* calls to the node fail at once

\* LogFatal, or an error while the application is wired: no goroutine is left.
Down ==
  /\ place' = "down" /\ accepting' = {}
  /\ client' = [c \in Clients |-> Out] /\ job' = [p \in Publishers |-> Idle]
  /\ UNCHANGED <<enabled, hooks, route, removal, metrics, daemon, commitment>>

GoTo(next) == place' = next /\ UNCHANGED <<enabled, metrics, daemon, commitment, job>>

\* At least one listener must be enabled, with a valid address and
\* certificate; otherwise there is no broker and no application.
NewBrokerFails == place = "configuring" /\ Down

NewBroker ==
  /\ place = "configuring" /\ enabled # {}
  /\ dropHook' = TRUE /\ GoTo("hooking")
  /\ UNCHANGED <<accepting, brokerHooks, nodeHooks, route, removal, client>>

\* Mutant: the broker is started before its events are hooked.
BrokerStartFirst ==
  /\ place = "hooking"
  /\ accepting' = enabled /\ UNCHANGED place
  /\ UNCHANGED <<enabled, hooks, route, removal, metrics, daemon, content>>

HookBrokerEvents ==
  /\ place = "hooking"
  /\ brokerHooks' = TRUE /\ GoTo("starting")
  /\ UNCHANGED <<accepting, nodeHooks, dropHook, route, removal, client>>

AfterBrokerStart == IF "websocket" \in enabled THEN "registering" ELSE "hooking node"

BrokerStart ==
  /\ place = "starting"
  /\ accepting' = enabled /\ GoTo(AfterBrokerStart)
  /\ UNCHANGED <<hooks, route, removal, client>>

BrokerStartFails == place = "starting" /\ Down

\* The node executes the call, then the server gets the answer ...
NodeRegistersRoute ==
  /\ place = "registering" /\ ~Unavailable /\ ~route /\ route' = TRUE
  /\ UNCHANGED <<enabled, place, accepting, hooks, removal, metrics, daemon, content>>

RegisterAPIRoute ==
  /\ place = "registering" /\ route /\ GoTo("hooking node")
  /\ UNCHANGED <<accepting, hooks, route, removal, client>>

\* ... or an error, of the node or because the timeout or the worker's
\* context is over: LogFatalf.
RegisterAPIRouteFails == place = "registering" /\ Down

HookNodeEvents ==
  /\ place = "hooking node"
  /\ nodeHooks' = TRUE /\ GoTo("running")
  /\ UNCHANGED <<accepting, brokerHooks, dropHook, route, removal, client>>

-----------------------------------------------------------------------------
(* Stop.                                                                   *)

BeginStop ==
  /\ place = "running" /\ CtxDone("MQTT") /\ GoTo("unhooking")
  /\ UNCHANGED <<accepting, hooks, route, removal, client>>

UnhookBrokerEvents ==
  /\ place = "unhooking"
  /\ brokerHooks' = FALSE /\ GoTo("unhooking node")
  /\ UNCHANGED <<accepting, nodeHooks, dropHook, route, removal, client>>

\* Mutant: the clean-up function forgets the bridge's events.
UnhookNodeEventsForgotten ==
  /\ place = "unhooking node"
  /\ GoTo(IF "websocket" \in enabled THEN "unregistering" ELSE "unhooking drop")
  /\ UNCHANGED <<accepting, hooks, route, removal, client>>

UnhookNodeEvents ==
  /\ place = "unhooking node"
  /\ nodeHooks' = FALSE
  /\ GoTo(IF "websocket" \in enabled THEN "unregistering" ELSE "unhooking drop")
  /\ UNCHANGED <<accepting, brokerHooks, dropHook, route, removal, client>>

NodeRemovesRoute ==
  /\ place = "unregistering" /\ ~Unavailable /\ route /\ route' = FALSE
  /\ UNCHANGED <<enabled, place, accepting, hooks, removal, metrics, daemon, content>>

UnregisterAPIRoute ==
  /\ place = "unregistering" /\ ~route
  /\ removal' = "done" /\ GoTo("unhooking drop")
  /\ UNCHANGED <<accepting, hooks, route, client>>

\* Mutant: the call has no timeout and waits for the node.
UnregisterAPIRouteWaits ==
  /\ place = "unregistering" /\ Unavailable
  /\ removal' = "failed" /\ GoTo("unhooking drop")
  /\ UNCHANGED <<accepting, hooks, route, client>>

\* An error or the timeout of 5 s is only logged.
UnregisterAPIRouteFails ==
  /\ place = "unregistering"
  /\ removal' = "failed" /\ GoTo("unhooking drop")
  /\ UNCHANGED <<accepting, hooks, route, client>>

UnhookDropClient ==
  /\ place = "unhooking drop"
  /\ dropHook' = FALSE /\ GoTo("closing")
  /\ UNCHANGED <<accepting, brokerHooks, nodeHooks, route, removal, client>>

\* Mutant: the broker is closed first.
CloseBrokerEarly ==
  /\ place \in Stopping /\ accepting # {}
  /\ accepting' = {} /\ client' = [c \in Clients |-> Out]
  /\ UNCHANGED <<enabled, place, hooks, route, removal, metrics, daemon, commitment, job>>

\* Mutant: the clients stay connected.
CloseBrokerKeepsClients ==
  /\ place = "closing" /\ accepting' = {}
  /\ place' = "stopped" /\ ended' = ended \cup {"MQTT"}
  /\ UNCHANGED <<enabled, hooks, route, removal, metrics, shutdown, content>>

\* The listeners and the clients are closed, and the worker returns.
CloseBroker ==
  /\ place = "closing"
  /\ accepting' = {} /\ client' = [c \in Clients |-> Out]
  /\ place' = "stopped" /\ ended' = ended \cup {"MQTT"}
  /\ UNCHANGED <<enabled, hooks, route, removal, metrics, shutdown, commitment, job>>

-----------------------------------------------------------------------------
(* Clients and commitments.                                                *)

Unchanged == UNCHANGED <<enabled, place, accepting, hooks, route, removal, metrics, daemon>>

\* Mutant: no fetch for a new subscriber.
SubscribeWithoutFetch(c) ==
  /\ accepting # {} /\ ~client[c].subscribed
  /\ client' = [client EXCEPT ![c] = [Out EXCEPT !.subscribed = TRUE, !.early = ~nodeHooks,
                                                  !.handled = brokerHooks]]
  /\ Unchanged /\ UNCHANGED <<commitment, job>>

\* The client connects and subscribes; onSubscribeTopic starts the fetch.
\* (Bound: that of the client's previous subscription is over.)
Subscribe(c) ==
  /\ accepting # {} /\ ~client[c].subscribed /\ job[c] = Idle
  /\ client' = [client EXCEPT ![c] = [Out EXCEPT !.subscribed = TRUE, !.early = ~nodeHooks,
                                                  !.handled = brokerHooks]]
  /\ job' = IF brokerHooks THEN [job EXCEPT ![c].step = "check"] ELSE job
  /\ Unchanged /\ UNCHANGED commitment

\* The fetch goes on without the client.
Leave(c) ==
  /\ client[c].subscribed /\ client' = [client EXCEPT ![c] = Out]
  /\ Unchanged /\ UNCHANGED <<commitment, job>>

\* The bridge has a new commitment and calls the hook, if there is one; it
\* does nothing else until the hook returns.
CommitmentChanges ==
  /\ place # "down" /\ ~Unavailable
  /\ job[Bridge] = Idle /\ commitment < MaxCommitments
  /\ commitment' = commitment + 1
  /\ job' = IF nodeHooks
            THEN [job EXCEPT ![Bridge] = [step |-> "check", commitment |-> commitment']]
            ELSE job
  /\ client' = [c \in Clients |-> [client[c] EXCEPT !.told = FALSE]]
  /\ Unchanged

\* Nothing is encoded for a topic without subscribers.
HasSubscribers(p) ==
  /\ job[p].step = "check"
  /\ job' = IF \E c \in Clients : client[c].subscribed
            THEN [job EXCEPT ![p].step = "get"] ELSE [job EXCEPT ![p] = Idle]
  /\ Unchanged /\ UNCHANGED <<commitment, client>>

\* The event brings its commitment along, a fetch asks the bridge for the
\* latest.  Without one, or without an API for its version, there is nothing
\* to send.
GetCommitment(p) ==
  /\ job[p].step = "get"
  /\ LET v == IF p = Bridge THEN job[p].commitment ELSE commitment
     IN  job' = [job EXCEPT ![p] = IF v = 0 \/ v \in Unknown THEN Idle
                                   ELSE [step |-> "send", commitment |-> v]]
  /\ Unchanged /\ UNCHANGED <<commitment, client>>

\* Whatever is published reaches every subscriber, whoever it was meant for.
Receive(c, p) ==
  IF ~client[c].subscribed THEN client[c]
  ELSE [client[c] EXCEPT !.told  = @ \/ job[p].commitment = commitment,
                         !.early = @ /\ p # Bridge]

Send(p) ==
  /\ job[p].step = "send"
  /\ client' = [c \in Clients |-> Receive(c, p)]
  /\ job' = [job EXCEPT ![p] = Idle]
  /\ Unchanged /\ UNCHANGED commitment

Publish(p) == HasSubscribers(p) \/ GetCommitment(p) \/ Send(p)

-----------------------------------------------------------------------------
\* What the MQTT worker does on its own, and where it waits for the node.
Call == RegisterAPIRoute \/ RegisterAPIRouteFails \/ UnregisterAPIRoute \/ UnregisterAPIRouteFails
Step == \/ NewBroker \/ NewBrokerFails \/ HookBrokerEvents \/ BrokerStart \/ BrokerStartFails
        \/ HookNodeEvents \/ BeginStop \/ UnhookBrokerEvents \/ UnhookNodeEvents
        \/ UnhookDropClient \/ CloseBroker

Next == \/ RequestShutdown \/ DisconnectINX \/ Scrape \/ Scraped \/ StopExporter
        \/ Step \/ Call \/ NodeRegistersRoute \/ NodeRemovesRoute
        \/ CommitmentChanges
        \/ \E c \in Clients : Subscribe(c) \/ Leave(c)
        \/ \E p \in Publishers : Publish(p)

\* The service's own code goes on, and a call ends, at the latest when its
\* timeout does.  Nothing is assumed of clients, the node or signals.
Fairness ==
  /\ WF_vars(Step) /\ WF_vars(Call)
  /\ WF_vars(DisconnectINX) /\ WF_vars(StopExporter)
  /\ \A p \in Publishers : WF_vars(Publish(p))

Spec == Init /\ [][Next]_vars /\ Fairness

-----------------------------------------------------------------------------
\* As long as the process lives, the node forwards the API route only to a
\* broker that accepts websockets, unless it refused to remove the route: the
\* route is registered after the start and removed before the end.
RouteLeadsToBroker ==
  place # "down" /\ route /\ removal # "failed" => "websocket" \in accepting

\* No client that subscribes before the shutdown is overlooked: the broker's
\* events are hooked before it accepts anyone.
SubscriptionsAreHandled ==
  place \in Starting \cup {"running"} =>
    \A c \in Clients : client[c].subscribed => client[c].handled

\* The exporter, which reads the broker's metrics, accepts nothing any more
\* when the broker is closed; no client is served when the node is gone.
ShutdownInOrder ==
  /\ "MQTT" \in ended => ~exporting
  /\ "INX" \in ended => accepting = {} /\ ~nodeHooks

\* After an orderly end no event reaches the server, nobody is accepted, and
\* the route is gone or its removal failed and was logged.
NothingLeftBehind ==
  ended = Workers =>
    /\ ~brokerHooks /\ ~nodeHooks /\ ~dropHook /\ ~exporting
    /\ accepting = {} /\ (route => removal = "failed")

\* What a client that stays subscribed while the server runs waits for.
Waits(c) == /\ place = "running" /\ client[c].subscribed /\ ~client[c].told
            /\ commitment # 0 /\ commitment \notin Unknown

\* While the server runs, every subscriber receives the latest commitment,
\* from a fetch or from an event, however the two are interleaved.  (A late
\* fetch may send an older one after it, as nothing orders the publications.)
\* One that subscribed while Start was still under way may miss a change,
\* until the next event.
SubscribersComeUpToDate ==
  \A c \in Clients : []<>~(Waits(c) /\ ~client[c].early)

\* A requested shutdown ends: with all workers stopped and no publication
\* under way, or with the process when the start fails, whatever the node
\* answers.
ShutdownEnds ==
  shutdown ~> \/ place = "down"
              \/ ended = Workers /\ \A p \in Publishers : job[p] = Idle

=============================================================================
