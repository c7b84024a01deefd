---------------------------- MODULE BrokerSessions ----------------------------
(***************************************************************************)
(* How pkg/broker keeps the subscription manager informed of the sessions  *)
(* of the MQTT server: the hooks of broker_hook.go, the access rules they  *)
(* apply, and the handler of DropClient in broker.go.                      *)
(*                                                                         *)
(* The server runs one goroutine per connection, which calls the hooks of  *)
(* its own connection in order.  The server identifies a client by its ID, *)
(* and so does the manager: a second connection with the same ID takes the *)
(* session over and closes the first one, whose goroutine goes on to its   *)
(* own end.  Nothing orders the hooks of the two connections.              *)
(***************************************************************************)
EXTENDS TopicPatterns, FiniteSets

CONSTANTS
  Conns, ClientIDs, IDOf,  \* connections and [Conns -> ClientIDs]
  KnownUsers,              \* connections whose user name is in the users map
  RightPassword,           \* connections that give the right password
  Filters,                 \* the filters a packet may contain
  PublicTopics, ProtectedTopics,  \* the configured patterns
  MaxTopics,               \* MaxTopicSubscriptionsPerClient
  MaxCount,                \* how often a client repeats a subscription (bound)
  None

ASSUME SessionsAssumption ==
  /\ IDOf \in [Conns -> ClientIDs]
  /\ None \notin Conns /\ None \notin [Filters -> Nat]
  /\ MaxTopics \in Nat \ {0}

\* Topics are made of letters, patterns of letters and wildcards.
ASSUME PatternsAssumption ==
  /\ \A f \in Filters : f \in Seq(DOMAIN Lower)
  /\ PublicTopics \cup ProtectedTopics \subseteq Seq(DOMAIN Lower \cup {Wildcard})
  /\ \A l \in DOMAIN Lower : Lower[l] \in DOMAIN Lower /\ Lower[Lower[l]] = Lower[l]

VARIABLES
  pc,        \* where the goroutine of each connection is
  closed,    \* connections that have been closed, by either side
  hook,      \* the hook call a connection's goroutine still has to make
  clients,   \* the server's connection for each client ID
  filters,   \* the subscriptions the server holds for a connection
  manager    \* the subscription manager: client ID -> filter -> count

\* Observations: the client IDs that were reused before their last connection
\* had ended, and the connections that repeated a subscription or were refused
\* one.
VARIABLES overlapped, irregular

vars == <<pc, closed, hook, clients, filters, manager, overlapped, irregular>>

seen == <<overlapped, irregular>>

NoTopics  == [f \in Filters |-> 0]
Topics(m) == { f \in Filters : m[f] > 0 }
NoHook    == [call |-> "none", filters |-> {}]

TypeOK ==
  /\ pc \in [Conns -> {"new", "accepted", "reading", "gone"}]
  /\ closed \in SUBSET Conns
  /\ hook \in [Conns -> [call: {"none", "subscribed", "unsubscribed", "drop"},
                         filters: SUBSET Filters]]
  /\ clients \in [ClientIDs -> Conns \cup {None}]
  /\ filters \in [Conns -> SUBSET Filters]
  /\ manager \in [ClientIDs -> [Filters -> Nat] \cup {None}]
  /\ overlapped \in SUBSET ClientIDs /\ irregular \in SUBSET Conns
  /\ \A id \in ClientIDs :
       manager[id] # None => Cardinality(Topics(manager[id])) <= MaxTopics

Init ==
  /\ pc = [c \in Conns |-> "new"]
  /\ closed = {}
  /\ hook = [c \in Conns |-> NoHook]
  /\ clients = [id \in ClientIDs |-> None]
  /\ filters = [c \in Conns |-> {}]
  /\ manager = [id \in ClientIDs |-> None]
  /\ overlapped = {} /\ irregular = {}

-----------------------------------------------------------------------------
(* The access rules.                                                       *)

\* A user nobody knows may connect, a known one needs its password.
OnConnectAuthenticate(c) == c \in KnownUsers => c \in RightPassword

\* The filters the two lists of compiled patterns match.
Public    == { f \in Filters : MatchTopics(PublicTopics, f) }
Protected == { f \in Filters : MatchTopics(ProtectedTopics, f) }

\* Mutant: the public patterns are tried first.
ACLPublicFirst(c, f, write) ==
  ~write /\ (f \in Public \/ (f \in Protected /\ c \in KnownUsers))

\* Nobody may write.  Protected topics are for known users, all others must be
\* public.
OnACLCheck(c, f, write) ==
  ~write /\ IF f \in Protected THEN c \in KnownUsers ELSE f \in Public

-----------------------------------------------------------------------------
(* The server, as far as the hooks tell.                                   *)

\* A connection is accepted, and closes the one that has its client ID.
Accept(c) ==
  LET id == IDOf[c] IN
  /\ pc[c] = "new" /\ OnConnectAuthenticate(c)
  /\ pc' = [pc EXCEPT ![c] = "accepted"]
  /\ closed' = closed \cup ({clients[id]} \ {None})
  /\ clients' = [clients EXCEPT ![id] = c]
  /\ overlapped' = IF \E d \in Conns : IDOf[d] = id /\ pc[d] \in {"accepted", "reading"}
                   THEN overlapped \cup {id} ELSE overlapped
  /\ UNCHANGED <<hook, filters, manager, irregular>>

Refuse(c) ==
  /\ pc[c] = "new" /\ ~OnConnectAuthenticate(c)
  /\ pc' = [pc EXCEPT ![c] = "gone"]
  /\ UNCHANGED <<closed, hook, clients, filters, manager, seen>>

ReadsPacket(c) == pc[c] = "reading" /\ c \notin closed /\ hook[c] = NoHook

\* SUBSCRIBE: a filter the client may not read is answered by a reason code.
\* (A PUBLISH is refused by OnACLCheck and changes nothing here; if the server
\* closes the connection for it, that is Close.)
Subscribe(c, F) ==
  /\ ReadsPacket(c)
  /\ manager[IDOf[c]] # None => \A f \in F : manager[IDOf[c]][f] < MaxCount
  /\ filters' = [filters EXCEPT ![c] = @ \cup { f \in F : OnACLCheck(c, f, FALSE) }]
  /\ hook' = [hook EXCEPT ![c] = [call |-> "subscribed", filters |-> F]]
  /\ irregular' = IF \E f \in F : f \in filters[c] \/ ~OnACLCheck(c, f, FALSE)
                  THEN irregular \cup {c} ELSE irregular
  /\ UNCHANGED <<pc, closed, clients, manager, overlapped>>

Unsubscribe(c, F) ==
  /\ ReadsPacket(c)
  /\ filters' = [filters EXCEPT ![c] = @ \ F]
  /\ hook' = [hook EXCEPT ![c] = [call |-> "unsubscribed", filters |-> F]]
  /\ UNCHANGED <<pc, closed, clients, manager, seen>>

Close(c) ==
  /\ pc[c] \in {"accepted", "reading"} /\ c \notin closed
  /\ closed' = closed \cup {c}
  /\ UNCHANGED <<pc, hook, clients, filters, manager, seen>>

-----------------------------------------------------------------------------
(* The hooks.                                                              *)

\* The manager forgets what it knew of the client ID and starts afresh.
OnSessionEstablished(c) ==
  /\ pc[c] = "accepted"
  /\ pc' = [pc EXCEPT ![c] = "reading"]
  /\ manager' = [manager EXCEPT ![IDOf[c]] = NoTopics]
  /\ UNCHANGED <<closed, hook, clients, filters, seen>>

\* The hooks for packets tell the manager of one filter after the other.
Owes(c, call, f) == hook[c].call = call /\ f \in hook[c].filters

\* Mutant: the hook stops after the first filter.
NextFilterForgotten(c, f) == hook' = [hook EXCEPT ![c] = NoHook]

NextFilter(c, f) ==
  LET rest == hook[c].filters \ {f} IN
  hook' = [hook EXCEPT ![c] = IF rest = {} THEN NoHook ELSE [@ EXCEPT !.filters = rest]]

\* Mutant: the limit is not passed to the manager.
OnSubscribedUnlimited(c, f) ==
  /\ Owes(c, "subscribed", f) /\ NextFilter(c, f)
  /\ manager' = IF manager[IDOf[c]] = None THEN manager
                ELSE [manager EXCEPT ![IDOf[c]][f] = @ + 1]
  /\ UNCHANGED <<pc, closed, clients, filters, seen>>

\* Every filter of the packet is registered, whatever its reason code.  A
\* client with too many is removed and DropClient is triggered; only then is
\* the manager told the remaining filters.
OnSubscribed(c, f) ==
  LET id   == IDOf[c]
      more == [manager[id] EXCEPT ![f] = @ + 1]
  IN
  /\ Owes(c, "subscribed", f)
  /\ \/ manager[id] = None /\ UNCHANGED manager /\ NextFilter(c, f)
     \/ /\ manager[id] # None /\ Cardinality(Topics(more)) <= MaxTopics
        /\ manager' = [manager EXCEPT ![id] = more] /\ NextFilter(c, f)
     \/ /\ manager[id] # None /\ Cardinality(Topics(more)) > MaxTopics
        /\ manager' = [manager EXCEPT ![id] = None]
        /\ hook' = [hook EXCEPT ![c] = [call |-> "drop", filters |-> @.filters \ {f}]]
  /\ UNCHANGED <<pc, closed, clients, filters, seen>>

\* Mutant: the hook does not pass the filters on.
OnUnsubscribedIgnored(c, f) ==
  /\ Owes(c, "unsubscribed", f) /\ NextFilter(c, f)
  /\ UNCHANGED <<pc, closed, clients, filters, manager, seen>>

OnUnsubscribed(c, f) ==
  LET id == IDOf[c] IN
  /\ Owes(c, "unsubscribed", f) /\ NextFilter(c, f)
  /\ manager' = IF manager[id] # None /\ manager[id][f] > 0
                THEN [manager EXCEPT ![id][f] = @ - 1] ELSE manager
  /\ UNCHANGED <<pc, closed, clients, filters, seen>>

AfterDrop(c) ==
  hook' = [hook EXCEPT ![c] = IF @.filters = {} THEN NoHook ELSE [@ EXCEPT !.call = "subscribed"]]

\* Mutant: the client is deleted, but its connection goes on.
DropClientKeepsConnection(c) ==
  /\ hook[c].call = "drop" /\ AfterDrop(c)
  /\ clients' = [clients EXCEPT ![IDOf[c]] = None]
  /\ UNCHANGED <<pc, closed, filters, manager, seen>>

\* Whatever connection now has the client ID is stopped and deleted.
DropClient(c) ==
  /\ hook[c].call = "drop" /\ AfterDrop(c)
  /\ closed' = closed \cup ({clients[IDOf[c]]} \ {None})
  /\ clients' = [clients EXCEPT ![IDOf[c]] = None]
  /\ UNCHANGED <<pc, filters, manager, seen>>

\* Mutant: only the server's current connection is reported.
OnDisconnectDroppedUnreported(c) ==
  /\ pc[c] = "reading" /\ c \in closed /\ hook[c] = NoHook
  /\ pc' = [pc EXCEPT ![c] = "gone"]
  /\ filters' = [filters EXCEPT ![c] = {}]
  /\ IF clients[IDOf[c]] = c
     THEN UNCHANGED clients /\ manager' = [manager EXCEPT ![IDOf[c]] = None]
     ELSE UNCHANGED <<clients, manager>>
  /\ UNCHANGED <<closed, hook, seen>>

\* The manager is told the client ID only.
OnDisconnect(c) ==
  LET id == IDOf[c] IN
  /\ pc[c] = "reading" /\ c \in closed /\ hook[c] = NoHook
  /\ pc' = [pc EXCEPT ![c] = "gone"]
  /\ filters' = [filters EXCEPT ![c] = {}]
  /\ manager' = [manager EXCEPT ![id] = None]
  /\ clients' = [clients EXCEPT ![id] = IF @ = c THEN None ELSE @]
  /\ UNCHANGED <<closed, hook, seen>>

-----------------------------------------------------------------------------
HookStep(c) ==
  \/ OnSessionEstablished(c) \/ DropClient(c) \/ OnDisconnect(c)
  \/ \E f \in Filters : OnSubscribed(c, f) \/ OnUnsubscribed(c, f)

Next == \E c \in Conns :
  \/ Accept(c) \/ Refuse(c) \/ Close(c) \/ HookStep(c)
  \/ \E F \in SUBSET Filters \ {{}} : Subscribe(c, F) \/ Unsubscribe(c, F)

\* A goroutine makes the calls it owes; clients need not do anything.
Fairness == \A c \in Conns : WF_vars(HookStep(c))

Spec == Init /\ [][Next]_vars /\ Fairness

-----------------------------------------------------------------------------
(* What the hooks are for.                                                 *)

\* The one connection of its client ID, between two packets.
Settled(c) ==
  /\ pc[c] = "reading" /\ c \notin closed /\ hook[c] = NoHook
  /\ \A d \in Conns \ {c} : IDOf[d] = IDOf[c] => pc[d] \in {"new", "gone"}

\* The manager knows exactly the subscriptions of every settled connection:
\* BrokerHook "is responsible for keeping the subscription manager up to
\* date", and the server publishes only on topics the manager knows.
ManagerUpToDate ==
  \A c \in Conns : Settled(c) =>
    manager[IDOf[c]] # None /\ Topics(manager[IDOf[c]]) = filters[c]

\* As long as nobody reuses a client ID that is connected, every subscription
\* the server holds is known to the manager, however often it was repeated,
\* refused and given up: each packet is passed on filter by filter, and the
\* manager's count never falls behind the server's set.
NoSubscriptionForgotten ==
  \A c \in Conns : Settled(c) /\ IDOf[c] \notin overlapped =>
    manager[IDOf[c]] # None /\ filters[c] \subseteq Topics(manager[IDOf[c]])

\* ... and nothing else is known to it, if the client also repeated no
\* subscription and was refused none.
RegularClientsAreExact ==
  \A c \in Conns : Settled(c) /\ IDOf[c] \notin overlapped /\ c \notin irregular =>
    Topics(manager[IDOf[c]]) = filters[c]

\* The manager forgets a client whose connections have all ended, whatever
\* sessions took over from each other (OnDisconnect, DropClient): no
\* subscription keeps a stream of the node open for nobody.
NoGhostClients ==
  \A id \in ClientIDs :
    (\A c \in Conns : IDOf[c] = id => pc[c] \in {"new", "gone"}) => manager[id] = None

\* No connection holds a filter that a protected pattern names unless its user
\* proved who it is: the compiled patterns, OnConnectAuthenticate and
\* OnACLCheck together, none of which suffices alone.  It is so for every
\* pattern that can match anything, whatever the letters of the filter: the
\* match functions lower the topic and not the pattern, so one with a capital
\* protects nothing.
LowerCasePatternsProtect ==
  \A c \in Conns : (\E f \in filters[c] : \E p \in ProtectedTopics : ~HasCapital(p) /\ Names(p, f))
                    => c \in KnownUsers \cap RightPassword

\* A connection whose client the manager does not know, because it had too
\* many subscriptions, does not stay (DropClient), unless its ID is reused.
UnmanagedConnectionsEnd ==
  \A c \in Conns : pc[c] = "reading" /\ manager[IDOf[c]] = None
                    ~> pc[c] = "gone" \/ IDOf[c] \in overlapped
=============================================================================
