------------------------- MODULE BrokerSessionsProofs -------------------------
(***************************************************************************)
(* What BrokerSessions guarantees for any number of connections, client    *)
(* IDs and filters, take-overs included.                                   *)
(***************************************************************************)
EXTENDS BrokerSessions, FiniteSetTheorems, TLAPS

-----------------------------------------------------------------------------
(* No client without a connection.                                         *)

\* The manager knows a client ID only while one of its connections still
\* owes its OnDisconnect.
KnownClientsAreRead ==
  \A id \in ClientIDs : manager[id] # None => \E c \in Conns : IDOf[c] = id /\ pc[c] = "reading"

GhostInv ==
  /\ pc \in [Conns -> {"new", "accepted", "reading", "gone"}]
  /\ manager \in [ClientIDs -> [Filters -> Nat] \cup {None}]
  /\ KnownClientsAreRead

\* A step other than OnDisconnect keeps every reading connection reading.
LEMMA ReadingStays ==
  ASSUME GhostInv, NEW d \in Conns,
         Accept(d) \/ Refuse(d) \/ Close(d) \/ OnSessionEstablished(d)
  PROVE  \A c \in Conns : pc[c] = "reading" => pc'[c] = "reading"
  BY DEF GhostInv, Accept, Refuse, Close, OnSessionEstablished

LEMMA GhostInit == Init => GhostInv
  BY DEF Init, GhostInv, KnownClientsAreRead

LEMMA GhostNext == GhostInv /\ [Next]_vars => GhostInv'
<1> SUFFICES ASSUME GhostInv, [Next]_vars PROVE GhostInv'
  OBVIOUS
<1> USE SessionsAssumption
<1>1. CASE UNCHANGED vars
  BY <1>1 DEF GhostInv, KnownClientsAreRead, vars
<1>2. ASSUME NEW c \in Conns, Accept(c) \/ Refuse(c) \/ Close(c) PROVE GhostInv'
  <2>1. UNCHANGED manager /\ pc' \in [Conns -> {"new", "accepted", "reading", "gone"}]
    BY <1>2 DEF GhostInv, Accept, Refuse, Close
  <2> QED BY <1>2, <2>1, ReadingStays DEF GhostInv, KnownClientsAreRead
<1>3. ASSUME NEW c \in Conns, NEW F \in SUBSET Filters, Subscribe(c, F) \/ Unsubscribe(c, F)
      PROVE  GhostInv'
  <2>1. UNCHANGED <<pc, manager>>
    BY <1>3 DEF Subscribe, Unsubscribe
  <2> QED BY <2>1 DEF GhostInv, KnownClientsAreRead
<1>4. ASSUME NEW c \in Conns, OnSessionEstablished(c) PROVE GhostInv'
  <2>1. /\ pc' = [pc EXCEPT ![c] = "reading"]
        /\ manager' = [manager EXCEPT ![IDOf[c]] = NoTopics]
    BY <1>4 DEF OnSessionEstablished
  <2>2. NoTopics \in [Filters -> Nat] /\ IDOf[c] \in ClientIDs
    BY DEF NoTopics
  <2>3. KnownClientsAreRead'
    BY <2>1, <2>2 DEF GhostInv, KnownClientsAreRead
  <2> QED BY <2>1, <2>2, <2>3 DEF GhostInv
<1>5. ASSUME NEW c \in Conns, NEW f \in Filters, OnSubscribed(c, f) PROVE GhostInv'
  <2> DEFINE id == IDOf[c]
             more == [manager[id] EXCEPT ![f] = @ + 1]
  <2>1. manager[id] # None => more \in [Filters -> Nat]
    BY DEF GhostInv
  <2>2. /\ UNCHANGED pc
        /\ \/ manager' = manager
           \/ manager[id] # None /\ manager' = [manager EXCEPT ![id] = more]
           \/ manager' = [manager EXCEPT ![id] = None]
    BY <1>5 DEF OnSubscribed
  <2>3. KnownClientsAreRead'
    BY <2>1, <2>2 DEF GhostInv, KnownClientsAreRead
  <2>4. manager' \in [ClientIDs -> [Filters -> Nat] \cup {None}]
    BY <2>1, <2>2 DEF GhostInv
  <2> QED BY <2>2, <2>3, <2>4 DEF GhostInv
<1>6. ASSUME NEW c \in Conns, NEW f \in Filters, OnUnsubscribed(c, f) PROVE GhostInv'
  <2> DEFINE id == IDOf[c]
             fewer == [manager[id] EXCEPT ![f] = @ - 1]
  <2>1. manager[id] # None /\ manager[id][f] > 0 => fewer \in [Filters -> Nat]
    BY DEF GhostInv
  <2>2. /\ UNCHANGED pc
        /\ \/ manager' = manager
           \/ /\ manager[id] # None /\ manager[id][f] > 0
              /\ manager' = [manager EXCEPT ![id] = fewer]
    BY <1>6 DEF OnUnsubscribed
  <2>3. KnownClientsAreRead'
    BY <2>2 DEF GhostInv, KnownClientsAreRead
  <2> QED BY <2>1, <2>2, <2>3 DEF GhostInv
<1>7. ASSUME NEW c \in Conns, DropClient(c) PROVE GhostInv'
  BY <1>7 DEF GhostInv, KnownClientsAreRead, DropClient
<1>8. ASSUME NEW c \in Conns, OnDisconnect(c) PROVE GhostInv'
  <2>1. /\ pc' = [pc EXCEPT ![c] = "gone"]
        /\ manager' = [manager EXCEPT ![IDOf[c]] = None]
    BY <1>8 DEF OnDisconnect
  <2> QED BY <2>1 DEF GhostInv, KnownClientsAreRead
<1> QED BY <1>1, <1>2, <1>3, <1>4, <1>5, <1>6, <1>7, <1>8 DEF Next, HookStep

\* The manager forgets every client whose connections have all ended, in
\* whatever order their hooks were called (OnSessionEstablished,
\* OnDisconnect and DropClient).
THEOREM GhostsNeverStay == Spec => []NoGhostClients
<1>1. GhostInv => NoGhostClients
  BY DEF GhostInv, KnownClientsAreRead, NoGhostClients
<1> QED BY <1>1, GhostInit, GhostNext, PTL DEF Spec

-----------------------------------------------------------------------------
(* The access rules.                                                       *)

\* A topic that a protected pattern without capitals names is protected: the
\* match is not spoiled by the topic's lower case, nor by its free beginning.
LEMMA NamedIsProtected ==
  ASSUME NEW f \in Filters, NEW p \in ProtectedTopics, ~HasCapital(p), Names(p, f)
  PROVE  f \in Protected
<1>1. PICK cut \in Cuts(p, f) : CompileTopicAsRegex(p, f, cut)
  BY DEF Names
<1>2. f \in Seq(DOMAIN Lower) /\ p \in Seq(DOMAIN Lower \cup {Wildcard})
  BY PatternsAssumption
<1>3. \A i \in 1 .. Len(p) : p[i] # Wildcard => Lower[p[i]] = p[i]
  BY <1>2 DEF HasCapital
<1>4. ToLower(f) = [i \in 1 .. Len(f) |-> Lower[f[i]]]
  BY <1>2 DEF ToLower
<1>5. Len(ToLower(f)) = Len(f)
  BY <1>2, <1>4
<1>6. cut \in [0 .. Len(p) -> 0 .. Len(f)] /\ Len(p) \in Nat /\ Len(f) \in Nat
  BY <1>1, <1>2 DEF Cuts
<1>7. ASSUME NEW i \in 1 .. Len(p), p[i] # Wildcard
      PROVE  cut[i] = cut[i - 1] + 1 /\ ToLower(f)[cut[i]] = p[i]
  <2>1. cut[i] = cut[i - 1] + 1 /\ f[cut[i]] = p[i]
    BY <1>1, <1>7 DEF CompileTopicAsRegex
  <2>2. cut[i] \in 1 .. Len(f)
    BY <1>6, <2>1
  <2> QED BY <1>3, <1>4, <1>7, <2>1, <2>2
<1>8. CompileTopicAsRegex(p, ToLower(f), cut)
  BY <1>1, <1>5, <1>7 DEF CompileTopicAsRegex
<1>9. MatchString(p, ToLower(f))
  BY <1>1, <1>5, <1>8 DEF MatchString, Cuts
<1> QED BY <1>9 DEF Protected, MatchTopics

\* A pattern with a capital matches no topic, whatever the letters of the topic:
\* the topics that matchProtectedTopics finds are those of the other patterns.
THEOREM CapitalsMatchNothing ==
  ASSUME NEW f \in Filters, NEW p \in PublicTopics \cup ProtectedTopics, HasCapital(p)
  PROVE  ~MatchString(p, ToLower(f))
<1> SUFFICES ASSUME MatchString(p, ToLower(f)) PROVE FALSE
  OBVIOUS
<1>1. f \in Seq(DOMAIN Lower) /\ p \in Seq(DOMAIN Lower \cup {Wildcard})
  BY PatternsAssumption
<1>2. ToLower(f) = [i \in 1 .. Len(f) |-> Lower[f[i]]] /\ Len(ToLower(f)) = Len(f)
  BY <1>1 DEF ToLower
<1>3. PICK cut \in [0 .. Len(p) -> 0 .. Len(f)] : CompileTopicAsRegex(p, ToLower(f), cut)
  BY <1>2 DEF MatchString, Cuts
<1>4. PICK i \in 1 .. Len(p) : p[i] # Wildcard /\ Lower[p[i]] # p[i]
  BY <1>1 DEF HasCapital
<1>5. cut[i] = cut[i - 1] + 1 /\ ToLower(f)[cut[i]] = p[i]
  BY <1>3, <1>4 DEF CompileTopicAsRegex
<1>6. cut[i] \in 1 .. Len(f)
  BY <1>1, <1>3, <1>5
<1>7. f[cut[i]] \in DOMAIN Lower /\ p[i] = Lower[f[cut[i]]]
  BY <1>1, <1>2, <1>5, <1>6
<1> QED BY <1>4, <1>7, PatternsAssumption

\* Only an authenticated connection gets past Accept, and only then does it
\* hold filters.
AccessInv ==
  /\ pc \in [Conns -> {"new", "accepted", "reading", "gone"}]
  /\ filters \in [Conns -> SUBSET Filters]
  /\ \A c \in Conns : pc[c] \in {"accepted", "reading"} => OnConnectAuthenticate(c)
  /\ \A c \in Conns : filters[c] \cap Protected # {} => c \in KnownUsers \cap RightPassword

LEMMA AccessInit == Init => AccessInv
  BY DEF Init, AccessInv

LEMMA AccessNext == AccessInv /\ [Next]_vars => AccessInv'
<1> SUFFICES ASSUME AccessInv, [Next]_vars PROVE AccessInv'
  OBVIOUS
<1> USE DEF AccessInv, OnConnectAuthenticate
<1>1. CASE UNCHANGED vars
  BY <1>1 DEF vars
<1>2. ASSUME NEW c \in Conns, Accept(c) \/ Refuse(c) \/ Close(c) PROVE AccessInv'
  BY <1>2 DEF Accept, Refuse, Close
<1>3. ASSUME NEW c \in Conns, NEW F \in SUBSET Filters, Subscribe(c, F) PROVE AccessInv'
  <2> DEFINE granted == { f \in F : OnACLCheck(c, f, FALSE) }
  <2>1. /\ pc[c] = "reading" /\ UNCHANGED pc
        /\ filters' = [filters EXCEPT ![c] = @ \cup granted]
    BY <1>3 DEF Subscribe, ReadsPacket
  <2>2. granted \cap Protected # {} => c \in KnownUsers \cap RightPassword
    BY <2>1 DEF OnACLCheck
  <2>3. granted \subseteq Filters
    OBVIOUS
  <2> HIDE DEF granted
  <2> QED BY <2>1, <2>2, <2>3
<1>4. ASSUME NEW c \in Conns, NEW F \in SUBSET Filters, Unsubscribe(c, F) PROVE AccessInv'
  BY <1>4 DEF Unsubscribe
<1>5. ASSUME NEW c \in Conns, OnSessionEstablished(c) \/ DropClient(c) \/ OnDisconnect(c)
      PROVE  AccessInv'
  BY <1>5 DEF OnSessionEstablished, DropClient, OnDisconnect
<1>6. ASSUME NEW c \in Conns, NEW f \in Filters, OnSubscribed(c, f) \/ OnUnsubscribed(c, f)
      PROVE  AccessInv'
  <2>1. UNCHANGED <<pc, filters>>
    BY <1>6 DEF OnSubscribed, OnUnsubscribed
  <2> QED BY <2>1
<1> QED BY <1>1, <1>2, <1>3, <1>4, <1>5, <1>6 DEF Next, HookStep

\* Whatever patterns are configured, a connection holds a filter that one of
\* the protected patterns without capitals names only if its user is known and
\* gave the right password (the compiled patterns, OnConnectAuthenticate and
\* OnACLCheck together).
THEOREM ProtectedIsProtected == Spec => []LowerCasePatternsProtect
<1>1. AccessInv => LowerCasePatternsProtect
  BY NamedIsProtected DEF AccessInv, LowerCasePatternsProtect
<1> QED BY <1>1, AccessInit, AccessNext, PTL DEF Spec

-----------------------------------------------------------------------------
(* What the manager knows of a connection that has its client ID alone.    *)

Active(c) == pc[c] \in {"accepted", "reading"}

\* No other connection has used the client ID meanwhile.
Alone(c) == Active(c) /\ IDOf[c] \notin overlapped

\* The manager's counts are cardinalities only of finite sets.
TypeInv ==
  /\ TypeOK
  /\ \A id \in ClientIDs : manager[id] # None => IsFiniteSet(Topics(manager[id]))

\* Two connections with one client ID overlap; the server finds the only one
\* unless it was closed; and only a reading connection is inside a hook.
AloneInv ==
  /\ \A c, d \in Conns : IDOf[c] = IDOf[d] /\ Alone(c) /\ Alone(d) => c = d
  /\ \A c \in Conns : Alone(c) => c \in closed \/ clients[IDOf[c]] = c
  /\ \A c \in Conns : pc[c] # "reading" => hook[c] = NoHook
  /\ \A c \in Conns : pc[c] \in {"new", "accepted"} => filters[c] = {}

\* What the manager knows of a regular connection is nothing else: every
\* count is at most one, and zero where the running hook will raise it.
KnownExactly(c) ==
  \A f \in Filters :
    /\ manager[IDOf[c]][f] <= 1
    /\ Owes(c, "subscribed", f) => manager[IDOf[c]][f] = 0 /\ f \in filters[c]
    /\ manager[IDOf[c]][f] > 0 => f \in filters[c] \/ Owes(c, "unsubscribed", f)

\* The manager knows every filter of the connection, or the running hook will
\* still tell it; a filter that is being unsubscribed is held no more.  If
\* the manager has dropped the client, the connection ends.
Known(c) ==
  Alone(c) /\ pc[c] = "reading" =>
    IF manager[IDOf[c]] = None THEN c \in closed \/ hook[c].call = "drop"
    ELSE /\ hook[c].call # "drop"
         /\ \A f \in filters[c] : manager[IDOf[c]][f] > 0 \/ Owes(c, "subscribed", f)
         /\ \A f \in Filters : Owes(c, "unsubscribed", f) => f \notin filters[c]
         /\ c \notin irregular => KnownExactly(c)

SessionInv == TypeInv /\ AloneInv /\ \A c \in Conns : Known(c)

-----------------------------------------------------------------------------
(* Types.                                                                  *)

\* The manager of TypeOK's last conjunct, as a statement about one client's
\* counts, which three lemmas show the hooks to keep.
Managed(m) ==
  m \in [Filters -> Nat] /\ IsFiniteSet(Topics(m)) /\ Cardinality(Topics(m)) <= MaxTopics

LEMMA NoTopicsManaged == Managed(NoTopics)
<1>1. Topics(NoTopics) = {}
  BY DEF Topics, NoTopics
<1> QED BY <1>1, FS_EmptySet, SessionsAssumption DEF Managed, NoTopics

LEMMA MoreManaged ==
  ASSUME NEW m, Managed(m), NEW f \in Filters,
         Cardinality(Topics([m EXCEPT ![f] = @ + 1])) <= MaxTopics
  PROVE  Managed([m EXCEPT ![f] = @ + 1])
<1> DEFINE more == [m EXCEPT ![f] = @ + 1]
<1>1. more \in [Filters -> Nat]
  BY DEF Managed
<1>2. Topics(more) = Topics(m) \cup {f}
  BY DEF Managed, Topics
<1>3. IsFiniteSet(Topics(m) \cup {f})
  BY FS_AddElement DEF Managed
<1> HIDE DEF more
<1>4. IsFiniteSet(Topics(more))
  BY <1>2, <1>3
<1> QED BY <1>1, <1>4 DEF Managed, more

LEMMA FewerManaged ==
  ASSUME NEW m, Managed(m), NEW f \in Filters, m[f] > 0
  PROVE  Managed([m EXCEPT ![f] = @ - 1])
<1> DEFINE fewer == [m EXCEPT ![f] = @ - 1]
<1>1. fewer \in [Filters -> Nat]
  BY DEF Managed
<1>2. Topics(fewer) \in SUBSET Topics(m)
  BY DEF Managed, Topics
<1>3. IsFiniteSet(Topics(fewer)) /\ Cardinality(Topics(fewer)) <= Cardinality(Topics(m))
  BY <1>2, FS_Subset DEF Managed
<1>4. Cardinality(Topics(fewer)) \in Nat /\ Cardinality(Topics(m)) \in Nat
  BY <1>3, FS_CardinalityType DEF Managed
<1>5. Cardinality(Topics(fewer)) <= MaxTopics
  BY <1>3, <1>4, SessionsAssumption DEF Managed
<1> QED BY <1>1, <1>3, <1>5 DEF Managed

\* What a step does to the manager: nothing, or one client's counts begin,
\* grow, shrink or are forgotten.
LEMMA ManagerSteps ==
  ASSUME TypeInv, [Next]_vars
  PROVE  \A id \in ClientIDs : manager'[id] # None => Managed(manager'[id])
<1> SUFFICES ASSUME NEW id \in ClientIDs, manager'[id] # None, manager'[id] # manager[id]
             PROVE  Managed(manager'[id])
  BY DEF TypeInv, TypeOK, Managed
<1> USE SessionsAssumption
<1>1. manager \in [ClientIDs -> [Filters -> Nat] \cup {None}]
      /\ (manager[id] # None => Managed(manager[id]))
  BY DEF TypeInv, TypeOK, Managed
<1>2. ASSUME NEW c \in Conns, OnSessionEstablished(c) PROVE Managed(manager'[id])
  BY <1>1, <1>2, NoTopicsManaged DEF OnSessionEstablished
<1>3. ASSUME NEW c \in Conns, NEW f \in Filters, OnSubscribed(c, f) PROVE Managed(manager'[id])
  <2> DEFINE more == [manager[id] EXCEPT ![f] = @ + 1]
  <2>1. /\ IDOf[c] = id /\ manager[id] # None /\ manager'[id] = more
        /\ Cardinality(Topics(more)) <= MaxTopics
    BY <1>1, <1>3 DEF OnSubscribed
  <2> QED BY <1>1, <2>1, MoreManaged
<1>4. ASSUME NEW c \in Conns, NEW f \in Filters, OnUnsubscribed(c, f) PROVE Managed(manager'[id])
  <2>1. /\ IDOf[c] = id /\ manager[id] # None /\ manager[id][f] > 0
        /\ manager'[id] = [manager[id] EXCEPT ![f] = @ - 1]
    BY <1>1, <1>4 DEF OnUnsubscribed
  <2> QED BY <1>1, <2>1, FewerManaged
<1>5. ASSUME NEW c \in Conns, OnDisconnect(c) PROVE FALSE
  BY <1>1, <1>5 DEF OnDisconnect
<1>6. ASSUME UNCHANGED manager PROVE FALSE
  BY <1>6
<1> QED BY <1>2, <1>3, <1>4, <1>5, <1>6
        DEF Next, HookStep, Accept, Refuse, Close, Subscribe, Unsubscribe, DropClient, vars

\* The types without the manager's.
Variables ==
  /\ pc \in [Conns -> {"new", "accepted", "reading", "gone"}]
  /\ closed \in SUBSET Conns
  /\ hook \in [Conns -> [call: {"none", "subscribed", "unsubscribed", "drop"},
                         filters: SUBSET Filters]]
  /\ clients \in [ClientIDs -> Conns \cup {None}]
  /\ filters \in [Conns -> SUBSET Filters]
  /\ overlapped \in SUBSET ClientIDs /\ irregular \in SUBSET Conns

LEMMA TypesInit == Init => TypeInv
  BY DEF Init, TypeInv, TypeOK, NoHook

LEMMA VariablesNext ==
  ASSUME Variables, [Next]_vars
  PROVE  Variables'
<1> USE SessionsAssumption DEF Variables
<1> DEFINE Calls == [call: {"none", "subscribed", "unsubscribed", "drop"}, filters: SUBSET Filters]
<1>1. CASE UNCHANGED vars
  BY <1>1 DEF vars
<1>2. ASSUME NEW c \in Conns, Accept(c) PROVE Variables'
  BY <1>2 DEF Accept
<1>3. ASSUME NEW c \in Conns, Refuse(c) \/ Close(c) PROVE Variables'
  BY <1>3 DEF Refuse, Close, seen
<1>4. ASSUME NEW c \in Conns, NEW F \in SUBSET Filters, Subscribe(c, F) PROVE Variables'
  BY <1>4 DEF Subscribe
<1>5. ASSUME NEW c \in Conns, NEW F \in SUBSET Filters, Unsubscribe(c, F) PROVE Variables'
  BY <1>5 DEF Unsubscribe, seen
<1>6. ASSUME NEW c \in Conns, OnSessionEstablished(c) \/ OnDisconnect(c) PROVE Variables'
  <2>1. CASE OnSessionEstablished(c)
    BY <2>1 DEF OnSessionEstablished, seen
  <2>2. CASE OnDisconnect(c)
    <3>1. clients' \in [ClientIDs -> Conns \cup {None}]
      BY <2>2 DEF OnDisconnect
    <3>2. pc' \in [Conns -> {"new", "accepted", "reading", "gone"}]
          /\ filters' \in [Conns -> SUBSET Filters] /\ UNCHANGED <<closed, hook, seen>>
      BY <2>2 DEF OnDisconnect
    <3> QED BY <3>1, <3>2 DEF seen
  <2> QED BY <1>6, <2>1, <2>2
<1>7. ASSUME NEW c \in Conns, NEW f \in Filters, NextFilter(c, f) PROVE hook' \in [Conns -> Calls]
  BY <1>7 DEF NextFilter, NoHook
<1>8. ASSUME NEW c \in Conns, NEW f \in Filters, OnSubscribed(c, f) \/ OnUnsubscribed(c, f)
      PROVE  Variables'
  <2>1. UNCHANGED <<pc, closed, clients, filters, seen>>
    BY <1>8 DEF OnSubscribed, OnUnsubscribed
  <2>2. NextFilter(c, f) \/ hook' = [hook EXCEPT ![c] = [call |-> "drop", filters |-> @.filters \ {f}]]
    BY <1>8 DEF OnSubscribed, OnUnsubscribed
  <2>3. hook' \in [Conns -> Calls]
    BY <1>7, <2>2
  <2> QED BY <2>1, <2>3 DEF seen
<1>9. ASSUME NEW c \in Conns, DropClient(c) PROVE Variables'
  BY <1>9 DEF DropClient, AfterDrop, NoHook, seen
<1> QED BY <1>1, <1>2, <1>3, <1>4, <1>5, <1>6, <1>8, <1>9 DEF Next, HookStep

LEMMA TypesNext == TypeInv /\ [Next]_vars => TypeInv'
<1> SUFFICES ASSUME TypeInv, [Next]_vars PROVE TypeInv'
  OBVIOUS
<1>1. Variables'
  BY VariablesNext DEF TypeInv, TypeOK, Variables
<1>2. \A id \in ClientIDs : manager'[id] # None => Managed(manager'[id])
  BY ManagerSteps
<1>3. manager' = [id \in ClientIDs |-> manager'[id]]
  <2>1. manager = [id \in ClientIDs |-> manager[id]]
    BY DEF TypeInv, TypeOK
  <2>2. \A id, m : [manager EXCEPT ![id] = m] = [i \in ClientIDs |-> [manager EXCEPT ![id] = m][i]]
    BY <2>1
  <2>3. ASSUME NEW c \in Conns, NEW f \in Filters, OnSubscribed(c, f) \/ OnUnsubscribed(c, f)
        PROVE  manager' = manager \/ \E id, m : manager' = [manager EXCEPT ![id] = m]
    <3>1. CASE OnSubscribed(c, f)
      BY <3>1 DEF OnSubscribed
    <3>2. CASE OnUnsubscribed(c, f)
      BY <3>2 DEF OnUnsubscribed
    <3> QED BY <2>3, <3>1, <3>2
  <2>4. manager' = manager \/ \E id, m : manager' = [manager EXCEPT ![id] = m]
    BY <2>3 DEF Next, HookStep, Accept, Refuse, Close, Subscribe, Unsubscribe,
                OnSessionEstablished, DropClient, OnDisconnect, vars
  <2> QED BY <2>1, <2>2, <2>4
<1>4. manager' \in [ClientIDs -> [Filters -> Nat] \cup {None}]
  BY <1>2, <1>3 DEF Managed
<1> QED BY <1>1, <1>2, <1>4 DEF TypeInv, TypeOK, Variables, Managed
-----------------------------------------------------------------------------
(* Connections that have their client ID alone.                            *)

\* A connection that is alone was so before, unless it has just been
\* accepted; then no other connection is alone with its client ID.
LEMMA AloneBefore ==
  ASSUME TypeInv, [Next]_vars, NEW c \in Conns, Alone(c)'
  PROVE  \/ Alone(c) /\ \A d \in Conns : Accept(d) => IDOf[d] # IDOf[c]
         \/ Accept(c)
<1> USE SessionsAssumption DEF Alone, Active
<1>0. Variables
  BY DEF TypeInv, TypeOK, Variables
<1> USE <1>0 DEF Variables
<1>1. CASE \E d \in Conns : Accept(d)
  <2>1. PICK d \in Conns : Accept(d)
    BY <1>1
  <2>2. CASE d = c
    BY <2>1, <2>2
  <2>3. CASE d # c
    <3>1. pc'[c] = pc[c] /\ pc'[d] = "accepted" /\ pc[d] = "new"
      BY <2>1, <2>3 DEF Accept
    <3>2. IDOf[c] # IDOf[d] /\ IDOf[c] \notin overlapped
      BY <2>1, <3>1 DEF Accept
    <3>3. \A e \in Conns : Accept(e) => e = d
      BY <2>1, <3>1 DEF Accept
    <3> QED BY <3>1, <3>2, <3>3
  <2> QED BY <2>2, <2>3
<1>2. CASE ~\E d \in Conns : Accept(d)
  <2>1. ASSUME NEW d \in Conns, Refuse(d) \/ Close(d) PROVE Alone(c)
    BY <2>1 DEF Refuse, Close, seen
  <2>2. ASSUME NEW d \in Conns, HookStep(d) PROVE Alone(c)
    BY <2>2 DEF HookStep, OnSessionEstablished, DropClient, OnDisconnect, OnSubscribed,
                OnUnsubscribed, seen
  <2>3. ASSUME NEW d \in Conns, NEW F \in SUBSET Filters, Subscribe(d, F) \/ Unsubscribe(d, F)
        PROVE  Alone(c)
    BY <2>3 DEF Subscribe, Unsubscribe, seen
  <2>4. ASSUME UNCHANGED vars PROVE Alone(c)
    BY <2>4 DEF vars
  <2> QED BY <1>2, <2>1, <2>2, <2>3, <2>4 DEF Next
<1> QED BY <1>1, <1>2

LEMMA AloneInit == Init => AloneInv
  BY DEF Init, AloneInv, Alone, Active

LEMMA AloneNext ==
  ASSUME TypeInv, AloneInv, [Next]_vars
  PROVE  AloneInv'
<1> USE SessionsAssumption
<1>0. Variables /\ Variables'
  BY VariablesNext DEF TypeInv, TypeOK, Variables
<1> USE <1>0 DEF Variables
<1>1. \A c, d \in Conns : IDOf[c] = IDOf[d] /\ Alone(c)' /\ Alone(d)' => c = d
  <2> SUFFICES ASSUME NEW c \in Conns, NEW d \in Conns, IDOf[c] = IDOf[d],
                      Alone(c)', Alone(d)'
               PROVE  c = d
    OBVIOUS
  <2>1. CASE Accept(c) /\ Accept(d)
    BY <2>1 DEF Accept
  <2> QED BY <2>1, AloneBefore DEF AloneInv
<1>2. ASSUME NEW c \in Conns, Alone(c)' PROVE c \in closed' \/ clients'[IDOf[c]] = c
  <2>1. CASE Accept(c)
    BY <2>1 DEF Accept
  <2>2. CASE Alone(c) /\ \A d \in Conns : Accept(d) => IDOf[d] # IDOf[c]
    <3>1. c \in closed \/ clients[IDOf[c]] = c
      BY <2>2 DEF AloneInv
    <3>2. ASSUME NEW d \in Conns, Accept(d) PROVE c \in closed' \/ clients'[IDOf[c]] = c
      BY <2>2, <3>1, <3>2 DEF Accept
    <3>3. ASSUME NEW d \in Conns, DropClient(d) PROVE c \in closed' \/ clients'[IDOf[c]] = c
      BY <3>1, <3>3 DEF DropClient
    <3>4. ASSUME NEW d \in Conns, OnDisconnect(d) PROVE c \in closed' \/ clients'[IDOf[c]] = c
      <4>1. CASE c = d
        BY <3>4, <4>1 DEF OnDisconnect
      <4>2. CASE c # d
        BY <3>1, <3>4, <4>2 DEF OnDisconnect
      <4> QED BY <4>1, <4>2
    <3>5. CASE UNCHANGED clients /\ closed \subseteq closed'
      BY <3>1, <3>5
    <3> QED BY <3>2, <3>3, <3>4, <3>5 DEF Next, HookStep, Refuse, Close, Subscribe, Unsubscribe,
               OnSessionEstablished, OnSubscribed, OnUnsubscribed, vars
  <2> QED BY <1>2, <2>1, <2>2, AloneBefore
<1>3. ASSUME NEW c \in Conns
      PROVE  /\ pc'[c] # "reading" => hook'[c] = NoHook
             /\ pc'[c] \in {"new", "accepted"} => filters'[c] = {}
  <2>1. /\ pc[c] # "reading" => hook[c] = NoHook
        /\ pc[c] \in {"new", "accepted"} => filters[c] = {}
    BY DEF AloneInv
  <2>2. ASSUME NEW d \in Conns, Accept(d) \/ Refuse(d) \/ Close(d) \/ OnSessionEstablished(d)
        PROVE  /\ UNCHANGED <<hook, filters>> /\ (pc'[c] # "reading" => pc[c] # "reading")
               /\ (pc'[c] \in {"new", "accepted"} => pc[c] \in {"new", "accepted"})
    BY <2>2 DEF Accept, Refuse, Close, OnSessionEstablished
  <2>3. ASSUME NEW d \in Conns, NEW F \in SUBSET Filters, Subscribe(d, F) \/ Unsubscribe(d, F)
        PROVE  /\ UNCHANGED pc /\ pc[d] = "reading"
               /\ c # d => hook'[c] = hook[c] /\ filters'[c] = filters[c]
    BY <2>3 DEF Subscribe, Unsubscribe, ReadsPacket
  <2>4. ASSUME NEW d \in Conns, NEW f \in Filters, OnSubscribed(d, f) \/ OnUnsubscribed(d, f)
        PROVE  /\ UNCHANGED <<pc, filters>> /\ hook[d] # NoHook
               /\ c # d => hook'[c] = hook[c]
    BY <2>4 DEF OnSubscribed, OnUnsubscribed, NextFilter, Owes, NoHook
  <2>5. ASSUME NEW d \in Conns, DropClient(d)
        PROVE  /\ UNCHANGED <<pc, filters>> /\ hook[d] # NoHook
               /\ c # d => hook'[c] = hook[c]
    BY <2>5 DEF DropClient, AfterDrop, NoHook
  <2>6. ASSUME NEW d \in Conns, OnDisconnect(d)
        PROVE  /\ UNCHANGED hook /\ hook[d] = NoHook /\ pc'[d] = "gone"
               /\ c # d => filters'[c] = filters[c] /\ pc'[c] = pc[c]
    BY <2>6 DEF OnDisconnect
  <2>7. CASE UNCHANGED vars
    BY <2>1, <2>7 DEF vars
  <2>8. ASSUME NEW d \in Conns, HookStep(d)
        PROVE  /\ pc'[c] # "reading" => hook'[c] = NoHook
               /\ pc'[c] \in {"new", "accepted"} => filters'[c] = {}
    <3>1. \A e \in Conns : hook[e] # NoHook => pc[e] = "reading"
      BY DEF AloneInv
    <3> QED BY <2>1, <2>2, <2>4, <2>5, <2>6, <2>8, <3>1 DEF HookStep
  <2> QED BY <2>1, <2>2, <2>3, <2>7, <2>8 DEF Next
<1> QED BY <1>1, <1>2, <1>3 DEF AloneInv
-----------------------------------------------------------------------------
(* What the manager knows of them.                                         *)

\* A step that leaves a connection and its client's counts as they are keeps
\* what is known; that it closes connections or marks them irregular is
\* no harm.
LEMMA Unaffected ==
  ASSUME NEW c \in Conns, Known(c), Alone(c), pc[c] = "reading",
         hook'[c] = hook[c], filters'[c] = filters[c], manager'[IDOf[c]] = manager[IDOf[c]],
         closed \subseteq closed', irregular \subseteq irregular'
  PROVE  Known(c)'
  BY DEF Known, KnownExactly, Owes

\* The steps of a connection change another one only by closing it, unless
\* the two share a client ID.
LEMMA OthersUnaffected ==
  ASSUME TypeInv, AloneInv, NEW c \in Conns, Alone(c), NEW d \in Conns, d # c,
         \/ Accept(d) \/ Refuse(d) \/ Close(d) \/ HookStep(d)
         \/ \E F \in SUBSET Filters \ {{}} : Subscribe(d, F) \/ Unsubscribe(d, F)
  PROVE  /\ pc'[c] = pc[c] /\ hook'[c] = hook[c] /\ filters'[c] = filters[c]
         /\ manager'[IDOf[c]] = manager[IDOf[c]]
         /\ closed \subseteq closed' /\ irregular \subseteq irregular'
<1> USE SessionsAssumption
<1>0. Variables /\ manager \in [ClientIDs -> [Filters -> Nat] \cup {None}]
  BY DEF TypeInv, TypeOK, Variables
<1> USE <1>0 DEF Variables
<1>1. CASE Accept(d) \/ Refuse(d) \/ Close(d)
  BY <1>1 DEF Accept, Refuse, Close, seen
<1>2. ASSUME NEW F \in SUBSET Filters, Subscribe(d, F) \/ Unsubscribe(d, F)
      PROVE  /\ pc'[c] = pc[c] /\ hook'[c] = hook[c] /\ filters'[c] = filters[c]
             /\ manager'[IDOf[c]] = manager[IDOf[c]]
             /\ closed \subseteq closed' /\ irregular \subseteq irregular'
  BY <1>2 DEF Subscribe, Unsubscribe, seen
<1>3. CASE HookStep(d)
  <2>1. pc[d] \in {"accepted", "reading"}
    <3>1. hook[d] # NoHook => pc[d] = "reading"
      BY DEF AloneInv
    <3>2. ASSUME NEW f \in Filters, OnSubscribed(d, f) \/ OnUnsubscribed(d, f) PROVE hook[d] # NoHook
      BY <3>2 DEF OnSubscribed, OnUnsubscribed, Owes, NoHook
    <3>3. DropClient(d) => hook[d] # NoHook
      BY DEF DropClient, NoHook
    <3>4. OnSessionEstablished(d) \/ OnDisconnect(d) => pc[d] \in {"accepted", "reading"}
      BY DEF OnSessionEstablished, OnDisconnect
    <3> QED BY <1>3, <3>1, <3>2, <3>3, <3>4 DEF HookStep
  <2>2. IDOf[d] # IDOf[c]
    BY <2>1 DEF AloneInv, Alone, Active
  <2>3. CASE OnSessionEstablished(d) \/ OnDisconnect(d)
    BY <2>2, <2>3 DEF OnSessionEstablished, OnDisconnect, seen
  <2>4. CASE DropClient(d)
    BY <2>4 DEF DropClient, AfterDrop, seen
  <2>5. ASSUME NEW f \in Filters, OnSubscribed(d, f) \/ OnUnsubscribed(d, f)
        PROVE  /\ UNCHANGED <<pc, closed, filters, seen>> /\ hook'[c] = hook[c]
               /\ manager'[IDOf[c]] = manager[IDOf[c]]
    BY <2>2, <2>5 DEF OnSubscribed, OnUnsubscribed, NextFilter
  <2> QED BY <1>3, <2>3, <2>4, <2>5 DEF HookStep, seen
<1> QED BY <1>1, <1>2, <1>3

\* The session begins with nothing known and no filter.
LEMMA KnownEstablished ==
  ASSUME SessionInv, NEW c \in Conns, OnSessionEstablished(c)
  PROVE  Known(c)'
<1>1. filters'[c] = {} /\ hook'[c] = NoHook
  BY DEF OnSessionEstablished, SessionInv, AloneInv
<1>2. manager'[IDOf[c]] = NoTopics
  BY SessionsAssumption DEF OnSessionEstablished, SessionInv, TypeInv, TypeOK
<1>3. NoTopics # None /\ \A f \in Filters : NoTopics[f] = 0
  <2>1. NoTopics \in [Filters -> Nat]
    BY DEF NoTopics
  <2> QED BY <2>1, SessionsAssumption DEF NoTopics
<1> QED BY <1>1, <1>2, <1>3 DEF Known, KnownExactly, Owes, NoHook

\* The client's own packets: what is added is owed, and what is given up is
\* held no more.
LEMMA KnownSubscribe ==
  ASSUME SessionInv, NEW c \in Conns, NEW F \in SUBSET Filters, Subscribe(c, F), Alone(c)
  PROVE  Known(c)'
<1> USE SessionsAssumption
<1> DEFINE granted == { f \in F : OnACLCheck(c, f, FALSE) }
<1>1. /\ pc[c] = "reading" /\ hook[c] = NoHook /\ UNCHANGED <<pc, closed, manager, overlapped>>
      /\ c \notin closed
      /\ filters'[c] = filters[c] \cup granted
      /\ hook'[c] = [call |-> "subscribed", filters |-> F]
      /\ c \notin irregular' => \A f \in F : f \notin filters[c] /\ f \in granted
      /\ c \notin irregular' => c \notin irregular
  BY DEF Subscribe, ReadsPacket, SessionInv, TypeInv, TypeOK
<1>2. granted \subseteq F
  OBVIOUS
<1> HIDE DEF granted
<1>3. manager[IDOf[c]] # None /\ \A f \in filters[c] : manager[IDOf[c]][f] > 0
  BY <1>1 DEF SessionInv, Known, NoHook, Owes
<1>4. \A f \in Filters : ~Owes(c, "unsubscribed", f) /\ ~Owes(c, "subscribed", f)
  BY <1>1 DEF NoHook, Owes
<1>5. ASSUME c \notin irregular' PROVE KnownExactly(c)'
  <2>1. KnownExactly(c)
    BY <1>1, <1>3, <1>5 DEF SessionInv, Known
  <2>2. \A f \in F : manager[IDOf[c]][f] = 0
    BY <1>1, <1>3, <1>4, <1>5, <2>1 DEF KnownExactly, SessionInv, TypeInv, TypeOK
  <2> QED BY <1>1, <1>4, <1>5, <2>1, <2>2 DEF KnownExactly, Owes
<1> QED BY <1>1, <1>2, <1>3, <1>5 DEF Known, Owes

LEMMA KnownUnsubscribe ==
  ASSUME SessionInv, NEW c \in Conns, NEW F \in SUBSET Filters, Unsubscribe(c, F), Alone(c)
  PROVE  Known(c)'
<1> USE SessionsAssumption
<1>1. /\ pc[c] = "reading" /\ hook[c] = NoHook
      /\ UNCHANGED <<pc, closed, manager, overlapped, irregular>>
      /\ c \notin closed
      /\ filters'[c] = filters[c] \ F
      /\ hook'[c] = [call |-> "unsubscribed", filters |-> F]
  BY DEF Unsubscribe, ReadsPacket, SessionInv, TypeInv, TypeOK, seen
<1>2. manager[IDOf[c]] # None /\ \A f \in filters[c] : manager[IDOf[c]][f] > 0
  BY <1>1 DEF SessionInv, Known, NoHook, Owes
<1>3. \A f \in Filters : ~Owes(c, "unsubscribed", f) /\ ~Owes(c, "subscribed", f)
  BY <1>1 DEF NoHook, Owes
<1>4. ASSUME c \notin irregular PROVE KnownExactly(c)'
  <2>1. KnownExactly(c)
    BY <1>1, <1>2, <1>4 DEF SessionInv, Known
  <2> QED BY <1>1, <1>3, <2>1 DEF KnownExactly, Owes
<1> QED BY <1>1, <1>2, <1>4 DEF Known, Owes

\* One filter has been told: it is not owed any more, all others are.
LEMMA OneFilterLess ==
  ASSUME TypeInv, NEW c \in Conns, NEW f \in Filters, NextFilter(c, f),
         NEW call \in {"subscribed", "unsubscribed"}, Owes(c, call, f)
  PROVE  /\ \A g \in Filters : Owes(c, call, g)' <=> Owes(c, call, g) /\ g # f
         /\ \A g \in Filters, other \in {"subscribed", "unsubscribed"} :
              other # call => ~Owes(c, other, g) /\ ~Owes(c, other, g)'
         /\ hook[c].call = call /\ hook'[c].call # "drop"
<1>1. hook \in [Conns -> [call: {"none", "subscribed", "unsubscribed", "drop"},
                         filters: SUBSET Filters]]
  BY DEF TypeInv, TypeOK
<1> QED BY <1>1 DEF NextFilter, Owes, NoHook

LEMMA KnownSubscribed ==
  ASSUME SessionInv, NEW c \in Conns, NEW f \in Filters, OnSubscribed(c, f), Alone(c)
  PROVE  Known(c)'
<1> USE SessionsAssumption
<1> DEFINE id == IDOf[c]
           more == [manager[id] EXCEPT ![f] = @ + 1]
<1>1. /\ manager \in [ClientIDs -> [Filters -> Nat] \cup {None}] /\ id \in ClientIDs
      /\ filters \in [Conns -> SUBSET Filters]
      /\ Owes(c, "subscribed", f) /\ UNCHANGED <<pc, closed, clients, filters, overlapped, irregular>>
  BY DEF OnSubscribed, SessionInv, TypeInv, TypeOK, seen
<1>2. /\ pc[c] = "reading" /\ hook[c].call = "subscribed"
      /\ \A g \in Filters : ~Owes(c, "unsubscribed", g)
  BY <1>1 DEF SessionInv, AloneInv, Owes, NoHook
<1>3. CASE manager[id] = None
  <2>1. c \in closed
    BY <1>2, <1>3 DEF SessionInv, Known
  <2>2. UNCHANGED manager
    BY <1>3 DEF OnSubscribed
  <2> QED BY <1>1, <1>3, <2>1, <2>2 DEF Known
<1>4. CASE manager[id] # None /\ manager' = [manager EXCEPT ![id] = None]
  <2>1. manager[id] # None /\ manager'[id] = None
    BY <1>1, <1>4
  <2>2. hook'[c].call = "drop"
    <3>1. manager' # [manager EXCEPT ![id] = more]
      BY <1>1, <2>1
    <3>2. hook' = [hook EXCEPT ![c] = [call |-> "drop", filters |-> @.filters \ {f}]]
      BY <2>1, <3>1 DEF OnSubscribed
    <3> QED BY <3>2 DEF SessionInv, TypeInv, TypeOK
  <2> QED BY <2>1, <2>2 DEF Known
<1>5. CASE manager[id] # None /\ manager' = [manager EXCEPT ![id] = more] /\ NextFilter(c, f)
  <2>1. manager'[id] = more /\ more \in [Filters -> Nat] /\ manager[id] \in [Filters -> Nat]
        /\ more # None /\ more[f] = manager[id][f] + 1
        /\ \A g \in Filters \ {f} : more[g] = manager[id][g]
    BY <1>1, <1>5
  <2> HIDE DEF more
  <2>2. /\ \A g \in Filters : Owes(c, "subscribed", g)' <=> Owes(c, "subscribed", g) /\ g # f
        /\ \A g \in Filters : ~Owes(c, "unsubscribed", g)'
        /\ hook'[c].call # "drop"
    BY <1>1, <1>5, OneFilterLess DEF SessionInv
  <2>3. /\ \A g \in filters[c] : manager[id][g] > 0 \/ Owes(c, "subscribed", g)
        /\ c \notin irregular => KnownExactly(c)
    BY <1>2, <1>5 DEF SessionInv, Known
  <2>4. \A g \in filters'[c] : more[g] > 0 \/ Owes(c, "subscribed", g)'
    BY <1>1, <2>1, <2>2, <2>3
  <2>5. ASSUME c \notin irregular, NEW g \in Filters
        PROVE  /\ more[g] <= 1
               /\ Owes(c, "subscribed", g)' => more[g] = 0 /\ g \in filters'[c]
               /\ more[g] > 0 => g \in filters'[c]
    <3>1. /\ manager[id][g] <= 1
          /\ Owes(c, "subscribed", g) => manager[id][g] = 0 /\ g \in filters[c]
          /\ manager[id][g] > 0 => g \in filters[c]
      BY <1>2, <2>3, <2>5 DEF KnownExactly
    <3>2. CASE g = f
      BY <1>1, <2>1, <2>2, <3>1, <3>2
    <3>3. CASE g # f
      BY <1>1, <2>1, <2>2, <3>1, <3>3
    <3> QED BY <3>2, <3>3
  <2>6. c \notin irregular' => KnownExactly(c)'
    BY <1>1, <2>1, <2>5 DEF KnownExactly
  <2> QED BY <1>1, <2>1, <2>2, <2>4, <2>6 DEF Known
<1> QED BY <1>3, <1>4, <1>5 DEF OnSubscribed

LEMMA KnownUnsubscribed ==
  ASSUME SessionInv, NEW c \in Conns, NEW f \in Filters, OnUnsubscribed(c, f), Alone(c)
  PROVE  Known(c)'
<1> USE SessionsAssumption
<1> DEFINE id == IDOf[c]
<1>1. /\ manager \in [ClientIDs -> [Filters -> Nat] \cup {None}] /\ id \in ClientIDs
      /\ filters \in [Conns -> SUBSET Filters]
      /\ Owes(c, "unsubscribed", f) /\ NextFilter(c, f)
      /\ UNCHANGED <<pc, closed, clients, filters, overlapped, irregular>>
  BY DEF OnUnsubscribed, SessionInv, TypeInv, TypeOK, seen
<1>2. pc[c] = "reading" /\ hook[c].call = "unsubscribed"
  BY <1>1 DEF SessionInv, AloneInv, Owes, NoHook
<1>3. CASE manager[id] = None
  <2>1. c \in closed
    BY <1>2, <1>3 DEF SessionInv, Known
  <2>2. UNCHANGED manager
    BY <1>3 DEF OnUnsubscribed
  <2> QED BY <1>1, <1>3, <2>1, <2>2 DEF Known
<1>4. CASE manager[id] # None
  <2>1. /\ manager[id] \in [Filters -> Nat] /\ manager'[id] \in [Filters -> Nat]
        /\ manager'[id] # None
        /\ manager'[id][f] = IF manager[id][f] > 0 THEN manager[id][f] - 1 ELSE 0
        /\ \A g \in Filters \ {f} : manager'[id][g] = manager[id][g]
    <3>1. manager[id] \in [Filters -> Nat]
      BY <1>1, <1>4
    <3>2. CASE manager[id][f] > 0
      <4>1. manager'[id] = [manager[id] EXCEPT ![f] = @ - 1]
        BY <1>1, <1>4, <3>2 DEF OnUnsubscribed
      <4> QED BY <3>1, <3>2, <4>1
    <3>3. CASE ~(manager[id][f] > 0)
      <4>1. manager' = manager
        BY <3>3 DEF OnUnsubscribed
      <4> QED BY <1>4, <3>1, <3>3, <4>1
    <3> QED BY <3>2, <3>3
  <2>2. /\ \A g \in Filters : Owes(c, "unsubscribed", g)' <=> Owes(c, "unsubscribed", g) /\ g # f
        /\ \A g \in Filters : ~Owes(c, "subscribed", g) /\ ~Owes(c, "subscribed", g)'
        /\ hook'[c].call # "drop"
    BY <1>1, OneFilterLess DEF SessionInv
  <2>3. /\ \A g \in filters[c] : manager[id][g] > 0
        /\ \A g \in Filters : Owes(c, "unsubscribed", g) => g \notin filters[c]
        /\ c \notin irregular => KnownExactly(c)
    BY <1>1, <1>2, <1>4, <2>2 DEF SessionInv, Known
  <2>4. \A g \in filters'[c] : manager'[id][g] > 0
    BY <1>1, <2>1, <2>3
  <2>5. ASSUME c \notin irregular, NEW g \in Filters
        PROVE  /\ manager'[id][g] <= 1
               /\ manager'[id][g] > 0 => g \in filters'[c] \/ Owes(c, "unsubscribed", g)'
    <3>1. /\ manager[id][g] <= 1
          /\ manager[id][g] > 0 => g \in filters[c] \/ Owes(c, "unsubscribed", g)
      BY <2>3, <2>5 DEF KnownExactly
    <3>2. CASE g = f
      BY <1>1, <2>1, <3>1, <3>2
    <3>3. CASE g # f
      BY <1>1, <2>1, <2>2, <3>1, <3>3
    <3> QED BY <3>2, <3>3
  <2>6. c \notin irregular' => KnownExactly(c)'
    BY <1>1, <2>2, <2>5 DEF KnownExactly
  <2> QED BY <1>1, <2>1, <2>2, <2>3, <2>4, <2>6 DEF Known
<1> QED BY <1>3, <1>4

\* The connection DropClient finds is the one that has the ID alone, unless it
\* has been closed before.
LEMMA KnownDropped ==
  ASSUME SessionInv, NEW c \in Conns, DropClient(c), Alone(c), pc[c] = "reading"
  PROVE  Known(c)'
<1>1. manager[IDOf[c]] = None
  BY DEF SessionInv, Known, DropClient
<1>2. c \in closed'
  BY SessionsAssumption DEF DropClient, SessionInv, AloneInv
<1>3. UNCHANGED manager
  BY DEF DropClient
<1> QED BY <1>1, <1>2, <1>3 DEF Known

LEMMA KnownInit == Init => \A c \in Conns : Known(c)
  BY DEF Init, Known

LEMMA KnownNext ==
  ASSUME SessionInv, [Next]_vars, NEW c \in Conns
  PROVE  Known(c)'
<1> SUFFICES ASSUME Alone(c)', pc'[c] = "reading" PROVE Known(c)'
  BY DEF Known
<1>1. Alone(c) /\ pc[c] \in {"accepted", "reading"}
  <2>1. ~Accept(c)
    BY DEF Accept, SessionInv, TypeInv, TypeOK
  <2> QED BY <2>1, AloneBefore DEF SessionInv, Alone, Active
<1>2. CASE UNCHANGED vars
  BY <1>2 DEF vars, SessionInv, Known, KnownExactly, Owes, Alone, Active
<1>3. ASSUME NEW d \in Conns, d # c,
             \/ Accept(d) \/ Refuse(d) \/ Close(d) \/ HookStep(d)
             \/ \E F \in SUBSET Filters \ {{}} : Subscribe(d, F) \/ Unsubscribe(d, F)
      PROVE  Known(c)'
  <2>1. /\ pc'[c] = pc[c] /\ hook'[c] = hook[c] /\ filters'[c] = filters[c]
        /\ manager'[IDOf[c]] = manager[IDOf[c]]
        /\ closed \subseteq closed' /\ irregular \subseteq irregular'
    BY <1>1, <1>3, OthersUnaffected DEF SessionInv
  <2> QED BY <1>1, <2>1, Unaffected DEF SessionInv
<1>4. ASSUME Accept(c) \/ Refuse(c) \/ Close(c) PROVE Known(c)'
  <2>1. Close(c) /\ pc[c] = "reading"
    BY <1>1, <1>4 DEF Accept, Refuse, Close, SessionInv, TypeInv, TypeOK
  <2> QED BY <1>1, <2>1, Unaffected DEF Close, SessionInv, seen
<1>5. ASSUME HookStep(c) PROVE Known(c)'
  <2>1. ~OnDisconnect(c)
    BY DEF OnDisconnect, SessionInv, TypeInv, TypeOK
  <2>2. DropClient(c) => pc[c] = "reading"
    BY DEF DropClient, SessionInv, AloneInv, NoHook
  <2> QED BY <1>1, <1>5, <2>1, <2>2, KnownEstablished, KnownSubscribed, KnownUnsubscribed,
             KnownDropped DEF HookStep
<1>6. ASSUME NEW F \in SUBSET Filters, Subscribe(c, F) \/ Unsubscribe(c, F) PROVE Known(c)'
  BY <1>1, <1>6, KnownSubscribe, KnownUnsubscribe
<1> QED BY <1>2, <1>3, <1>4, <1>5, <1>6 DEF Next

LEMMA SessionNext == SessionInv /\ [Next]_vars => SessionInv'
  BY TypesNext, AloneNext, KnownNext DEF SessionInv

\* Every session has its types: the manager never knows more filters of a
\* client than MaxTopicSubscriptionsPerClient, because OnSubscribed passes it
\* the limit.
THEOREM SessionTypes == Spec => []TypeOK
<1>1. TypeInv => TypeOK
  BY DEF TypeInv
<1> QED BY <1>1, TypesInit, TypesNext, PTL DEF Spec

\* Between two packets, the manager knows every filter that the server holds
\* for a connection whose client ID nobody reuses: the packets' hooks pass
\* each filter on, repeated, refused or not.
THEOREM NoFilterIsForgotten == Spec => []NoSubscriptionForgotten
<1>1. SessionInv => NoSubscriptionForgotten
  BY DEF SessionInv, Known, NoSubscriptionForgotten, Settled, Alone, Active, Owes, NoHook,
         TypeInv, TypeOK, Topics
<1>2. Init => SessionInv
  BY TypesInit, AloneInit, KnownInit DEF SessionInv
<1> QED BY <1>1, <1>2, SessionNext, PTL DEF Spec

\* ... and no other filter, of a client that repeated no subscription and was
\* refused none: counts and sets never part.
THEOREM RegularClientsAreKnownExactly == Spec => []RegularClientsAreExact
<1>1. SessionInv => RegularClientsAreExact
  <2> SUFFICES ASSUME SessionInv, NEW c \in Conns, Settled(c), IDOf[c] \notin overlapped,
                      c \notin irregular
               PROVE  Topics(manager[IDOf[c]]) = filters[c]
    BY DEF RegularClientsAreExact
  <2>1. /\ \A f \in filters[c] : manager[IDOf[c]][f] > 0
        /\ KnownExactly(c) /\ \A f \in Filters : ~Owes(c, "unsubscribed", f)
    BY DEF SessionInv, Known, Settled, Alone, Active, Owes, NoHook
  <2>2. filters[c] \subseteq Filters
    BY DEF SessionInv, TypeInv, TypeOK
  <2> QED BY <2>1, <2>2 DEF KnownExactly, Topics
<1>2. Init => SessionInv
  BY TypesInit, AloneInit, KnownInit DEF SessionInv
<1> QED BY <1>1, <1>2, SessionNext, PTL DEF Spec
=============================================================================
