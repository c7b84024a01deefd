----------------------------- MODULE NodeFetches -----------------------------
(***************************************************************************)
(* One goroutine that publishes, in the detail TopicUpdates leaves out:    *)
(* pkg/mqtt/publish.go and the fetch functions of pkg/mqtt/server.go.      *)
(*                                                                         *)
(* A publication goes through the formats, JSON first, and the topics of   *)
(* each.  Its payload is made for the first topic that has subscribers: an *)
(* API is chosen, then the object is read, from the bridge or by calls to  *)
(* the node, which may answer, fail or stay silent until the call's        *)
(* context ends; then it is encoded, which may fail as well.  Meanwhile    *)
(* the object changes, clients subscribe and unsubscribe, deadlines pass   *)
(* and the caller's context is cancelled.  A callback of a stream makes    *)
(* several publications in a row.                                          *)
(***************************************************************************)
EXTENDS Naturals, Sequences

CONSTANTS
  Programs,     \* the sequences of publications a goroutine may make
  NumTopics,    \* topics of a publication
  MaxVersion    \* how often the object changes (bound)

(* The publications, by where their payload comes from.                    *)
(*   "event"       a hook of the bridge: the commitment of the event       *)
(*   "commitment"  fetchAndPublishLatestCommitmentTopic, ...Finalized...   *)
(*   "given"       publishOutputIfSubscribed in a callback                 *)
(*   "output"      fetchAndPublishOutput                                   *)
(*   "metadata"    fetchAndPublishBlockMetadata, ...TransactionMetadata    *)
(*   "inclusion"   ...TransactionInclusionBlockMetadataWithBlockID         *)
(*   "lookup"      ...TransactionInclusionBlockMetadata                    *)
Known    == {"event", "given"}
Timed    == {"inclusion", "lookup"}
Kinds    == Known \cup Timed \cup {"commitment", "output", "metadata"}
Formats  == {"json", "raw"}
Topics   == 1 .. NumTopics
Versions == 1 .. MaxVersion

\* Those whose closures keep what they read.
Cached == Known \cup Timed \cup {"output"}

ASSUME ProgramAssumption ==
  \A p \in Programs : p \in Seq(Kinds) /\ p # <<>>
ASSUME BoundAssumption == NumTopics \in Nat \ {0} /\ MaxVersion \in Nat \ {0}

VARIABLES
  version,     \* the object's state at the node, 0 while there is none
  subscribed,  \* the <<format, topic>> pairs that have subscribers
  ctx,         \* the context of the goroutine: "live" or "done"
  work,        \* the publications still to make, the running one first
  step,        \* where the running publication is
  at,          \* its format and topic
  api,         \* the version whose API encodes the payload
  payload,     \* the payload of the running format, 0 for nil
  cache,       \* what the closures of the publication have kept, or 0
  expired,     \* deadlines that have passed: "fetch" of ctxFetch, "lookup" of the inner one
  failed,      \* the publication has ended with an error
  sent         \* what it has sent on each topic in each format, or 0

\* Observations: the version when the publication began, and the topics that
\* have had subscribers ever since.
VARIABLES since, steady

env  == <<version, subscribed, ctx, steady>>
prog == <<work, step, at, api, payload, cache, expired, failed, sent, since>>
vars == <<env, prog>>

Places  == Formats \X Topics
First   == <<"json", 1>>
Nothing == [p \in Places |-> 0]
Kind    == Head(work)
Running == step \notin {"idle", "done"}

TypeOK ==
  /\ version \in 0 .. MaxVersion
  /\ subscribed \in SUBSET Places /\ steady \in SUBSET subscribed
  /\ ctx \in {"live", "done"}
  /\ work \in Seq(Kinds) /\ (Running => work # <<>>)
  /\ step \in {"idle", "output", "check", "api", "bridge", "lookup", "call",
               "encode", "send", "done"}
  /\ at \in Places
  /\ api \in 0 .. MaxVersion /\ payload \in 0 .. MaxVersion
  /\ cache \in 0 .. MaxVersion /\ since \in 0 .. MaxVersion
  /\ expired \in SUBSET {"fetch", "lookup"} /\ (expired # {} => "fetch" \in expired)
  /\ failed \in BOOLEAN
  /\ sent \in [Places -> 0 .. MaxVersion]
  /\ step \in {"encode", "send"} => payload # 0

Init ==
  /\ version \in 0 .. MaxVersion
  /\ subscribed \in SUBSET Places /\ steady = {}
  /\ ctx = "live"
  /\ work \in Programs /\ step = "idle" /\ at = First
  /\ \A i \in DOMAIN work : work[i] \in Known => version # 0
  /\ api = 0 /\ payload = 0 /\ cache = 0 /\ since = 0
  /\ expired = {} /\ failed = FALSE /\ sent = Nothing

-----------------------------------------------------------------------------
(* The surroundings.                                                       *)

Change ==
  /\ version < MaxVersion /\ version' = version + 1
  /\ UNCHANGED <<subscribed, steady, ctx, prog>>

SubscribersChange(p) ==
  /\ subscribed' = IF p \in subscribed THEN subscribed \ {p} ELSE subscribed \cup {p}
  /\ steady' = steady \ {p}
  /\ UNCHANGED <<version, ctx, prog>>

\* The last subscriber of a callback's stream leaves, or the worker ends.
Cancel ==
  /\ ctx = "live" /\ ctx' = "done"
  /\ UNCHANGED <<version, subscribed, steady, prog>>

\* Mutant: the inner deadline may be the shorter one.
ExpireUnordered(d) ==
  /\ Running /\ Kind \in Timed /\ d \notin expired
  /\ d = "lookup" => step = "lookup"
  /\ expired' = expired \cup {d}
  /\ UNCHANGED <<env, work, step, at, api, payload, cache, failed, sent, since>>

\* The two deadlines have the same length; the inner one begins later.
Expire(d) ==
  /\ Running /\ Kind \in Timed /\ d \notin expired
  /\ d = "lookup" => step = "lookup" /\ "fetch" \in expired
  /\ expired' = expired \cup {d}
  /\ UNCHANGED <<env, work, step, at, api, payload, cache, failed, sent, since>>

-----------------------------------------------------------------------------
(* The publication.                                                        *)

\* Mutant: what the closures keep outlives the publication.
BeginKeepsCache ==
  /\ ~Running /\ work # <<>>
  /\ since' = version /\ steady' = subscribed
  /\ IF Kind \in Known THEN \E v \in Versions : v <= version /\ cache' = v
                       ELSE UNCHANGED cache
  /\ step' = IF Kind = "output" THEN "output" ELSE "check"
  /\ at' = First /\ api' = 0 /\ payload' = 0 /\ expired' = {}
  /\ failed' = FALSE /\ sent' = Nothing
  /\ UNCHANGED <<version, subscribed, ctx, work>>

\* A publication of an event has its payload, possibly no longer the newest.
Begin ==
  /\ ~Running /\ work # <<>>
  /\ since' = version /\ steady' = subscribed
  /\ IF Kind \in Known THEN \E v \in Versions : v <= version /\ cache' = v
                       ELSE cache' = 0
  /\ step' = IF Kind = "output" THEN "output" ELSE "check"
  /\ at' = First /\ api' = 0 /\ payload' = 0 /\ expired' = {}
  /\ failed' = FALSE /\ sent' = Nothing
  /\ UNCHANGED <<version, subscribed, ctx, work>>

\* An error ends the publication in both formats; the caller only logs it.
End(error) == step' = "done" /\ failed' = error /\ work' = Tail(work)

\* The next topic, with the payload there is; or the next format, without.
Advance ==
  IF at[2] < NumTopics
  THEN at' = <<at[1], at[2] + 1>> /\ step' = "check" /\ UNCHANGED <<payload, work, failed>>
  ELSE IF at[1] = "json"
       THEN at' = <<"raw", 1>> /\ step' = "check" /\ payload' = 0 /\ UNCHANGED <<work, failed>>
       ELSE End(FALSE) /\ UNCHANGED <<at, payload>>

\* Mutant: a topic without subscribers ends the publication.
CheckReturns ==
  /\ step = "check"
  /\ IF at \in subscribed
     THEN step' = (IF payload = 0 THEN "api" ELSE "send") /\ UNCHANGED <<at, payload, work, failed>>
     ELSE End(FALSE) /\ UNCHANGED <<at, payload>>
  /\ UNCHANGED <<env, api, cache, expired, sent, since>>

\* HasSubscribers.
Check ==
  /\ step = "check"
  /\ IF at \in subscribed
     THEN step' = (IF payload = 0 THEN "api" ELSE "send") /\ UNCHANGED <<at, payload, work, failed>>
     ELSE Advance
  /\ UNCHANGED <<env, api, cache, expired, sent, since>>

\* The API: that of a commitment read for the purpose, if there are one and
\* an API for its version; for the other objects the committed one, whose
\* version is left out.
ChooseAPI ==
  /\ step = "api" /\ (Kind = "commitment" => version # 0)
  /\ api' = CASE Kind = "commitment" -> version [] Kind = "event" -> cache [] OTHER -> api
  /\ payload' = IF Kind \in Cached THEN cache ELSE 0
  /\ step' = IF payload' # 0 THEN "encode"
             ELSE CASE Kind = "commitment" -> "bridge"
                    [] Kind = "lookup"     -> "lookup"
                    [] OTHER               -> "call"
  /\ expired' = expired \ {"lookup"}
  /\ UNCHANGED <<env, work, at, cache, failed, sent, since>>

NoAPI ==
  /\ step = "api" /\ Kind \in {"commitment", "event"} /\ End(TRUE)
  /\ UNCHANGED <<env, at, api, payload, cache, expired, sent, since>>

\* Mutant: the commitment is the one the fetch began with.
ReadCommitmentEarly ==
  /\ step = "bridge"
  /\ payload' = (IF since = 0 THEN version ELSE since) /\ step' = "encode"
  /\ UNCHANGED <<env, work, at, api, cache, expired, failed, sent, since>>

\* commitmentFunc is called again for the payload.
ReadCommitment ==
  /\ step = "bridge"
  /\ payload' = version /\ step' = "encode"
  /\ UNCHANGED <<env, work, at, api, cache, expired, failed, sent, since>>

\* JSONEncode or Encode, once for the topics of a format.
Encode ==
  /\ step = "encode" /\ step' = "send"
  /\ UNCHANGED <<env, work, at, api, payload, cache, expired, failed, sent, since>>

EncodeFails ==
  /\ step = "encode" /\ End(TRUE)
  /\ UNCHANGED <<env, at, api, payload, cache, expired, sent, since>>

-----------------------------------------------------------------------------
(* The calls to the node.                                                  *)

Calling == step \in {"output", "lookup", "call"}

\* The context the running call was given, or one it derives from, is done.
ContextDone ==
  \/ ctx = "done"
  \/ step = "call" /\ Kind \in Timed /\ "fetch" \in expired
  \/ step = "lookup" /\ "lookup" \in expired

\* Mutant: the answer is not kept for the other format.
AnswerUncached ==
  /\ Calling /\ ~ContextDone /\ version # 0
  /\ CASE step = "output" -> step' = "check" /\ cache' = version /\ UNCHANGED payload
       [] step = "lookup" -> step' = "call" /\ UNCHANGED <<cache, payload>>
       [] step = "call"   -> step' = "encode" /\ payload' = version /\ UNCHANGED cache
  /\ UNCHANGED <<env, work, at, api, expired, failed, sent, since>>

\* The output, the block the transaction is in, or the metadata.
Answer ==
  /\ Calling /\ ~ContextDone /\ version # 0
  /\ CASE step = "output" -> step' = "check" /\ cache' = version /\ UNCHANGED payload
       [] step = "lookup" -> step' = "call" /\ UNCHANGED <<cache, payload>>
       [] step = "call"   -> /\ step' = "encode" /\ payload' = version
                             /\ cache' = IF Kind \in Cached THEN version ELSE cache
  /\ UNCHANGED <<env, work, at, api, expired, failed, sent, since>>

\* The node does not know the object, or is in trouble.
NodeFails ==
  /\ Calling /\ End(TRUE)
  /\ UNCHANGED <<env, at, api, payload, cache, expired, sent, since>>

\* Mutant: the inner deadline is not passed to the call.
LookupIgnoresDeadline ==
  /\ Calling /\ ContextDone /\ (step = "lookup" => ctx = "done") /\ End(TRUE)
  /\ UNCHANGED <<env, at, api, payload, cache, expired, sent, since>>

\* Mutant: the calls are not given the caller's context.
CallsIgnoreCtx ==
  /\ Calling /\ ContextDone /\ Kind \in Timed /\ End(TRUE)
  /\ UNCHANGED <<env, at, api, payload, cache, expired, sent, since>>

\* A call whose context is done returns, whether the node answers or not.
CallCancelled ==
  /\ Calling /\ ContextDone /\ End(TRUE)
  /\ UNCHANGED <<env, at, api, payload, cache, expired, sent, since>>

Send ==
  /\ step = "send"
  /\ sent' = [sent EXCEPT ![at] = payload]
  /\ Advance
  /\ UNCHANGED <<env, api, cache, expired, since>>

-----------------------------------------------------------------------------
GoroutineStep ==
  \/ Begin \/ Check \/ ChooseAPI \/ NoAPI \/ ReadCommitment \/ CallCancelled
  \/ Encode \/ EncodeFails \/ Send

Next ==
  \/ Change \/ Cancel \/ \E p \in Places : SubscribersChange(p)
  \/ \E d \in {"fetch", "lookup"} : Expire(d)
  \/ GoroutineStep \/ Answer \/ NodeFails

\* The goroutine runs and time passes; the node need not answer, nor must
\* anybody cancel anything.
Fairness ==
  /\ WF_vars(GoroutineStep)
  /\ \A d \in {"fetch", "lookup"} : WF_vars(Expire(d))

Spec == Init /\ [][Next]_vars /\ Fairness

-----------------------------------------------------------------------------
(* What a publication promises.                                            *)

\* A commitment is never encoded with the API of a later one than itself,
\* and that of an event with its own, although the latest commitment may
\* change between the two calls of commitmentFunc.
EncodedByNoNewerAPI ==
  step = "send" =>
    /\ Kind = "commitment" => api <= payload
    /\ Kind = "event" => api = payload

\* A publication whose closures keep what they read describes one state, on
\* all topics and in both formats.
CachedFormatsAgree ==
  step = "send" /\ Kind \in Cached =>
    \A p \in Places : sent[p] \in {0, payload}

\* What a fetch publishes is never older than the object was when the fetch
\* began: nothing is kept from one publication to the next.
FetchesAreFresh ==
  step = "send" /\ Kind \notin Known => payload >= since

\* The order in which a publication comes to its formats and topics.
Before(p, q) == \/ p[1] = "json" /\ q[1] = "raw"
                \/ p[1] = q[1] /\ p[2] < q[2]

\* A publication that has ended has served every topic that had subscribers
\* all the time, in the format they asked for; an error, of the node or of the
\* encoding, costs only the topics that were still to come.
NobodyForgotten ==
  step = "done" => \A p \in steady : sent[p] # 0 \/ (failed /\ ~Before(p, at))

\* The fetches with a deadline end even if the node never answers, so that
\* the callback that makes one goes on with its other publications.
TimedFetchesEnd == Running /\ Kind \in Timed ~> ~Running

\* Once its context is cancelled, the goroutine ends with all it still had to
\* do, and no call to a silent node holds it (the listeners of
\* GrpcSubscriptions rely on it).
CancelledGoroutinesEnd == ctx = "done" ~> work = <<>>
=============================================================================
