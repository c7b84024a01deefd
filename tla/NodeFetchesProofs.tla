-------------------------- MODULE NodeFetchesProofs --------------------------
(***************************************************************************)
(* What NodeFetches guarantees for every sequence of publications, any     *)
(* number of topics and of changes of the object.                          *)
(***************************************************************************)
EXTENDS NodeFetches, SequenceTheorems, TLAPS

-----------------------------------------------------------------------------
(* The inductive invariant.                                                *)

\* Which publications come to which calls, and what they have by then: a
\* payload is asked for only if the closures have kept none.
CallInv ==
  /\ step = "output" => Kind = "output"
  /\ step = "bridge" => Kind = "commitment" /\ version # 0
  /\ step = "lookup" => Kind = "lookup"
  /\ step = "call"   => Kind \notin Known \cup {"commitment"}
  /\ step \in {"output", "api", "bridge", "lookup", "call"} => payload = 0
  /\ step \in {"output", "lookup", "call"} /\ Kind \in Cached => cache = 0

\* Where the running payload comes from, and its API.
ValueInv ==
  Running =>
    /\ since <= version
    /\ Kind \in Known => cache # 0
    /\ Kind = "commitment" => api <= version /\ (payload # 0 => api <= payload)
    /\ Kind = "event" /\ payload # 0 => api = payload
    /\ Kind \in Cached => /\ payload # 0 => payload = cache
                          /\ \A p \in Places : sent[p] \in {0, cache}
    /\ Kind \notin Known => /\ payload # 0 => payload >= since
                            /\ cache # 0 => cache >= since

\* All those it has passed were served if they had subscribers.
ServedInv == Running => \A p \in steady : Before(p, at) => sent[p] # 0

FetchInv == TypeOK /\ CallInv /\ ValueInv /\ ServedInv /\ NobodyForgotten

LEMMA FetchInit == Init => FetchInv
<1> SUFFICES ASSUME Init PROVE FetchInv
  OBVIOUS
<1>1. First \in Places /\ Nothing \in [Places -> 0 .. MaxVersion]
  BY BoundAssumption DEF First, Nothing, Places, Formats, Topics
<1>2. TypeOK
  <2>1. work \in Seq(Kinds) /\ step = "idle" /\ ~Running
    BY ProgramAssumption DEF Init, Running
  <2>2. /\ version \in 0 .. MaxVersion /\ 0 \in 0 .. MaxVersion
        /\ subscribed \in SUBSET Places /\ steady \in SUBSET subscribed
    BY BoundAssumption DEF Init
  <2> QED BY <1>1, <2>1, <2>2 DEF Init, TypeOK
<1>3. CallInv /\ ValueInv /\ ServedInv /\ NobodyForgotten
  BY DEF Init, CallInv, ValueInv, ServedInv, NobodyForgotten, Running
<1> QED BY <1>2, <1>3 DEF FetchInv

-----------------------------------------------------------------------------
(* The surroundings.                                                       *)

LEMMA ChangeKeepsFetchInv == ASSUME FetchInv, Change PROVE FetchInv'
<1>1. TypeOK'
  BY BoundAssumption DEF FetchInv, TypeOK, Change, prog, Running
<1>2. CallInv' /\ ValueInv' /\ ServedInv' /\ NobodyForgotten'
  BY DEF FetchInv, TypeOK, CallInv, ValueInv, ServedInv, NobodyForgotten, Change, prog,
         Running, Kind
<1> QED BY <1>1, <1>2 DEF FetchInv

LEMMA SubscribersKeepFetchInv ==
  ASSUME FetchInv, NEW p \in Places, SubscribersChange(p) PROVE FetchInv'
<1>1. TypeOK'
  BY DEF FetchInv, TypeOK, SubscribersChange, prog, Running
<1>2. CallInv' /\ ValueInv' /\ ServedInv' /\ NobodyForgotten'
  BY DEF FetchInv, CallInv, ValueInv, ServedInv, NobodyForgotten, SubscribersChange, prog,
         Running, Kind
<1> QED BY <1>1, <1>2 DEF FetchInv

LEMMA TimeKeepsFetchInv ==
  ASSUME FetchInv, Cancel \/ \E d \in {"fetch", "lookup"} : Expire(d) PROVE FetchInv'
<1>1. /\ UNCHANGED <<version, subscribed, steady, work, step, at, api, payload, cache,
                     failed, sent, since>>
      /\ ctx' \in {"live", "done"}
      /\ expired' \in SUBSET {"fetch", "lookup"} /\ (expired' # {} => "fetch" \in expired')
  BY DEF FetchInv, TypeOK, Cancel, Expire, env, prog
<1>2. TypeOK'
  BY <1>1 DEF FetchInv, TypeOK, Running
<1>3. CallInv' /\ ValueInv' /\ ServedInv' /\ NobodyForgotten'
  BY <1>1 DEF FetchInv, CallInv, ValueInv, ServedInv, NobodyForgotten, Running, Kind
<1> QED BY <1>2, <1>3 DEF FetchInv

-----------------------------------------------------------------------------
(* The publication.                                                        *)

LEMMA BeginKeepsFetchInv == ASSUME FetchInv, Begin PROVE FetchInv'
<1> USE BoundAssumption DEF FetchInv
<1>1. cache' \in 0 .. MaxVersion /\ (Kind \in Known => cache' # 0) /\ (Kind \notin Known => cache' = 0)
  BY DEF Begin, Versions
<1>2. /\ First \in Places /\ Nothing \in [Places -> 0 .. MaxVersion]
      /\ \A p \in Places : Nothing[p] = 0 /\ ~Before(p, First)
  BY DEF First, Nothing, Places, Formats, Topics, Before
<1>3. TypeOK'
  BY <1>1, <1>2 DEF Begin, TypeOK, Running
<1>4. step' \in {"output", "check"} /\ payload' = 0 /\ api' = 0 /\ sent' = Nothing
      /\ at' = First /\ since' = version /\ UNCHANGED <<work, version>>
      /\ (step' = "output" => Kind = "output") /\ steady' \subseteq Places
  BY DEF Begin, TypeOK
<1>5. CallInv'
  BY <1>1, <1>4 DEF CallInv, Kind, Known
<1>6. ValueInv'
  BY <1>1, <1>2, <1>3, <1>4 DEF ValueInv, Kind, TypeOK
<1>7. ServedInv' /\ NobodyForgotten'
  BY <1>2, <1>4 DEF ServedInv, NobodyForgotten
<1> QED BY <1>3, <1>5, <1>6, <1>7

\* An error ends the publication, whatever it has sent.
LEMMA EndKeepsFetchInv ==
  ASSUME FetchInv, Running, End(TRUE), UNCHANGED <<env, at, api, payload, cache, sent, since>>,
         expired' \in SUBSET {"fetch", "lookup"}, expired' # {} => "fetch" \in expired'
  PROVE  FetchInv'
<1>1. work' \in Seq(Kinds)
  BY HeadTailProperties DEF FetchInv, TypeOK, End
<1>2. ~Running' /\ step' = "done" /\ failed' = TRUE
  BY DEF End, Running
<1>3. TypeOK'
  BY <1>1, <1>2 DEF FetchInv, TypeOK, env
<1>4. CallInv' /\ ValueInv' /\ ServedInv'
  BY <1>2 DEF CallInv, ValueInv, ServedInv
<1>5. NobodyForgotten'
  BY <1>2 DEF FetchInv, ServedInv, NobodyForgotten, env
<1> QED BY <1>3, <1>4, <1>5 DEF FetchInv

\* The place after a topic has only this topic and those before it behind it.
LEMMA PlacesBefore ==
  ASSUME NEW p \in Places, NEW q \in Places
  PROVE  /\ q[1] \in Formats /\ q[2] \in Topics
         /\ q[2] < NumTopics => /\ <<q[1], q[2] + 1>> \in Places
                                /\ Before(p, <<q[1], q[2] + 1>>) => p = q \/ Before(p, q)
         /\ q[2] = NumTopics /\ q[1] = "json" =>
              /\ <<"raw", 1>> \in Places
              /\ Before(p, <<"raw", 1>>) => p = q \/ Before(p, q)
         /\ q[2] = NumTopics /\ q[1] = "raw" => p = q \/ Before(p, q)
  BY BoundAssumption DEF Places, Formats, Topics, Before

\* Going on to the next topic keeps the invariant, if this one was served or
\* had nobody to serve.
LEMMA AdvanceKeepsFetchInv ==
  ASSUME FetchInv, step \in {"check", "send"}, Advance,
         UNCHANGED <<env, api, cache, expired, since>>,
         sent' \in [Places -> 0 .. MaxVersion],
         \A p \in Places : sent[p] # 0 => sent'[p] # 0,
         at \in steady => sent'[at] # 0,
         Kind \in Cached => \A p \in Places : sent'[p] \in {0, cache}
  PROVE  FetchInv'
<1> USE BoundAssumption DEF FetchInv
<1>1. at \in Places /\ at[1] \in Formats /\ at[2] \in Topics /\ steady \subseteq Places /\ Running
  BY PlacesBefore DEF TypeOK, Running
<1>2. \A p \in steady : p = at \/ Before(p, at) => sent'[p] # 0
  BY <1>1 DEF ServedInv
<1>3. CASE step' = "check"
  <2>1. /\ UNCHANGED <<work, failed>> /\ at' \in Places /\ payload' \in {0, payload}
        /\ \A p \in Places : Before(p, at') => p = at \/ Before(p, at)
    <3>1. CASE at[2] < NumTopics
      BY <1>1, <3>1, PlacesBefore DEF Advance
    <3>2. CASE ~(at[2] < NumTopics)
      <4>1. at[2] = NumTopics /\ at[1] = "json"
        BY <1>1, <1>3, <3>2 DEF Advance, End, Topics
      <4>2. at' = <<"raw", 1>> /\ payload' = 0 /\ UNCHANGED <<work, failed>>
        BY <3>2, <4>1 DEF Advance
      <4> QED BY <1>1, <4>1, <4>2, PlacesBefore
    <3> QED BY <3>1, <3>2
  <2>2. TypeOK'
    BY <1>1, <1>3, <2>1 DEF TypeOK, env, Running
  <2>3. CallInv' /\ NobodyForgotten'
    BY <1>3 DEF CallInv, NobodyForgotten
  <2>4. ServedInv'
    BY <1>1, <1>2, <2>1 DEF ServedInv, env
  <2>5. ValueInv'
    BY <1>1, <2>1 DEF ValueInv, Kind, env, TypeOK
  <2> QED BY <2>2, <2>3, <2>4, <2>5
<1>4. CASE step' # "check"
  <2>1. /\ End(FALSE) /\ UNCHANGED <<at, payload>>
        /\ \A p \in Places : p = at \/ Before(p, at)
    <3>1. ~(at[2] < NumTopics) /\ at[1] # "json"
      BY <1>4 DEF Advance
    <3>2. at[2] = NumTopics /\ at[1] = "raw"
      BY <1>1, <3>1 DEF Topics, Formats
    <3> QED BY <1>1, <3>1, <3>2, PlacesBefore DEF Advance
  <2>2. work' \in Seq(Kinds)
    BY <1>1, <2>1, HeadTailProperties DEF TypeOK, End
  <2>3. step' = "done" /\ ~Running' /\ failed' = FALSE
    BY <2>1 DEF End, Running
  <2>4. TypeOK'
    BY <2>1, <2>2, <2>3 DEF TypeOK, env
  <2>5. CallInv' /\ ValueInv' /\ ServedInv'
    BY <2>3 DEF CallInv, ValueInv, ServedInv
  <2>6. NobodyForgotten'
    BY <1>1, <1>2, <2>1 DEF NobodyForgotten, env
  <2> QED BY <2>4, <2>5, <2>6
<1> QED BY <1>3, <1>4

LEMMA CheckKeepsFetchInv == ASSUME FetchInv, Check PROVE FetchInv'
<1>1. CASE at \in subscribed
  <2>1. /\ step' = (IF payload = 0 THEN "api" ELSE "send")
        /\ UNCHANGED <<env, work, at, api, payload, cache, expired, failed, sent, since>>
    BY <1>1 DEF Check
  <2>2. Running /\ Running'
    BY <2>1 DEF Check, Running
  <2>3. TypeOK' /\ CallInv'
    BY <2>1, <2>2 DEF FetchInv, TypeOK, CallInv, env
  <2>4. ValueInv' /\ ServedInv' /\ NobodyForgotten'
    BY <2>1, <2>2 DEF FetchInv, ValueInv, ServedInv, NobodyForgotten, env, Kind
  <2> QED BY <2>3, <2>4 DEF FetchInv
<1>2. CASE at \notin subscribed
  <2>1. /\ step = "check" /\ Advance /\ at \notin steady
        /\ UNCHANGED <<env, api, cache, expired, sent, since>>
    BY <1>2 DEF Check, FetchInv, TypeOK
  <2>2. sent \in [Places -> 0 .. MaxVersion]
        /\ (Kind \in Cached => \A p \in Places : sent[p] \in {0, cache})
    BY <2>1 DEF FetchInv, TypeOK, ValueInv, Running
  <2> QED BY <2>1, <2>2, AdvanceKeepsFetchInv
<1> QED BY <1>1, <1>2

LEMMA SendKeepsFetchInv == ASSUME FetchInv, Send PROVE FetchInv'
<1>1. /\ step = "send" /\ Advance /\ UNCHANGED <<env, api, cache, expired, since>>
      /\ sent' = [sent EXCEPT ![at] = payload]
  BY DEF Send
<1>2. /\ sent \in [Places -> 0 .. MaxVersion] /\ payload \in 0 .. MaxVersion
      /\ payload # 0 /\ at \in Places
      /\ Kind \in Cached => payload = cache /\ \A p \in Places : sent[p] \in {0, cache}
  BY <1>1 DEF FetchInv, TypeOK, ValueInv, Running
<1>3. /\ sent' \in [Places -> 0 .. MaxVersion] /\ sent'[at] # 0
      /\ \A p \in Places : sent[p] # 0 => sent'[p] # 0
      /\ Kind \in Cached => \A p \in Places : sent'[p] \in {0, cache}
  BY <1>1, <1>2
<1> QED BY <1>1, <1>3, AdvanceKeepsFetchInv

LEMMA ChooseAPIKeepsFetchInv == ASSUME FetchInv, ChooseAPI PROVE FetchInv'
<1>1. /\ step = "api" /\ Running /\ (Kind = "commitment" => version # 0)
      /\ UNCHANGED <<env, work, at, cache, failed, sent, since>>
  BY DEF ChooseAPI, Running
<1>2. /\ expired' = expired \ {"lookup"}
      /\ api' = CASE Kind = "commitment" -> version [] Kind = "event" -> cache [] OTHER -> api
      /\ payload' = IF Kind \in Cached THEN cache ELSE 0
      /\ step' = IF payload' # 0 THEN "encode"
                 ELSE CASE Kind = "commitment" -> "bridge"
                        [] Kind = "lookup"     -> "lookup"
                        [] OTHER               -> "call"
  BY DEF ChooseAPI
<1>3. Kind \in Cached <=> Kind # "commitment" /\ Kind # "metadata"
  <2>1. Kind \in Kinds
    BY <1>1, HeadTailProperties DEF FetchInv, TypeOK, Kind
  <2> QED BY <2>1 DEF Kinds, Cached, Known, Timed
<1>4. /\ step' \in {"encode", "bridge", "lookup", "call"} /\ Running'
      /\ step' = "encode" <=> payload' # 0
      /\ step' = "bridge" => Kind = "commitment"
      /\ step' = "lookup" => Kind = "lookup"
      /\ step' = "call" => Kind # "commitment"
  BY <1>2 DEF Running
<1>5. TypeOK'
  <2>1. api' \in 0 .. MaxVersion /\ payload' \in 0 .. MaxVersion
    BY <1>2, BoundAssumption DEF FetchInv, TypeOK
  <2>2. expired' \in SUBSET {"fetch", "lookup"} /\ (expired' # {} => "fetch" \in expired')
    BY <1>2 DEF FetchInv, TypeOK
  <2> QED BY <1>1, <1>4, <2>1, <2>2 DEF FetchInv, TypeOK, env
<1>6. CallInv'
  BY <1>1, <1>2, <1>3, <1>4 DEF FetchInv, CallInv, ValueInv, Kind, env, Known, Cached
<1>7. ValueInv'
  <2>1. Kind = "commitment" => api' = version /\ payload' = 0
    BY <1>2, <1>3
  <2>2. Kind = "event" => api' = cache /\ payload' = cache
    BY <1>2, <1>3
  <2> QED BY <1>1, <1>2, <1>3, <1>4, <2>1, <2>2 DEF FetchInv, TypeOK, ValueInv, Kind, env
<1>8. ServedInv' /\ NobodyForgotten'
  BY <1>1, <1>4 DEF FetchInv, ServedInv, NobodyForgotten, env
<1> QED BY <1>5, <1>6, <1>7, <1>8 DEF FetchInv

LEMMA EncodeKeepsFetchInv == ASSUME FetchInv, Encode PROVE FetchInv'
<1>1. /\ step = "encode" /\ step' = "send" /\ Running /\ Running'
      /\ UNCHANGED <<env, work, at, api, payload, cache, expired, failed, sent, since>>
  BY DEF Encode, Running
<1>2. TypeOK' /\ CallInv'
  BY <1>1 DEF FetchInv, TypeOK, CallInv, env
<1>3. ValueInv' /\ ServedInv' /\ NobodyForgotten'
  BY <1>1 DEF FetchInv, ValueInv, ServedInv, NobodyForgotten, env, Kind
<1> QED BY <1>2, <1>3 DEF FetchInv

LEMMA ReadCommitmentKeepsFetchInv == ASSUME FetchInv, ReadCommitment PROVE FetchInv'
<1>1. /\ step = "bridge" /\ step' = "encode" /\ payload' = version
      /\ Kind = "commitment" /\ version # 0 /\ Running /\ Running'
      /\ UNCHANGED <<env, work, at, api, cache, expired, failed, sent, since>>
  BY DEF FetchInv, CallInv, ReadCommitment, Running
<1>2. TypeOK' /\ CallInv'
  BY <1>1 DEF FetchInv, TypeOK, CallInv, env
<1>3. ValueInv'
  BY <1>1 DEF FetchInv, TypeOK, ValueInv, env, Kind, Cached, Known, Timed
<1>4. ServedInv' /\ NobodyForgotten'
  BY <1>1 DEF FetchInv, ServedInv, NobodyForgotten, env
<1> QED BY <1>2, <1>3, <1>4 DEF FetchInv

LEMMA AnswerKeepsFetchInv == ASSUME FetchInv, Answer PROVE FetchInv'
<1>1. /\ step \in {"output", "lookup", "call"} /\ version # 0 /\ Running
      /\ UNCHANGED <<env, work, at, api, expired, failed, sent, since>>
  BY DEF Answer, Calling, Running
<1>2. /\ version \in 0 .. MaxVersion /\ since <= version /\ since \in 0 .. MaxVersion
      /\ payload = 0 /\ (Kind \in Cached => cache = 0)
      /\ Kind \in Cached => \A p \in Places : sent[p] = 0
  BY <1>1 DEF FetchInv, TypeOK, CallInv, ValueInv
<1>3. CASE step = "output"
  <2>1. step' = "check" /\ cache' = version /\ payload' = 0 /\ Kind = "output" /\ Running'
    BY <1>1, <1>2, <1>3 DEF Answer, FetchInv, CallInv, Running
  <2>2. TypeOK' /\ CallInv'
    BY <1>1, <1>2, <2>1 DEF FetchInv, TypeOK, CallInv, env
  <2>3. ValueInv'
    BY <1>1, <1>2, <2>1 DEF FetchInv, ValueInv, env, Kind, Cached, Known, Timed
  <2>4. ServedInv' /\ NobodyForgotten'
    BY <1>1, <2>1 DEF FetchInv, ServedInv, NobodyForgotten, env
  <2> QED BY <2>2, <2>3, <2>4 DEF FetchInv
<1>4. CASE step = "lookup"
  <2>1. step' = "call" /\ UNCHANGED <<cache, payload>> /\ Kind = "lookup" /\ Running'
    BY <1>1, <1>4 DEF Answer, FetchInv, CallInv, Running
  <2>2. TypeOK' /\ CallInv'
    BY <1>1, <1>2, <2>1 DEF FetchInv, TypeOK, CallInv, env, Kind, Known
  <2>3. ValueInv' /\ ServedInv' /\ NobodyForgotten'
    BY <1>1, <2>1 DEF FetchInv, ValueInv, ServedInv, NobodyForgotten, env, Kind
  <2> QED BY <2>2, <2>3 DEF FetchInv
<1>5. CASE step = "call"
  <2>1. /\ step' = "encode" /\ payload' = version /\ Running'
        /\ cache' = (IF Kind \in Cached THEN version ELSE cache)
        /\ Kind \notin Known \cup {"commitment"}
    BY <1>1, <1>5 DEF Answer, FetchInv, CallInv, Running
  <2>2. TypeOK' /\ CallInv'
    BY <1>1, <1>2, <2>1 DEF FetchInv, TypeOK, CallInv, env
  <2>3. ValueInv'
    BY <1>1, <1>2, <2>1 DEF FetchInv, TypeOK, ValueInv, env, Kind, Known
  <2>4. ServedInv' /\ NobodyForgotten'
    BY <1>1, <2>1 DEF FetchInv, ServedInv, NobodyForgotten, env
  <2> QED BY <2>2, <2>3, <2>4 DEF FetchInv
<1> QED BY <1>1, <1>3, <1>4, <1>5

-----------------------------------------------------------------------------
LEMMA FetchNext == FetchInv /\ [Next]_vars => FetchInv'
<1> SUFFICES ASSUME FetchInv, [Next]_vars PROVE FetchInv'
  OBVIOUS
<1>1. CASE UNCHANGED vars
  BY <1>1 DEF vars, env, prog, FetchInv, TypeOK, CallInv, ValueInv, ServedInv, NobodyForgotten,
              Running, Kind
<1>2. CASE Change \/ Cancel \/ (\E p \in Places : SubscribersChange(p))
           \/ \E d \in {"fetch", "lookup"} : Expire(d)
  BY <1>2, ChangeKeepsFetchInv, SubscribersKeepFetchInv, TimeKeepsFetchInv
<1>3. CASE Begin \/ Check \/ ChooseAPI \/ ReadCommitment \/ Encode \/ Send \/ Answer
  BY <1>3, BeginKeepsFetchInv, CheckKeepsFetchInv, ChooseAPIKeepsFetchInv,
     ReadCommitmentKeepsFetchInv, EncodeKeepsFetchInv, SendKeepsFetchInv, AnswerKeepsFetchInv
<1>4. CASE NodeFails \/ CallCancelled \/ NoAPI \/ EncodeFails
  <2>1. /\ Running /\ End(TRUE)
        /\ UNCHANGED <<env, at, api, payload, cache, expired, sent, since>>
    BY <1>4 DEF NodeFails, CallCancelled, NoAPI, EncodeFails, Calling, Running
  <2> QED BY <2>1, EndKeepsFetchInv DEF FetchInv, TypeOK
<1> QED BY <1>1, <1>2, <1>3, <1>4 DEF Next, GoroutineStep

LEMMA FetchInvHolds == Spec => []FetchInv
BY FetchInit, FetchNext, PTL DEF Spec

-----------------------------------------------------------------------------
(* The results.                                                            *)

\* Every variable keeps its type, and only a payload is ever sent
\* (publishWithPayloadFuncOnTopicsIfSubscribed and its like).
THEOREM FetchTypes == Spec => []TypeOK
<1>1. FetchInv => TypeOK
  BY DEF FetchInv
<1> QED BY <1>1, FetchInvHolds, PTL

\* A commitment is encoded with its own API or that of an earlier one, though
\* commitmentFunc is called twice and the latest one may change in between.
THEOREM CommitmentsAreEncoded == Spec => []EncodedByNoNewerAPI
<1>1. FetchInv => EncodedByNoNewerAPI
  BY DEF FetchInv, TypeOK, ValueInv, EncodedByNoNewerAPI, Running
<1> QED BY <1>1, FetchInvHolds, PTL

\* The topics and the formats of a publication whose closures keep the object
\* describe one state of it.
THEOREM OneStateInBothFormats == Spec => []CachedFormatsAgree
<1>1. FetchInv => CachedFormatsAgree
  BY DEF FetchInv, TypeOK, ValueInv, CachedFormatsAgree, Running
<1> QED BY <1>1, FetchInvHolds, PTL

\* A fetch publishes nothing older than the object was when it began, in
\* however long a sequence of publications it stands.
THEOREM FetchesAreNeverStale == Spec => []FetchesAreFresh
<1>1. FetchInv => FetchesAreFresh
  BY DEF FetchInv, TypeOK, ValueInv, FetchesAreFresh, Running
<1> QED BY <1>1, FetchInvHolds, PTL

\* Whoever was subscribed throughout a publication has been served, on whatever
\* topic and in either format, unless an error of the node or of the encoding
\* came before its turn.
THEOREM SteadySubscribersAreServed == Spec => []NobodyForgotten
<1>1. FetchInv => NobodyForgotten
  BY DEF FetchInv
<1> QED BY <1>1, FetchInvHolds, PTL
=============================================================================
