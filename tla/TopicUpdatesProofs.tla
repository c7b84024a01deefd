-------------------------- MODULE TopicUpdatesProofs --------------------------
(***************************************************************************)
(* What reaches the subscribers of a topic of one object, for any number   *)
(* of subscriptions, streams and changes.                                  *)
(***************************************************************************)
EXTENDS TopicUpdates, TLAPS

-----------------------------------------------------------------------------
(* The inductive invariant.                                                *)

\* The streams that other topics need as well stay open.
OpenInv == \A f \in Kept : stream[f] = "open"

\* Nobody is ahead of the object, and a feed publishes the change it took.
NotAhead(j)  == j # Idle => j.payload <= version
OwnChange(j) == j # Idle => j.event \in 1 .. version /\ j.payload \in {0, j.event}

PastInv ==
  /\ \A s \in Subs : got[s] <= version
  /\ \A f \in Feeds : \A i \in DOMAIN feed[f] : feed[f][i] <= version
  /\ \A w \in Workers : NotAhead(job[w])
  /\ \A f \in Feeds : OwnChange(job[f])

UpdatesInv == TypeOK /\ OpenInv /\ PastInv /\ StateIsOnItsWay

-----------------------------------------------------------------------------
(* The jobs.                                                               *)

LEMMA NewJobType == ASSUME NEW v \in 0 .. MaxVersion PROVE NewJob(v) \in Job
  BY FeedAssumption DEF NewJob, Job, Formats

\* The publication goes on with the other format, or is over.
LEMMA AfterFormatType ==
  ASSUME NEW j \in Job
  PROVE  \/ j.format = "raw" /\ AfterFormat(j) = Idle
         \/ /\ j.format = "json" /\ AfterFormat(j) \in Job /\ AfterFormat(j).format = "raw"
            /\ AfterFormat(j).step = "check" /\ AfterFormat(j).payload = 0
            /\ AfterFormat(j).event = j.event
<1>1. j.format \in {"json", "raw"} /\ 0 \in 0 .. MaxVersion
  BY FeedAssumption DEF Job, Formats
<1> QED BY <1>1 DEF AfterFormat, Job, Formats

\* What the steps of a publishing goroutine do to its job.
LEMMA CheckJob ==
  ASSUME TypeOK, NEW w \in Workers, Check(w)
  PROVE  /\ job[w] \in Job /\ job[w].step = "check" /\ job[w].payload = 0
         /\ job' = [job EXCEPT ![w] = job'[w]] /\ UNCHANGED <<version, stream, feed, subscribed, seen>>
         /\ \/ /\ HasSubscribers(job[w].format) /\ job'[w] \in Job /\ job'[w].event = job[w].event
               /\ job'[w].format = job[w].format /\ job'[w].step = "payload" /\ job'[w].payload = 0
            \/ ~HasSubscribers(job[w].format) /\ job'[w] = AfterFormat(job[w])
<1> DEFINE next == [job[w] EXCEPT !.step = "payload"]
<1>1. job[w] \in Job /\ job[w].step = "check"
  BY DEF TypeOK, Check
<1>2. job[w].payload = 0
  BY <1>1 DEF Job
<1>3. /\ next \in Job /\ next.event = job[w].event /\ next.format = job[w].format
      /\ next.step = "payload" /\ next.payload = 0
  BY <1>1, <1>2 DEF Job
<1>4. /\ job' = [job EXCEPT ![w] = IF HasSubscribers(job[w].format) THEN next ELSE AfterFormat(job[w])]
      /\ UNCHANGED <<version, stream, feed, subscribed, seen>>
  BY DEF Check
<1> HIDE DEF next
<1>5. job'[w] = IF HasSubscribers(job[w].format) THEN next ELSE AfterFormat(job[w])
  BY <1>4 DEF TypeOK
<1> QED BY <1>1, <1>2, <1>3, <1>4, <1>5

LEMMA PayloadJob ==
  ASSUME TypeOK, NEW w \in Workers, NEW v \in 1 .. MaxVersion,
         job[w] # Idle, job[w].step = "payload", job' = [job EXCEPT ![w] = Sending(@, v)]
  PROVE  /\ job[w] \in Job /\ job[w].payload = 0 /\ job' = [job EXCEPT ![w] = job'[w]]
         /\ job'[w] \in Job /\ job'[w].event = job[w].event
         /\ job'[w].format = job[w].format /\ job'[w].step = "send" /\ job'[w].payload = v
<1>1. job[w] \in Job
  BY DEF TypeOK
<1>2. job[w].payload = 0 /\ v \in 0 .. MaxVersion /\ v # 0
  BY <1>1, FeedAssumption DEF Job
<1>3. /\ Sending(job[w], v) \in Job /\ Sending(job[w], v).event = job[w].event
      /\ Sending(job[w], v).format = job[w].format
      /\ Sending(job[w], v).step = "send" /\ Sending(job[w], v).payload = v
  BY <1>1, <1>2 DEF Job, Sending
<1>4. job'[w] = Sending(job[w], v)
  BY DEF TypeOK
<1> QED BY <1>1, <1>2, <1>3, <1>4

\* A feed publishes the change it took, a fetch the state it reads.
LEMMA EventPayloadJob ==
  ASSUME TypeOK, PastInv, NEW f \in Feeds, EventPayload(f)
  PROVE  /\ job[f] \in Job /\ job[f].payload = 0 /\ job' = [job EXCEPT ![f] = job'[f]]
         /\ job'[f] \in Job /\ job'[f].event = job[f].event
         /\ job'[f].format = job[f].format /\ job'[f].step = "send"
         /\ job'[f].payload = job[f].event
         /\ UNCHANGED <<version, stream, feed, subscribed, seen>>
<1>1. f \in Workers /\ job[f].event \in 1 .. MaxVersion
  BY FeedAssumption DEF EventPayload, PastInv, OwnChange, Workers, TypeOK
<1> QED BY <1>1, PayloadJob DEF EventPayload

LEMMA FetchAnsweredJob ==
  ASSUME TypeOK, NEW s \in Subs, FetchAnswered(s)
  PROVE  /\ job[s] \in Job /\ job[s].payload = 0 /\ job' = [job EXCEPT ![s] = job'[s]]
         /\ job'[s] \in Job /\ job'[s].event = job[s].event
         /\ job'[s].format = job[s].format /\ job'[s].step = "send"
         /\ job'[s].payload = version
         /\ UNCHANGED <<version, stream, feed, subscribed, seen>>
<1>1. s \in Workers /\ version \in 1 .. MaxVersion
  BY FeedAssumption DEF FetchAnswered, Workers, TypeOK
<1> QED BY <1>1, PayloadJob DEF FetchAnswered

LEMMA SendJob ==
  ASSUME TypeOK, NEW w \in Workers, Send(w)
  PROVE  /\ job[w] \in Job /\ job[w].step = "send" /\ job[w].payload # 0
         /\ job' = [job EXCEPT ![w] = job'[w]] /\ UNCHANGED <<version, stream, feed, subscribed, changed, failed>>
         /\ job'[w] = AfterFormat(job[w])
         /\ got' \in [Subs -> 0 .. MaxVersion]
         /\ \A s \in Subs : got'[s] = IF s \in subscribed /\ FormatOf(s) = job[w].format
                                          /\ got[s] < job[w].payload
                                      THEN job[w].payload ELSE got[s]
<1>1. job[w] \in Job /\ job[w].step = "send" /\ job[w].payload \in 0 .. MaxVersion
  BY DEF TypeOK, Send, Job
<1>2. job[w].payload # 0
  BY <1>1 DEF Job
<1>3. job' = [job EXCEPT ![w] = AfterFormat(job[w])]
      /\ UNCHANGED <<version, stream, feed, subscribed, changed, failed>>
  BY DEF Send
<1>4. job'[w] = AfterFormat(job[w])
  BY <1>3 DEF TypeOK
<1>5. /\ got' = [s \in Subs |-> got'[s]]
      /\ \A s \in Subs : got'[s] = IF s \in subscribed /\ FormatOf(s) = job[w].format
                                       /\ got[s] < job[w].payload
                                   THEN job[w].payload ELSE got[s]
  BY DEF Send
<1> QED BY <1>1, <1>2, <1>3, <1>4, <1>5 DEF TypeOK

-----------------------------------------------------------------------------
(* Types, and what is past.                                                *)

LEMMA TypesNext == TypeOK /\ PastInv /\ [Next]_vars => TypeOK'
<1> SUFFICES ASSUME TypeOK, PastInv, [Next]_vars PROVE TypeOK'
  OBVIOUS
<1> USE FeedAssumption
<1>1. CASE Change
  <2>1. version' \in Versions /\ version' = version + 1
        /\ changed' = subscribed /\ UNCHANGED <<stream, subscribed, job, got, failed>>
    BY <1>1 DEF Change, TypeOK, Versions
  <2>2. feed' \in [Feeds -> Seq(Versions)]
    BY <1>1, <2>1 DEF Change, TypeOK
  <2> QED BY <2>1, <2>2 DEF TypeOK, Versions
<1>2. ASSUME NEW f \in Feeds, StreamOpens(f) PROVE TypeOK'
  BY <1>2 DEF StreamOpens, TypeOK, seen
<1>3. ASSUME NEW s \in Subs, Subscribe(s) PROVE TypeOK'
  BY <1>3, NewJobType DEF Subscribe, TypeOK, Workers, seen
<1>4. ASSUME NEW s \in Subs, Unsubscribe(s) PROVE TypeOK'
  <2>1. /\ subscribed' = subscribed \ {s} /\ got' = [got EXCEPT ![s] = 0]
        /\ changed' = changed \ {s} /\ failed' = failed \ {s} /\ UNCHANGED <<version, job>>
    BY <1>4 DEF Unsubscribe
  <2>2. <<>> \in Seq(Versions)
    OBVIOUS
  <2>3. stream' \in [Feeds -> {"closed", "opening", "open"}] /\ feed' \in [Feeds -> Seq(Versions)]
    BY <1>4, <2>2 DEF Unsubscribe, TypeOK
  <2> QED BY <2>1, <2>3 DEF TypeOK
<1>5. ASSUME NEW f \in Feeds, TakeChange(f) PROVE TypeOK'
  <2>1. Head(feed[f]) \in 0 .. MaxVersion /\ Tail(feed[f]) \in Seq(Versions)
    BY <1>5 DEF TakeChange, TypeOK, Versions
  <2> QED BY <1>5, <2>1, NewJobType DEF TakeChange, TypeOK, Workers, seen
<1>6. ASSUME NEW w \in Workers, Check(w) \/ Send(w) PROVE TypeOK'
  <2>1. CASE Check(w)
    <3>1. job'[w] \in Job \cup {Idle}
      BY <2>1, CheckJob, AfterFormatType
    <3> QED BY <2>1, <3>1, CheckJob DEF TypeOK, seen
  <2>2. CASE Send(w)
    <3>1. job'[w] \in Job \cup {Idle}
      BY <2>2, SendJob, AfterFormatType
    <3> QED BY <2>2, <3>1, SendJob DEF TypeOK
  <2> QED BY <1>6, <2>1, <2>2
<1>7. ASSUME NEW f \in Feeds, EventPayload(f) PROVE TypeOK'
  BY <1>7, EventPayloadJob DEF TypeOK, seen
<1>8. ASSUME NEW s \in Subs, FetchAnswered(s) PROVE TypeOK'
  BY <1>8, FetchAnsweredJob DEF TypeOK, seen
<1>9. ASSUME NEW s \in Subs, FetchFails(s) PROVE TypeOK'
  BY <1>9 DEF FetchFails, TypeOK, Workers
<1>10. CASE UNCHANGED vars
  BY <1>10 DEF vars, TypeOK
<1> QED BY <1>1, <1>2, <1>3, <1>4, <1>5, <1>6, <1>7, <1>8, <1>9, <1>10 DEF Next, WorkerStep

LEMMA OpenNext == TypeOK /\ OpenInv /\ [Next]_vars => OpenInv'
<1> SUFFICES ASSUME TypeOK, OpenInv, [Next]_vars PROVE OpenInv'
  OBVIOUS
<1> USE FeedAssumption
<1>1. ASSUME NEW s \in Subs, Subscribe(s) \/ Unsubscribe(s) PROVE OpenInv'
  BY <1>1 DEF OpenInv, Subscribe, Unsubscribe, TypeOK
<1>2. ASSUME NEW f \in Feeds, StreamOpens(f) PROVE OpenInv'
  BY <1>2 DEF OpenInv, StreamOpens, TypeOK
<1>3. CASE UNCHANGED stream
  BY <1>3 DEF OpenInv
<1> QED BY <1>1, <1>2, <1>3 DEF Next, WorkerStep, Change, TakeChange, Check, EventPayload,
           FetchAnswered, FetchFails, Send, vars

LEMMA PastNext == TypeOK /\ PastInv /\ [Next]_vars => PastInv'
<1> SUFFICES ASSUME TypeOK, PastInv, [Next]_vars PROVE PastInv'
  OBVIOUS
<1> USE FeedAssumption
<1>0. version \in Nat /\ \A s \in Subs : got[s] \in Nat
  BY DEF TypeOK
<1>1. CASE Change
  <2>1. version' = version + 1 /\ UNCHANGED <<job, got>> /\ version + 1 \in Versions
    BY <1>1 DEF Change, TypeOK, Versions
  <2>2. \A s \in Subs : got'[s] <= version'
    BY <1>0, <2>1 DEF PastInv
  <2>3. ASSUME NEW f \in Feeds, NEW i \in DOMAIN feed'[f] PROVE feed'[f][i] <= version'
    <3>1. /\ feed[f] \in Seq(Versions) /\ \A j \in DOMAIN feed[f] : feed[f][j] <= version
          /\ \A j \in DOMAIN feed[f] : feed[f][j] \in Versions
      BY DEF TypeOK, PastInv
    <3>2. feed'[f] = feed[f] \/ feed'[f] = Append(feed[f], version + 1)
      BY <1>1 DEF Change, TypeOK
    <3>3. CASE feed'[f] = feed[f]
      BY <1>0, <2>1, <2>3, <3>1, <3>3 DEF Versions
    <3>4. CASE feed'[f] = Append(feed[f], version + 1)
      <4>1. /\ Len(feed'[f]) = Len(feed[f]) + 1 /\ Len(feed[f]) \in Nat /\ i \in 1 .. Len(feed'[f])
            /\ feed'[f][Len(feed[f]) + 1] = version + 1
            /\ \A j \in 1 .. Len(feed[f]) : feed'[f][j] = feed[f][j]
        BY <2>1, <2>3, <3>1, <3>4, version + 1 \in Versions
      <4>2. CASE i = Len(feed[f]) + 1
        BY <1>0, <2>1, <4>1, <4>2
      <4>3. CASE i \in 1 .. Len(feed[f])
        <5>1. feed'[f][i] = feed[f][i]
          BY <4>1, <4>3
        <5>2. i \in DOMAIN feed[f]
          BY <3>1, <4>3
        <5>3. feed[f][i] <= version /\ feed[f][i] \in Nat
          BY <3>1, <5>2 DEF Versions
        <5> QED BY ONLY <1>0, <2>1, <5>1, <5>3
      <4> QED BY <4>1, <4>2, <4>3
    <3> QED BY <3>2, <3>3, <3>4
  <2>4. \A w \in Workers : NotAhead(job[w])'
    <3>1. \A w \in Workers : job[w] # Idle => job[w].payload \in Nat
      BY DEF TypeOK, Job
    <3> QED BY <1>0, <2>1, <3>1 DEF PastInv, NotAhead
  <2>5. \A f \in Feeds : OwnChange(job[f])'
    BY <1>0, <2>1 DEF PastInv, OwnChange
  <2> QED BY <2>2, <2>3, <2>4, <2>5, <2>1 DEF PastInv, NotAhead, OwnChange
<1>2. ASSUME NEW f \in Feeds, StreamOpens(f) PROVE PastInv'
  BY <1>2 DEF StreamOpens, PastInv, NotAhead, OwnChange, seen
<1>3. ASSUME NEW s \in Subs, Subscribe(s) PROVE PastInv'
  <2>1. job' = [job EXCEPT ![s] = NewJob(0)] /\ UNCHANGED <<version, feed, got>>
    BY <1>3 DEF Subscribe, seen
  <2>2. NewJob(0).payload <= version /\ s \notin Feeds /\ s \in Workers
    BY <1>0, WorkersAssumption DEF NewJob, Workers
  <2> QED BY <2>1, <2>2 DEF PastInv, NotAhead, OwnChange, TypeOK, Workers
<1>4. ASSUME NEW s \in Subs, Unsubscribe(s) PROVE PastInv'
  <2>1. UNCHANGED <<version, job>> /\ got' = [got EXCEPT ![s] = 0]
    BY <1>4 DEF Unsubscribe
  <2>2. \A f \in Feeds : feed'[f] = feed[f] \/ feed'[f] = <<>>
    BY <1>4 DEF Unsubscribe, TypeOK
  <2>3. \A f \in Feeds : \A i \in DOMAIN feed'[f] : feed'[f][i] <= version
    BY <2>2 DEF PastInv
  <2> QED BY <1>0, <2>1, <2>3 DEF PastInv, NotAhead, OwnChange, TypeOK
<1>5. ASSUME NEW f \in Feeds, TakeChange(f) PROVE PastInv'
  <2>1. /\ job' = [job EXCEPT ![f] = NewJob(Head(feed[f]))] /\ feed' = [feed EXCEPT ![f] = Tail(@)]
        /\ UNCHANGED <<version, got>> /\ feed[f] # <<>> /\ feed[f] \in Seq(Versions)
    BY <1>5 DEF TakeChange, TypeOK, seen
  <2>2. Head(feed[f]) \in 1 .. version
    BY <1>0, <2>1 DEF PastInv, Versions
  <2>3. NotAhead(NewJob(Head(feed[f]))) /\ OwnChange(NewJob(Head(feed[f])))
    BY <1>0, <2>2 DEF NotAhead, OwnChange, NewJob
  <2>4. \A i \in DOMAIN Tail(feed[f]) : Tail(feed[f])[i] <= version
    BY <2>1 DEF PastInv
  <2>5. \A g \in Feeds : \A i \in DOMAIN feed'[g] : feed'[g][i] <= version
    BY <2>1, <2>4 DEF PastInv, TypeOK
  <2> QED BY <2>1, <2>3, <2>5 DEF PastInv, NotAhead, OwnChange, TypeOK, Workers
<1>6. ASSUME NEW w \in Workers,
             \/ Check(w) \/ Send(w)
             \/ w \in Feeds /\ EventPayload(w)
             \/ w \in Subs /\ (FetchAnswered(w) \/ FetchFails(w))
      PROVE  PastInv'
  <2>1. /\ job' = [job EXCEPT ![w] = job'[w]] /\ UNCHANGED <<version, feed>>
        /\ \A s \in Subs : got'[s] <= version
        /\ NotAhead(job'[w]) /\ (w \in Feeds => OwnChange(job'[w]))
    <3>1. /\ job[w] \in Job => NotAhead(job[w])
          /\ w \in Feeds /\ job[w] \in Job => OwnChange(job[w])
          /\ job[w] \in Job => job[w] # Idle
      BY WorkersAssumption DEF PastInv, Workers
    <3>2. CASE Check(w)
      BY <1>0, <3>1, <3>2, CheckJob, AfterFormatType DEF PastInv, NotAhead, OwnChange, seen
    <3>3. CASE Send(w)
      BY <1>0, <3>1, <3>3, SendJob, AfterFormatType DEF PastInv, NotAhead, OwnChange
    <3>4. CASE w \in Feeds /\ EventPayload(w)
      BY <1>0, <3>1, <3>4, EventPayloadJob DEF PastInv, NotAhead, OwnChange, seen
    <3>5. CASE w \in Subs /\ FetchAnswered(w)
      BY <1>0, <3>5, FetchAnsweredJob, WorkersAssumption DEF PastInv, NotAhead, seen
    <3>6. CASE w \in Subs /\ FetchFails(w)
      BY <3>6, WorkersAssumption DEF FetchFails, PastInv, NotAhead, TypeOK
    <3> QED BY <1>6, <3>2, <3>3, <3>4, <3>5, <3>6
  <2>2. \A u \in Workers \ {w} : job'[u] = job[u]
    BY <2>1 DEF TypeOK
  <2> QED BY <2>1, <2>2 DEF PastInv, NotAhead, OwnChange, Workers
<1>7. CASE UNCHANGED vars
  BY <1>7 DEF vars, PastInv, NotAhead, OwnChange
<1> QED BY <1>1, <1>2, <1>3, <1>4, <1>5, <1>6, <1>7 DEF Next, WorkerStep, Workers

-----------------------------------------------------------------------------
(* The state is on its way.                                                *)

\* A goroutine that has the object's state on its way to a subscription keeps it
\* there until it has sent it, unless it is a fetch that fails.
LEMMA OnItsWay ==
  ASSUME TypeOK, PastInv, version # 0, NEW w \in Workers,
         \/ Check(w) \/ Send(w)
         \/ w \in Feeds /\ EventPayload(w) /\ job[w].event = version
         \/ w \in Subs /\ FetchAnswered(w),
         NEW s \in subscribed, WillSend(job[w], FormatOf(s))
  PROVE  \/ got'[s] = version
         \/ WillSend(job[w], FormatOf(s))' /\ job'[w].event = job[w].event
<1> DEFINE F == FormatOf(s)
<1>1. s \in Subs /\ F \in {"json", "raw"}
  BY SubsAssumption DEF TypeOK, Formats
<1>2. job[w].format = F \/ (job[w].format = "json" /\ F = "raw")
  BY <1>1 DEF WillSend
<1>3. AfterFormat(job[w]) # Idle => AfterFormat(job[w]) \in Job
  BY AfterFormatType DEF AfterFormat, TypeOK, WillSend
<1> USE WorkersAssumption
<1>4. CASE Check(w)
  <2>1. CASE HasSubscribers(job[w].format)
    BY <1>1, <1>2, <1>4, <2>1, CheckJob DEF WillSend
  <2>2. CASE ~HasSubscribers(job[w].format)
    <3>1. job[w].format = "json" /\ F = "raw"
      BY <1>2, <2>2 DEF HasSubscribers
    <3> QED BY <1>4, <2>2, <3>1, CheckJob, AfterFormatType DEF WillSend
  <2> QED BY <2>1, <2>2
<1>5. CASE w \in Feeds /\ EventPayload(w) /\ job[w].event = version
  BY <1>2, <1>5, EventPayloadJob DEF WillSend
<1>6. CASE w \in Subs /\ FetchAnswered(w)
  BY <1>2, <1>6, FetchAnsweredJob DEF WillSend
<1>7. CASE Send(w)
  <2>1. CASE job[w].format = F
    <3>1. job[w].payload = version /\ got[s] <= version /\ got[s] \in Nat /\ version \in Nat
      BY <1>1, <1>7, <2>1, SendJob, FeedAssumption DEF WillSend, PastInv, TypeOK
    <3> QED BY <1>1, <1>7, <2>1, <3>1, SendJob
  <2>2. CASE job[w].format = "json" /\ F = "raw"
    BY <1>7, <2>2, SendJob, AfterFormatType DEF WillSend
  <2> QED BY <1>2, <2>1, <2>2
<1> QED BY <1>4, <1>5, <1>6, <1>7

LEMMA OnItsWayNext == UpdatesInv /\ [Next]_vars => StateIsOnItsWay'
<1> SUFFICES ASSUME UpdatesInv, [Next]_vars PROVE StateIsOnItsWay'
  OBVIOUS
<1> USE FeedAssumption
<1>a. TypeOK /\ OpenInv /\ PastInv /\ StateIsOnItsWay /\ TypeOK' /\ PastInv'
  BY TypesNext, PastNext DEF UpdatesInv
<1>1. CASE Change
  <2>1. version' = version + 1 /\ version + 1 \in Versions
    BY <1>1, <1>a DEF Change, TypeOK, Versions
  <2> DEFINE f == FeedOf[version + 1]
  <2>2. f \in Feeds /\ feed[f] \in Seq(Versions)
    BY <1>a, <2>1 DEF TypeOK
  <2>3. f \in Kept => feed'[f] = Append(feed[f], version + 1)
    BY <1>1, <1>a, <2>2 DEF Change, OpenInv, TypeOK
  <2>4. f \in Kept => Len(feed[f]) + 1 \in DOMAIN feed'[f] /\ feed'[f][Len(feed[f]) + 1] = version + 1
    BY <2>1, <2>2, <2>3
  <2> QED BY <2>1, <2>4 DEF StateIsOnItsWay
<1>2. CASE ~Change
  <2>1. version' = version
    BY <1>2 DEF Next, WorkerStep, Subscribe, Unsubscribe, StreamOpens, TakeChange, Check,
                EventPayload, FetchAnswered, FetchFails, Send, vars
  <2> DEFINE Fetched(t) == t \notin changed /\ (WillSend(job[t], FormatOf(t)) \/ t \in failed)
  <2> SUFFICES ASSUME version # 0, FeedOf[version] \in Kept,
                      NEW s \in subscribed', got'[s] # version
               PROVE  \/ \E i \in DOMAIN feed'[FeedOf[version]] : feed'[FeedOf[version]][i] = version
                      \/ /\ WillSend(job[FeedOf[version]], FormatOf(s))'
                         /\ job'[FeedOf[version]].event = version
                      \/ Fetched(s)'
    BY <2>1 DEF StateIsOnItsWay
  <2>2. s \in Subs
    BY <1>a DEF TypeOK
  <2>f. PICK f \in Feeds : f = FeedOf[version]
    BY <1>a, <2>2 DEF TypeOK, Versions
  <2>3. f \in Feeds /\ f \in Workers /\ s \in Workers /\ s \notin Feeds
    BY <2>2, WorkersAssumption DEF Workers
  <2>4. s \in subscribed /\ got[s] # version =>
          \/ \E i \in DOMAIN feed[f] : feed[f][i] = version
          \/ WillSend(job[f], FormatOf(s)) /\ job[f].event = version
          \/ Fetched(s)
    BY <1>a, <2>f DEF StateIsOnItsWay
  <2> SUFFICES \/ \E i \in DOMAIN feed'[f] : feed'[f][i] = version
               \/ WillSend(job[f], FormatOf(s))' /\ job'[f].event = version
               \/ Fetched(s)'
    BY <2>1, <2>f DEF WillSend
  <2>5. ASSUME NEW t \in Subs, Subscribe(t)
        PROVE  \/ \E i \in DOMAIN feed'[f] : feed'[f][i] = version
               \/ WillSend(job[f], FormatOf(s))' /\ job'[f].event = version
               \/ Fetched(s)'
    <3>1. /\ subscribed' = subscribed \cup {t} /\ job' = [job EXCEPT ![t] = NewJob(0)]
          /\ feed' = feed /\ UNCHANGED seen /\ t \notin subscribed
          /\ job \in [Workers -> Job \cup {Idle}]
      BY <1>a, <2>5 DEF Subscribe, TypeOK
    <3>2. CASE s = t
      <4>1. job'[s] = NewJob(0) /\ NewJob(0) \in Job /\ NewJob(0) # Idle
        BY <2>3, <3>1, <3>2, NewJobType, WorkersAssumption
      <4>2. s \notin changed'
        BY <1>a, <3>1, <3>2 DEF TypeOK, seen
      <4> QED BY <4>1, <4>2 DEF WillSend, NewJob
    <3>3. CASE s # t
      <4>1. t \notin Feeds /\ job'[f] = job[f] /\ job'[s] = job[s]
        BY <2>3, <2>5, <3>1, <3>3, WorkersAssumption
      <4> QED BY <2>1, <2>4, <3>1, <3>3, <4>1 DEF WillSend, seen
    <3> QED BY <3>2, <3>3
  <2>6. ASSUME NEW t \in Subs, Unsubscribe(t)
        PROVE  \/ \E i \in DOMAIN feed'[f] : feed'[f][i] = version
               \/ WillSend(job[f], FormatOf(s))' /\ job'[f].event = version
               \/ Fetched(s)'
    <3>1. /\ subscribed' = subscribed \ {t} /\ feed'[f] = feed[f] /\ job' = job /\ got' = [got EXCEPT ![t] = 0]
          /\ changed' = changed \ {t} /\ failed' = failed \ {t}
      BY <1>a, <2>6, <2>f DEF Unsubscribe, TypeOK
    <3>2. s \in subscribed /\ got'[s] = got[s] /\ s # t
      BY <1>a, <2>2, <3>1 DEF TypeOK
    <3> QED BY <2>1, <2>4, <3>1, <3>2 DEF WillSend
  <2>7. ASSUME NEW g \in Feeds, TakeChange(g)
        PROVE  \/ \E i \in DOMAIN feed'[f] : feed'[f][i] = version
               \/ WillSend(job[f], FormatOf(s))' /\ job'[f].event = version
               \/ Fetched(s)'
    <3>1. /\ job' = [job EXCEPT ![g] = NewJob(Head(feed[g]))] /\ feed' = [feed EXCEPT ![g] = Tail(@)]
          /\ subscribed' = subscribed /\ UNCHANGED seen /\ job[g] = Idle /\ feed[g] # <<>>
          /\ feed[g] \in Seq(Versions) /\ job \in [Workers -> Job \cup {Idle}]
          /\ feed \in [Feeds -> Seq(Versions)]
      BY <1>a, <2>7 DEF TakeChange, TypeOK
    <3>2. job'[s] = job[s] /\ (Fetched(s) => Fetched(s)')
      BY <2>1, <2>3, <3>1 DEF WillSend, seen
    <3>a. s \in subscribed /\ got[s] # version
      BY <3>1 DEF seen
    <3>3. CASE g # f
      BY <2>1, <2>3, <2>4, <3>1, <3>2, <3>a, <3>3 DEF WillSend
    <3>4. CASE g = f
      <4>1. CASE \E i \in DOMAIN feed[f] : feed[f][i] = version
        <5>1. PICK i \in DOMAIN feed[f] : feed[f][i] = version
          BY <4>1
        <5>2. CASE i = 1
          <6>1. job'[f] = NewJob(version)
            BY <2>3, <3>1, <3>4, <5>1, <5>2 DEF Workers
          <6>2. NewJob(version) # Idle
            BY <1>a, NewJobType, WorkersAssumption DEF TypeOK
          <6> QED BY <6>1, <6>2 DEF WillSend, NewJob
        <5>3. CASE i # 1
          <6>1. feed'[f] = Tail(feed[f]) /\ Len(feed[f]) \in Nat /\ i \in 2 .. Len(feed[f])
            BY <3>1, <3>4, <5>1, <5>3
          <6>2. i - 1 \in DOMAIN Tail(feed[f]) /\ Tail(feed[f])[i - 1] = feed[f][i]
            BY <3>1, <3>4, <6>1
          <6> QED BY <5>1, <6>1, <6>2
        <5> QED BY <5>2, <5>3
      <4>2. CASE WillSend(job[f], FormatOf(s))
        BY <3>1, <3>4, <4>2 DEF WillSend
      <4> QED BY <2>4, <3>2, <3>a, <4>1, <4>2
    <3> QED BY <3>3, <3>4
  <2>8. ASSUME NEW w \in Workers,
               \/ Check(w) \/ Send(w)
               \/ w \in Feeds /\ EventPayload(w)
               \/ w \in Subs /\ FetchAnswered(w)
        PROVE  \/ \E i \in DOMAIN feed'[f] : feed'[f][i] = version
               \/ WillSend(job[f], FormatOf(s))' /\ job'[f].event = version
               \/ Fetched(s)'
    <3>1. /\ job' = [job EXCEPT ![w] = job'[w]] /\ UNCHANGED <<feed, subscribed, changed, failed>>
          /\ (got[s] = version => got'[s] = version)
      <4>1. CASE Check(w)
        BY <1>a, <4>1, CheckJob DEF seen
      <4>2. CASE w \in Feeds /\ EventPayload(w)
        BY <1>a, <4>2, EventPayloadJob DEF seen
      <4>3. CASE w \in Subs /\ FetchAnswered(w)
        BY <1>a, <4>3, FetchAnsweredJob DEF seen
      <4>4. CASE Send(w)
        <5>1. job[w] \in Job /\ job[w].payload <= version
          BY <1>a, <4>4, SendJob, WorkersAssumption DEF PastInv, NotAhead
        <5>2. job[w].payload \in Nat /\ version \in Nat
          BY <1>a, <5>1 DEF Job, TypeOK
        <5>3. got'[s] = IF s \in subscribed /\ FormatOf(s) = job[w].format /\ got[s] < job[w].payload
                        THEN job[w].payload ELSE got[s]
          BY <1>a, <2>2, <4>4, SendJob
        <5>4. got[s] = version => got'[s] = version
          BY <5>1, <5>2, <5>3
        <5> QED BY <1>a, <4>4, <5>4, SendJob
      <4> QED BY <2>8, <4>1, <4>2, <4>3, <4>4
    <3>2. \A u \in Workers \ {w} : job'[u] = job[u]
      BY <1>a, <3>1 DEF TypeOK
    <3>3. s \in subscribed /\ got[s] # version
      BY <3>1
    <3>4. CASE \E i \in DOMAIN feed[f] : feed[f][i] = version
      BY <3>1, <3>4
    <3>5. CASE WillSend(job[f], FormatOf(s)) /\ job[f].event = version
      <4>1. CASE w = f
        BY <1>a, <2>2, <2>3, <2>8, <3>3, <3>5, <4>1, OnItsWay, WorkersAssumption
      <4>2. CASE w # f
        BY <2>1, <2>3, <3>2, <3>5, <4>2 DEF WillSend
      <4> QED BY <4>1, <4>2
    <3>6. CASE s \notin changed /\ WillSend(job[s], FormatOf(s))
      <4>1. CASE w = s
        BY <1>a, <2>2, <2>3, <2>8, <3>1, <3>3, <3>6, <4>1, OnItsWay
      <4>2. CASE w # s
        BY <2>1, <2>3, <3>1, <3>2, <3>6, <4>2 DEF WillSend
      <4> QED BY <4>1, <4>2
    <3>7. CASE s \notin changed /\ s \in failed
      BY <3>1, <3>7
    <3> QED BY <2>4, <3>3, <3>4, <3>5, <3>6, <3>7
  <2>9. ASSUME NEW t \in Subs, FetchFails(t)
        PROVE  \/ \E i \in DOMAIN feed'[f] : feed'[f][i] = version
               \/ WillSend(job[f], FormatOf(s))' /\ job'[f].event = version
               \/ Fetched(s)'
    <3>1. /\ job' = [job EXCEPT ![t] = Idle] /\ failed \subseteq failed' /\ got' = got
          /\ (t = s => s \in failed') /\ UNCHANGED <<feed, subscribed, changed>>
      BY <1>a, <2>1, <2>2, <2>9 DEF FetchFails
    <3>2. t \notin Feeds /\ job'[f] = job[f] /\ (t # s => job'[s] = job[s])
      BY <1>a, <2>3, <2>9, <3>1, WorkersAssumption DEF TypeOK
    <3> QED BY <2>1, <2>4, <3>1, <3>2 DEF WillSend
  <2>10. CASE UNCHANGED <<feed, subscribed, job, seen>>
    <3>1. feed' = feed /\ job' = job /\ s \in subscribed /\ got[s] # version /\ UNCHANGED seen
      BY <2>10 DEF seen
    <3>2. WillSend(job[f], FormatOf(s))' = WillSend(job[f], FormatOf(s))
          /\ WillSend(job[s], FormatOf(s))' = WillSend(job[s], FormatOf(s))
      BY <2>1, <3>1 DEF WillSend
    <3> QED BY <2>4, <3>1, <3>2 DEF seen
  <2>11. \/ \E t \in Subs : Subscribe(t) \/ Unsubscribe(t) \/ FetchAnswered(t) \/ FetchFails(t)
         \/ \E g \in Feeds : TakeChange(g)
         \/ \E w \in Workers : Check(w) \/ Send(w) \/ (w \in Feeds /\ EventPayload(w))
         \/ UNCHANGED <<feed, subscribed, job, seen>>
    BY <1>2 DEF Next, WorkerStep, StreamOpens, vars, seen
  <2> QED BY <2>5, <2>6, <2>7, <2>8, <2>9, <2>10, <2>11 DEF Workers
<1> QED BY <1>1, <1>2

-----------------------------------------------------------------------------
(* The theorems.                                                           *)

LEMMA UpdatesInit == Init => UpdatesInv
<1> SUFFICES ASSUME Init PROVE UpdatesInv
  OBVIOUS
<1>1. TypeOK
  <2>1. <<>> \in Seq(Versions)
    OBVIOUS
  <2> QED BY <2>1, FeedAssumption DEF Init, TypeOK
<1>2. OpenInv /\ StateIsOnItsWay
  BY FeedAssumption DEF Init, OpenInv, StateIsOnItsWay
<1>3. PastInv
  <2>1. \A f \in Feeds : DOMAIN feed[f] = {}
    BY DEF Init
  <2>2. \A w \in Workers : job[w] = Idle
    BY DEF Init
  <2> QED BY <1>1, <2>1, <2>2, FeedAssumption DEF Init, PastInv, NotAhead, OwnChange, TypeOK, Workers
<1> QED BY <1>1, <1>2, <1>3 DEF UpdatesInv

LEMMA UpdatesAlways == Spec => []UpdatesInv
<1>1. UpdatesInv /\ [Next]_vars => UpdatesInv'
  BY TypesNext, OpenNext, PastNext, OnItsWayNext DEF UpdatesInv
<1> QED BY UpdatesInit, <1>1, PTL DEF Spec

\* Streams, publications and what was received keep their types: no publication
\* sends without a payload, or a payload it never asked for (publishOnTopic...).
THEOREM UpdateTypes == Spec => []TypeOK
<1>1. UpdatesInv => TypeOK
  BY DEF UpdatesInv
<1> QED BY UpdatesAlways, <1>1, PTL

\* Where the feed runs already, the state of the object is on its way to every
\* subscriber that does not have it (onSubscribeTopic and the publish functions).
THEOREM NoStateIsLost == Spec => []StateIsOnItsWay
<1>1. UpdatesInv => StateIsOnItsWay
  BY DEF UpdatesInv
<1> QED BY UpdatesAlways, <1>1, PTL
=============================================================================
