------------------------ MODULE MetricsRequestsProofs ------------------------
(***************************************************************************)
(* What a response to a metrics request shows, for any number of requests  *)
(* that are served at the same time.                                       *)
(***************************************************************************)
EXTENDS MetricsRequests, WellFoundedInduction, SequenceTheorems, TLAPS

-----------------------------------------------------------------------------
(* The gauges and their order.                                             *)

LEMMA GaugesInOrder ==
  /\ Len(InfoGauges) = 2 /\ Len(Order) = 3
  /\ Order \in [1 .. 3 -> Gauges]
  /\ \A g \in Gauges : \E i \in 1 .. 3 : g = Order[i]
  /\ \A i, j \in 1 .. 3 : Order[i] = Order[j] => i = j
<1> DEFINE Names == {"messages_received", "messages_sent", "subscribers_size"}
<1>1. /\ InfoGauges \in Seq(Names) /\ Len(InfoGauges) = 2
      /\ InfoGauges[1] = "messages_received" /\ InfoGauges[2] = "messages_sent"
  BY DEF InfoGauges
<1>2. /\ Order \in Seq(Names) /\ Len(Order) = 3 /\ Order[3] = "subscribers_size"
      /\ Order[1] = "messages_received" /\ Order[2] = "messages_sent"
  <2> DEFINE s == InfoGauges
             e == "subscribers_size"
  <2>1. s \in Seq(Names) /\ e \in Names /\ Order = Append(s, e)
    BY <1>1 DEF Order
  <2> HIDE DEF Names, s, e
  <2>2. /\ Append(s, e) \in Seq(Names) /\ Len(Append(s, e)) = Len(s) + 1
        /\ \A i \in 1 .. Len(s) : Append(s, e)[i] = s[i]
        /\ Append(s, e)[Len(s) + 1] = e
    BY <2>1, AppendProperties
  <2>3. 1 \in 1 .. Len(s) /\ 2 \in 1 .. Len(s) /\ Len(s) + 1 = 3
    BY <1>1 DEF s
  <2> QED BY <1>1, <2>1, <2>2, <2>3 DEF s, e
<1>3. DOMAIN Order = 1 .. 3 /\ \A i \in 1 .. 3 : i = 1 \/ i = 2 \/ i = 3
  BY <1>2
<1> QED BY <1>1, <1>2, <1>3 DEF Gauges, Range

\* Min is what its name says: a set of numbers has a least one.
LEMMA MinIsLeast ==
  ASSUME NEW S, S \subseteq Nat, S # {}
  PROVE  Min(S) \in S /\ \A n \in S : Min(S) <= n
<1>1. PICK m \in S : \A n \in S : ~(<<n, m>> \in OpToRel(<, Nat))
  BY NatLessThanWellFounded, WFMin
<1>2. \A n \in S : m <= n
  <2> SUFFICES ASSUME NEW n \in S, n < m PROVE FALSE
    OBVIOUS
  <2>1. <<n, m>> \in OpToRel(<, Nat)
    BY DEF OpToRel
  <2> QED BY <1>1, <2>1
<1> QED BY <1>2 DEF Min

-----------------------------------------------------------------------------
(* Types.                                                                  *)

\* SystemInfo is read before the first gauge is set, and a request gets past
\* its first gauge only if there are gauges.
StageInv ==
  \A r \in Requests :
    /\ Step(r, "info") => request[r].next <= Len(InfoGauges)
    /\ Step(r, "gather") \/ (Step(r, "set") /\ request[r].next > 1) => registered

LEMMA TypesInit == Init => TypeOK /\ StageInv
<1> SUFFICES ASSUME Init PROVE TypeOK /\ StageInv
  OBVIOUS
<1>1. Nothing \in Values
  BY MetricsAssumption DEF Nothing, Values
<1>2. NoRequest \in Request
  BY <1>1, GaugesInOrder DEF NoRequest, Request
<1> QED BY <1>1, <1>2, MetricsAssumption DEF Init, TypeOK, StageInv, Nothing, NoRequest, Step

\* The oldest values of the requests that are being served.
Floors(r) ==
  LET begun == { request[q].begun : q \in { q \in Requests : Active(q) } } \cup {value}
  IN  [g \in Gauges |-> Min({ b[g] : b \in begun })]

LEMMA FloorsAreLeast ==
  ASSUME TypeOK, NEW r \in Requests
  PROVE  /\ Floors(r) \in Values
         /\ \A g \in Gauges : Floors(r)[g] <= value[g]
         /\ \A q \in Requests, g \in Gauges : Active(q) => Floors(r)[g] <= request[q].begun[g]
<1> DEFINE begun == { request[q].begun : q \in { q \in Requests : Active(q) } } \cup {value}
<1>1. begun \subseteq Values /\ value \in begun
  BY DEF TypeOK, Request
<1>2. \A q \in Requests : Active(q) => request[q].begun \in begun
  OBVIOUS
<1> HIDE DEF begun
<1>3. ASSUME NEW g \in Gauges
      PROVE  /\ Min({ b[g] : b \in begun }) \in 0 .. MaxChanges
             /\ \A b \in begun : Min({ a[g] : a \in begun }) <= b[g]
  <2> DEFINE S == { b[g] : b \in begun }
  <2>1. S \subseteq 0 .. MaxChanges /\ S \subseteq Nat /\ S # {} /\ \A b \in begun : b[g] \in S
    BY <1>1 DEF Values
  <2> HIDE DEF S
  <2>2. Min(S) \in S /\ \A n \in S : Min(S) <= n
    BY <2>1, MinIsLeast
  <2> QED BY <2>1, <2>2 DEF S
<1>4. Floors(r) = [g \in Gauges |-> Min({ b[g] : b \in begun })]
  BY DEF Floors, begun
<1> QED BY <1>1, <1>2, <1>3, <1>4 DEF Values

-----------------------------------------------------------------------------
(* What the steps of a request change.                                     *)

\* What ReadInfo and Set have in common: one value is read, and the request
\* goes on to another gauge.
Reads(r, g, v) ==
  /\ request' \in [Requests -> Request]
  /\ \A q \in Requests \ {r} : request'[q] = request[q]
  /\ request'[r].read[g] = v
  /\ \A h \in Gauges \ {g} : request'[r].read[h] = request[r].read[h]
  /\ request'[r].begun = request[r].begun /\ request'[r].floor = request[r].floor
  /\ request'[r].lone = request[r].lone /\ request'[r].shown = request[r].shown

LEMMA RequestTypes ==
  ASSUME TypeOK, NEW r \in Requests
  PROVE  /\ request[r] \in Request /\ request[r].next \in 1 .. 3
         /\ request[r].read \in Values /\ request[r].missing \in SUBSET Gauges
         /\ request[r].shown \in Values /\ request[r].begun \in Values
         /\ request[r].floor \in Values /\ request[r].lone \in BOOLEAN
         /\ Current(r) \in Gauges
<1>1. request[r] \in Request
  BY DEF TypeOK
<1>2. request[r].next \in 1 .. 3
  BY <1>1, GaugesInOrder DEF Request
<1>3. Current(r) \in Gauges
  BY <1>2, GaugesInOrder DEF Current
<1> QED BY <1>1, <1>2, <1>3 DEF Request

LEMMA ReadInfoChanges ==
  ASSUME TypeOK, StageInv, NEW r \in Requests, ReadInfo(r)
  PROVE  /\ Reads(r, Current(r), value[Current(r)]) /\ UNCHANGED <<registered, value, gauge>>
         /\ Step(r, "info") /\ request[r].next \in 1 .. 2
         /\ \/ request[r].next = 1 /\ request'[r].next = 2 /\ request'[r].stage = "info"
            \/ request[r].next = 2 /\ request'[r].next = 1 /\ request'[r].stage = "set"
<1>1. request[r].next \in 1 .. 2 /\ Len(InfoGauges) = 2 /\ Len(Order) = 3
  BY RequestTypes, GaugesInOrder DEF ReadInfo, StageInv
<1> DEFINE rq == request[r]
           new == [rq EXCEPT !.read[Current(r)] = value[Current(r)],
                             !.next  = IF @ < 2 THEN @ + 1 ELSE 1,
                             !.stage = IF rq.next < 2 THEN "info" ELSE "set"]
<1>2. request' = [request EXCEPT ![r] = new]
  BY <1>1 DEF ReadInfo
<1>3. Current(r) \in Gauges /\ value[Current(r)] \in 0 .. MaxChanges /\ rq \in Request
  BY RequestTypes DEF TypeOK, Values
<1>4. [rq.read EXCEPT ![Current(r)] = value[Current(r)]] \in Values
  BY <1>3, RequestTypes DEF Values
<1>5. /\ new \in Request
      /\ new.read = [rq.read EXCEPT ![Current(r)] = value[Current(r)]]
      /\ new.next = (IF rq.next < 2 THEN rq.next + 1 ELSE 1)
      /\ new.stage = (IF rq.next < 2 THEN "info" ELSE "set")
      /\ new.begun = rq.begun /\ new.floor = rq.floor /\ new.lone = rq.lone /\ new.shown = rq.shown
  <2>1. (IF rq.next < 2 THEN rq.next + 1 ELSE 1) \in 1 .. Len(Order)
    BY <1>1
  <2> QED BY <1>3, <1>4, <2>1 DEF Request
<1> HIDE DEF new
<1>6. request' \in [Requests -> Request] /\ request'[r] = new
      /\ \A q \in Requests \ {r} : request'[q] = request[q]
  BY <1>2, <1>5 DEF TypeOK
<1>7. Reads(r, Current(r), value[Current(r)])
  BY <1>3, <1>5, <1>6, RequestTypes DEF Reads, Values
<1> QED BY <1>1, <1>5, <1>6, <1>7 DEF ReadInfo

LEMMA SetChanges ==
  ASSUME TypeOK, StageInv, NEW r \in Requests, Set(r)
  PROVE  /\ Reads(r, Current(r), NewValue(r)) /\ UNCHANGED <<registered, value>> /\ registered
         /\ gauge' = [gauge EXCEPT ![Current(r)] = NewValue(r)] /\ NewValue(r) \in 0 .. MaxChanges
         /\ Step(r, "set") /\ gauge' \in [Gauges -> 0 .. MaxChanges]
         /\ \/ /\ request[r].next \in 1 .. 2 /\ request'[r].next = request[r].next + 1
               /\ request'[r].stage = "set" /\ request'[r].missing = {}
            \/ /\ request[r].next = 3 /\ request'[r].stage = "gather"
               /\ request'[r].missing = Gauges
<1>1. request[r].next \in 1 .. 3 /\ Len(Order) = 3 /\ Len(InfoGauges) = 2
  BY RequestTypes, GaugesInOrder
<1>2. NewValue(r) \in 0 .. MaxChanges /\ Current(r) \in Gauges
  BY RequestTypes DEF NewValue, TypeOK, Values
<1> DEFINE rq == request[r]
           v == NewValue(r)
           last == rq.next = 3
           new == [rq EXCEPT !.read[Current(r)] = v,
                             !.next    = IF last THEN 1 ELSE @ + 1,
                             !.stage   = IF last THEN "gather" ELSE "set",
                             !.missing = IF last THEN Gauges ELSE {}]
<1>3. request' = [request EXCEPT ![r] = new]
  BY <1>1 DEF Set, AfterSet
<1> HIDE DEF v
<1>4. [rq.read EXCEPT ![Current(r)] = v] \in Values
  BY <1>2, RequestTypes DEF Values, v
<1>5. /\ new \in Request
      /\ new.read = [rq.read EXCEPT ![Current(r)] = v]
      /\ new.next = (IF last THEN 1 ELSE rq.next + 1)
      /\ new.stage = (IF last THEN "gather" ELSE "set")
      /\ new.missing = (IF last THEN Gauges ELSE {})
      /\ new.begun = rq.begun /\ new.floor = rq.floor /\ new.lone = rq.lone /\ new.shown = rq.shown
  <2>1. (IF last THEN 1 ELSE rq.next + 1) \in 1 .. Len(Order)
    BY <1>1
  <2> QED BY <1>4, <2>1, RequestTypes DEF Request
<1> HIDE DEF new
<1>6. request' \in [Requests -> Request] /\ request'[r] = new
      /\ \A q \in Requests \ {r} : request'[q] = request[q]
  BY <1>3, <1>5 DEF TypeOK
<1>7. Reads(r, Current(r), v)
  BY <1>2, <1>5, <1>6, RequestTypes DEF Reads, Values
<1>8. registered
  BY <1>2 DEF Set, TypeOK
<1>9. gauge' = [gauge EXCEPT ![Current(r)] = v] /\ gauge' \in [Gauges -> 0 .. MaxChanges]
  BY <1>2, <1>8 DEF Set, TypeOK, v
<1> QED BY <1>1, <1>2, <1>5, <1>6, <1>7, <1>8, <1>9 DEF Set, v

\* A request that is done or waits is none of the others' business.
LEMMA BeginChanges ==
  ASSUME TypeOK, NEW r \in Requests, Begin(r)
  PROVE  /\ request' \in [Requests -> Request] /\ UNCHANGED <<registered, value, gauge>>
         /\ ~Active(r) /\ request'[r].stage = "info" /\ request'[r].next = 1
         /\ request'[r].begun = value /\ request'[r].floor = Floors(r)
         /\ request'[r].lone => \A q \in Requests : ~Active(q)
         /\ \A q \in Requests \ {r} :
              IF Active(q) THEN request'[q] = [request[q] EXCEPT !.lone = FALSE]
              ELSE request'[q] = request[q]
<1> DEFINE others == { q \in Requests : Active(q) }
           new == [NoRequest EXCEPT !.stage = "info", !.begun = value, !.lone = (others = {}),
                                    !.floor = Floors(r)]
<1>1. request' = [q \in Requests |->
         CASE q = r -> new [] q \in others -> [request[q] EXCEPT !.lone = FALSE]
           [] OTHER -> request[q]]
  BY DEF Begin, Floors
<1>2. Nothing \in Values
  BY MetricsAssumption DEF Nothing, Values
<1>3. NoRequest \in Request /\ value \in Values /\ Floors(r) \in Values
  BY <1>2, FloorsAreLeast, GaugesInOrder DEF NoRequest, Request, TypeOK
<1>4. /\ new \in Request /\ new.stage = "info" /\ new.next = 1 /\ new.begun = value
      /\ new.floor = Floors(r) /\ (new.lone => others = {})
  BY <1>2, <1>3, GaugesInOrder DEF NoRequest, Request
<1>5. \A q \in Requests : [request[q] EXCEPT !.lone = FALSE] \in Request /\ request[q] \in Request
  BY DEF TypeOK, Request
<1> HIDE DEF new
<1>6. r \notin others
  BY DEF Begin
<1>7. request'[r] = new
  BY <1>1, <1>6
<1>8. ASSUME NEW q \in Requests \ {r}
      PROVE  IF Active(q) THEN request'[q] = [request[q] EXCEPT !.lone = FALSE]
             ELSE request'[q] = request[q]
  BY <1>1
<1>9. request' \in [Requests -> Request]
  BY <1>1, <1>4, <1>5, <1>7, <1>8
<1> QED BY <1>4, <1>6, <1>7, <1>8, <1>9 DEF Begin

LEMMA PanicChanges ==
  ASSUME TypeOK, NEW r \in Requests, Panic(r)
  PROVE  /\ request' \in [Requests -> Request] /\ UNCHANGED <<registered, value, gauge>>
         /\ request'[r].stage = "failed"
         /\ \A q \in Requests \ {r} : request'[q] = request[q]
<1>1. request[r] \in Request /\ 1 \in 1 .. Len(Order)
  BY RequestTypes, GaugesInOrder
<1>2. [request[r] EXCEPT !.stage = "failed", !.next = 1] \in Request
  BY <1>1 DEF Request
<1> QED BY <1>2 DEF Panic, TypeOK

LEMMA GatherChanges ==
  ASSUME TypeOK, StageInv, NEW r \in Requests, Gather(r)
  PROVE  /\ request' \in [Requests -> Request] /\ UNCHANGED <<registered, value, gauge>>
         /\ Step(r, "gather") /\ gauge \in [Gauges -> 0 .. MaxChanges]
         /\ \A q \in Requests \ {r} : request'[q] = request[q]
         /\ request'[r].begun = request[r].begun /\ request'[r].floor = request[r].floor
         /\ request'[r].lone = request[r].lone /\ request'[r].read = request[r].read
         /\ \E g \in request[r].missing :
              /\ request'[r].shown = [request[r].shown EXCEPT ![g] = gauge[g]]
              /\ request'[r].missing = request[r].missing \ {g}
              /\ request'[r].stage = IF request[r].missing = {g} THEN "served" ELSE "gather"
<1> DEFINE rq == request[r]
<1>1. PICK g \in rq.missing :
        request' = [request EXCEPT ![r] = [rq EXCEPT !.shown[g] = gauge[g], !.missing = @ \ {g},
                      !.stage = IF rq.missing = {g} THEN "served" ELSE "gather"]]
  BY DEF Gather
<1> DEFINE new == [rq EXCEPT !.shown[g] = gauge[g], !.missing = @ \ {g},
                             !.stage = IF rq.missing = {g} THEN "served" ELSE "gather"]
<1>2. gauge \in [Gauges -> 0 .. MaxChanges]
  BY DEF Gather, StageInv, TypeOK, Step
<1>3. rq \in Request /\ g \in Gauges
  BY RequestTypes
<1>4. [rq.shown EXCEPT ![g] = gauge[g]] \in Values
  BY <1>2, <1>3, RequestTypes DEF Values
<1>5. /\ new \in Request /\ new.shown = [rq.shown EXCEPT ![g] = gauge[g]]
      /\ new.missing = rq.missing \ {g}
      /\ new.stage = (IF rq.missing = {g} THEN "served" ELSE "gather")
      /\ new.begun = rq.begun /\ new.floor = rq.floor /\ new.lone = rq.lone /\ new.read = rq.read
  BY <1>3, <1>4 DEF Request
<1> HIDE DEF new
<1>6. request' \in [Requests -> Request] /\ request'[r] = new
      /\ \A q \in Requests \ {r} : request'[q] = request[q]
  BY <1>1, <1>5 DEF TypeOK, new
<1> QED BY <1>2, <1>3, <1>5, <1>6 DEF Gather

-----------------------------------------------------------------------------
(* The inductive invariant.                                                *)

\* The gauges a request has read, has set, and has in its response.
Before(r)   == { Order[i] : i \in 1 .. (request[r].next - 1) }
Info        == { Order[i] : i \in 1 .. Len(InfoGauges) }
HasRead(r)  == IF Step(r, "info") THEN Before(r)
               ELSE IF Step(r, "set") THEN Info \cup Before(r) ELSE Gauges
HasSet(r)   == IF Step(r, "info") THEN {} ELSE IF Step(r, "set") THEN Before(r) ELSE Gauges
HasShown(r) == IF Step(r, "gather") THEN Gauges \ request[r].missing
               ELSE IF Step(r, "served") THEN Gauges ELSE {}

\* Whoever may still write a gauge has begun after the floors of all requests
\* being served, and writes what it has read since; so a gauge that a request
\* has once set stays above the floor of that request.
RecentInv ==
  \A r \in Requests :
    /\ Active(r) => \A g \in Gauges :
         /\ request[r].begun[g] <= value[g]
         /\ \A q \in Requests : Active(q) => request[r].floor[g] <= request[q].begun[g]
         /\ g \in HasRead(r) => request[r].begun[g] <= request[r].read[g]
         /\ g \in HasSet(r)  => request[r].floor[g] <= gauge[g]
    /\ \A g \in HasShown(r) : request[r].floor[g] <= request[r].shown[g]

\* A request that is still alone finds its own values in the gauges it has
\* set, and one that has met another is never alone again.
LoneInv ==
  \A r \in Requests : request[r].lone =>
    /\ Active(r) => /\ \A q \in Requests : Active(q) => q = r
                   /\ \A g \in HasSet(r) : gauge[g] = request[r].read[g]
    /\ \A g \in HasShown(r) : request[r].shown[g] = request[r].read[g]

MetricsInv == TypeOK /\ StageInv /\ RecentInv /\ LoneInv

\* The sets grow by the gauge a step is about; what a request has read of
\* SystemInfo includes what it sets first.
LEMMA ReadInfoGoesOn ==
  ASSUME TypeOK, StageInv, NEW r \in Requests, ReadInfo(r)
  PROVE  /\ Active(r) /\ HasRead(r)' \subseteq HasRead(r) \cup {Current(r)}
         /\ HasSet(r)' = {} /\ HasShown(r)' = {}
<1>1. /\ Step(r, "info") /\ Len(InfoGauges) = 2
      /\ \/ request[r].next = 1 /\ request'[r].next = 2 /\ request'[r].stage = "info"
         \/ request[r].next = 2 /\ request'[r].next = 1 /\ request'[r].stage = "set"
  BY ReadInfoChanges, GaugesInOrder
<1>2. CASE request[r].next = 1
  BY <1>1, <1>2 DEF Step, HasRead, HasSet, HasShown, Before, Current, Active
<1>3. CASE request[r].next = 2
  <2>1. request'[r].next = 1 /\ request'[r].stage = "set"
    BY <1>1, <1>3
  <2>2. Before(r)' = {} /\ Info = {Order[1], Order[2]} /\ Before(r) = {Order[1]}
    <3>1. 1 .. 2 = {1, 2} /\ 1 .. (1 - 1) = {} /\ 1 .. (2 - 1) = {1}
      OBVIOUS
    <3> QED BY <1>1, <1>3, <2>1, <3>1 DEF Before, Info
  <2> QED BY <1>1, <1>3, <2>1, <2>2 DEF Step, HasRead, HasSet, HasShown, Current, Active
<1> QED BY <1>1, <1>2, <1>3

LEMMA SetGoesOn ==
  ASSUME TypeOK, StageInv, NEW r \in Requests, Set(r)
  PROVE  /\ Active(r) /\ HasRead(r)' \subseteq HasRead(r) \cup {Current(r)}
         /\ HasSet(r)' \subseteq HasSet(r) \cup {Current(r)} /\ HasShown(r)' = {}
         /\ \/ Current(r) \in HasRead(r) /\ NewValue(r) = request[r].read[Current(r)]
            \/ NewValue(r) = value[Current(r)]
<1>1. /\ Step(r, "set") /\ Len(InfoGauges) = 2
      /\ \/ /\ request[r].next \in 1 .. 2 /\ request'[r].next = request[r].next + 1
            /\ request'[r].stage = "set" /\ request'[r].missing = {}
         \/ /\ request[r].next = 3 /\ request'[r].stage = "gather"
            /\ request'[r].missing = Gauges
  BY SetChanges, GaugesInOrder
<1>2. request[r].next \in 1 .. 3
  BY RequestTypes
<1>3. request[r].next <= 2 => Current(r) \in HasRead(r) /\ NewValue(r) = request[r].read[Current(r)]
  BY <1>1, <1>2 DEF NewValue, Current, HasRead, Info, Step
<1>4. request[r].next = 3 => NewValue(r) = value[Current(r)]
  BY <1>1, <1>2 DEF NewValue
<1>5. CASE request[r].next \in 1 .. 2
  <2>1. request'[r].next = request[r].next + 1 /\ request'[r].stage = "set"
    BY <1>1, <1>5
  <2>2. Before(r)' = Before(r) \cup {Current(r)}
    BY <1>5, <2>1 DEF Before, Current
  <2> QED BY <1>1, <1>3, <1>5, <2>1, <2>2 DEF Step, HasRead, HasSet, HasShown, Active
<1>6. CASE request[r].next = 3
  <2>1. request'[r].stage = "gather" /\ request'[r].missing = Gauges
    BY <1>1, <1>6
  <2>2. Gauges \subseteq Before(r) \cup {Current(r)}
    <3>1. \A i \in 1 .. 3 : i \in 1 .. (3 - 1) \/ i = 3
      OBVIOUS
    <3> QED BY <1>6, <3>1, GaugesInOrder DEF Before, Current
  <2> QED BY <1>1, <1>4, <1>6, <2>1, <2>2 DEF Step, HasRead, HasSet, HasShown, Active
<1> QED BY <1>2, <1>5, <1>6

LEMMA GatherGoesOn ==
  ASSUME TypeOK, StageInv, NEW r \in Requests, Gather(r)
  PROVE  /\ Active(r) /\ HasRead(r)' = Gauges /\ HasSet(r)' = Gauges
         /\ HasRead(r) = Gauges /\ HasSet(r) = Gauges
         /\ \E g \in Gauges : /\ request'[r].shown = [request[r].shown EXCEPT ![g] = gauge[g]]
                             /\ HasShown(r)' \subseteq HasShown(r) \cup {g}
<1>1. Step(r, "gather") /\ request[r].missing \in SUBSET Gauges
  BY GatherChanges, RequestTypes
<1>2. PICK g \in request[r].missing :
        /\ request'[r].shown = [request[r].shown EXCEPT ![g] = gauge[g]]
        /\ request'[r].missing = request[r].missing \ {g}
        /\ request'[r].stage = IF request[r].missing = {g} THEN "served" ELSE "gather"
  BY GatherChanges
<1>3. HasShown(r)' \subseteq HasShown(r) \cup {g}
  BY <1>1, <1>2 DEF HasShown, Step
<1> QED BY <1>1, <1>2, <1>3 DEF HasRead, HasSet, Step, Active

LEMMA BeginGoesOn ==
  ASSUME TypeOK, NEW r \in Requests, Begin(r)
  PROVE  Active(r)' /\ HasRead(r)' = {} /\ HasSet(r)' = {} /\ HasShown(r)' = {}
<1>1. request'[r].stage = "info" /\ request'[r].next = 1
  BY BeginChanges
<1>2. 1 .. (1 - 1) = {}
  OBVIOUS
<1> QED BY <1>1, <1>2 DEF HasRead, HasSet, HasShown, Before, Step, Active

\* Another request's step changes nothing but its being alone.
SameBut(q) ==
  /\ Active(q)' <=> Active(q)
  /\ HasRead(q)' = HasRead(q) /\ HasSet(q)' = HasSet(q) /\ HasShown(q)' = HasShown(q)
  /\ request'[q].read = request[q].read /\ request'[q].shown = request[q].shown
  /\ request'[q].begun = request[q].begun /\ request'[q].floor = request[q].floor
  /\ request'[q].lone => request[q].lone

LEMMA SameRequest ==
  ASSUME NEW q \in Requests, request'[q] = request[q]
  PROVE  SameBut(q)
  BY DEF SameBut, Active, HasRead, HasSet, HasShown, Before, Step

LEMMA SameAtBegin ==
  ASSUME TypeOK, NEW q \in Requests, request'[q] = [request[q] EXCEPT !.lone = FALSE]
  PROVE  SameBut(q) /\ ~request'[q].lone
<1>1. request[q] \in Request
  BY DEF TypeOK
<1>2. /\ request'[q].stage = request[q].stage /\ request'[q].next = request[q].next
      /\ request'[q].missing = request[q].missing /\ request'[q].read = request[q].read
      /\ request'[q].shown = request[q].shown /\ request'[q].begun = request[q].begun
      /\ request'[q].floor = request[q].floor /\ ~request'[q].lone
  BY <1>1 DEF Request
<1> QED BY <1>2 DEF SameBut, Active, HasRead, HasSet, HasShown, Before, Step

-----------------------------------------------------------------------------
(* Every step keeps it.                                                    *)

LEMMA TypesNext ==
  ASSUME TypeOK, StageInv, [Next]_vars
  PROVE  TypeOK' /\ StageInv'
<1>1. CASE UNCHANGED vars
  BY <1>1 DEF vars, TypeOK, StageInv, Step
<1>2. ASSUME NEW g \in Gauges, Change(g) PROVE TypeOK' /\ StageInv'
  <2>1. UNCHANGED <<registered, gauge, request>> /\ value' \in Values
    BY <1>2, MetricsAssumption DEF Change, TypeOK, Values
  <2> QED BY <2>1 DEF TypeOK, StageInv, Step
<1>3. ASSUME NEW r \in Requests, Begin(r) PROVE TypeOK' /\ StageInv'
  <2>1. /\ request' \in [Requests -> Request] /\ UNCHANGED <<registered, value, gauge>>
        /\ request'[r].stage = "info" /\ request'[r].next = 1
        /\ \A q \in Requests \ {r} :
             IF Active(q) THEN request'[q] = [request[q] EXCEPT !.lone = FALSE]
             ELSE request'[q] = request[q]
    BY <1>3, BeginChanges
  <2>2. \A q \in Requests \ {r} : request'[q].stage = request[q].stage
                                /\ request'[q].next = request[q].next
    BY <2>1 DEF TypeOK, Request
  <2> QED BY <2>1, <2>2, GaugesInOrder DEF TypeOK, StageInv, Step
<1>4. ASSUME NEW r \in Requests, ReadInfo(r) PROVE TypeOK' /\ StageInv'
  BY <1>4, ReadInfoChanges, GaugesInOrder DEF TypeOK, StageInv, Step, Reads
<1>5. ASSUME NEW r \in Requests, Set(r) PROVE TypeOK' /\ StageInv'
  <2>1. /\ request' \in [Requests -> Request] /\ UNCHANGED <<registered, value>> /\ registered
        /\ gauge' \in [Gauges -> 0 .. MaxChanges] /\ request'[r].stage \in {"set", "gather"}
        /\ \A q \in Requests \ {r} : request'[q] = request[q]
    BY <1>5, SetChanges DEF Reads
  <2> QED BY <2>1, MetricsAssumption DEF TypeOK, StageInv, Step
<1>6. ASSUME NEW r \in Requests, Panic(r) PROVE TypeOK' /\ StageInv'
  BY <1>6, PanicChanges DEF TypeOK, StageInv, Step
<1>7. ASSUME NEW r \in Requests, Gather(r) PROVE TypeOK' /\ StageInv'
  <2>1. registered /\ request'[r].stage \in {"gather", "served"}
        /\ request' \in [Requests -> Request] /\ UNCHANGED <<registered, value, gauge>>
        /\ \A q \in Requests \ {r} : request'[q] = request[q]
    BY <1>7, GatherChanges DEF StageInv
  <2> QED BY <2>1 DEF TypeOK, StageInv, Step
<1> QED BY <1>1, <1>2, <1>3, <1>4, <1>5, <1>6, <1>7 DEF Next

\* The numbers that RecentInv compares.
LEMMA Numbers ==
  ASSUME TypeOK, NEW r \in Requests, NEW g \in Gauges
  PROVE  /\ value[g] \in Nat /\ request[r].begun[g] \in Nat /\ request[r].floor[g] \in Nat
         /\ request[r].read[g] \in Nat /\ request[r].shown[g] \in Nat
  BY RequestTypes, MetricsAssumption DEF TypeOK, Values

\* What RecentInv says of one request.
Recent(r) ==
  /\ Active(r) => \A g \in Gauges :
       /\ request[r].begun[g] <= value[g]
       /\ \A q \in Requests : Active(q) => request[r].floor[g] <= request[q].begun[g]
       /\ g \in HasRead(r) => request[r].begun[g] <= request[r].read[g]
       /\ g \in HasSet(r)  => request[r].floor[g] <= gauge[g]
  /\ \A g \in HasShown(r) : request[r].floor[g] <= request[r].shown[g]

LEMMA RecentNext ==
  ASSUME MetricsInv, [Next]_vars
  PROVE  RecentInv'
<1> SUFFICES ASSUME NEW q \in Requests PROVE Recent(q)'
  BY DEF RecentInv, Recent
<1>0. TypeOK /\ StageInv /\ \A r \in Requests : Recent(r)
  BY DEF MetricsInv, RecentInv, Recent
<1>1. CASE UNCHANGED vars
  <2>1. \A r \in Requests : SameBut(r)
    BY <1>1, SameRequest DEF vars
  <2> QED BY <1>0, <1>1, <2>1 DEF vars, Recent, SameBut
<1>2. ASSUME NEW g \in Gauges, Change(g) PROVE Recent(q)'
  <2>1. /\ UNCHANGED <<registered, gauge, request>> /\ \A r \in Requests : SameBut(r)
        /\ \A h \in Gauges : value[h] <= value'[h] /\ value'[h] \in Nat
    BY <1>0, <1>2, SameRequest, MetricsAssumption DEF Change, TypeOK, Values
  <2> QED BY <1>0, <2>1, Numbers DEF Recent, SameBut
<1>3. ASSUME NEW r \in Requests, Begin(r) PROVE Recent(q)'
  <2>1. /\ UNCHANGED <<value, gauge>> /\ ~Active(r)
        /\ request'[r].begun = value /\ request'[r].floor = Floors(r)
        /\ Active(r)' /\ HasRead(r)' = {} /\ HasSet(r)' = {} /\ HasShown(r)' = {}
    BY <1>0, <1>3, BeginChanges, BeginGoesOn
  <2>2. \A p \in Requests \ {r} : SameBut(p)
    BY <1>0, <1>3, BeginChanges, SameRequest, SameAtBegin
  <2>3. /\ \A g \in Gauges : Floors(r)[g] <= value[g] /\ value[g] <= value[g]
        /\ \A p \in Requests, g \in Gauges : Active(p) => Floors(r)[g] <= request[p].begun[g]
    BY <1>0, FloorsAreLeast, Numbers
  <2>4. CASE q = r
    BY <1>0, <2>1, <2>2, <2>3, <2>4 DEF Recent, SameBut
  <2>5. CASE q # r
    <3>1. Active(q) => \A g \in Gauges : request[q].floor[g] <= value[g]
      BY <1>0, Numbers DEF Recent
    <3> QED BY <1>0, <2>1, <2>2, <2>5, <3>1 DEF Recent, SameBut
  <2> QED BY <2>4, <2>5
<1>4. ASSUME NEW r \in Requests, ReadInfo(r) PROVE Recent(q)'
  <2>1. /\ UNCHANGED <<value, gauge>> /\ Reads(r, Current(r), value[Current(r)])
        /\ Active(r) /\ HasRead(r)' \subseteq HasRead(r) \cup {Current(r)}
        /\ HasSet(r)' = {} /\ HasShown(r)' = {}
    BY <1>0, <1>4, ReadInfoChanges, ReadInfoGoesOn
  <2>2. \A p \in Requests \ {r} : SameBut(p)
    BY <2>1, SameRequest DEF Reads
  <2> QED BY <1>0, <2>1, <2>2 DEF Recent, SameBut, Reads
<1>5. ASSUME NEW r \in Requests, Set(r) PROVE Recent(q)'
  <2>1. /\ UNCHANGED value /\ Reads(r, Current(r), NewValue(r))
        /\ gauge' = [gauge EXCEPT ![Current(r)] = NewValue(r)]
        /\ Active(r) /\ HasRead(r)' \subseteq HasRead(r) \cup {Current(r)}
        /\ HasSet(r)' \subseteq HasSet(r) \cup {Current(r)} /\ HasShown(r)' = {}
        /\ NewValue(r) \in 0 .. MaxChanges
    BY <1>0, <1>5, SetChanges, SetGoesOn
  <2>2. \A p \in Requests \ {r} : SameBut(p)
    BY <2>1, SameRequest DEF Reads
  <2>3. request[r].begun[Current(r)] <= NewValue(r)
    BY <1>0, <1>5, <2>1, SetGoesOn, RequestTypes DEF Recent
  <2>4. \A p \in Requests : Active(p) => request[p].floor[Current(r)] <= NewValue(r)
    BY <1>0, <2>1, <2>3, Numbers, RequestTypes DEF Recent
  <2>5. /\ gauge'[Current(r)] = NewValue(r)
        /\ \A g \in Gauges \ {Current(r)} : gauge'[g] = gauge[g]
    BY <1>0, <2>1, RequestTypes DEF TypeOK
  <2>6. CASE q = r
    BY <1>0, <2>1, <2>2, <2>3, <2>4, <2>5, <2>6 DEF Recent, SameBut, Reads
  <2>7. CASE q # r
    BY <1>0, <2>1, <2>2, <2>4, <2>5, <2>7 DEF Recent, SameBut, Reads
  <2> QED BY <2>6, <2>7
<1>6. ASSUME NEW r \in Requests, Panic(r) PROVE Recent(q)'
  <2>1. UNCHANGED <<value, gauge>> /\ ~Active(r)' /\ HasShown(r)' = {}
    BY <1>0, <1>6, PanicChanges DEF Active, HasShown, Step
  <2>2. \A p \in Requests \ {r} : SameBut(p)
    BY <1>0, <1>6, PanicChanges, SameRequest
  <2> QED BY <1>0, <2>1, <2>2 DEF Recent, SameBut
<1>7. ASSUME NEW r \in Requests, Gather(r) PROVE Recent(q)'
  <2>1. /\ UNCHANGED <<value, gauge>> /\ Active(r) /\ HasRead(r) = Gauges /\ HasSet(r) = Gauges
        /\ request'[r].begun = request[r].begun /\ request'[r].floor = request[r].floor
        /\ request'[r].read = request[r].read
    BY <1>0, <1>7, GatherChanges, GatherGoesOn
  <2>2. PICK g \in Gauges : /\ request'[r].shown = [request[r].shown EXCEPT ![g] = gauge[g]]
                            /\ HasShown(r)' \subseteq HasShown(r) \cup {g}
    BY <1>0, <1>7, GatherGoesOn
  <2>3. \A p \in Requests \ {r} : SameBut(p)
    BY <1>0, <1>7, GatherChanges, SameRequest
  <2>4. \A h \in HasShown(r)' : request[r].floor[h] <= request'[r].shown[h]
    BY <1>0, <2>1, <2>2, RequestTypes DEF Recent, Values, HasShown
  <2> QED BY <1>0, <2>1, <2>3, <2>4 DEF Recent, SameBut
<1> QED BY <1>1, <1>2, <1>3, <1>4, <1>5, <1>6, <1>7 DEF Next

\* What LoneInv says of one request.
Lone(r) ==
  request[r].lone =>
    /\ Active(r) => /\ \A q \in Requests : Active(q) => q = r
                   /\ \A g \in HasSet(r) : gauge[g] = request[r].read[g]
    /\ \A g \in HasShown(r) : request[r].shown[g] = request[r].read[g]

LEMMA LoneNext ==
  ASSUME MetricsInv, [Next]_vars
  PROVE  LoneInv'
<1> SUFFICES ASSUME NEW q \in Requests PROVE Lone(q)'
  BY DEF LoneInv, Lone
<1>0. TypeOK /\ StageInv /\ \A r \in Requests : Lone(r)
  BY DEF MetricsInv, LoneInv, Lone
<1>1. CASE UNCHANGED vars
  <2>1. \A r \in Requests : SameBut(r)
    BY <1>1, SameRequest DEF vars
  <2> QED BY <1>0, <1>1, <2>1 DEF vars, Lone, SameBut
<1>2. ASSUME NEW g \in Gauges, Change(g) PROVE Lone(q)'
  <2>1. UNCHANGED gauge /\ \A r \in Requests : SameBut(r)
    BY <1>2, SameRequest DEF Change
  <2> QED BY <1>0, <2>1 DEF Lone, SameBut
<1>3. ASSUME NEW r \in Requests, Begin(r) PROVE Lone(q)'
  <2>1. /\ UNCHANGED gauge /\ (request'[r].lone => \A p \in Requests : ~Active(p))
        /\ HasSet(r)' = {} /\ HasShown(r)' = {}
    BY <1>0, <1>3, BeginChanges, BeginGoesOn
  <2>2. \A p \in Requests \ {r} : SameBut(p) /\ (Active(p) => ~request'[p].lone)
    BY <1>0, <1>3, BeginChanges, SameRequest, SameAtBegin
  <2>3. CASE q = r
    BY <2>1, <2>2, <2>3 DEF Lone, SameBut
  <2>4. CASE q # r
    BY <1>0, <2>2, <2>4 DEF Lone, SameBut
  <2> QED BY <2>3, <2>4
<1>4. ASSUME NEW r \in Requests, ReadInfo(r) PROVE Lone(q)'
  <2>1. /\ UNCHANGED gauge /\ Reads(r, Current(r), value[Current(r)]) /\ Active(r)
        /\ HasSet(r)' = {} /\ HasShown(r)' = {}
    BY <1>0, <1>4, ReadInfoChanges, ReadInfoGoesOn
  <2>2. \A p \in Requests \ {r} : SameBut(p)
    BY <2>1, SameRequest DEF Reads
  <2> QED BY <1>0, <2>1, <2>2 DEF Lone, SameBut, Reads
<1>5. ASSUME NEW r \in Requests, Set(r) PROVE Lone(q)'
  <2>1. /\ Reads(r, Current(r), NewValue(r)) /\ Active(r)
        /\ HasSet(r)' \subseteq HasSet(r) \cup {Current(r)} /\ HasShown(r)' = {}
    BY <1>0, <1>5, SetChanges, SetGoesOn
  <2>2. \A p \in Requests \ {r} : SameBut(p)
    BY <2>1, SameRequest DEF Reads
  <2>3. /\ gauge'[Current(r)] = NewValue(r) /\ HasSet(r)' \subseteq Gauges
        /\ \A g \in Gauges \ {Current(r)} : gauge'[g] = gauge[g]
    <3>1. HasSet(r) \subseteq Gauges /\ Current(r) \in Gauges
      <4>1. request[r].next \in 1 .. 3 /\ Current(r) \in Gauges
        BY <1>0, RequestTypes
      <4>2. Before(r) \subseteq Gauges
        BY <4>1, GaugesInOrder DEF Before
      <4> QED BY <4>1, <4>2 DEF HasSet
    <3> QED BY <1>0, <1>5, <2>1, <3>1, SetChanges DEF TypeOK
  <2>4. CASE q = r
    <3>1. SUFFICES ASSUME request[r].lone
                   PROVE  /\ \A p \in Requests : Active(p)' => p = r
                          /\ \A g \in HasSet(r)' : gauge'[g] = request'[r].read[g]
      BY <2>1, <2>4 DEF Lone, Reads
    <3>2. \A g \in HasSet(r) : gauge[g] = request[r].read[g]
      BY <1>0, <2>1, <3>1 DEF Lone
    <3>3. \A g \in HasSet(r)' : gauge'[g] = request'[r].read[g]
      BY <2>1, <2>3, <3>2 DEF Reads
    <3>4. \A p \in Requests : Active(p)' => p = r
      BY <1>0, <2>1, <2>2, <3>1 DEF Lone, SameBut
    <3> QED BY <3>3, <3>4
  <2>5. CASE q # r
    BY <1>0, <2>1, <2>2, <2>5 DEF Lone, SameBut
  <2> QED BY <2>4, <2>5
<1>6. ASSUME NEW r \in Requests, Panic(r) PROVE Lone(q)'
  <2>1. UNCHANGED gauge /\ ~Active(r)' /\ HasShown(r)' = {}
    BY <1>0, <1>6, PanicChanges DEF Active, HasShown, Step
  <2>2. \A p \in Requests \ {r} : SameBut(p)
    BY <1>0, <1>6, PanicChanges, SameRequest
  <2> QED BY <1>0, <2>1, <2>2 DEF Lone, SameBut
<1>7. ASSUME NEW r \in Requests, Gather(r) PROVE Lone(q)'
  <2>1. /\ UNCHANGED gauge /\ Active(r) /\ HasSet(r) = Gauges /\ HasSet(r)' = Gauges
        /\ request'[r].read = request[r].read /\ request'[r].lone = request[r].lone
    BY <1>0, <1>7, GatherChanges, GatherGoesOn
  <2>2. PICK g \in Gauges : /\ request'[r].shown = [request[r].shown EXCEPT ![g] = gauge[g]]
                            /\ HasShown(r)' \subseteq HasShown(r) \cup {g}
    BY <1>0, <1>7, GatherGoesOn
  <2>3. \A p \in Requests \ {r} : SameBut(p)
    BY <1>0, <1>7, GatherChanges, SameRequest
  <2>4. request[r].lone => \A h \in HasShown(r)' : request'[r].shown[h] = request[r].read[h]
    BY <1>0, <2>1, <2>2, RequestTypes DEF Lone, Values
  <2> QED BY <1>0, <2>1, <2>3, <2>4 DEF Lone, SameBut
<1> QED BY <1>1, <1>2, <1>3, <1>4, <1>5, <1>6, <1>7 DEF Next

LEMMA MetricsInit == Init => MetricsInv
<1> SUFFICES ASSUME Init PROVE MetricsInv
  OBVIOUS
<1>1. \A r \in Requests : ~Active(r) /\ HasShown(r) = {}
  BY DEF Init, NoRequest, Active, HasShown, Step
<1> QED BY <1>1, TypesInit DEF MetricsInv, RecentInv, LoneInv

LEMMA MetricsNext == MetricsInv /\ [Next]_vars => MetricsInv'
  BY TypesNext, RecentNext, LoneNext DEF MetricsInv

-----------------------------------------------------------------------------
\* The variables have their types, and the gauges are there if and only if
\* registerMetrics made them at the start.
THEOREM MetricsTypes == Spec => []TypeOK
<1>1. MetricsInv => TypeOK
  BY DEF MetricsInv
<1> QED BY <1>1, MetricsInit, MetricsNext, PTL DEF Spec

\* No response shows what is older than every request that was being served
\* with it, however the goroutines of the requests write and collect the
\* gauges they share (collectMQTTBroker and the handler of promhttp).
THEOREM NoResponseIsOld == Spec => []ResponsesAreRecent
<1>1. MetricsInv => ResponsesAreRecent
  <2> SUFFICES ASSUME MetricsInv, NEW r \in Requests, Step(r, "served"), NEW g \in Gauges
               PROVE  request[r].shown[g] >= request[r].floor[g]
    BY DEF ResponsesAreRecent, Step
  <2>1. g \in HasShown(r)
    BY DEF HasShown, Step
  <2>2. request[r].floor[g] <= request[r].shown[g]
    BY <2>1 DEF MetricsInv, RecentInv
  <2> QED BY <2>2, Numbers DEF MetricsInv
<1> QED BY <1>1, MetricsInit, MetricsNext, PTL DEF Spec

\* A request that met no other shows exactly what it has read itself.
THEOREM LoneRequestsSeeTheirOwn == Spec => []LoneRequestsShowTheirOwn
<1>1. MetricsInv => LoneRequestsShowTheirOwn
  <2> SUFFICES ASSUME MetricsInv, NEW r \in Requests, Step(r, "served"), request[r].lone
               PROVE  request[r].shown = request[r].read
    BY DEF LoneRequestsShowTheirOwn, Step
  <2>1. \A g \in Gauges : request[r].shown[g] = request[r].read[g]
    BY DEF MetricsInv, LoneInv, HasShown, Step
  <2>2. request[r].shown \in Values /\ request[r].read \in Values
    BY RequestTypes DEF MetricsInv
  <2> QED BY <2>1, <2>2 DEF Values
<1> QED BY <1>1, MetricsInit, MetricsNext, PTL DEF Spec
=============================================================================
