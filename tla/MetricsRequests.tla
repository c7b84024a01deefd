--------------------------- MODULE MetricsRequests ---------------------------
(***************************************************************************)
(* The requests for metrics (src/components/prometheus).                   *)
(*                                                                         *)
(* A request copies what the broker reports into gauges, one after the     *)
(* other, and then collects the gauges into its response.  The gauges are  *)
(* variables of the package: requests that are served at the same time     *)
(* write and read the same ones.  A value is represented by how often it   *)
(* has changed, so that later values are greater.                          *)
(***************************************************************************)
EXTENDS Naturals, Sequences, FiniteSetsExt, Functions

CONSTANTS
  Requests,    \* places for requests that may be served at the same time
  MaxChanges,  \* how often a value changes (bound)
  Nil          \* a gauge that was not made

\* Two gauges that copy the broker's SystemInfo, and one that asks the
\* subscription manager, in the order of the code.
InfoGauges == << "messages_received", "messages_sent" >>
Order      == Append(InfoGauges, "subscribers_size")
Gauges     == Range(Order)

ASSUME MetricsAssumption == MaxChanges \in Nat /\ Nil \notin Nat

VARIABLES
  registered,  \* the option MQTTMetrics was set at the start
  value,       \* what the broker would report now
  gauge,       \* the gauges
  request      \* see Request

vars == <<registered, value, gauge, request>>

Values   == [Gauges -> 0 .. MaxChanges]
Nothing  == [g \in Gauges |-> 0]

\* "read" is what the request itself has read.  Observations: "floor", the
\* values when the oldest of the requests began that were being served when
\* this one began, and "lone", that it has been the only one.
Request  == [stage: {"waiting", "info", "set", "gather", "served", "failed"},
             next: 1 .. Len(Order), read: Values, shown: Values, missing: SUBSET Gauges,
             begun: Values, floor: Values, lone: BOOLEAN]
NoRequest == [stage |-> "waiting", next |-> 1, read |-> Nothing, shown |-> Nothing,
              missing |-> {}, begun |-> Nothing, floor |-> Nothing, lone |-> FALSE]

Active(r) == request[r].stage \in {"info", "set", "gather"}

TypeOK ==
  /\ registered \in BOOLEAN
  /\ value \in Values
  /\ gauge \in [Gauges -> 0 .. MaxChanges \cup {Nil}]
  /\ \A g \in Gauges : gauge[g] = Nil <=> ~registered
  /\ request \in [Requests -> Request]

\* registerMetrics makes the gauges if they are wanted.
Init ==
  /\ registered \in BOOLEAN
  /\ value = Nothing
  /\ gauge = [g \in Gauges |-> IF registered THEN 0 ELSE Nil]
  /\ request = [r \in Requests |-> NoRequest]

-----------------------------------------------------------------------------
Change(g) ==
  /\ value[g] < MaxChanges /\ value' = [value EXCEPT ![g] = @ + 1]
  /\ UNCHANGED <<registered, gauge, request>>

\* GET /metrics; the place may have served a request before.
Begin(r) ==
  LET others == { q \in Requests : Active(q) }
      begun  == { request[q].begun : q \in others } \cup {value}
  IN
  /\ ~Active(r)
  /\ request' = [q \in Requests |->
       CASE q = r -> [NoRequest EXCEPT !.stage = "info", !.begun = value, !.lone = (others = {}),
                                       !.floor = [g \in Gauges |-> Min({ b[g] : b \in begun })]]
         [] q \in others -> [request[q] EXCEPT !.lone = FALSE]
         [] OTHER -> request[q]]
  /\ UNCHANGED <<registered, value, gauge>>

Step(r, stage) == request[r].stage = stage
Current(r)     == Order[request[r].next]

\* Mutant: the values of the last collection are used again.
ReadInfoCached(r) ==
  /\ Step(r, "info")
  /\ request' = [request EXCEPT
       ![r].read[Current(r)] = IF gauge[Current(r)] = Nil THEN value[Current(r)] ELSE gauge[Current(r)],
       ![r].next  = IF @ < Len(InfoGauges) THEN @ + 1 ELSE 1,
       ![r].stage = IF request[r].next < Len(InfoGauges) THEN "info" ELSE "set"]
  /\ UNCHANGED <<registered, value, gauge>>

\* SystemInfo reads one counter after the other.
ReadInfo(r) ==
  /\ Step(r, "info")
  /\ request' = [request EXCEPT
       ![r].read[Current(r)] = value[Current(r)],
       ![r].next  = IF @ < Len(InfoGauges) THEN @ + 1 ELSE 1,
       ![r].stage = IF request[r].next < Len(InfoGauges) THEN "info" ELSE "set"]
  /\ UNCHANGED <<registered, value, gauge>>

\* What the next gauge is set to: what was read of SystemInfo, or the size,
\* which is read now.
NewValue(r) ==
  IF request[r].next <= Len(InfoGauges) THEN request[r].read[Current(r)] ELSE value[Current(r)]

AfterSet(r, v) ==
  LET last == request[r].next = Len(Order) IN
  request' = [request EXCEPT
    ![r].read[Current(r)] = v,
    ![r].next    = IF last THEN 1 ELSE @ + 1,
    ![r].stage   = IF last THEN "gather" ELSE "set",
    ![r].missing = IF last THEN Gauges ELSE {}]

\* Mutant: a gauge that does not exist is made.
SetMakesGauge(r) ==
  /\ Step(r, "set")
  /\ gauge' = [gauge EXCEPT ![Current(r)] = NewValue(r)] /\ AfterSet(r, NewValue(r))
  /\ UNCHANGED <<registered, value>>

\* Mutant: the size is not copied.
SetInfoOnly(r) ==
  /\ Step(r, "set") /\ registered
  /\ gauge' = IF request[r].next <= Len(InfoGauges)
              THEN [gauge EXCEPT ![Current(r)] = NewValue(r)] ELSE gauge
  /\ AfterSet(r, NewValue(r))
  /\ UNCHANGED <<registered, value>>

Set(r) ==
  /\ Step(r, "set") /\ gauge[Current(r)] # Nil
  /\ gauge' = [gauge EXCEPT ![Current(r)] = NewValue(r)] /\ AfterSet(r, NewValue(r))
  /\ UNCHANGED <<registered, value>>

\* A gauge that was not made is a nil pointer: the handler panics, and the
\* middleware answers with an error.
Panic(r) ==
  /\ Step(r, "set") /\ gauge[Current(r)] = Nil
  /\ request' = [request EXCEPT ![r] = [@ EXCEPT !.stage = "failed", !.next = 1]]
  /\ UNCHANGED <<registered, value, gauge>>

\* The handler of promhttp collects the gauges, in no particular order.
Gather(r) ==
  /\ Step(r, "gather")
  /\ \E g \in request[r].missing :
       request' = [request EXCEPT
         ![r].shown[g] = gauge[g],
         ![r].missing  = @ \ {g},
         ![r].stage    = IF request[r].missing = {g} THEN "served" ELSE "gather"]
  /\ UNCHANGED <<registered, value, gauge>>

Next ==
  \/ \E g \in Gauges : Change(g)
  \/ \E r \in Requests : Begin(r) \/ ReadInfo(r) \/ Set(r) \/ Panic(r) \/ Gather(r)

Spec == Init /\ [][Next]_vars

-----------------------------------------------------------------------------
\* No response shows a value that is older than all the requests that were
\* being served at some time with it, itself among them: what others leave in
\* the gauges, however late they write it, they have read themselves.
ResponsesAreRecent ==
  \A r \in Requests : request[r].stage = "served" =>
    \A g \in Gauges : request[r].shown[g] >= request[r].floor[g]

\* A request that no other one met shows what it has read itself.
LoneRequestsShowTheirOwn ==
  \A r \in Requests : request[r].stage = "served" /\ request[r].lone =>
    request[r].shown = request[r].read
=============================================================================
