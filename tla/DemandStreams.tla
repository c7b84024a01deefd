---------------------------- MODULE DemandStreams ----------------------------
(***************************************************************************)
(* What the server promises about the streams of the node, without the     *)
(* registry, the counts and the goroutines: the stream of a call is open   *)
(* while somebody holds it.  An unreliable stream may also close early,    *)
(* and then stays closed until the next holder arrives.                    *)
(***************************************************************************)
CONSTANTS Calls, Subs,
          Unreliable   \* the calls whose stream may close while it is held

VARIABLES holders,     \* who holds the stream of a call
          open,        \* the stream of a call is open
          closing      \* the service is shutting down: every stream may close

dvars == <<holders, open, closing>>

DInit ==
  /\ holders = [k \in Calls |-> {}]
  /\ open = [k \in Calls |-> FALSE]
  /\ closing = FALSE

\* A new holder finds the stream open, or opens it.
Acquire(k, h) ==
  /\ h \notin holders[k]
  /\ holders' = [holders EXCEPT ![k] = @ \cup {h}]
  /\ open' = [open EXCEPT ![k] = TRUE]
  /\ UNCHANGED closing

\* The last holder closes the stream, an earlier one leaves it alone.
Release(k, h) ==
  /\ h \in holders[k]
  /\ holders' = [holders EXCEPT ![k] = @ \ {h}]
  /\ open' = [open EXCEPT ![k] = @ /\ holders[k] # {h}]
  /\ UNCHANGED closing

\* As Release, but an unreliable stream may close before the last one leaves.
ReleaseUnreliable(k, h) ==
  /\ k \in Unreliable \/ closing
  /\ h \in holders[k]
  /\ holders' = [holders EXCEPT ![k] = @ \ {h}]
  /\ open' = [open EXCEPT ![k] = FALSE]
  /\ UNCHANGED closing

Close(k) ==
  /\ k \in Unreliable \/ closing
  /\ open' = [open EXCEPT ![k] = FALSE]
  /\ UNCHANGED <<holders, closing>>

Shutdown == closing' = TRUE /\ UNCHANGED <<holders, open>>

DNext ==
  \/ \E k \in Calls, h \in Subs : Acquire(k, h) \/ Release(k, h) \/ ReleaseUnreliable(k, h)
  \/ \E k \in Calls : Close(k)
  \/ Shutdown

DSpec == DInit /\ [][DNext]_dvars

\* What a caller relies on: a stream is open exactly while it is held.
OpenOnDemand ==
  ~closing => \A k \in Calls \ Unreliable : open[k] <=> holders[k] # {}
=============================================================================
