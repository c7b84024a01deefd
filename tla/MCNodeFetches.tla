---------------------------- MODULE MCNodeFetches ----------------------------
(***************************************************************************)
(* The goroutines of pkg/mqtt/server.go that publish, for TLC: one for     *)
(* each kind of fetch, a hook of the bridge, and a callback for a          *)
(* transaction that consumes an output and creates one.                    *)
(***************************************************************************)
EXTENDS NodeFetches

Callback == << "given", "inclusion", "given", "metadata" >>
MCPrograms == { << k >> : k \in {"event", "commitment", "output", "metadata", "lookup"} }
              \cup {Callback}
=============================================================================
