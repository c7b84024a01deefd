-------------------------- MODULE MCPublishedTopics --------------------------
(***************************************************************************)
(* A small ledger for TLC: each kind of output once, with conditions that  *)
(* name one address or two, and one of them twice.                         *)
(***************************************************************************)
EXTENDS PublishedTopics

CONSTANT MaxTx

MCBlockIDs == {"b1"}
MCAddresses == {"alice", "bob"}
MCTags == {"0xcafe"}
MCTransactionIDs == SubSeq(<< "tx1", "tx2", "tx3", "tx4" >>, 1, MaxTx)
MCOutputIDs == SubSeq(<< << "o10", "o11" >>, << "o20", "o21" >>,
                         << "o30", "o31" >>, << "o40", "o41" >> >>, 1, MaxTx)

Unlockable(kind, conditions) ==
  [kind |-> kind, conditions |-> [c \in Range(UnlockConditions) |->
     IF c \in DOMAIN conditions THEN conditions[c] ELSE None]]

MCNewOutputs ==
  { Unlockable("basic", [address |-> "alice"]),
    Unlockable("account", [address |-> "bob"]),
    Unlockable("nft", ("address" :> "alice") @@ ("storage-return" :> "bob")
                      @@ ("expiration" :> "alice")),
    Unlockable("anchor", ("state-controller" :> "alice") @@ ("governor" :> "alice")),
    Unlockable("foundry", ("immutable-account" :> "bob")),
    Unlockable("delegation", [address |-> "bob"]) }

=============================================================================
