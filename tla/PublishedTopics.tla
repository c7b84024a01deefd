--------------------------- MODULE PublishedTopics ---------------------------
(***************************************************************************)
(* On which topics pkg/mqtt publishes what the node reports, and for which *)
(* objects a new subscriber triggers a fetch: the callbacks of the gRPC    *)
(* streams in server.go, publish.go and the topic names of topics.go.  The *)
(* callbacks follow a small ledger: transactions spend an output and       *)
(* create others, and a commitment reports the net change of its slot.     *)
(*                                                                         *)
(* Whether somebody is subscribed to a topic does not matter here: it does *)
(* in TopicUpdates.  A hash, a hex string and a Bech32 address are named   *)
(* by what they stand for: two of them are equal only if these are.        *)
(***************************************************************************)
EXTENDS EventTopics, SequencesExt

CONSTANTS
  Addresses, Tags,
  TransactionIDs,   \* the n-th transaction's ID (bound: their number)
  OutputIDs,        \* the IDs of its outputs 0 and 1 (bound)
  NewOutputs,       \* kinds and unlock conditions a transaction may create
  None              \* an absent address, tag or chain ID

\* The order of the tests in GetUnlockConditionTopicsForOutput.
UnlockConditions == << "address", "storage-return", "expiration",
                       "state-controller", "governor", "immutable-account" >>
ChainKinds == {"account", "anchor", "foundry", "nft", "delegation"}
NewOutput  == [kind: ChainKinds \cup {"basic"},
               conditions: [Range(UnlockConditions) -> Addresses \cup {None}]]

OutputNames == UNION { Range(OutputIDs[n]) : n \in DOMAIN OutputIDs }
Output == [tx: DOMAIN OutputIDs, index: {0, 1}, new: NewOutputs,
           chain: OutputNames \cup {None}, origin: OutputNames]

Levels == {"outputs", "unlock", "any", "block-metadata", "accepted", "confirmed", "blocks",
           "basic", "validation", "transaction", "tagged-data", "transactions",
           "included-block-metadata", "transaction-metadata"}
          \cup ChainKinds \cup Range(UnlockConditions) \cup Range(TransactionIDs)
          \cup OutputNames \cup Addresses \cup Tags \cup BlockIDs

LedgerStreams == {GrpcListenToAcceptedTransactions, GrpcListenToLedgerUpdates}

ASSUME NewOutputsAssumption ==
  NewOutputs \subseteq NewOutput /\ \E new \in NewOutputs : new.kind = "basic"
ASSUME NoneAssumption == None \notin Levels /\ None \notin Output \X BOOLEAN

\* Every transaction has the IDs of two outputs.  IDs and tags are hexadecimal
\* and addresses are Bech32: none is a level that the handlers compare with.
ASSUME IDsAssumption ==
  /\ Len(TransactionIDs) \in Nat \ {0} /\ DOMAIN TransactionIDs = 1 .. Len(TransactionIDs)
  /\ DOMAIN OutputIDs = DOMAIN TransactionIDs
  /\ \A n \in DOMAIN OutputIDs : DOMAIN OutputIDs[n] = {1, 2}
  /\ (OutputNames \cup Range(TransactionIDs) \cup BlockIDs \cup Addresses \cup Tags)
       \cap {"accepted", "confirmed", "raw"} = {}

\* IDs are hashes: none is given twice.
ASSUME DistinctIDsAssumption ==
  /\ \A m, n \in DOMAIN TransactionIDs : TransactionIDs[m] = TransactionIDs[n] => m = n
  /\ \A m, n \in DOMAIN OutputIDs : \A i, j \in {1, 2} :
       OutputIDs[m][i] = OutputIDs[n][j] => m = n /\ i = j

-----------------------------------------------------------------------------
(* Topic names.                                                            *)

OutputID(o) == OutputIDs[o.tx][o.index + 1]

GetTopicBlockMetadata(id) == << "block-metadata", id >>
GetTopicOutput(id) == << "outputs", id >>
GetTopicTransactionsIncludedBlockMetadata(id) == << "transactions", id, "included-block-metadata" >>
GetTopicTransactionMetadata(id) == << "transaction-metadata", id >>

\* Mutant: the implicit ID of an output that begins its chain is forgotten.
ChainTopicsWithoutImplicitID(o) ==
  IF o.new.kind \notin ChainKinds THEN <<>> ELSE << << "outputs", o.new.kind, o.chain >> >>

\* An output that begins a chain has no chain ID yet: its own ID implies it.
\* (A foundry always has one.  The code leaves its topic out if the ID cannot be
\* computed, for lack of the account's unlock condition, without which no foundry
\* is in the ledger.)
GetChainTopicsForOutput(o) ==
  IF o.new.kind \notin ChainKinds THEN <<>>
  ELSE << << "outputs", o.new.kind, IF o.chain = None THEN OutputID(o) ELSE o.chain >> >>

Unlock(condition, address) == << "outputs", "unlock", condition, address >>

\* Mutants: no test for nil, and one "any" topic for each condition.
UnlockTopicsUntested(o) ==
  [ i \in DOMAIN UnlockConditions |->
      Unlock(UnlockConditions[i], o.new.conditions[UnlockConditions[i]]) ]
UnlockTopicsAnyRepeated(o) ==
  LET held == SelectSeq(UnlockConditions, LAMBDA c : o.new.conditions[c] # None)
  IN  [ i \in DOMAIN held |-> Unlock(held[i], o.new.conditions[held[i]]) ]
      \o [ i \in DOMAIN held |-> Unlock("any", o.new.conditions[held[i]]) ]

\* The "any" topics come from a map, in an order that does not matter.
GetUnlockConditionTopicsForOutput(o) ==
  LET address(c) == o.new.conditions[c]
      held(c) == IF address(c) = None THEN <<>> ELSE << Unlock(c, address(c)) >>
      addressesToPublishForAny == { address(c) : c \in Range(UnlockConditions) } \ {None}
  IN  FlattenSeq([ i \in DOMAIN UnlockConditions |-> held(UnlockConditions[i]) ])
      \o SetToSeq({ Unlock("any", a) : a \in addressesToPublishForAny })

\* Blocks carry a payload or none; a transaction may carry tagged data.
Block == [body: {"basic", "validation", "other"}, payload: {"none", "transaction", "tagged-data"},
          nested: BOOLEAN, tag: Tags \cup {None}]

WithTag(topic, tag) == << topic >> \o IF tag = None THEN <<>> ELSE << Append(topic, tag) >>

BlockTopicsForBasicBlock(b) ==
  LET basic == << "blocks", "basic" >>
      tx    == Append(basic, "transaction")
  IN  << basic >> \o
      CASE b.payload = "none"        -> <<>>
        [] b.payload = "tagged-data" -> WithTag(Append(basic, "tagged-data"), b.tag)
        [] b.payload = "transaction" ->
             << tx >> \o IF b.nested THEN WithTag(Append(tx, "tagged-data"), b.tag) ELSE <<>>

BlockTopics(b) ==
  << << "blocks" >> >> \o
  CASE b.body = "basic"      -> BlockTopicsForBasicBlock(b)
    [] b.body = "validation" -> << << "blocks", "validation" >> >>
    [] OTHER                 -> <<>>

-----------------------------------------------------------------------------
(* Publications: the topics of one call, and the output it shows, if any.  *)

Publication(topics) == [topics |-> topics, shows |-> None]

\* Mutant: the first output announces its transaction when it is spent, too.
PublishOutputAnnouncesSpent(o, spent) ==
  (IF o.index = 0
   THEN << Publication(<< GetTopicTransactionsIncludedBlockMetadata(TransactionIDs[o.tx]) >>) >>
   ELSE <<>>)
  \o << [topics |-> << GetTopicOutput(OutputID(o)) >> \o GetChainTopicsForOutput(o),
         shows |-> << o, spent >>] >>

\* publishOutputIfSubscribed, on all topics of the output.
PublishOutput(o, spent) ==
  LET included == Publication(<< GetTopicTransactionsIncludedBlockMetadata(TransactionIDs[o.tx]) >>)
      topics   == << GetTopicOutput(OutputID(o)) >> \o GetChainTopicsForOutput(o)
                  \o GetUnlockConditionTopicsForOutput(o)
  IN  (IF ~spent /\ o.index = 0 THEN << included >> ELSE <<>>)
      \o << [topics |-> topics, shows |-> << o, spent >>] >>

TransactionMetadata(n) == Publication(<< GetTopicTransactionMetadata(TransactionIDs[n]) >>)

ForEach(Publish(_), outputs) ==
  LET order == SetToSeq(outputs) IN FlattenSeq([ i \in DOMAIN order |-> Publish(order[i]) ])

\* listenToAcceptedTransactions
OnAcceptedTransaction(n, consumed, created) ==
  ForEach(LAMBDA o : PublishOutput(o, TRUE), consumed)
  \o ForEach(LAMBDA o : PublishOutput(o, FALSE), created)
  \o << TransactionMetadata(n) >>

\* listenToLedgerUpdates: the first output stands for its transaction.
OnLedgerUpdate(consumed, created) ==
  LET PublishCreated(o) ==
        PublishOutput(o, FALSE)
        \o IF o.index = 0 THEN << TransactionMetadata(o.tx) >> ELSE <<>>
  IN  ForEach(LAMBDA o : PublishOutput(o, TRUE), consumed)
      \o ForEach(PublishCreated, created)

-----------------------------------------------------------------------------
(* Fetches: the objects onSubscribeTopic asks the node for, and the topics *)
(* it publishes the answers on.                                            *)

TransactionIDOfIncluded(topic) ==
  { id \in Range(TransactionIDs) :
      /\ HasPrefix(topic, "transactions") /\ Last(topic) = "included-block-metadata"
      /\ SubSeq(topic, 2, Len(topic) - 1) = << id >> }

TransactionIDOfMetadata(topic) ==
  { id \in Range(TransactionIDs) :
      HasPrefix(topic, "transaction-metadata") /\ Tail(topic) = << id >> }

OutputIDOfOutputs(topic) ==
  { id \in OutputNames : HasPrefix(topic, "outputs") /\ Tail(topic) = << id >> }

BlockIDOfMetadata(topic) == { id \in BlockIDs : NamesBlockID(topic) /\ topic[2] = id }

FetchedTopics(t) ==
  { GetTopicBlockMetadata(id) : id \in BlockIDOfMetadata(t) }
  \cup { GetTopicTransactionsIncludedBlockMetadata(id) : id \in TransactionIDOfIncluded(t) }
  \cup { GetTopicTransactionMetadata(id) : id \in TransactionIDOfMetadata(t) }
  \cup { GetTopicOutput(id) : id \in OutputIDOfOutputs(t) }

\* Mutant: the "/raw" suffix is not removed.
FetchesUntrimmed(topic) == FetchedTopics(topic)

Fetches(topic) == FetchedTopics(TrimRaw(topic))

-----------------------------------------------------------------------------
VARIABLES
  unspent,     \* outputs of the accepted transactions nobody has spent
  committed,   \* the unspent outputs of the latest commitment
  accepted,    \* number of accepted transactions
  delivery,    \* the last callback: its stream and its publications
  latest,      \* what each stream has last shown of each chain on its topic
  announced    \* how often each stream has published a transaction's topics

vars == <<unspent, committed, accepted, delivery, latest, announced>>

TransactionTopics ==
  { GetTopicTransactionsIncludedBlockMetadata(TransactionIDs[n]) : n \in DOMAIN TransactionIDs }
  \cup { GetTopicTransactionMetadata(TransactionIDs[n]) : n \in DOMAIN TransactionIDs }

\* The levels a topic is made of; a nil address or chain ID is none.
TypeOK ==
  /\ unspent \in SUBSET Output /\ committed \in SUBSET Output
  /\ accepted \in 0 .. Len(TransactionIDs)
  /\ \A p \in Range(delivery.publications) : p.topics \in Seq(Seq(Levels))

\* The genesis transaction is the first one.
Genesis == [tx |-> 1, index |-> 0, new |-> CHOOSE n \in NewOutputs : n.kind = "basic",
            chain |-> None, origin |-> OutputIDs[1][1]]

Init ==
  /\ unspent = {Genesis} /\ committed = {Genesis} /\ accepted = 1
  /\ delivery = [stream |-> GrpcListenToBlocks, publications |-> <<>>]
  /\ latest = [k \in LedgerStreams |-> [c \in OutputNames |-> None]]
  /\ announced = [k \in LedgerStreams |-> [t \in TransactionTopics |-> 0]]

\* A message shows chain c if it is on the topic of that chain.
ShowsChain(p, c) ==
  p.shows # None /\ \E kind \in ChainKinds : << "outputs", kind, c >> \in Range(p.topics)

Deliver(k, publications) ==
  /\ delivery' = [stream |-> k, publications |-> publications]
  /\ latest' = [latest EXCEPT ![k] = [c \in OutputNames |->
       LET shown == { i \in DOMAIN publications : ShowsChain(publications[i], c) }
       IN  IF shown = {} THEN latest[k][c] ELSE publications[Max(shown)].shows]]
  /\ announced' = [announced EXCEPT ![k] = [t \in TransactionTopics |->
       announced[k][t]
         + Cardinality({ i \in DOMAIN publications : t \in Range(publications[i].topics) })]]

\* An output of transaction n that begins something, a foundry with its ID ...
Created(n, i, new) ==
  LET id == OutputIDs[n][i + 1]
  IN  [tx |-> n, index |-> i, new |-> new, origin |-> id,
       chain |-> IF new.kind = "foundry" THEN id ELSE None]

\* ... or one that continues the chain of the output o it spends.
Continued(n, i, o) ==
  [tx |-> n, index |-> i, new |-> o.new, origin |-> o.origin, chain |-> o.origin]

AcceptTransaction ==
  LET n == accepted + 1 IN
  /\ accepted < Len(TransactionIDs)
  /\ \E o \in unspent, new \in NewOutputs :
       \E created \in { { Created(n, 0, new) } }
                      \cup (IF o.new.kind \in ChainKinds
                            THEN { { Continued(n, 0, o) },
                                   { Continued(n, 0, o), Created(n, 1, new) },
                                   { Created(n, 0, new), Continued(n, 1, o) } }
                            ELSE { { Created(n, 0, new), Created(n, 1, o.new) } }) :
         /\ unspent' = (unspent \ {o}) \cup created
         /\ Deliver(GrpcListenToAcceptedTransactions, OnAcceptedTransaction(n, {o}, created))
  /\ accepted' = n
  /\ UNCHANGED committed

\* What the slot created and spent again is in neither list.
CommitSlot ==
  /\ unspent # committed /\ committed' = unspent
  /\ Deliver(GrpcListenToLedgerUpdates,
             OnLedgerUpdate(committed \ unspent, unspent \ committed))
  /\ UNCHANGED <<unspent, accepted>>

DeliverBlock(k, topics) ==
  /\ delivery' = [stream |-> k, publications |-> << Publication(topics) >>]
  /\ UNCHANGED <<unspent, committed, accepted, latest, announced>>

NewBlock == \E b \in Block : DeliverBlock(GrpcListenToBlocks, BlockTopics(b))

AcceptBlock == \E id \in BlockIDs :
  DeliverBlock(GrpcListenToAcceptedBlocks,
               << EventAPITopicBlockMetadataAccepted, GetTopicBlockMetadata(id) >>)

ConfirmBlock == \E id \in BlockIDs :
  DeliverBlock(GrpcListenToConfirmedBlocks,
               << EventAPITopicBlockMetadataConfirmed, GetTopicBlockMetadata(id) >>)

Next == AcceptTransaction \/ CommitSlot \/ NewBlock \/ AcceptBlock \/ ConfirmBlock

Spec == Init /\ [][Next]_vars

-----------------------------------------------------------------------------
(* What subscribers rely on.                                               *)

PublishedOn == UNION { Range(p.topics) : p \in Range(delivery.publications) }

\* A stream's messages reach those who subscribe to their topics: whoever
\* subscribes to a topic a callback publishes on, or to its "/raw" sibling,
\* starts that callback's stream (onSubscribeTopic against the listeners).
PublishedWhereSubscribed ==
  \A t \in PublishedOn :
    delivery.stream \in StartedBy(t) /\ delivery.stream \in StartedBy(Append(t, "raw"))

\* No publication reaches a subscriber twice, and the subscriber of any
\* address sees it exactly if some unlock condition of the output names
\* that address (addressesToPublishForAny).
NobodyIsToldTwice ==
  \A p \in Range(delivery.publications) :
    /\ IsInjective(p.topics)
    /\ p.shows # None => \A a \in Addresses :
         Unlock("any", a) \in Range(p.topics)
           <=> \E c \in Range(UnlockConditions) : p.shows[1].new.conditions[c] = a

\* Each stream leaves the subscriber of a chain with its current output as
\* the last message: the topic does not change with the chain ID, and what
\* is spent is shown before what is created.
ChainSubscriberIsCurrent ==
  /\ \A o \in unspent : o.new.kind \in ChainKinds =>
       latest[GrpcListenToAcceptedTransactions][o.origin] = << o, FALSE >>
  /\ \A o \in committed : o.new.kind \in ChainKinds =>
       latest[GrpcListenToLedgerUpdates][o.origin] = << o, FALSE >>

\* The acceptance of a transaction is announced once on each of its topics,
\* however many outputs it has and whenever they are spent; its commitment
\* at most once, and exactly once if its first output is then unspent.
TransactionsAnnouncedOnce ==
  \A n \in 2 .. accepted :
    \A t \in { GetTopicTransactionsIncludedBlockMetadata(TransactionIDs[n]),
               GetTopicTransactionMetadata(TransactionIDs[n]) } :
      /\ announced[GrpcListenToAcceptedTransactions][t] = 1
      /\ announced[GrpcListenToLedgerUpdates][t] \in 0 .. 1
      /\ (\E o \in committed : o.tx = n /\ o.index = 0)
           => announced[GrpcListenToLedgerUpdates][t] = 1

\* The topics of one transaction, output or block.
OfOneObject(t) ==
  \/ t[1] \in {"transactions", "transaction-metadata"}
  \/ /\ t[1] \in {"outputs", "block-metadata"} /\ Len(t) = 2
     /\ t[2] \notin {"accepted", "confirmed"}

\* A subscriber of one object, in either format, triggers the fetch of that
\* object, published on its topic, and no other topic triggers one (the
\* parsers of topics.go invert its topic functions).
FetchAnswersSubscriber ==
  \A t \in PublishedOn :
    LET fetched == IF OfOneObject(t) THEN {t} ELSE {}
    IN  Fetches(t) = fetched /\ Fetches(Append(t, "raw")) = fetched
=============================================================================
