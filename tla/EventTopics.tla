----------------------------- MODULE EventTopics -----------------------------
(***************************************************************************)
(* The topics of the Event API and how pkg/mqtt/server.go routes them to   *)
(* the gRPC streams of the node.  A topic is the sequence of its levels:   *)
(* "block-metadata/accepted/raw" is <<"block-metadata","accepted","raw">>. *)
(* A prefix test "x/" of the code is a test of the first level, provided   *)
(* there is another one.                                                   *)
(***************************************************************************)
EXTENDS Naturals, Sequences

CONSTANT BlockIDs   \* the levels that parse as a non-empty block ID

GrpcListenToBlocks               == "INX.ListenToBlocks"
GrpcListenToAcceptedBlocks       == "INX.ListenToAcceptedBlocks"
GrpcListenToConfirmedBlocks      == "INX.ListenToConfirmedBlocks"
GrpcListenToAcceptedTransactions == "INX.ListenToAcceptedTransactions"
GrpcListenToLedgerUpdates        == "INX.ListenToLedgerUpdates"

GrpcCalls == { GrpcListenToBlocks, GrpcListenToAcceptedBlocks,
               GrpcListenToConfirmedBlocks, GrpcListenToAcceptedTransactions,
               GrpcListenToLedgerUpdates }

\* A handler that touches two streams does so in this order.
TouchedBefore(a, b) ==
  \/ a = GrpcListenToAcceptedBlocks       /\ b = GrpcListenToConfirmedBlocks
  \/ a = GrpcListenToAcceptedTransactions /\ b = GrpcListenToLedgerUpdates

-----------------------------------------------------------------------------
(* Topic names of the iota.go Event API that the handlers compare with.    *)

EventAPITopicBlockMetadataAccepted  == << "block-metadata", "accepted" >>
EventAPITopicBlockMetadataConfirmed == << "block-metadata", "confirmed" >>
EventAPIBlockTopics ==
  { << "blocks" >>,
    << "blocks", "validation" >>,
    << "blocks", "basic" >>,
    << "blocks", "basic", "transaction" >>,
    << "blocks", "basic", "transaction", "tagged-data" >>,
    << "blocks", "basic", "tagged-data" >> }

-----------------------------------------------------------------------------
(* The tests the handlers make on a topic.                                 *)

HasPrefix(topic, level) == Len(topic) > 1 /\ topic[1] = level

TrimRaw(topic) ==
  IF Len(topic) > 1 /\ topic[Len(topic)] = "raw"
  THEN SubSeq(topic, 1, Len(topic) - 1)
  ELSE topic

IsTaggedDataTag(topic) ==
  /\ Len(topic) > 2 /\ topic[1] = "blocks" /\ topic[2] = "basic"
  /\ \E i \in 3 .. Len(topic) - 1 : topic[i] = "tagged-data"

\* Mutant: a family of topics is missing from the switch.
IsLedgerTopicForgets(topic) ==
  \E level \in {"outputs", "transactions"} : HasPrefix(topic, level)

IsLedgerTopic(topic) ==
  \E level \in {"outputs", "transactions", "transaction-metadata"} :
    HasPrefix(topic, level)

\* BlockIDFromBlockMetadataTopic returned an ID that is not Empty().
NamesBlockID(topic) ==
  /\ HasPrefix(topic, "block-metadata")
  /\ topic[Len(topic)] \notin {"accepted", "confirmed"}
  /\ Len(topic) = 2 /\ topic[2] \in BlockIDs

-----------------------------------------------------------------------------
(* The streams onSubscribeTopic starts and onUnsubscribeTopic stops.       *)

\* The first level tells the cases of the two switches apart.
StreamsOfExactTopic(topic) ==
  { k \in GrpcCalls :
      \/ /\ k = GrpcListenToBlocks
         /\ topic \in EventAPIBlockTopics \/ IsTaggedDataTag(topic)
      \/ k = GrpcListenToAcceptedBlocks  /\ topic = EventAPITopicBlockMetadataAccepted
      \/ k = GrpcListenToConfirmedBlocks /\ topic = EventAPITopicBlockMetadataConfirmed
      \/ /\ k \in {GrpcListenToAcceptedTransactions, GrpcListenToLedgerUpdates}
         /\ IsLedgerTopic(topic) }

BothBlockStreams == {GrpcListenToAcceptedBlocks, GrpcListenToConfirmedBlocks}

IsBlockMetadataTopic(topic) ==
  /\ HasPrefix(topic, "block-metadata")
  /\ topic \notin {EventAPITopicBlockMetadataAccepted, EventAPITopicBlockMetadataConfirmed}

StartedBy(topic) ==
  LET t == TrimRaw(topic) IN
  IF IsBlockMetadataTopic(t)
  THEN IF NamesBlockID(t) THEN BothBlockStreams ELSE {}
  ELSE StreamsOfExactTopic(t)

\* Mutant: the exact topics are missing from onUnsubscribeTopic.
StoppedByPrefixOnly(topic) ==
  LET t == TrimRaw(topic) IN IF IsBlockMetadataTopic(t) THEN BothBlockStreams ELSE {}

StoppedBy(topic) ==
  LET t == TrimRaw(topic) IN
  IF IsBlockMetadataTopic(t) THEN BothBlockStreams ELSE StreamsOfExactTopic(t)
=============================================================================
