------------------------ MODULE MCGrpcSubscriptions ------------------------
(***************************************************************************)
(* Small instances of GrpcSubscriptions for TLC.                           *)
(***************************************************************************)
EXTENDS GrpcSubscriptions, TLC

MCBlockIDs == {"b1"}

\* A topic that touches both block streams and one that touches only the first.
MetadataTopics == { << "block-metadata", "b1", "raw" >>,
                    << "block-metadata", "accepted" >> }

\* A topic of one stream, and a filter below block-metadata that names no block.
LooseTopics == { << "block-metadata", "accepted" >>,
                 << "block-metadata", "none" >> }

AcceptedTopic == { << "block-metadata", "accepted" >> }

AcceptedStream  == {GrpcListenToAcceptedBlocks}
ConfirmedStream == {GrpcListenToConfirmedBlocks}
NoCalls == {}

Once  == {1}
Twice == {1, 2}

Symmetry == Permutations(Clients) \cup Permutations(Ids)
=============================================================================
