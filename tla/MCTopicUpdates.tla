---------------------------- MODULE MCTopicUpdates ----------------------------
(***************************************************************************)
(* A small instance of TopicUpdates for TLC: the metadata of a block, with *)
(* one subscriber for each format, which two streams report as accepted    *)
(* (1) and confirmed (2).                                                  *)
(***************************************************************************)
EXTENDS TopicUpdates

CONSTANTS c1, c2, accepted, confirmed

TwoFormats   == { <<c1, "json">>, <<c2, "raw">> }
BlockStreams == {accepted, confirmed}
FromStreams  == [v \in Versions |-> IF v = 1 THEN accepted ELSE confirmed]
=============================================================================
