---------------------------- MODULE TopicPatterns ----------------------------
(***************************************************************************)
(* Which topics a configured pattern matches (pkg/broker/broker_hook.go,   *)
(* compileTopicAsRegex and the two match functions of NewBrokerHook).      *)
(*                                                                         *)
(* Patterns and topics are sequences of letters.  The pattern becomes a    *)
(* regular expression in which "*" stands for any letters.  Its end is the *)
(* end of the topic, but it may begin anywhere in the topic.  The topic is *)
(* put into lower case before it is tried, the pattern is not.             *)
(***************************************************************************)
EXTENDS Naturals, Sequences

CONSTANT Lower   \* letter -> the same letter in lower case

Wildcard == "*"

ToLower(topic) == [i \in DOMAIN topic |-> Lower[topic[i]]]

\* The first cut[i] letters of the topic are those before the match and those
\* matched by the first i letters of the pattern.
Cuts(pattern, topic) == [0 .. Len(pattern) -> 0 .. Len(topic)]

CompileTopicAsRegex(pattern, topic, cut) ==
  /\ cut[Len(pattern)] = Len(topic)
  /\ \A i \in 1 .. Len(pattern) :
       IF pattern[i] = Wildcard
       THEN cut[i - 1] <= cut[i]
       ELSE cut[i] = cut[i - 1] + 1 /\ topic[cut[i]] = pattern[i]

MatchString(pattern, topic) ==
  \E cut \in Cuts(pattern, topic) : CompileTopicAsRegex(pattern, topic, cut)

\* matchPublicTopics, matchProtectedTopics.
MatchTopics(patterns, topic) ==
  \E pattern \in patterns : MatchString(pattern, ToLower(topic))

-----------------------------------------------------------------------------
HasCapital(pattern) ==
  \E i \in DOMAIN pattern : pattern[i] # Wildcard /\ Lower[pattern[i]] # pattern[i]

\* What the configuration's documentation promises of a pattern: it is the
\* topic, where "*" is a wildcard.
Names(pattern, topic) ==
  \E cut \in Cuts(pattern, topic) :
    cut[0] = 0 /\ CompileTopicAsRegex(pattern, topic, cut)
=============================================================================
