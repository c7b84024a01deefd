--------------------------- MODULE MCBrokerSessions ---------------------------
(***************************************************************************)
(* Small instances of BrokerSessions for TLC: connections with one client  *)
(* ID, and one with an ID of its own.  The letters are "a", "b" and "c",   *)
(* and "B" for a capital.                                                  *)
(***************************************************************************)
EXTENDS BrokerSessions

CONSTANTS a1, a2, b1, alice, bob

MCLower == [l \in {"a", "b", "c", "B"} |-> IF l = "B" THEN "b" ELSE l]
MCIDOf  == [c \in Conns |-> IF c = b1 THEN bob ELSE alice]

\* In lower case both <<"B">> and <<"a", "B">> end like the public topic.  The
\* latter is protected; the former is named by a protected pattern with a
\* capital, which matches nothing.  <<"c">> is for nobody.
MCPublic    == { <<"b">> }
MCProtected == { <<"a", "*">>, <<"B">> }
PublicOnly  == { <<"b">> }
SomeRefused == { <<"B">>, <<"a", "B">>, <<"c">> }

\* Known users are a2, with the right password, and b1, with a wrong one.
SomeKnown == {a2, b1}
OneRight  == {a2}
NoConn    == {}
=============================================================================
