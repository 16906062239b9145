---------------------------- MODULE MCBrokerSync ----------------------------
(* Patterns and topics for model-checking BrokerSync. *)
EXTENDS BrokerSync

\* An inner node with a table, and one below it.
MCPatterns == {<<"a">>, <<"a", "+">>}

MCTopics == {<<"a">>, <<"b">>, <<"a", "b">>, <<"a", "b", "c">>}
=============================================================================
