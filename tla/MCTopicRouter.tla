---------------------------- MODULE MCTopicRouter ----------------------------
(* Patterns and topics for model-checking TopicRouter. *)
EXTENDS TopicRouter

\* A literal above, below and beside both wildcards: shared paths, a table on
\* an inner node, two tables on one node, tables on the root's "#".
MCPatterns == {<<"a">>, <<"a", "b">>, <<"a", "+">>, <<"a", "#">>, <<"+", "b">>, <<"#">>}

MCTopics == {<<"a">>, <<"b">>, <<"a", "b">>, <<"a", "c">>, <<"c", "b">>, <<"a", "b", "c">>}
=============================================================================
